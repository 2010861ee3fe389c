------------------------------- MODULE WebProofs -------------------------------
(***************************************************************************)
(* For any number of submissions, rows, scripts, links and bets: what the  *)
(* web app registers is what was created on the chain, and the creator is  *)
(* warned otherwise; the draft of a token's market keeps that token's      *)
(* symbol; the filters, the address and the search box agree at rest; the  *)
(* scripts open the paths they set up; chart and signals show what is      *)
(* selected; and the positions shown as claimed were paid.  Every variable *)
(* of these parts, of a market's page and of the list keeps its type.      *)
(***************************************************************************)
EXTENDS MCWeb, ParimutuelProofs, SequenceTheorems, FiniteSetTheorems,
        WellFoundedInduction

-----------------------------------------------------------------------------
(* Nothing is assumed of the elements of lists that the scripts compute.   *)

IsList(s) == \E S : s \in Seq(S)

LEMMA ListProperties ==
  ASSUME NEW s, IsList(s)
  PROVE  /\ Len(s) \in Nat /\ DOMAIN s = 1 .. Len(s)
         /\ \A x : /\ IsList(Append(s, x))
                   /\ DOMAIN Append(s, x) = 1 .. Len(s) + 1
                   /\ \A i \in 1 .. Len(s) : Append(s, x)[i] = s[i]
                   /\ Append(s, x)[Len(s) + 1] = x
<1>1. PICK S : s \in Seq(S)
  BY DEF IsList
<1>2. Len(s) \in Nat /\ DOMAIN s = 1 .. Len(s)
  BY <1>1, LenProperties
<1>3. ASSUME NEW x
      PROVE  /\ IsList(Append(s, x))
             /\ DOMAIN Append(s, x) = 1 .. Len(s) + 1
             /\ \A i \in 1 .. Len(s) : Append(s, x)[i] = s[i]
             /\ Append(s, x)[Len(s) + 1] = x
  <2> DEFINE T == S \cup {x}
  <2>1. s \in Seq(T) /\ x \in T
    BY <1>1, SeqMonotonic
  <2> HIDE DEF T
  <2>2. /\ Append(s, x) \in Seq(T)
        /\ Len(Append(s, x)) = Len(s) + 1
        /\ \A i \in 1 .. Len(s) : Append(s, x)[i] = s[i]
        /\ Append(s, x)[Len(s) + 1] = x
    BY <2>1, AppendProperties
  <2>3. DOMAIN Append(s, x) = 1 .. Len(s) + 1
    BY <2>2, LenProperties
  <2> QED  BY <2>2, <2>3 DEF IsList
<1> QED  BY <1>2, <1>3

\* A function that replaces elements of a list is a list.
LEMMA ListUpdate ==
  ASSUME NEW s, IsList(s), NEW t, t = [i \in DOMAIN s |-> t[i]]
  PROVE  IsList(t)
<1>1. Len(s) \in Nat /\ DOMAIN s = 1 .. Len(s)
  BY ListProperties
<1> DEFINE T == {t[i] : i \in DOMAIN s}
<1>2. t \in [1 .. Len(s) -> T]
  BY <1>1
<1> HIDE DEF T
<1>3. t \in Seq(T)
  BY <1>1, <1>2, IsASeq
<1> QED  BY <1>3 DEF IsList

-----------------------------------------------------------------------------
(* Creation.                                                               *)

\* In the chain c, market id of a contract was created with question q.
AsCreated(c, kind, id, q) == id \in DOMAIN c[kind] /\ c[kind][id] = q

Fields == {"question", "kind", "net", "page", "shown", "id", "tries", "warned"}

\* A submission that is registered was mined as what it was submitted as.
SubmissionOk(c, t) ==
  /\ DOMAIN t = Fields
  /\ t.kind \in Kind
  /\ t.page = "posting" => t.net = "mined"
  /\ t.page = "over" => t.net \in {"refused", "reverted", "mined"}
  /\ t.net = "mined" => AsCreated(c, t.kind, t.id, t.question)

\* SeenIsKnown, of one submission.
Known(stored, access, t) ==
  (t.page = "over" /\ t.net = "mined") =>
    \/ t.warned
    \/ t.kind = "base" /\ t.id \in stored
    \/ t.kind = "private" /\ \E k \in access : k.id = t.id

ChainOk == chain = [k \in Kind |-> chain[k]] /\ \A k \in Kind : IsList(chain[k])

RowsOk ==
  /\ IsList(rows) /\ edited \subseteq DOMAIN rows
  /\ \A i \in DOMAIN rows :
       /\ rows[i] = [question |-> rows[i].question, chainId |-> rows[i].chainId]
       /\ rows[i].chainId \in Nat
       /\ rows[i].chainId > 0 =>
            /\ \E q : /\ AsCreated(chain, "base", rows[i].chainId, q)
                      /\ rows[i].question = q \/ i \in edited
            /\ \A j \in DOMAIN rows : rows[j].chainId = rows[i].chainId => j = i

KeysOk == \A k \in keys : AsCreated(chain, "private", k.id, k.question)

TxOk == /\ IsList(tx)
        /\ \A i \in DOMAIN tx : /\ SubmissionOk(chain, tx[i])
                                /\ Known(posted, keys, tx[i])
        /\ form.kind \in Kind

\* The script registers the market it has created, if any.
RunOk == /\ run = [todo |-> run.todo, made |-> run.made, on |-> run.on]
         /\ run.made # 0 => AsCreated(chain, "base", run.made, Head(run.todo))

\* The inductive invariant.
CreationInv == ChainOk /\ RowsOk /\ KeysOk /\ TxOk /\ RunOk

\* Markets are only added to the chain.
Grows == \A kind, id, q : AsCreated(chain, kind, id, q) => AsCreated(chain', kind, id, q)

LEMMA CreatedGrows ==
  ASSUME ChainOk, NEW kind \in Kind, NEW q, Created(kind, q)
  PROVE  /\ ChainOk' /\ Grows
         /\ AsCreated(chain', kind, NextId(kind), q)
         /\ NextId(kind) \in Nat /\ NextId(kind) # 0
<1> DEFINE old == chain[kind]
           new == Append(old, q)
<1>1. chain' = [chain EXCEPT ![kind] = new]
  BY DEF Created
<1>2. /\ Len(old) \in Nat /\ DOMAIN old = 1 .. Len(old)
      /\ IsList(new) /\ DOMAIN new = 1 .. Len(old) + 1
      /\ \A i \in 1 .. Len(old) : new[i] = old[i]
      /\ new[Len(old) + 1] = q
  BY ListProperties DEF ChainOk
<1> HIDE DEF new
<1>3. DOMAIN chain = Kind /\ DOMAIN chain' = Kind
  BY <1>1 DEF ChainOk
<1>4. chain'[kind] = new /\ \A k \in Kind \ {kind} : chain'[k] = chain[k]
  BY <1>1, <1>3
<1>5. ChainOk'
  BY <1>1, <1>2, <1>3, <1>4 DEF ChainOk
<1>6. Grows
  <2> SUFFICES ASSUME NEW k, NEW id, NEW x, AsCreated(chain, k, id, x)
               PROVE  AsCreated(chain', k, id, x)
    BY DEF Grows
  <2>1. CASE k = kind
    BY <1>2, <1>4, <2>1 DEF AsCreated
  <2>2. CASE k # kind
    BY <1>1, <1>3, <2>2 DEF AsCreated
  <2> QED  BY <2>1, <2>2
<1>7. AsCreated(chain', kind, NextId(kind), q)
  BY <1>2, <1>4 DEF AsCreated, NextId
<1> QED  BY <1>2, <1>5, <1>6, <1>7 DEF NextId

\* What is stored of a market that was created with that question, or of none, keeps
\* the rows in order.
LEMMA StoredRows ==
  ASSUME RowsOk, UNCHANGED chain, NEW q, NEW id \in Nat, rows' = Stored(q, id),
         edited' = edited \ RowsOf(id), id > 0 => AsCreated(chain, "base", id, q)
  PROVE  RowsOk'
<1>1. /\ Len(rows) \in Nat /\ DOMAIN rows = 1 .. Len(rows)
  BY ListProperties DEF RowsOk
<1>2. CASE RowsOf(id) = {}
  <2> DEFINE r == [question |-> q, chainId |-> id]
  <2>1. /\ IsList(rows') /\ DOMAIN rows' = 1 .. Len(rows) + 1
        /\ \A i \in 1 .. Len(rows) : rows'[i] = rows[i]
        /\ rows'[Len(rows) + 1] = r
    BY <1>2, ListProperties DEF RowsOk, Stored
  <2>2. \A i \in DOMAIN rows : id > 0 => rows[i].chainId # id
    BY <1>2 DEF RowsOf
  <2>3. edited' = edited
    BY <1>2
  <2> QED  BY <1>1, <2>1, <2>2, <2>3 DEF RowsOk
<1>3. CASE RowsOf(id) # {}
  <2>1. /\ DOMAIN rows' = DOMAIN rows
        /\ \A i \in DOMAIN rows :
             rows'[i] = IF i \in RowsOf(id) THEN [rows[i] EXCEPT !.question = q] ELSE rows[i]
    BY <1>3 DEF Stored
  <2>2. IsList(rows')
    <3>1. rows' = [i \in DOMAIN rows |-> rows'[i]]
      BY <1>3 DEF Stored
    <3> QED  BY <3>1, ListUpdate DEF RowsOk
  <2>3. \A i \in DOMAIN rows :
          /\ rows'[i] = [question |-> rows'[i].question, chainId |-> rows[i].chainId]
          /\ rows'[i].chainId = rows[i].chainId
          /\ rows'[i].question = IF i \in RowsOf(id) THEN q ELSE rows[i].question
    BY <2>1 DEF RowsOk
  <2>4. \A i \in RowsOf(id) : rows[i].chainId = id /\ id > 0
    BY DEF RowsOf
  <2> QED  BY <2>1, <2>2, <2>3, <2>4 DEF RowsOk
<1> QED  BY <1>2, <1>3

\* The rows that an id above 0 finds: none for a row that is seeded.
LEMMA NoRows == RowsOf(0) = {}
BY DEF RowsOf

LEMMA RowsStay ==
  ASSUME RowsOk, Grows, UNCHANGED <<rows, edited>>
  PROVE  RowsOk'
BY DEF RowsOk, Grows

\* What is displayed of one row changes, or the row goes.
LEMMA OneRow ==
  ASSUME RowsOk, NEW i \in DOMAIN rows,
         DeleteRow(i) \/ \E q \in Question : EditRow(i, q)
  PROVE  RowsOk'
<1>1. IsList(rows') /\ DOMAIN rows' = DOMAIN rows
  <2>1. rows' = [j \in DOMAIN rows |-> rows'[j]]
    BY DEF DeleteRow, EditRow, RowsOk
  <2> QED  BY <2>1, ListUpdate DEF RowsOk
<1>2. UNCHANGED chain /\ \A j \in DOMAIN rows \ {i} : rows'[j] = rows[j]
  BY DEF DeleteRow, EditRow
<1>3. CASE DeleteRow(i)
  <2>1. rows'[i] = Deleted /\ edited' = edited \ {i}
    BY <1>3 DEF DeleteRow
  <2>2. Deleted.chainId = 0
    BY DEF Deleted
  <2> QED  BY <1>1, <1>2, <2>1, <2>2 DEF RowsOk, Deleted
<1>4. ASSUME NEW q \in Question, EditRow(i, q) PROVE RowsOk'
  <2>1. rows'[i] = [rows[i] EXCEPT !.question = q] /\ edited' = edited \cup {i}
    BY <1>4 DEF EditRow
  <2>2. /\ rows'[i] = [question |-> rows'[i].question, chainId |-> rows[i].chainId]
        /\ rows'[i].chainId = rows[i].chainId
    BY <2>1 DEF RowsOk
  <2> QED  BY <1>1, <1>2, <2>1, <2>2 DEF RowsOk
<1> QED  BY <1>3, <1>4

LEMMA SubmissionStays ==
  ASSUME Grows, posted \subseteq posted', keys \subseteq keys',
         NEW x, SubmissionOk(chain, x), Known(posted, keys, x)
  PROVE  SubmissionOk(chain', x) /\ Known(posted', keys', x)
<1>1. SubmissionOk(chain', x)
  BY DEF SubmissionOk, Grows
<1>2. Known(posted', keys', x)
  BY DEF Known
<1> QED  BY <1>1, <1>2

LEMMA TxStay ==
  ASSUME TxOk, Grows, posted \subseteq posted', keys \subseteq keys',
         UNCHANGED tx, form'.kind \in Kind
  PROVE  TxOk'
BY SubmissionStays DEF TxOk

\* Steps that change one submission.
LEMMA OneSubmission ==
  ASSUME TxOk, Grows, posted \subseteq posted', keys \subseteq keys', UNCHANGED form,
         NEW i \in DOMAIN tx, NEW x, tx' = [tx EXCEPT ![i] = x],
         SubmissionOk(chain', x), Known(posted', keys', x)
  PROVE  TxOk'
<1>1. DOMAIN tx' = DOMAIN tx /\ IsList(tx')
  <2>1. tx' = [j \in DOMAIN tx |-> tx'[j]]
    OBVIOUS
  <2> QED  BY <2>1, ListUpdate DEF TxOk
<1>2. tx'[i] = x /\ \A j \in DOMAIN tx \ {i} : tx'[j] = tx[j]
  OBVIOUS
<1>3. ASSUME NEW j \in DOMAIN tx'
      PROVE  SubmissionOk(chain', tx'[j]) /\ Known(posted', keys', tx'[j])
  <2>1. CASE j = i
    BY <1>2, <2>1
  <2>2. CASE j # i
    BY <1>1, <1>2, <2>2, SubmissionStays DEF TxOk
  <2> QED  BY <2>1, <2>2
<1> QED  BY <1>1, <1>3 DEF TxOk

LEMMA NothingGrows == ASSUME UNCHANGED chain PROVE Grows
BY DEF Grows

\* The wallet, the network and the page's wait.
LEMMA WaitKeeps ==
  ASSUME CreationInv, NEW i \in DOMAIN tx,
         RejectDeploy(i) \/ SignDeploy(i) \/ SeeCreated(i) \/ GiveUp(i)
  PROVE  CreationInv'
<1>1. UNCHANGED <<chain, rows, keys, posted, edited, form, run>>
  BY DEF RejectDeploy, SignDeploy, SeeCreated, GiveUp, backendVars, scriptVars
<1>2. SubmissionOk(chain, tx[i]) /\ Known(posted, keys, tx[i])
  BY DEF CreationInv, TxOk
<1>3. PICK x : tx' = [tx EXCEPT ![i] = x] /\ SubmissionOk(chain, x)
                /\ (x.page = "over" => x.net # "mined")
  <2>1. CASE RejectDeploy(i)
    <3> DEFINE y == [tx[i] EXCEPT !.net = "refused", !.page = "over"]
    <3>1. tx' = [tx EXCEPT ![i] = y]
      BY <2>1 DEF RejectDeploy
    <3>2. /\ y.question = tx[i].question /\ y.kind = tx[i].kind /\ y.shown = tx[i].shown
          /\ y.net = "refused" /\ y.page = "over"
          /\ y.id = tx[i].id /\ y.tries = tx[i].tries /\ y.warned = tx[i].warned
          /\ DOMAIN y = Fields
      BY <1>2 DEF SubmissionOk, Fields
    <3> HIDE DEF y
    <3>3. SubmissionOk(chain, y) /\ (y.page = "over" => y.net # "mined")
      BY <1>2, <3>1, <3>2 DEF SubmissionOk
    <3> QED  BY <3>1, <3>3
  <2>2. CASE SignDeploy(i)
    <3> DEFINE y == [tx[i] EXCEPT !.net = "mining"]
    <3>1. tx' = [tx EXCEPT ![i] = y] /\ tx[i].net = "wallet"
      BY <2>2 DEF SignDeploy
    <3>2. /\ y.question = tx[i].question /\ y.kind = tx[i].kind /\ y.shown = tx[i].shown
          /\ y.net = "mining" /\ y.page = tx[i].page
          /\ y.id = tx[i].id /\ y.tries = tx[i].tries /\ y.warned = tx[i].warned
          /\ DOMAIN y = Fields
      BY <1>2 DEF SubmissionOk, Fields
    <3> HIDE DEF y
    <3>3. SubmissionOk(chain, y) /\ y.net = "mining"
      BY <1>2, <3>1, <3>2 DEF SubmissionOk
    <3> QED  BY <3>1, <3>3
  <2>3. CASE SeeCreated(i)
    <3> DEFINE p == IF tx[i].net = "mined" THEN "posting" ELSE "over"
               y == [tx[i] EXCEPT !.page = p]
    <3>1. tx' = [tx EXCEPT ![i] = y] /\ tx[i].net \in {"mined", "reverted"}
      BY <2>3 DEF SeeCreated
    <3>2. /\ y.question = tx[i].question /\ y.kind = tx[i].kind /\ y.shown = tx[i].shown
          /\ y.net = tx[i].net /\ y.page = p
          /\ y.id = tx[i].id /\ y.tries = tx[i].tries /\ y.warned = tx[i].warned
          /\ DOMAIN y = Fields
      BY <1>2 DEF SubmissionOk, Fields
    <3> HIDE DEF y
    <3>3. SubmissionOk(chain, y) /\ (y.page = "over" => y.net # "mined")
      BY <1>2, <3>1, <3>2 DEF SubmissionOk
    <3> QED  BY <3>1, <3>3
  <2>4. CASE GiveUp(i)
    <3> DEFINE y == [tx[i] EXCEPT !.page = "lost"]
    <3>1. tx' = [tx EXCEPT ![i] = y]
      BY <2>4 DEF GiveUp
    <3>2. /\ y.question = tx[i].question /\ y.kind = tx[i].kind /\ y.shown = tx[i].shown
          /\ y.net = tx[i].net /\ y.page = "lost"
          /\ y.id = tx[i].id /\ y.tries = tx[i].tries /\ y.warned = tx[i].warned
          /\ DOMAIN y = Fields
      BY <1>2 DEF SubmissionOk, Fields
    <3> HIDE DEF y
    <3>3. SubmissionOk(chain, y) /\ y.page # "over"
      BY <1>2, <3>1, <3>2 DEF SubmissionOk
    <3> QED  BY <3>1, <3>3
  <2> QED  BY <2>1, <2>2, <2>3, <2>4
<1>4. TxOk'
  BY <1>1, <1>3, OneSubmission, NothingGrows DEF CreationInv, Known
<1> QED  BY <1>1, <1>4 DEF CreationInv, ChainOk, RowsOk, KeysOk, RunOk

LEMMA MineKeeps ==
  ASSUME CreationInv, NEW i \in DOMAIN tx, MineDeploy(i)
  PROVE  CreationInv'
<1>1. UNCHANGED <<rows, keys, posted, edited, form, run>>
  BY DEF MineDeploy, backendVars, scriptVars
<1>2. SubmissionOk(chain, tx[i]) /\ tx[i].net = "mining" /\ tx[i].page # "over"
      /\ tx[i].page # "posting"
  BY DEF CreationInv, TxOk, MineDeploy, SubmissionOk
<1>3. /\ ChainOk' /\ Grows
      /\ \E x : /\ tx' = [tx EXCEPT ![i] = x] /\ x.page # "over"
                /\ SubmissionOk(chain', x)
  <2>1. CASE chain' = chain /\ tx' = [tx EXCEPT ![i].net = "reverted"]
    <3> DEFINE y == [tx[i] EXCEPT !.net = "reverted"]
    <3>1. tx' = [tx EXCEPT ![i] = y]
      BY <2>1
    <3>2. /\ y.question = tx[i].question /\ y.kind = tx[i].kind /\ y.shown = tx[i].shown
          /\ y.net = "reverted" /\ y.page = tx[i].page
          /\ y.id = tx[i].id /\ y.tries = tx[i].tries /\ y.warned = tx[i].warned
          /\ DOMAIN y = Fields
      BY <1>2 DEF SubmissionOk, Fields
    <3> HIDE DEF y
    <3>3. SubmissionOk(chain', y) /\ y.page # "over"
      BY <1>2, <3>1, <3>2 DEF SubmissionOk
    <3> QED  BY <2>1, <3>1, <3>3, NothingGrows DEF CreationInv, ChainOk
  <2>2. CASE /\ Created(tx[i].kind, tx[i].question)
             /\ tx' = [tx EXCEPT ![i].net = "mined", ![i].id = NextId(tx[i].kind)]
    <3> DEFINE n == NextId(tx[i].kind)
               y == [tx[i] EXCEPT !.net = "mined", !.id = n]
    <3>1. tx' = [tx EXCEPT ![i] = y]
      BY <2>2
    <3>2. ChainOk' /\ Grows /\ AsCreated(chain', tx[i].kind, n, tx[i].question)
      BY <1>2, <2>2, CreatedGrows DEF CreationInv, SubmissionOk
    <3> HIDE DEF n
    <3>3. /\ y.question = tx[i].question /\ y.kind = tx[i].kind /\ y.shown = tx[i].shown
          /\ y.net = "mined" /\ y.page = tx[i].page
          /\ y.id = n /\ y.tries = tx[i].tries /\ y.warned = tx[i].warned
          /\ DOMAIN y = Fields
      BY <1>2 DEF SubmissionOk, Fields
    <3> HIDE DEF y
    <3>4. SubmissionOk(chain', y) /\ y.page # "over"
      BY <1>2, <3>2, <3>3 DEF SubmissionOk
    <3> QED  BY <3>1, <3>2, <3>4
  <2> QED  BY <2>1, <2>2 DEF MineDeploy
<1>4. TxOk'
  BY <1>1, <1>3, OneSubmission DEF CreationInv, Known
<1>5. RowsOk' /\ KeysOk' /\ RunOk'
  BY <1>1, <1>3, RowsStay DEF CreationInv, KeysOk, RunOk, Grows
<1> QED  BY <1>3, <1>4, <1>5 DEF CreationInv

\* What failed is tried again, or given up with a warning.
LEMMA FailureOk ==
  ASSUME NEW i \in DOMAIN tx, NEW c, SubmissionOk(c, tx[i]), tx[i].net = "mined",
         tx[i].page = "posting"
  PROVE  \E x : /\ AfterFailure(i) = [tx EXCEPT ![i] = x] /\ SubmissionOk(c, x)
                /\ x.page = "over" => x.warned
<1> DEFINE y == [tx[i] EXCEPT !.tries = @ + 1,
                              !.page = IF tx[i].tries = 2 THEN "over" ELSE @,
                              !.warned = (tx[i].tries = 2)]
<1>1. AfterFailure(i) = [tx EXCEPT ![i] = y]
  BY DEF AfterFailure
<1>2. /\ y.question = tx[i].question /\ y.kind = tx[i].kind /\ y.net = "mined"
      /\ y.id = tx[i].id /\ DOMAIN y = Fields
      /\ y.page = IF tx[i].tries = 2 THEN "over" ELSE "posting"
      /\ y.warned = (tx[i].tries = 2)
  BY DEF SubmissionOk, Fields
<1> HIDE DEF y
<1>3. SubmissionOk(c, y)
  BY <1>2 DEF SubmissionOk
<1>4. y.page = "over" => y.warned
  BY <1>2
<1> QED  BY <1>1, <1>3, <1>4

LEMMA PostBaseKeeps ==
  ASSUME CreationInv, NEW i \in DOMAIN tx, PostBase(i)
  PROVE  CreationInv'
<1>1. UNCHANGED <<chain, keys, form, run>>
  BY DEF PostBase, scriptVars
<1>2. /\ SubmissionOk(chain, tx[i]) /\ tx[i].page = "posting" /\ tx[i].kind = "base"
      /\ tx[i].net = "mined"
      /\ AsCreated(chain, "base", tx[i].id, tx[i].question)
  BY DEF CreationInv, TxOk, PostBase, Posting, SubmissionOk
<1>3. tx[i].id \in Nat
  BY <1>2, ListProperties DEF AsCreated, CreationInv, ChainOk, Kind
<1>4. posted \subseteq posted' /\ (Post(Payload(i), tx[i].id) => tx[i].id \in posted')
  BY DEF PostBase, Post
<1>5. RowsOk'
  <2>1. CASE UNCHANGED <<rows, edited>>
    BY <1>1, <2>1, RowsStay, NothingGrows DEF CreationInv
  <2>2. CASE /\ rows' = Stored(tx[i].question, tx[i].id)
             /\ edited' = edited \ RowsOf(tx[i].id)
    BY <1>1, <1>2, <1>3, <2>2, StoredRows DEF CreationInv
  <2> QED  BY <2>1, <2>2 DEF PostBase, Post, Payload
<1>6. \E x : /\ tx' = [tx EXCEPT ![i] = x] /\ SubmissionOk(chain', x)
             /\ Known(posted', keys', x)
  <2>1. CASE tx' = AfterFailure(i)
    BY <1>1, <1>2, <2>1, FailureOk DEF Known
  <2>2. CASE tx' = [tx EXCEPT ![i].page = "over"] /\ tx[i].id \in posted'
    <3> DEFINE y == [tx[i] EXCEPT !.page = "over"]
    <3>1. tx' = [tx EXCEPT ![i] = y]
      BY <2>2
    <3>2. /\ y.question = tx[i].question /\ y.kind = "base" /\ y.net = "mined"
          /\ y.page = "over" /\ y.id = tx[i].id /\ DOMAIN y = Fields
      BY <1>2 DEF SubmissionOk, Fields
    <3> HIDE DEF y
    <3>3. SubmissionOk(chain', y) /\ Known(posted', keys', y)
      BY <1>1, <1>2, <2>2, <3>2 DEF SubmissionOk, Known, Kind
    <3> QED  BY <3>1, <3>3
  <2> QED  BY <1>4, <2>1, <2>2 DEF PostBase
<1>7. TxOk'
  BY <1>1, <1>4, <1>6, OneSubmission, NothingGrows DEF CreationInv
<1> QED  BY <1>1, <1>5, <1>7 DEF CreationInv, ChainOk, KeysOk, RunOk

LEMMA PostPrivateKeeps ==
  ASSUME CreationInv, NEW i \in DOMAIN tx, PostPrivate(i)
  PROVE  CreationInv'
<1>1. UNCHANGED <<chain, rows, posted, edited, form, run>>
  BY DEF PostPrivate, scriptVars
<1>2. /\ SubmissionOk(chain, tx[i]) /\ tx[i].page = "posting" /\ tx[i].kind = "private"
      /\ tx[i].net = "mined"
      /\ AsCreated(chain, "private", tx[i].id, tx[i].question)
  BY DEF CreationInv, TxOk, PostPrivate, Posting, SubmissionOk
<1>3. keys' = keys \/ keys' = WithKey(i)
  BY DEF PostPrivate
<1>4. KeysOk' /\ keys \subseteq keys'
  BY <1>1, <1>2, <1>3 DEF CreationInv, KeysOk, WithKey, Payload
<1>5. \E x : /\ tx' = [tx EXCEPT ![i] = x] /\ SubmissionOk(chain', x)
             /\ Known(posted', keys', x)
  <2>1. CASE keys' = WithKey(i) /\ tx' = [tx EXCEPT ![i].page = "over"]
    <3> DEFINE y == [tx[i] EXCEPT !.page = "over"]
    <3>1. tx' = [tx EXCEPT ![i] = y]
      BY <2>1
    <3>2. /\ y.question = tx[i].question /\ y.kind = "private" /\ y.net = "mined"
          /\ y.page = "over" /\ y.id = tx[i].id /\ DOMAIN y = Fields
      BY <1>2 DEF SubmissionOk, Fields
    <3> HIDE DEF y
    <3>3. \E k \in keys' : k.id = tx[i].id
      <4> DEFINE k == [id |-> tx[i].id, question |-> Payload(i)]
      <4>1. k \in keys'
        BY <2>1 DEF WithKey
      <4>2. k.id = tx[i].id
        OBVIOUS
      <4> HIDE DEF k
      <4> QED  BY <4>1, <4>2
    <3>4. SubmissionOk(chain', y) /\ Known(posted', keys', y)
      BY <1>1, <1>2, <3>2, <3>3 DEF SubmissionOk, Known, Kind
    <3> QED  BY <3>1, <3>4
  <2>2. CASE tx' = [tx EXCEPT ![i].page = "over", ![i].warned = TRUE]
    <3> DEFINE y == [tx[i] EXCEPT !.page = "over", !.warned = TRUE]
    <3>1. tx' = [tx EXCEPT ![i] = y]
      BY <2>2
    <3>2. /\ y.question = tx[i].question /\ y.kind = "private" /\ y.net = "mined"
          /\ y.page = "over" /\ y.id = tx[i].id /\ y.warned /\ DOMAIN y = Fields
      BY <1>2 DEF SubmissionOk, Fields
    <3> HIDE DEF y
    <3>3. SubmissionOk(chain', y) /\ Known(posted', keys', y)
      BY <1>1, <1>2, <3>2 DEF SubmissionOk, Known, Kind
    <3> QED  BY <3>1, <3>3
  <2> QED  BY <2>1, <2>2 DEF PostPrivate
<1>6. TxOk'
  BY <1>1, <1>4, <1>5, OneSubmission, NothingGrows DEF CreationInv
<1>7. RowsOk'
  BY <1>1, RowsStay, NothingGrows DEF CreationInv
<1> QED  BY <1>1, <1>4, <1>6, <1>7 DEF CreationInv, ChainOk, RunOk

LEMMA PressKeeps ==
  ASSUME CreationInv, PressDeploy
  PROVE  CreationInv'
<1> DEFINE x == [question |-> form.question, kind |-> form.kind, net |-> "wallet",
                 page |-> "waiting", shown |-> TRUE, id |-> 0, tries |-> 0,
                 warned |-> FALSE]
<1>1. UNCHANGED <<chain, rows, keys, posted, edited, form, run>> /\ tx' = Append(tx, x)
  BY DEF PressDeploy, backendVars, scriptVars
<1>2. SubmissionOk(chain, x) /\ Known(posted, keys, x)
  BY DEF CreationInv, TxOk, SubmissionOk, Known, Fields
<1> HIDE DEF x
<1>3. /\ Len(tx) \in Nat /\ DOMAIN tx = 1 .. Len(tx)
      /\ IsList(tx') /\ DOMAIN tx' = 1 .. Len(tx) + 1
      /\ \A i \in 1 .. Len(tx) : tx'[i] = tx[i]
      /\ tx'[Len(tx) + 1] = x
  BY <1>1, ListProperties DEF CreationInv, TxOk
<1>4. ASSUME NEW i \in DOMAIN tx'
      PROVE  SubmissionOk(chain, tx'[i]) /\ Known(posted, keys, tx'[i])
  <2>1. CASE i \in 1 .. Len(tx)
    BY <1>3, <2>1 DEF CreationInv, TxOk
  <2>2. CASE i = Len(tx) + 1
    BY <1>2, <1>3, <2>2
  <2> QED  BY <1>3, <2>1, <2>2
<1>5. TxOk'
  BY <1>1, <1>3, <1>4 DEF CreationInv, TxOk
<1> QED  BY <1>1, <1>5 DEF CreationInv, ChainOk, RowsOk, KeysOk, RunOk

\* The page is left, or gone: what is registered of its submissions stays.
LEMMA LeaveKeeps ==
  ASSUME CreationInv, LeaveForm \/ ReloadForm
  PROVE  CreationInv'
<1>1. UNCHANGED <<chain, rows, keys, posted, edited, form, run>>
  <2>1. CASE LeaveForm
    BY <2>1 DEF LeaveForm, backendVars, scriptVars
  <2>2. CASE ReloadForm
    BY <2>2, Zenon DEF ReloadForm, backendVars, scriptVars
  <2> QED  BY <2>1, <2>2
<1>2. PICK f :
        /\ tx' = [i \in DOMAIN tx |-> f[i]]
        /\ \A i \in DOMAIN tx : /\ SubmissionOk(chain, f[i])
                                /\ Known(posted, keys, f[i])
  <2>1. \A i \in DOMAIN tx : SubmissionOk(chain, tx[i]) /\ Known(posted, keys, tx[i])
    BY DEF CreationInv, TxOk
  <2>2. CASE LeaveForm
    <3> DEFINE f == [i \in DOMAIN tx |-> [tx[i] EXCEPT !.shown = FALSE]]
    <3>1. tx' = [i \in DOMAIN tx |-> f[i]]
      BY <2>2 DEF LeaveForm
    <3>2. ASSUME NEW i \in DOMAIN tx
          PROVE  SubmissionOk(chain, f[i]) /\ Known(posted, keys, f[i])
      <4>1. /\ DOMAIN f[i] = Fields /\ f[i].question = tx[i].question
            /\ f[i].kind = tx[i].kind /\ f[i].net = tx[i].net
            /\ f[i].page = tx[i].page
            /\ f[i].id = tx[i].id /\ f[i].warned = tx[i].warned
        BY <2>1 DEF SubmissionOk, Fields
      <4> HIDE DEF f
      <4> QED  BY <2>1, <4>1 DEF SubmissionOk, Known
    <3> HIDE DEF f
    <3> QED  BY <3>1, <3>2
  <2>3. CASE ReloadForm
    <3> DEFINE f == [i \in DOMAIN tx |->
                       [tx[i] EXCEPT !.shown = FALSE,
                                     !.page = IF @ = "over" THEN @ ELSE "lost"]]
    <3>1. tx' = f
      BY <2>3, Zenon DEF ReloadForm
    <3>2. ASSUME NEW i \in DOMAIN tx
          PROVE  SubmissionOk(chain, f[i]) /\ Known(posted, keys, f[i])
      <4>1. /\ DOMAIN f[i] = Fields /\ f[i].question = tx[i].question
            /\ f[i].kind = tx[i].kind /\ f[i].net = tx[i].net
            /\ f[i].page = IF tx[i].page = "over" THEN "over" ELSE "lost"
            /\ f[i].id = tx[i].id /\ f[i].warned = tx[i].warned
        BY <2>1 DEF SubmissionOk, Fields
      <4> HIDE DEF f
      <4> QED  BY <2>1, <4>1 DEF SubmissionOk, Known
    <3>3. f = [i \in DOMAIN tx |-> f[i]]
      OBVIOUS
    <3> HIDE DEF f
    <3> QED  BY <3>1, <3>2, <3>3
  <2> QED  BY <2>2, <2>3
<1>3. DOMAIN tx' = DOMAIN tx /\ \A i \in DOMAIN tx : tx'[i] = f[i]
  BY <1>2
<1>4. IsList(tx')
  <2>1. tx' = [i \in DOMAIN tx |-> tx'[i]]
    BY <1>2, <1>3
  <2> QED  BY <2>1, ListUpdate DEF CreationInv, TxOk
<1>5. TxOk'
  BY <1>1, <1>2, <1>3, <1>4 DEF CreationInv, TxOk
<1> QED  BY <1>1, <1>5 DEF CreationInv, ChainOk, RowsOk, KeysOk, RunOk

\* The form, its dialog, and the beginning and the end of a script.
LEMMA RestKeeps ==
  ASSUME CreationInv,
         \/ EditForm \/ CloseModal \/ StartDeploying \/ NextFails \/ EndRun
         \/ UNCHANGED creationVars
  PROVE  CreationInv'
<1>1. UNCHANGED <<chain, rows, keys, posted, edited, tx>>
  BY DEF EditForm, CloseModal, StartDeploying, NextFails, EndRun, creationVars,
     backendVars, pageState
<1>2. form'.kind \in Kind
  BY DEF EditForm, CloseModal, StartDeploying, NextFails, EndRun, creationVars,
     pageState, CreationInv, TxOk
<1>3. RunOk'
  <2>1. CASE UNCHANGED run
    BY <1>1, <2>1 DEF CreationInv, RunOk
  <2>2. CASE StartDeploying
    <3>1. PICK todo : run' = [todo |-> todo, made |-> 0, on |-> TRUE]
      BY <2>2 DEF StartDeploying, Start
    <3> QED  BY <3>1 DEF RunOk
  <2>3. CASE NextFails
    BY <2>3 DEF NextFails, CreationInv, RunOk
  <2>4. CASE EndRun
    BY <2>4 DEF EndRun, NoRun, RunOk
  <2> QED
    BY <2>1, <2>2, <2>3, <2>4 DEF EditForm, CloseModal, creationVars, scriptVars
<1> QED  BY <1>1, <1>2, <1>3 DEF CreationInv, ChainOk, RowsOk, KeysOk, TxOk

\* Rows of the scripts and of the indexer, and what is edited or deleted.
LEMMA ScriptRowsKeep ==
  ASSUME CreationInv,
         \/ \E i \in DOMAIN rows : DeleteRow(i) \/ \E q \in Question : EditRow(i, q)
         \/ \E q \in Question : SeedMarket(q)
         \/ StartClearing \/ RegisterNext
         \/ \E id \in DOMAIN chain["base"] : SyncMarket(id)
  PROVE  CreationInv'
<1>1. UNCHANGED <<chain, keys, form, tx>> /\ posted \subseteq posted'
  BY DEF EditRow, DeleteRow, SeedMarket, StartClearing, RegisterNext, SyncMarket, Post,
     pageState
<1>2. RowsOk' /\ RunOk'
  <2>1. ASSUME NEW q \in Question, SeedMarket(q) PROVE RowsOk' /\ RunOk'
    <3>1. rows' = Stored(q, 0) /\ UNCHANGED <<chain, run>> /\ edited' = edited \ RowsOf(0)
      BY <2>1, NoRows DEF SeedMarket
    <3>2. RowsOk'
      BY <3>1, StoredRows DEF CreationInv
    <3> QED  BY <3>1, <3>2 DEF CreationInv, RunOk
  <2>2. CASE StartClearing
    <3>1. \E q \in Question : run' = [todo |-> <<q>>, made |-> 0, on |-> TRUE]
      BY <2>2 DEF StartClearing, Start
    <3>2. rows' = [i \in DOMAIN rows |-> Deleted] /\ edited' = {}
      BY <2>2 DEF StartClearing
    <3>3. IsList(rows')
      BY <3>2, ListUpdate DEF CreationInv, RowsOk
    <3> QED  BY <3>1, <3>2, <3>3 DEF RowsOk, RunOk, Deleted
  <2>3. CASE RegisterNext
    <3>1. /\ rows' = Stored(Head(run.todo), run.made) /\ UNCHANGED chain
          /\ edited' = edited \ RowsOf(run.made)
          /\ run' = [run EXCEPT !.made = 0, !.todo = Tail(@)]
          /\ AsCreated(chain, "base", run.made, Head(run.todo))
      BY <2>3 DEF RegisterNext, Post, CreationInv, RunOk
    <3>2. run.made \in Nat
      BY <3>1, ListProperties DEF AsCreated, CreationInv, ChainOk, Kind
    <3>3. RowsOk'
      BY <3>1, <3>2, StoredRows DEF CreationInv
    <3> QED  BY <3>1, <3>3 DEF CreationInv, RunOk
  <2>4. ASSUME NEW id \in DOMAIN chain["base"], SyncMarket(id) PROVE RowsOk' /\ RunOk'
    <3>1. /\ rows' = Stored(chain["base"][id], id) /\ UNCHANGED <<chain, run>>
          /\ edited' = edited \ RowsOf(id)
      BY <2>4 DEF SyncMarket, Post, scriptVars
    <3>2. id \in Nat
      BY ListProperties DEF CreationInv, ChainOk, Kind
    <3>3. RowsOk'
      BY <3>1, <3>2, StoredRows DEF CreationInv, AsCreated
    <3> QED  BY <3>1, <3>3 DEF CreationInv, RunOk
  <2>5. ASSUME NEW i \in DOMAIN rows,
               DeleteRow(i) \/ \E q \in Question : EditRow(i, q)
        PROVE  RowsOk' /\ RunOk'
    <3>1. UNCHANGED <<chain, run>>
      BY <2>5 DEF DeleteRow, EditRow, scriptVars
    <3>2. RowsOk'
      BY <2>5, <3>1, OneRow DEF CreationInv
    <3> QED  BY <3>1, <3>2 DEF CreationInv, RunOk
  <2> QED  BY <2>1, <2>2, <2>3, <2>4, <2>5
<1>3. TxOk'
  BY <1>1, TxStay, NothingGrows DEF CreationInv, TxOk
<1> QED  BY <1>1, <1>2, <1>3 DEF CreationInv, ChainOk, KeysOk

\* A script creates a market, which it is then to register.
LEMMA CreateNextKeeps ==
  ASSUME CreationInv, CreateNext
  PROVE  CreationInv'
<1> DEFINE n == NextId("base")
<1>1. /\ UNCHANGED <<rows, keys, posted, edited, form, tx>>
      /\ run' = [run EXCEPT !.made = n]
      /\ Created("base", Head(run.todo))
  BY DEF CreateNext, backendVars, pageState
<1>2. ChainOk' /\ Grows /\ AsCreated(chain', "base", n, Head(run.todo))
  BY <1>1, CreatedGrows DEF CreationInv, Kind
<1> HIDE DEF n
<1>3. RunOk'
  BY <1>1, <1>2 DEF CreationInv, RunOk
<1>4. RowsOk' /\ TxOk'
  BY <1>1, <1>2, RowsStay, TxStay DEF CreationInv, TxOk
<1>5. KeysOk'
  BY <1>1, <1>2 DEF CreationInv, KeysOk, Grows
<1> QED  BY <1>2, <1>3, <1>4, <1>5 DEF CreationInv

LEMMA CreationNextInv == CreationInv /\ [CreationNext]_creationVars => CreationInv'
<1> SUFFICES ASSUME CreationInv, [CreationNext]_creationVars PROVE CreationInv'
  OBVIOUS
<1>1. ASSUME NEW i \in DOMAIN tx,
             \/ RejectDeploy(i) \/ SignDeploy(i) \/ MineDeploy(i)
             \/ SeeCreated(i) \/ GiveUp(i) \/ PostBase(i) \/ PostPrivate(i)
      PROVE  CreationInv'
  BY <1>1, WaitKeeps, MineKeeps, PostBaseKeeps, PostPrivateKeeps
<1>2. CASE PressDeploy \/ LeaveForm \/ ReloadForm \/ CreateNext
  BY <1>2, PressKeeps, LeaveKeeps, CreateNextKeeps
<1>3. CASE \/ \E i \in DOMAIN rows : DeleteRow(i) \/ \E q \in Question : EditRow(i, q)
           \/ \E q \in Question : SeedMarket(q)
           \/ StartClearing \/ RegisterNext
           \/ \E id \in DOMAIN chain["base"] : SyncMarket(id)
  BY <1>3, ScriptRowsKeep
<1>4. CASE \/ EditForm \/ CloseModal \/ StartDeploying \/ NextFails \/ EndRun
           \/ UNCHANGED creationVars
  BY <1>4, RestKeeps
<1> QED  BY <1>1, <1>2, <1>3, <1>4 DEF CreationNext

LEMMA EmptyList == IsList(<<>>) /\ DOMAIN <<>> = {}
BY EmptySeq, LenProperties DEF IsList

LEMMA CreationInitInv == CreationInit => CreationInv
BY EmptyList DEF CreationInit, CreationInv, ChainOk, RowsOk, KeysOk, TxOk, RunOk, NoRun,
   Kind

LEMMA CreationInvariance == CreationSpec => []CreationInv
BY CreationInitInv, CreationNextInv, PTL DEF CreationSpec

\* For any number of submissions, seeded rows and scripts, in whatever order they end:
\* a row or an access key that names a market of the chain tells its question,
\* unless it was edited since, and is the only one to name it.
LEMMA RegisteredRight == CreationSpec => []RegisteredAsCreated
<1>1. CreationInv => RegisteredAsCreated
  BY DEF CreationInv, RowsOk, KeysOk, AsCreated, RegisteredAsCreated, RowsOf
<1> QED  BY <1>1, CreationInvariance, PTL

\* When the page is through with a market it saw created, the market is registered or
\* its creator was warned, however often registering it failed.
LEMMA SeenRight == CreationSpec => []SeenIsKnown
<1>1. CreationInv => SeenIsKnown
  BY DEF CreationInv, TxOk, Known, SeenIsKnown
<1> QED  BY <1>1, CreationInvariance, PTL

\* Whatever submissions, seeds and scripts do in whatever order, what is registered and
\* not edited is what was created, and what a page saw created is registered or warned of.
THEOREM CreationRight == CreationSpec => []ChainIsRegistered
<1>1. RegisteredAsCreated /\ SeenIsKnown => ChainIsRegistered
  BY DEF ChainIsRegistered
<1> QED  BY <1>1, RegisteredRight, SeenRight, PTL

-----------------------------------------------------------------------------
(* The variables of creation.                                              *)

Record == [question : Question, chainId : Nat]

\* A registration is tried three times.
SubmissionTyped(t) == t \in Submission /\ (t.page \in {"waiting", "posting"} => t.tries < 3)

MarketsTyped == /\ \A k \in Kind : chain[k] \in Seq(Question)
                /\ \A i \in DOMAIN rows : rows[i] \in Record \cup {Deleted}
                /\ \A k \in keys : k \in [id : Nat, question : Question]
                /\ posted \subseteq Nat
SubmissionsTyped == /\ form \in [question : Question, kind : Kind]
                    /\ \A i \in DOMAIN tx : SubmissionTyped(tx[i])
                    /\ deployed \in BOOLEAN /\ keyModal \in Nat
\* The script still has to register what it created.
RunsTyped == /\ run \in [todo : Seq(Question), made : Nat, on : BOOLEAN]
             /\ run.made # 0 => run.todo # <<>>
             /\ runs \in 0 .. MaxRuns /\ seeds \in 0 .. MaxSeeds

LEMMA StoredTyped ==
  ASSUME CreationInv, MarketsTyped, NEW q \in Question, NEW id \in Nat, rows' = Stored(q, id)
  PROVE  \A i \in DOMAIN rows' : rows'[i] \in Record \cup {Deleted}
<1>1. CASE RowsOf(id) = {}
  <2> DEFINE e == [question |-> q, chainId |-> id]
  <2>1. rows' = Append(rows, e)
    BY <1>1 DEF Stored
  <2>2. e \in Record
    BY DEF Record
  <2> HIDE DEF e
  <2>3. /\ Len(rows) \in Nat /\ DOMAIN rows = 1 .. Len(rows)
        /\ DOMAIN rows' = 1 .. Len(rows) + 1
        /\ \A i \in 1 .. Len(rows) : rows'[i] = rows[i]
        /\ rows'[Len(rows) + 1] = e
    BY <2>1, ListProperties DEF CreationInv, RowsOk
  <2> QED  BY <2>2, <2>3 DEF MarketsTyped
<1>2. CASE RowsOf(id) # {}
  <2> SUFFICES ASSUME NEW i \in DOMAIN rows PROVE rows'[i] \in Record \cup {Deleted}
    BY <1>2 DEF Stored
  <2>1. CASE i \in RowsOf(id)
    <3>1. rows[i] \in Record
      BY <2>1 DEF RowsOf, Deleted, MarketsTyped
    <3>2. [rows[i] EXCEPT !.question = q] \in Record
      BY <3>1 DEF Record
    <3> QED  BY <1>2, <2>1, <3>2 DEF Stored
  <2>2. CASE i \notin RowsOf(id)
    BY <1>2, <2>2 DEF Stored, MarketsTyped
  <2> QED  BY <2>1, <2>2
<1> QED  BY <1>1, <1>2

LEMMA CreatedTyped ==
  ASSUME MarketsTyped, CreationInv, NEW kind \in Kind, NEW q \in Question, Created(kind, q)
  PROVE  (\A k \in Kind : chain'[k] \in Seq(Question)) /\ NextId(kind) \in Nat
<1>1. chain[kind] \in Seq(Question)
  BY DEF MarketsTyped
<1>2. Append(chain[kind], q) \in Seq(Question) /\ Len(chain[kind]) \in Nat
  BY <1>1, AppendProperties, LenProperties
<1>3. chain' = [chain EXCEPT ![kind] = Append(chain[kind], q)]
  BY DEF Created
<1>4. \A k \in Kind : chain'[k] = IF k = kind THEN Append(chain[kind], q) ELSE chain[k]
  BY <1>3 DEF CreationInv, ChainOk
<1>5. \A k \in Kind : chain'[k] \in Seq(Question)
  BY <1>2, <1>4 DEF MarketsTyped
<1> QED  BY <1>2, <1>5 DEF NextId

LEMMA FieldsTyped ==
  ASSUME NEW t \in Submission
  PROVE  /\ \A n \in {"wallet", "refused", "mining", "mined", "reverted"} :
              LET e == [t EXCEPT !.net = n]
              IN  e \in Submission /\ e.page = t.page /\ e.tries = t.tries
         /\ \A p \in {"waiting", "posting", "over", "lost"} :
              LET e == [t EXCEPT !.page = p]
              IN  e \in Submission /\ e.page = p /\ e.tries = t.tries
         /\ \A n \in Nat :
              LET e == [t EXCEPT !.id = n]
              IN  e \in Submission /\ e.page = t.page /\ e.tries = t.tries
         /\ \A b \in BOOLEAN :
              /\ LET e == [t EXCEPT !.warned = b]
                 IN  e \in Submission /\ e.page = t.page /\ e.tries = t.tries
              /\ LET e == [t EXCEPT !.shown = b]
                 IN  e \in Submission /\ e.page = t.page /\ e.tries = t.tries
         /\ \A n \in 0 .. 3 :
              LET e == [t EXCEPT !.tries = n]
              IN  e \in Submission /\ e.page = t.page /\ e.tries = n
<1>1. ASSUME NEW n \in {"wallet", "refused", "mining", "mined", "reverted"}
      PROVE  LET e == [t EXCEPT !.net = n]
             IN  e \in Submission /\ e.page = t.page /\ e.tries = t.tries
  BY <1>1 DEF Submission
<1>2. ASSUME NEW p \in {"waiting", "posting", "over", "lost"}
      PROVE  LET e == [t EXCEPT !.page = p]
             IN  e \in Submission /\ e.page = p /\ e.tries = t.tries
  BY <1>2 DEF Submission
<1>3. ASSUME NEW n \in Nat
      PROVE  LET e == [t EXCEPT !.id = n]
             IN  e \in Submission /\ e.page = t.page /\ e.tries = t.tries
  BY <1>3 DEF Submission
<1>4. ASSUME NEW b \in BOOLEAN
      PROVE  LET e == [t EXCEPT !.warned = b]
             IN  e \in Submission /\ e.page = t.page /\ e.tries = t.tries
  BY <1>4 DEF Submission
<1>5. ASSUME NEW b \in BOOLEAN
      PROVE  LET e == [t EXCEPT !.shown = b]
             IN  e \in Submission /\ e.page = t.page /\ e.tries = t.tries
  BY <1>5 DEF Submission
<1>6. ASSUME NEW n \in 0 .. 3
      PROVE  LET e == [t EXCEPT !.tries = n]
             IN  e \in Submission /\ e.page = t.page /\ e.tries = n
  BY <1>6 DEF Submission
<1> QED  BY <1>1, <1>2, <1>3, <1>4, <1>5, <1>6

\* One submission goes on.
LEMMA TxTyped ==
  ASSUME SubmissionsTyped, NEW i \in DOMAIN tx, NEW e, SubmissionTyped(e),
         tx' = [tx EXCEPT ![i] = e]
  PROVE  \A j \in DOMAIN tx' : SubmissionTyped(tx'[j])
BY DEF SubmissionsTyped

LEMMA WaitTyped ==
  ASSUME CreationInv, SubmissionsTyped, NEW i \in DOMAIN tx,
         \/ RejectDeploy(i) \/ SignDeploy(i) \/ SeeCreated(i)
         \/ GiveUp(i)
  PROVE  \A j \in DOMAIN tx' : SubmissionTyped(tx'[j])
<1> DEFINE t == tx[i]
<1>1. t \in Submission /\ (t.page \in {"waiting", "posting"} => t.tries < 3)
  BY DEF SubmissionsTyped, SubmissionTyped
<1>2. CASE RejectDeploy(i)
  <2> DEFINE y == [t EXCEPT !.net = "refused"]
             e == [y EXCEPT !.page = "over"]
  <2>1. tx' = [tx EXCEPT ![i] = e]
    BY <1>2 DEF RejectDeploy
  <2>2. y \in Submission
    BY <1>1, FieldsTyped
  <2> HIDE DEF y
  <2>3. e \in Submission /\ e.page = "over"
    BY <2>2, FieldsTyped
  <2> HIDE DEF e
  <2> QED  BY <2>1, <2>3, TxTyped DEF SubmissionTyped
<1>3. CASE SignDeploy(i)
  <2> DEFINE e == [t EXCEPT !.net = "mining"]
  <2>1. tx' = [tx EXCEPT ![i] = e]
    BY <1>3 DEF SignDeploy
  <2>2. e \in Submission /\ e.page = t.page /\ e.tries = t.tries
    BY <1>1, FieldsTyped
  <2> HIDE DEF e
  <2> QED  BY <1>1, <2>1, <2>2, TxTyped DEF SubmissionTyped
<1>4. CASE SeeCreated(i)
  <2> DEFINE p == IF t.net = "mined" THEN "posting" ELSE "over"
             e == [t EXCEPT !.page = p]
  <2>1. tx' = [tx EXCEPT ![i] = e] /\ t.page = "waiting"
    BY <1>4 DEF SeeCreated
  <2>2. p \in {"waiting", "posting", "over", "lost"}
    OBVIOUS
  <2> HIDE DEF p
  <2>3. e \in Submission /\ e.tries = t.tries
    BY <1>1, <2>2, FieldsTyped
  <2> HIDE DEF e
  <2> QED  BY <1>1, <2>1, <2>3, TxTyped DEF SubmissionTyped
<1>5. CASE GiveUp(i)
  <2> DEFINE e == [t EXCEPT !.page = "lost"]
  <2>1. tx' = [tx EXCEPT ![i] = e]
    BY <1>5 DEF GiveUp
  <2>2. e \in Submission /\ e.page = "lost"
    BY <1>1, FieldsTyped
  <2> HIDE DEF e
  <2> QED  BY <2>1, <2>2, TxTyped DEF SubmissionTyped
<1> QED  BY <1>2, <1>3, <1>4, <1>5

LEMMA MineTyped ==
  ASSUME CreationInv, MarketsTyped, SubmissionsTyped, NEW i \in DOMAIN tx, MineDeploy(i)
  PROVE  MarketsTyped' /\ \A j \in DOMAIN tx' : SubmissionTyped(tx'[j])
<1> DEFINE t == tx[i]
<1>1. t \in Submission /\ (t.page \in {"waiting", "posting"} => t.tries < 3)
  BY DEF SubmissionsTyped, SubmissionTyped
<1>2. t.kind \in Kind /\ t.question \in Question
  BY <1>1 DEF Submission
<1>3. UNCHANGED <<rows, keys, posted>>
  BY DEF MineDeploy, backendVars
<1>4. CASE chain' = chain /\ tx' = [tx EXCEPT ![i].net = "reverted"]
  <2> DEFINE e == [t EXCEPT !.net = "reverted"]
  <2>1. tx' = [tx EXCEPT ![i] = e]
    BY <1>4
  <2>2. e \in Submission /\ e.page = t.page /\ e.tries = t.tries
    BY <1>1, FieldsTyped
  <2> HIDE DEF e
  <2> QED  BY <1>1, <1>3, <1>4, <2>1, <2>2, TxTyped DEF SubmissionTyped, MarketsTyped
<1>5. CASE /\ Created(t.kind, t.question)
           /\ tx' = [tx EXCEPT ![i].net = "mined", ![i].id = NextId(t.kind)]
  <2> DEFINE n == NextId(t.kind)
             y == [t EXCEPT !.net = "mined"]
             e == [y EXCEPT !.id = n]
  <2>1. tx' = [tx EXCEPT ![i] = e]
    BY <1>5
  <2>2. (\A k \in Kind : chain'[k] \in Seq(Question)) /\ n \in Nat
    BY <1>2, <1>5, CreatedTyped
  <2> HIDE DEF n
  <2>3. y \in Submission /\ y.page = t.page /\ y.tries = t.tries
    BY <1>1, FieldsTyped
  <2> HIDE DEF y
  <2>4. e \in Submission /\ e.page = y.page /\ e.tries = y.tries
    BY <2>2, <2>3, FieldsTyped
  <2> HIDE DEF e
  <2> QED
    BY <1>1, <1>3, <2>1, <2>2, <2>3, <2>4, TxTyped DEF SubmissionTyped, MarketsTyped
<1> QED  BY <1>4, <1>5 DEF MineDeploy

LEMMA FailureTyped ==
  ASSUME SubmissionsTyped, NEW i \in DOMAIN tx, tx[i].page = "posting",
         tx' = AfterFailure(i)
  PROVE  \A j \in DOMAIN tx' : SubmissionTyped(tx'[j])
<1> DEFINE t == tx[i]
           n == t.tries + 1
           p == IF t.tries = 2 THEN "over" ELSE t.page
           x == [t EXCEPT !.tries = n]
           y == [x EXCEPT !.page = p]
           e == [y EXCEPT !.warned = (t.tries = 2)]
<1>1. t \in Submission /\ t.tries < 3
  BY DEF SubmissionsTyped, SubmissionTyped
<1>2. n \in 0 .. 3 /\ (n = 3 => p = "over") /\ (n # 3 => n < 3)
      /\ p \in {"posting", "over"}
  BY <1>1 DEF Submission
<1>3. tx' = [tx EXCEPT ![i] = e]
  BY DEF AfterFailure
<1> HIDE DEF n, p
<1>4. x \in Submission /\ x.tries = n
  BY <1>1, <1>2 DEF Submission
<1> HIDE DEF x
<1>5. y \in Submission /\ y.tries = n /\ y.page = p
  BY <1>2, <1>4 DEF Submission
<1> HIDE DEF y
<1>6. e \in Submission /\ e.tries = n /\ e.page = p
  BY <1>5 DEF Submission
<1> HIDE DEF e
<1> QED  BY <1>2, <1>3, <1>6, TxTyped DEF SubmissionTyped

LEMMA OverTyped ==
  ASSUME SubmissionsTyped, NEW i \in DOMAIN tx,
         tx' \in {[tx EXCEPT ![i].page = "over"],
                  [tx EXCEPT ![i].page = "over", ![i].warned = TRUE]}
  PROVE  \A j \in DOMAIN tx' : SubmissionTyped(tx'[j])
<1> DEFINE y == [tx[i] EXCEPT !.page = "over"]
           e == [y EXCEPT !.warned = TRUE]
<1>1. tx' = [tx EXCEPT ![i] = y] \/ tx' = [tx EXCEPT ![i] = e]
  OBVIOUS
<1>2. y \in Submission /\ y.page = "over"
  BY FieldsTyped DEF SubmissionsTyped, SubmissionTyped
<1> HIDE DEF y
<1>3. e \in Submission /\ e.page = "over"
  BY <1>2, FieldsTyped
<1> HIDE DEF e
<1> QED  BY <1>1, <1>2, <1>3, TxTyped DEF SubmissionTyped

LEMMA PostTyped ==
  ASSUME CreationInv, MarketsTyped, SubmissionsTyped, NEW i \in DOMAIN tx,
         PostBase(i) \/ PostPrivate(i)
  PROVE  MarketsTyped' /\ SubmissionsTyped'
<1>1. tx[i].id \in Nat /\ tx[i].question \in Question /\ tx[i].shown \in BOOLEAN
  BY DEF SubmissionsTyped, SubmissionTyped, Submission
<1>2. CASE PostBase(i)
  <2>1. UNCHANGED <<chain, keys, form, deployed, keyModal>> /\ tx[i].page = "posting"
    BY <1>2 DEF PostBase, Posting
  <2>2. /\ \A j \in DOMAIN rows' : rows'[j] \in Record \cup {Deleted}
        /\ posted' \subseteq Nat
    <3>1. CASE Post(Payload(i), tx[i].id)
      BY <1>1, <3>1, StoredTyped DEF Post, Payload, MarketsTyped
    <3>2. CASE UNCHANGED <<rows, posted, edited>>
      BY <3>2 DEF MarketsTyped
    <3> QED  BY <1>2, <3>1, <3>2 DEF PostBase
  <2>3. \A j \in DOMAIN tx' : SubmissionTyped(tx'[j])
    BY <1>2, <2>1, FailureTyped, OverTyped DEF PostBase
  <2> QED  BY <2>1, <2>2, <2>3 DEF MarketsTyped, SubmissionsTyped
<1>3. CASE PostPrivate(i)
  <2>1. UNCHANGED <<chain, rows, posted, form>>
    BY <1>3 DEF PostPrivate
  <2>2. \A k \in keys' : k \in [id : Nat, question : Question]
    <3>1. [id |-> tx[i].id, question |-> tx[i].question] \in [id : Nat, question : Question]
      BY <1>1
    <3>2. keys' \subseteq keys \cup {[id |-> tx[i].id, question |-> tx[i].question]}
      BY <1>3 DEF PostPrivate, WithKey, Payload
    <3> QED  BY <3>1, <3>2 DEF MarketsTyped
  <2>3. \A j \in DOMAIN tx' : SubmissionTyped(tx'[j])
    BY <1>3, OverTyped DEF PostPrivate
  <2>4. deployed' \in BOOLEAN /\ keyModal' \in Nat
    BY <1>1, <1>3 DEF PostPrivate, SubmissionsTyped
  <2> QED  BY <2>1, <2>2, <2>3, <2>4 DEF MarketsTyped, SubmissionsTyped
<1> QED  BY <1>2, <1>3

LEMMA PressTyped ==
  ASSUME CreationInv, SubmissionsTyped, PressDeploy \/ LeaveForm \/ ReloadForm
  PROVE  SubmissionsTyped'
<1>1. CASE PressDeploy
  <2> DEFINE e == [question |-> form.question, kind |-> form.kind,
                   net |-> "wallet", page |-> "waiting", shown |-> TRUE,
                   id |-> 0, tries |-> 0, warned |-> FALSE]
  <2>1. SubmissionTyped(e)
    BY DEF SubmissionTyped, Submission, SubmissionsTyped
  <2>2. tx' = Append(tx, e) /\ UNCHANGED <<form, deployed, keyModal>>
    BY <1>1 DEF PressDeploy
  <2> HIDE DEF e
  <2>3. /\ Len(tx) \in Nat /\ DOMAIN tx = 1 .. Len(tx)
        /\ DOMAIN tx' = 1 .. Len(tx) + 1
        /\ \A j \in 1 .. Len(tx) : tx'[j] = tx[j]
        /\ tx'[Len(tx) + 1] = e
    BY <2>2, ListProperties DEF CreationInv, TxOk
  <2> QED  BY <2>1, <2>2, <2>3 DEF SubmissionsTyped
<1>2. CASE LeaveForm
  <2>1. ASSUME NEW j \in DOMAIN tx PROVE SubmissionTyped([tx[j] EXCEPT !.shown = FALSE])
    BY FieldsTyped DEF SubmissionsTyped, SubmissionTyped
  <2>2. /\ tx' = [j \in DOMAIN tx |-> [tx[j] EXCEPT !.shown = FALSE]]
        /\ form' = form /\ deployed' = FALSE /\ keyModal' = 0
    BY <1>2 DEF LeaveForm
  <2> QED  BY <2>1, <2>2 DEF SubmissionsTyped
<1>3. CASE ReloadForm
  <2> DEFINE e(j) == [tx[j] EXCEPT !.shown = FALSE,
                                   !.page = IF @ = "over" THEN @ ELSE "lost"]
  <2>1. ASSUME NEW j \in DOMAIN tx PROVE SubmissionTyped(e(j))
    <3>1. tx[j] \in Submission
      BY DEF SubmissionsTyped, SubmissionTyped
    <3>2. e(j) \in Submission /\ e(j).page \in {"over", "lost"}
      BY <3>1 DEF Submission
    <3> HIDE DEF e
    <3> QED  BY <3>2 DEF SubmissionTyped
  <2>2. /\ tx' = [j \in DOMAIN tx |-> e(j)]
        /\ form' = form /\ deployed' = FALSE /\ keyModal' = 0
    BY <1>3 DEF ReloadForm
  <2> HIDE DEF e
  <2> QED  BY <2>1, <2>2 DEF SubmissionsTyped
<1> QED  BY <1>1, <1>2, <1>3


\* A script registers the rows it lacks.
LEMMA MissingRows ==
  ASSUME CreationInv, MarketsTyped,
         NEW missing \in InOrder({i \in DOMAIN rows : ToCreate(i)})
  PROVE  [j \in DOMAIN missing |-> rows[missing[j]].question] \in Seq(Question)
<1> DEFINE S == {i \in DOMAIN rows : ToCreate(i)}
           n == Cardinality(S)
           todo == [j \in DOMAIN missing |-> rows[missing[j]].question]
<1>1. IsFiniteSet(S)
  <2>1. Len(rows) \in Nat /\ DOMAIN rows = 1 .. Len(rows)
    BY ListProperties DEF CreationInv, RowsOk
  <2>2. IsFiniteSet(DOMAIN rows)
    BY <2>1, FS_Interval
  <2> QED  BY <2>2, FS_Subset
<1>2. n \in Nat
  BY <1>1, FS_CardinalityType
<1>3. missing \in [1 .. n -> S]
  BY DEF InOrder
<1>4. \A i \in S : rows[i].question \in Question
  BY DEF MarketsTyped, Record, ToCreate
<1> HIDE DEF n, S
<1>5. todo \in [1 .. n -> Question]
  BY <1>3, <1>4
<1> HIDE DEF todo
<1>6. todo \in Seq(Question)
  BY <1>2, <1>5, SeqDef
<1> QED  BY <1>6 DEF todo

LEMMA TailTyped ==
  ASSUME NEW todo \in Seq(Question), todo # <<>>
  PROVE  Head(todo) \in Question /\ Tail(todo) \in Seq(Question)
BY HeadTailProperties

\* What begins, goes on with and ends a script.
LEMMA RunTyped ==
  ASSUME CreationInv, MarketsTyped, RunsTyped,
         \/ StartDeploying \/ StartClearing \/ CreateNext \/ RegisterNext
         \/ NextFails \/ EndRun
  PROVE  MarketsTyped' /\ RunsTyped'
<1> DEFINE Runs == [todo : Seq(Question), made : Nat, on : BOOLEAN]
<1>1. CASE StartDeploying
  <2>1. PICK missing \in InOrder({i \in DOMAIN rows : ToCreate(i)}) :
          Start([j \in DOMAIN missing |-> rows[missing[j]].question])
    BY <1>1 DEF StartDeploying
  <2> DEFINE todo == [j \in DOMAIN missing |-> rows[missing[j]].question]
  <2>2. todo \in Seq(Question)
    BY MissingRows
  <2>3. /\ run' = [todo |-> todo, made |-> 0, on |-> TRUE]
        /\ runs < MaxRuns /\ runs' = runs + 1
    BY <2>1 DEF Start
  <2>4. UNCHANGED <<chain, rows, keys, posted, seeds>>
    BY <1>1 DEF StartDeploying, backendVars
  <2> HIDE DEF todo
  <2>5. RunsTyped'
    BY <2>2, <2>3, <2>4, CreationConstants DEF RunsTyped
  <2> QED  BY <2>4, <2>5 DEF MarketsTyped
<1>2. CASE StartClearing
  <2>1. PICK q \in Question : Start(<<q>>)
    BY <1>2 DEF StartClearing
  <2>2. <<q>> \in Seq(Question)
    OBVIOUS
  <2>3. /\ run' = [todo |-> <<q>>, made |-> 0, on |-> TRUE]
        /\ runs < MaxRuns /\ runs' = runs + 1
    BY <2>1 DEF Start
  <2>4. /\ UNCHANGED <<chain, keys, posted, seeds>>
        /\ rows' = [i \in DOMAIN rows |-> Deleted]
    BY <1>2 DEF StartClearing
  <2>5. RunsTyped'
    BY <2>2, <2>3, <2>4, CreationConstants DEF RunsTyped
  <2> QED  BY <2>4, <2>5 DEF MarketsTyped
<1>3. CASE CreateNext
  <2> DEFINE n == NextId("base")
  <2>1. /\ UNCHANGED <<rows, keys, posted, runs, seeds>> /\ run.todo # <<>>
        /\ run' = [run EXCEPT !.made = n]
        /\ Created("base", Head(run.todo))
    BY <1>3 DEF CreateNext, backendVars
  <2>2. Head(run.todo) \in Question
    BY <2>1, TailTyped DEF RunsTyped
  <2>3. (\A k \in Kind : chain'[k] \in Seq(Question)) /\ n \in Nat
    BY <2>1, <2>2, CreatedTyped DEF Kind
  <2> HIDE DEF n
  <2> QED  BY <2>1, <2>3 DEF MarketsTyped, RunsTyped
<1>4. CASE RegisterNext
  <2>1. /\ UNCHANGED <<chain, keys, runs, seeds>> /\ run.made # 0
        /\ rows' = Stored(Head(run.todo), run.made)
        /\ posted' = posted \cup {run.made}
        /\ run' = [run EXCEPT !.made = 0, !.todo = Tail(run.todo)]
    BY <1>4 DEF RegisterNext, Post
  <2>2. Head(run.todo) \in Question /\ Tail(run.todo) \in Seq(Question)
    BY <2>1, TailTyped DEF RunsTyped
  <2>3. run.made \in Nat
    BY DEF RunsTyped
  <2>4. \A i \in DOMAIN rows' : rows'[i] \in Record \cup {Deleted}
    BY <2>1, <2>2, <2>3, StoredTyped
  <2>5. RunsTyped'
    BY <2>1, <2>2 DEF RunsTyped
  <2> QED  BY <2>1, <2>3, <2>4, <2>5 DEF MarketsTyped
<1>5. CASE NextFails
  <2>1. /\ UNCHANGED <<chain, rows, keys, posted, runs, seeds>> /\ run.todo # <<>>
        /\ run' = [run EXCEPT !.made = 0, !.todo = Tail(run.todo)]
    BY <1>5 DEF NextFails, backendVars
  <2>2. Tail(run.todo) \in Seq(Question)
    BY <2>1, TailTyped DEF RunsTyped
  <2> QED  BY <2>1, <2>2 DEF RunsTyped, MarketsTyped
<1>6. CASE EndRun
  BY <1>6 DEF EndRun, NoRun, backendVars, RunsTyped, MarketsTyped
<1> QED  BY <1>1, <1>2, <1>3, <1>4, <1>5, <1>6

LEMMA CreationStep ==
  ASSUME CreationInv, MarketsTyped, SubmissionsTyped, RunsTyped,
         [CreationNext]_creationVars
  PROVE  MarketsTyped' /\ SubmissionsTyped' /\ RunsTyped'
<1>1. ASSUME NEW i \in DOMAIN tx,
             \/ RejectDeploy(i) \/ SignDeploy(i) \/ SeeCreated(i) \/ GiveUp(i)
      PROVE  MarketsTyped' /\ SubmissionsTyped' /\ RunsTyped'
  <2>1. UNCHANGED <<chain, rows, keys, posted, form, keyModal, run, runs, seeds>>
    BY <1>1 DEF RejectDeploy, SignDeploy, SeeCreated, GiveUp, backendVars, scriptVars
  <2>2. deployed' \in BOOLEAN
    BY <1>1 DEF RejectDeploy, SignDeploy, SeeCreated, GiveUp, SubmissionsTyped
  <2>3. \A j \in DOMAIN tx' : SubmissionTyped(tx'[j])
    BY <1>1, WaitTyped
  <2> QED  BY <2>1, <2>2, <2>3 DEF MarketsTyped, SubmissionsTyped, RunsTyped
<1>2. ASSUME NEW i \in DOMAIN tx, MineDeploy(i)
      PROVE  MarketsTyped' /\ SubmissionsTyped' /\ RunsTyped'
  <2>1. UNCHANGED <<form, deployed, keyModal, run, runs, seeds>>
    BY <1>2 DEF MineDeploy, scriptVars
  <2> QED  BY <1>2, <2>1, MineTyped DEF SubmissionsTyped, RunsTyped
<1>3. ASSUME NEW i \in DOMAIN tx, PostBase(i) \/ PostPrivate(i)
      PROVE  MarketsTyped' /\ SubmissionsTyped' /\ RunsTyped'
  <2>1. UNCHANGED <<run, runs, seeds>>
    BY <1>3 DEF PostBase, PostPrivate, scriptVars
  <2> QED  BY <1>3, <2>1, PostTyped DEF RunsTyped
<1>4. CASE PressDeploy \/ LeaveForm \/ ReloadForm
  <2>1. UNCHANGED <<chain, rows, keys, posted, run, runs, seeds>>
    BY <1>4, Zenon DEF PressDeploy, LeaveForm, ReloadForm, backendVars, scriptVars
  <2> QED  BY <1>4, <2>1, PressTyped DEF MarketsTyped, RunsTyped
<1>5. CASE EditForm \/ CloseModal \/ UNCHANGED creationVars
  <2>1. UNCHANGED <<chain, rows, keys, posted, tx, deployed, run, runs, seeds>>
    BY <1>5 DEF EditForm, CloseModal, creationVars, backendVars, pageState, scriptVars
  <2>2. form' \in [question : Question, kind : Kind] /\ keyModal' \in Nat
    BY <1>5 DEF EditForm, CloseModal, creationVars, pageState, SubmissionsTyped
  <2> QED  BY <2>1, <2>2 DEF MarketsTyped, SubmissionsTyped, RunsTyped
<1>6. CASE \/ StartDeploying \/ StartClearing \/ CreateNext \/ RegisterNext
           \/ NextFails \/ EndRun
  <2>1. UNCHANGED <<form, tx, deployed, keyModal>>
    BY <1>6 DEF StartDeploying, StartClearing, CreateNext, RegisterNext, NextFails,
       EndRun, pageState
  <2> QED  BY <1>6, <2>1, RunTyped DEF SubmissionsTyped
<1>7. ASSUME NEW q \in Question, SeedMarket(q)
      PROVE  MarketsTyped' /\ SubmissionsTyped' /\ RunsTyped'
  <2>1. /\ UNCHANGED <<chain, keys, posted, form, tx, deployed, keyModal, run, runs>>
        /\ rows' = Stored(q, 0) /\ seeds < MaxSeeds /\ seeds' = seeds + 1
    BY <1>7 DEF SeedMarket, pageState
  <2>2. \A i \in DOMAIN rows' : rows'[i] \in Record \cup {Deleted}
    BY <2>1, StoredTyped
  <2>3. seeds' \in 0 .. MaxSeeds
    BY <2>1, CreationConstants DEF RunsTyped
  <2> QED  BY <2>1, <2>2, <2>3 DEF MarketsTyped, SubmissionsTyped, RunsTyped
<1>8. ASSUME NEW id \in DOMAIN chain["base"], SyncMarket(id)
      PROVE  MarketsTyped' /\ SubmissionsTyped' /\ RunsTyped'
  <2>1. /\ UNCHANGED <<chain, keys, form, tx, deployed, keyModal, run, runs, seeds>>
        /\ rows' = Stored(chain["base"][id], id) /\ posted' = posted \cup {id}
    BY <1>8 DEF SyncMarket, Post, pageState, scriptVars
  <2>2. chain["base"] \in Seq(Question)
    BY DEF MarketsTyped, Kind
  <2>3. id \in Nat /\ chain["base"][id] \in Question
    BY <2>2, ElementOfSeq, LenProperties
  <2>4. \A i \in DOMAIN rows' : rows'[i] \in Record \cup {Deleted}
    BY <2>1, <2>3, StoredTyped
  <2> QED  BY <2>1, <2>3, <2>4 DEF MarketsTyped, SubmissionsTyped, RunsTyped
<1>9. ASSUME NEW i \in DOMAIN rows, DeleteRow(i) \/ \E q \in Question : EditRow(i, q)
      PROVE  MarketsTyped' /\ SubmissionsTyped' /\ RunsTyped'
  <2>1. UNCHANGED <<chain, keys, posted, form, tx, deployed, keyModal, run, runs, seeds>>
    BY <1>9 DEF DeleteRow, EditRow, pageState, scriptVars
  <2>2. \A j \in DOMAIN rows' : rows'[j] \in Record \cup {Deleted}
    <3>1. CASE DeleteRow(i)
      BY <3>1 DEF DeleteRow, MarketsTyped
    <3>2. ASSUME NEW q \in Question, EditRow(i, q)
          PROVE  \A j \in DOMAIN rows' : rows'[j] \in Record \cup {Deleted}
      <4>1. rows[i] \in Record
        BY <3>2 DEF EditRow, MarketsTyped
      <4>2. [rows[i] EXCEPT !.question = q] \in Record
        BY <4>1 DEF Record
      <4> QED  BY <3>2, <4>2 DEF EditRow, MarketsTyped
    <3> QED  BY <1>9, <3>1, <3>2
  <2> QED  BY <2>1, <2>2 DEF MarketsTyped, SubmissionsTyped, RunsTyped
<1> QED
  BY <1>1, <1>2, <1>3, <1>4, <1>5, <1>6, <1>7, <1>8, <1>9 DEF CreationNext

\* Submissions, seeds and scripts, of any number: every variable has its type.
LEMMA CreationTyped == CreationSpec => []CreationTypeOK
<1> DEFINE Typed == MarketsTyped /\ SubmissionsTyped /\ RunsTyped
<1>1. CreationInit => Typed
  <2> SUFFICES ASSUME CreationInit PROVE Typed
    OBVIOUS
  <2>1. <<>> \in Seq(Question) /\ DOMAIN <<>> = {}
    BY EmptyList, EmptySeq
  <2>2. MarketsTyped
    BY <2>1 DEF CreationInit, MarketsTyped
  <2>3. SubmissionsTyped
    BY <2>1 DEF CreationInit, SubmissionsTyped, Kind
  <2>4. RunsTyped
    BY <2>1, CreationConstants DEF CreationInit, RunsTyped, NoRun
  <2> QED  BY <2>2, <2>3, <2>4
<1>2. CreationInv /\ Typed /\ [CreationNext]_creationVars => Typed'
  BY CreationStep
<1>3. CreationInv /\ Typed => CreationTypeOK
  BY DEF CreationInv, RowsOk, MarketsTyped, SubmissionsTyped, RunsTyped, SubmissionTyped, Record,
     CreationTypeOK
<1> QED  BY <1>1, <1>2, <1>3, CreationInvariance, PTL DEF CreationSpec

-----------------------------------------------------------------------------
(* The draft.                                                              *)

ParamFields == {"type", "symbol", "quote", "source", "coords", "link", "filled"}

\* SymbolIsOfToken, of the parameters p.
SymbolOk(p) == /\ DOMAIN p = ParamFields
               /\ (category = "crypto" /\ ~late) =>
                    p.type = "price_above" /\ p.symbol \in {token, Nothing}

\* The inductive invariant: a lookup's parameters are older ones, or none.
DraftInv == /\ SymbolOk(params)
            /\ lookup # Nothing => DOMAIN lookup = ParamFields
            /\ late \in BOOLEAN

LEMMA DraftInitInv == DraftInit => DraftInv
BY DEF DraftInit, DraftInv, SymbolOk, NoParams, ParamFields

LEMMA Followed ==
  ASSUME DOMAIN params = ParamFields, NEW c, NEW t
  PROVE  /\ DOMAIN Follow(c, t) = ParamFields
         /\ c = "crypto" => /\ Follow(c, t).type = "price_above"
                            /\ Follow(c, t).symbol = t
<1>1. TypeOf["crypto"] = "price_above"
  BY DEF TypeOf
<1> DEFINE p == [params EXCEPT !.type = TypeOf[c]]
           q == [p EXCEPT !.symbol = IF c = "crypto" THEN t ELSE @]
           r == [q EXCEPT !.quote = IF c = "crypto" THEN "USDT" ELSE @]
<1>2. DOMAIN p = ParamFields /\ p.type = TypeOf[c]
  BY DEF ParamFields
<1>3. DOMAIN q = ParamFields /\ q.type = p.type /\ (c = "crypto" => q.symbol = t)
  BY <1>2 DEF ParamFields
<1>4. DOMAIN r = ParamFields /\ r.type = q.type /\ r.symbol = q.symbol
  BY <1>3 DEF ParamFields
<1>5. Follow(c, t) = r
  BY DEF Follow
<1> HIDE DEF p, q, r
<1> QED  BY <1>1, <1>2, <1>3, <1>4, <1>5

\* Category and token are followed; a source of a token's market is its price.
LEMMA FollowKeeps ==
  ASSUME DraftInv,
         \/ \E c \in Category : PickCategory(c)
         \/ \E t \in Token : PickToken(t)
         \/ \E type \in Types : PickSource(type)
  PROVE  DraftInv'
<1>1. ASSUME NEW c \in Category, PickCategory(c) PROVE DraftInv'
  <2>1. /\ params' = Follow(c, token) /\ category' = c
        /\ UNCHANGED <<token, lookup, late>>
    BY <1>1 DEF PickCategory, SetParams
  <2> QED  BY <2>1, Followed DEF DraftInv, SymbolOk
<1>2. ASSUME NEW t \in Token, PickToken(t) PROVE DraftInv'
  <2>1. /\ params' = Follow(category, t) /\ token' = t
        /\ UNCHANGED <<category, lookup, late>>
    BY <1>2 DEF PickToken, SetParams
  <2> QED  BY <2>1, Followed DEF DraftInv, SymbolOk
<1>3. ASSUME NEW type \in Types, PickSource(type) PROVE DraftInv'
  <2>1. /\ params' = NoParams(type) /\ (category = "crypto" => type = "price_above")
        /\ UNCHANGED <<category, token, lookup, late>>
    BY <1>3 DEF PickSource, OffersType, SetParams, entries
  <2>2. /\ DOMAIN NoParams(type) = ParamFields /\ NoParams(type).type = type
        /\ NoParams(type).symbol = Nothing
    BY DEF NoParams, ParamFields
  <2> QED  BY <2>1, <2>2 DEF DraftInv, SymbolOk
<1> QED  BY <1>1, <1>2, <1>3

\* The picker's other fields.
LEMMA PickerKeeps ==
  ASSUME DraftInv,
         \/ \E f \in Field : FillField(f)
         \/ \E src \in {"binance", "coingecko", "chainlink"} : PickPriceSource(src)
         \/ \E t \in Token : TypeSymbol(t)
         \/ \E p \in Place : PasteLongLink(p) \/ PasteShortLink(p)
  PROVE  DraftInv'
<1>1. ASSUME NEW f \in Field, FillField(f) PROVE DraftInv'
  BY <1>1 DEF FillField, ChangeParams, SetParams, entries, DraftInv, SymbolOk,
     ParamFields
<1>2. ASSUME NEW src, PickPriceSource(src) PROVE DraftInv'
  <2> DEFINE base == IF category = "crypto" THEN token
                     ELSE IF params.symbol = Nothing THEN Bitcoin ELSE params.symbol
             p == [params EXCEPT !.source = src]
             q == [p EXCEPT !.symbol = base]
             r == [q EXCEPT !.quote = IF src = "chainlink" THEN "_USD"
                                      ELSE IF category = "crypto" THEN "USDT" ELSE @]
  <2>1. params' = r /\ UNCHANGED <<category, token, lookup, late>>
    BY <1>2 DEF PickPriceSource, ChangeParams, SetParams, entries
  <2>2. DOMAIN p = ParamFields /\ p.type = params.type
    BY DEF DraftInv, SymbolOk, ParamFields
  <2>3. DOMAIN q = ParamFields /\ q.type = p.type /\ q.symbol = base
    BY <2>2 DEF ParamFields
  <2>4. DOMAIN r = ParamFields /\ r.type = q.type /\ r.symbol = q.symbol
    BY <2>3 DEF ParamFields
  <2> HIDE DEF p, q, r
  <2> QED  BY <2>1, <2>2, <2>3, <2>4 DEF DraftInv, SymbolOk
<1>3. ASSUME NEW t \in Token, TypeSymbol(t) PROVE DraftInv'
  <2> DEFINE p == [params EXCEPT !.symbol = t, !.quote = "USDT"]
  <2>1. ChangeParams(p) /\ category # "crypto" /\ lookup' = lookup
    BY <1>3 DEF TypeSymbol
  <2>2. DOMAIN p = ParamFields
    BY DEF DraftInv, SymbolOk
  <2> HIDE DEF p
  <2>3. params' = p /\ UNCHANGED <<category, token, late>>
    BY <2>1 DEF ChangeParams, SetParams, entries
  <2> QED  BY <2>1, <2>2, <2>3 DEF DraftInv, SymbolOk
<1>4. ASSUME NEW p \in Place, PasteLongLink(p) \/ PasteShortLink(p) PROVE DraftInv'
  BY <1>4 DEF PasteLongLink, PasteShortLink, ChangeParams, SetParams, entries,
     DraftInv, SymbolOk, ParamFields
<1> QED  BY <1>1, <1>2, <1>3, <1>4

\* A location that is found is set over the parameters, and noted if they are others.
LEMMA LocationKeeps ==
  ASSUME DraftInv, LookUp \/ LocationFound \/ LookupFails
  PROVE  DraftInv'
<1>1. CASE LookUp
  BY <1>1 DEF LookUp, entries, DraftInv, SymbolOk
<1>2. CASE LocationFound
  BY <1>2 DEF LocationFound, SetParams, entries, DraftInv, SymbolOk, ParamFields
<1>3. CASE LookupFails
  BY <1>3 DEF LookupFails, entries, DraftInv, SymbolOk
<1> QED  BY <1>1, <1>2, <1>3

LEMMA DraftNextInv == DraftInv /\ [DraftNext]_draftVars => DraftInv'
<1> SUFFICES ASSUME DraftInv, [DraftNext]_draftVars PROVE DraftInv'
  OBVIOUS
<1>1. CASE \/ GoNext \/ GoBack \/ \E t \in Token : PickChart(t)
           \/ Enter("question") \/ Enter("timeline") \/ CloseTimePasses
           \/ UNCHANGED draftVars
  BY <1>1 DEF GoNext, GoBack, PickChart, Enter, CloseTimePasses, draftVars, entries,
     DraftInv, SymbolOk
<1> QED  BY <1>1, FollowKeeps, PickerKeeps, LocationKeeps DEF DraftNext

\* Through all changes of category, token, source and price source a token's market
\* is resolved by that token's price, unless a location was set over newer parameters.
THEOREM SymbolRight == DraftSpec => []SymbolIsOfToken
<1>1. DraftInv => SymbolIsOfToken
  BY DEF DraftInv, SymbolOk, SymbolIsOfToken
<1> QED  BY <1>1, DraftInitInv, DraftNextInv, PTL DEF DraftSpec

-----------------------------------------------------------------------------
(* The variables of the draft.                                             *)

LEMMA TypesOfCategories ==
  /\ \A c \in Category : TypeOf[c] \in Types
  /\ "price_above" \in Types
  /\ \A type \in Types : NoParams(type) \in Params
<1>1. \A c \in DOMAIN TypeOf : TypeOf[c] \in Types
  BY DEF Types
<1>2. /\ \A c \in Category : TypeOf[c] \in Types
      /\ TypeOf["crypto"] = "price_above" /\ "crypto" \in Category
  BY <1>1, DraftConstants DEF TypeOf
<1> QED  BY <1>2 DEF NoParams, Params

\* Whatever is changed, the parameters stay parameters, and the chart one of a token.
LEMMA ParamsSet ==
  ASSUME DraftTypeOK, NEW c, NEW p \in Params, SetParams(c, p)
  PROVE  params' \in Params /\ chart' \in Token
<1>1. ChartFor(c, p) \in Token
  BY DraftConstants DEF ChartFor, DraftTypeOK, Params
<1> QED  BY <1>1 DEF SetParams, DraftTypeOK

LEMMA FollowTyped ==
  ASSUME DraftTypeOK, NEW c \in Category, NEW t \in Token
  PROVE  Follow(c, t) \in Params
<1> DEFINE p == [params EXCEPT !.type = TypeOf[c]]
           q == [p EXCEPT !.symbol = IF c = "crypto" THEN t ELSE @]
           r == [q EXCEPT !.quote = IF c = "crypto" THEN "USDT" ELSE @]
<1>1. p \in Params
  BY TypesOfCategories DEF DraftTypeOK, Params
<1> HIDE DEF p
<1>2. q \in Params
  BY <1>1 DEF Params
<1> HIDE DEF q
<1>3. r \in Params
  BY <1>2 DEF Params
<1> QED  BY <1>3 DEF Follow, p, q

LEMMA PickerTyped ==
  ASSUME DraftTypeOK,
         \/ \E f \in Field : FillField(f)
         \/ \E src \in {"binance", "coingecko", "chainlink"} : PickPriceSource(src)
         \/ \E t \in Token : TypeSymbol(t)
         \/ \E p \in Place : PasteLongLink(p) \/ PasteShortLink(p)
  PROVE  \E p \in Params : ChangeParams(p) /\ UNCHANGED lookup
<1>1. params \in Params
  BY DEF DraftTypeOK
<1>2. ASSUME NEW f \in Field, FillField(f)
      PROVE  \E p \in Params : ChangeParams(p) /\ UNCHANGED lookup
  <2>1. [params EXCEPT !.filled = @ \cup {f}] \in Params
    BY <1>1 DEF Params
  <2> QED  BY <1>2, <2>1 DEF FillField
<1>3. ASSUME NEW src \in {"binance", "coingecko", "chainlink"}, PickPriceSource(src)
      PROVE  \E p \in Params : ChangeParams(p) /\ UNCHANGED lookup
  <2> DEFINE base == IF category = "crypto" THEN token
                     ELSE IF params.symbol = Nothing THEN Bitcoin ELSE params.symbol
             p == [params EXCEPT !.source = src]
             q == [p EXCEPT !.symbol = base]
             r == [q EXCEPT !.quote = IF src = "chainlink" THEN "_USD"
                                      ELSE IF category = "crypto" THEN "USDT" ELSE @]
  <2>1. base \in Token
    BY <1>1, DraftConstants DEF DraftTypeOK, Params
  <2> HIDE DEF base
  <2>2. p \in Params
    BY <1>1 DEF Params
  <2> HIDE DEF p
  <2>3. q \in Params
    BY <2>1, <2>2 DEF Params
  <2> HIDE DEF q
  <2>4. r \in Params
    BY <2>3 DEF Params
  <2>5. ChangeParams(r) /\ UNCHANGED lookup
    BY <1>3 DEF PickPriceSource, base, p, q
  <2> QED  BY <2>4, <2>5
<1>4. ASSUME NEW t \in Token, TypeSymbol(t)
      PROVE  \E p \in Params : ChangeParams(p) /\ UNCHANGED lookup
  <2> DEFINE p == [params EXCEPT !.symbol = t]
             q == [p EXCEPT !.quote = "USDT"]
  <2>1. p \in Params
    BY <1>1 DEF Params
  <2> HIDE DEF p
  <2>2. q \in Params
    BY <2>1 DEF Params
  <2>3. ChangeParams(q) /\ UNCHANGED lookup
    BY <1>4 DEF TypeSymbol, p
  <2> QED  BY <2>2, <2>3
<1>5. ASSUME NEW place \in Place, PasteLongLink(place) \/ PasteShortLink(place)
      PROVE  \E p \in Params : ChangeParams(p) /\ UNCHANGED lookup
  <2>1. /\ [params EXCEPT !.coords = place] \in Params
        /\ [params EXCEPT !.link = place] \in Params
    BY <1>1 DEF Params
  <2> QED  BY <1>5, <2>1 DEF PasteLongLink, PasteShortLink
<1> QED  BY <1>2, <1>3, <1>4, <1>5

LEMMA DraftStep == DraftTypeOK /\ [DraftNext]_draftVars => DraftTypeOK'
<1> SUFFICES ASSUME DraftTypeOK, [DraftNext]_draftVars PROVE DraftTypeOK'
  OBVIOUS
<1>1. CASE GoNext \/ GoBack
  <2>1. step' \in 1 .. 6
    BY <1>1 DEF GoNext, GoBack, TotalSteps, DraftTypeOK
  <2>2. UNCHANGED <<entries, params, chart, lookup, late>>
    BY <1>1 DEF GoNext, GoBack
  <2> QED  BY <2>1, <2>2 DEF entries, DraftTypeOK
<1>2. ASSUME NEW c \in Category, PickCategory(c) PROVE DraftTypeOK'
  <2>1. Follow(c, token) \in Params
    BY FollowTyped DEF DraftTypeOK
  <2>2. params' \in Params /\ chart' \in Token
    BY <1>2, <2>1, ParamsSet DEF PickCategory
  <2> QED  BY <1>2, <2>2 DEF PickCategory, DraftTypeOK
<1>3. ASSUME NEW t \in Token, PickToken(t) PROVE DraftTypeOK'
  <2>1. Follow(category, t) \in Params
    BY FollowTyped DEF DraftTypeOK
  <2>2. params' \in Params /\ chart' \in Token
    BY <1>3, <2>1, ParamsSet DEF PickToken
  <2> QED  BY <1>3, <2>2 DEF PickToken, DraftTypeOK
<1>4. ASSUME NEW type \in Types, PickSource(type) PROVE DraftTypeOK'
  <2>1. params' \in Params /\ chart' \in Token
    BY <1>4, TypesOfCategories, ParamsSet DEF PickSource
  <2> QED  BY <1>4, <2>1 DEF PickSource, entries, DraftTypeOK
<1>5. ASSUME NEW p \in Params, ChangeParams(p), UNCHANGED lookup PROVE DraftTypeOK'
  <2>1. params' \in Params /\ chart' \in Token
    BY <1>5, ParamsSet DEF ChangeParams
  <2> QED  BY <1>5, <2>1 DEF ChangeParams, entries, DraftTypeOK
<1>6. CASE LocationFound
  <2>1. lookup \in Params
    BY <1>6 DEF LocationFound, DraftTypeOK
  <2>2. [lookup EXCEPT !.coords = lookup.link] \in Params
    BY <2>1 DEF Params
  <2>3. params' \in Params /\ chart' \in Token
    BY <1>6, <2>2, ParamsSet DEF LocationFound
  <2> QED  BY <1>6, <2>3 DEF LocationFound, entries, DraftTypeOK
<1>7. CASE \/ \E t \in Token : PickChart(t)
           \/ LookUp \/ LookupFails \/ Enter("question") \/ Enter("timeline")
           \/ CloseTimePasses \/ UNCHANGED draftVars
  BY <1>7 DEF PickChart, LookUp, LookupFails, Enter, CloseTimePasses, draftVars, entries,
     DraftTypeOK
<1> QED  BY <1>1, <1>2, <1>3, <1>4, <1>5, <1>6, <1>7, PickerTyped DEF DraftNext

LEMMA DraftTyped == DraftSpec => []DraftTypeOK
<1>1. DraftInit => DraftTypeOK
  <2> SUFFICES ASSUME DraftInit PROVE DraftTypeOK
    OBVIOUS
  <2>1. token \in Token /\ NoParams("price_above") \in Params
    BY DraftConstants, TypesOfCategories DEF DraftInit
  <2>2. params \in Params
    BY <2>1 DEF DraftInit, Params
  <2>3. step \in 1 .. 6 /\ category \in Category
    BY DraftConstants DEF DraftInit
  <2> QED  BY <2>1, <2>2, <2>3 DEF DraftInit, DraftTypeOK
<1> QED  BY <1>1, DraftStep, PTL DEF DraftSpec

-----------------------------------------------------------------------------
(* The filters.                                                            *)

\* The inductive invariant: the address is the filters', or on its way there; the
\* query is the text that settled last, unless it was set otherwise since.
FilterInv == /\ DOMAIN filters = {"q", "choice"}
             /\ filters = [q |-> filters.q, choice |-> filters.choice]
             /\ (going = {} /\ url = filters) \/ going = {filters}
             /\ outside \/ filters.q = debounced

LEMMA FilterInitInv == FilterInit => FilterInv
BY DEF FilterInit, FilterInv, Filters

LEMMA FilterNextInv == FilterInv /\ [FilterNext]_filterVars => FilterInv'
<1> SUFFICES ASSUME FilterInv, [FilterNext]_filterVars PROVE FilterInv'
  OBVIOUS
<1>1. CASE Debounce
  BY <1>1 DEF Debounce, SetFilters, FilterInv
<1>2. ASSUME NEW c \in Choice, Choose(c) PROVE FilterInv'
  BY <1>2 DEF Choose, SetFilters, FilterInv
<1>3. ASSUME NEW c, Clear(c) PROVE FilterInv'
  BY <1>3 DEF Clear, SetFilters, FilterInv
<1>4. CASE Arrive
  BY <1>4 DEF Arrive, FilterInv
<1>5. ASSUME NEW u \in Filters, FollowLink(u) PROVE FilterInv'
  BY <1>5 DEF FollowLink, Filters, FilterInv
<1>6. CASE (\E t \in Text : TypeText(t)) \/ UNCHANGED filterVars
  BY <1>6 DEF TypeText, filterVars, FilterInv
<1> QED
  BY <1>1, <1>2, <1>3, <1>4, <1>5, <1>6 DEF FilterNext, RemoveQuery, ClearAll

\* Whatever is typed, chosen, cleared and followed, at rest the address names what is
\* shown, and the box shows the query, unless that came from elsewhere.
THEOREM RestRight == FilterSpec => []RestIsConsistent
<1>1. FilterInv => RestIsConsistent
  BY DEF FilterInv, RestIsConsistent
<1> QED  BY <1>1, FilterInitInv, FilterNextInv, PTL DEF FilterSpec

LEMMA FilterStep == FilterTypeOK /\ [FilterNext]_filterVars => FilterTypeOK'
<1> SUFFICES ASSUME FilterTypeOK, [FilterNext]_filterVars PROVE FilterTypeOK'
  OBVIOUS
<1>1. CASE Debounce
  <2>1. [filters EXCEPT !.q = box] \in Filters
    BY DEF FilterTypeOK, Filters
  <2> QED  BY <1>1, <2>1 DEF Debounce, SetFilters, FilterTypeOK
<1>2. ASSUME NEW c \in Choice, Choose(c) PROVE FilterTypeOK'
  <2>1. [filters EXCEPT !.choice = c] \in Filters
    BY DEF FilterTypeOK, Filters
  <2> QED  BY <1>2, <2>1 DEF Choose, SetFilters, FilterTypeOK
<1>3. ASSUME NEW c \in Choice, Clear(c) PROVE FilterTypeOK'
  <2>1. [q |-> Empty, choice |-> c] \in Filters
    BY FilterConstants DEF Filters
  <2> QED  BY <1>3, <2>1, FilterConstants DEF Clear, SetFilters, FilterTypeOK
<1>4. CASE RemoveQuery \/ ClearAll
  <2>1. filters.choice \in Choice /\ Default \in Choice
    BY FilterConstants DEF FilterTypeOK, Filters
  <2> QED  BY <1>3, <1>4, <2>1 DEF RemoveQuery, ClearAll
<1>5. CASE Arrive
  BY <1>5, FilterConstants DEF Arrive, BoxAfter, FilterTypeOK
<1>6. ASSUME NEW u \in Filters, FollowLink(u) PROVE FilterTypeOK'
  <2>1. links' \in 0 .. MaxLinks
    BY <1>6, FilterConstants DEF FollowLink, FilterTypeOK
  <2>2. box' \in Text
    BY <1>6, FilterConstants DEF FollowLink, BoxAfter, FilterTypeOK
  <2>3. outside' \in BOOLEAN
    BY <1>6 DEF FollowLink, FilterTypeOK
  <2> QED  BY <1>6, <2>1, <2>2, <2>3 DEF FollowLink, FilterTypeOK
<1>7. CASE (\E t \in Text : TypeText(t)) \/ UNCHANGED filterVars
  BY <1>7 DEF TypeText, filterVars, FilterTypeOK
<1> QED  BY <1>1, <1>2, <1>4, <1>5, <1>6, <1>7 DEF FilterNext

LEMMA FilterTyped == FilterSpec => []FilterTypeOK
<1>1. FilterInit => FilterTypeOK
  <2> SUFFICES ASSUME FilterInit PROVE FilterTypeOK
    OBVIOUS
  <2>1. filters \in Filters /\ filters.q \in Text
    BY DEF FilterInit, Filters
  <2>2. links \in 0 .. MaxLinks
    BY FilterConstants DEF FilterInit
  <2> QED  BY <2>1, <2>2 DEF FilterInit, FilterTypeOK
<1> QED  BY <1>1, FilterStep, PTL DEF FilterSpec

-----------------------------------------------------------------------------
(* The deployment.                                                         *)

LEMMA ListTail ==
  ASSUME NEW s, IsList(s), s # <<>>
  PROVE  /\ Len(s) \in Nat /\ Len(s) > 0 /\ DOMAIN s = 1 .. Len(s)
         /\ Head(s) = s[1]
         /\ IsList(Tail(s)) /\ DOMAIN Tail(s) = 1 .. Len(s) - 1
         /\ \A i \in 1 .. Len(s) - 1 : Tail(s)[i] = s[i + 1]
<1>1. PICK S : s \in Seq(S)
  BY DEF IsList
<1>2. Len(s) \in Nat /\ Len(s) > 0 /\ DOMAIN s = 1 .. Len(s)
  BY <1>1, EmptySeq, LenProperties
<1>3. Tail(s) \in Seq(S) /\ Len(Tail(s)) = Len(s) - 1
  BY <1>1, HeadTailProperties
<1>4. DOMAIN Tail(s) = 1 .. Len(s) - 1
  BY <1>3, LenProperties
<1>5. Head(s) = s[1] /\ \A i \in 1 .. Len(s) - 1 : Tail(s)[i] = s[i + 1]
  BY <1>1, <1>2
<1> QED  BY <1>2, <1>3, <1>4, <1>5 DEF IsList

LEMMA ListConcat ==
  ASSUME NEW s, NEW t, IsList(s), IsList(t)
  PROVE  /\ IsList(s \o t)
         /\ Len(s) \in Nat /\ DOMAIN s = 1 .. Len(s)
         /\ Len(t) \in Nat /\ DOMAIN t = 1 .. Len(t)
         /\ DOMAIN (s \o t) = 1 .. Len(s) + Len(t)
         /\ \A i \in 1 .. Len(s) : (s \o t)[i] = s[i]
         /\ \A i \in 1 .. Len(t) : (s \o t)[Len(s) + i] = t[i]
<1>1. PICK S, T : s \in Seq(S) /\ t \in Seq(T)
  BY DEF IsList
<1> DEFINE U == S \cup T
<1>2. s \in Seq(U) /\ t \in Seq(U)
  BY <1>1, SeqMonotonic
<1> HIDE DEF U
<1>3. /\ s \o t \in Seq(U) /\ Len(s \o t) = Len(s) + Len(t)
      /\ \A i \in 1 .. Len(s) + Len(t) :
           (s \o t)[i] = IF i <= Len(s) THEN s[i] ELSE t[i - Len(s)]
  BY <1>2, ConcatProperties
<1>4. /\ Len(s) \in Nat /\ DOMAIN s = 1 .. Len(s)
      /\ Len(t) \in Nat /\ DOMAIN t = 1 .. Len(t)
      /\ DOMAIN (s \o t) = 1 .. Len(s) + Len(t)
  BY <1>2, <1>3, LenProperties
<1> QED  BY <1>3, <1>4 DEF IsList

\* In the transactions q, wire w is set, the last time to v; or it is not set.
Sets(t, w) == w \in DOMAIN t.wires
LastSet(q, w, v) == \E i \in DOMAIN q : /\ Sets(q[i], w) /\ q[i].wires[w] = v
                                        /\ \A j \in DOMAIN q : j > i => ~Sets(q[j], w)
NotSet(q, w) == \A i \in DOMAIN q : ~Sets(q[i], w)

\* If what is sent and what is left are mined, w will be v.
WillBe(w, v) ==
  \/ LastSet(left, w, v)
  \/ NotSet(left, w) /\ LastSet(pool, w, v)
  \/ NotSet(left, w) /\ NotSet(pool, w) /\ wire[w] = v

\* Nothing sets the workflow of the consumer to anything else.
OneWorkflow(q) == \A i \in DOMAIN q : Sets(q[i], "creWorkflow") =>
                    q[i].wires["creWorkflow"] = "CREWorkflow"

\* PathsAreOpen, of what the wires will be after script s.
WillBeOpen(s) ==
  /\ WillBe("authorizedCallback", "Wallet")
  /\ WillBe("creWorkflow", "CREWorkflow") \/ wire["creWorkflow"] = "CREWorkflow"
  /\ WillBe("resolver", "CREWorkflow")
  /\ s # "functions" => WillBe("oracle", "OracleConsumer")
  /\ s = "functions" => /\ WillBe("oracle", "FunctionsConsumer")
                        /\ WillBe("creAutomation", "OracleConsumer")
  /\ s \in {"local", "functions", "plain"} =>
       /\ WillBe("authorizedAutomation", "AutomationResolver")
       /\ WillBe("oracleConsumer", "OracleConsumer")
       /\ WillBe("registry", "Wallet") \/ WillBe("registry", "Registry")

\* The inductive invariant.
DeployInv ==
  /\ IsList(left) /\ IsList(pool)
  /\ OneWorkflow(left) /\ OneWorkflow(pool)
  /\ wire["creWorkflow"] \in {"None", "CREWorkflow"}
  /\ script = "none" => left = <<>>
  /\ script # "none" => finished = "none" /\ WillBeOpen(script)
  /\ finished # "none" => WillBeOpen(finished)

LEMMA NothingSet == \A w : NotSet(<<>>, w) /\ OneWorkflow(<<>>)
BY EmptyList DEF NotSet, OneWorkflow

LEMMA DeployInitInv == DeployInit => DeployInv
BY EmptyList, NothingSet DEF DeployInit, DeployInv, Unwired, Wires

-----------------------------------------------------------------------------
\* What two lists set, one after the other.
LEMMA SetByConcat ==
  ASSUME NEW s, NEW t, IsList(s), IsList(t), NEW w
  PROVE  /\ NotSet(s, w) /\ NotSet(t, w) => NotSet(s \o t, w)
         /\ \A v : LastSet(t, w, v) => LastSet(s \o t, w, v)
         /\ \A v : LastSet(s, w, v) /\ NotSet(t, w) => LastSet(s \o t, w, v)
         /\ OneWorkflow(s) /\ OneWorkflow(t) => OneWorkflow(s \o t)
<1> DEFINE q == s \o t
<1>1. /\ Len(s) \in Nat /\ DOMAIN s = 1 .. Len(s)
      /\ Len(t) \in Nat /\ DOMAIN t = 1 .. Len(t)
      /\ DOMAIN q = 1 .. Len(s) + Len(t)
      /\ \A i \in 1 .. Len(s) : q[i] = s[i]
      /\ \A i \in 1 .. Len(t) : q[Len(s) + i] = t[i]
  BY ListConcat
<1>2. ASSUME NEW i \in DOMAIN q, i \notin DOMAIN s
      PROVE  i - Len(s) \in DOMAIN t /\ q[i] = t[i - Len(s)]
  BY <1>1, <1>2
<1> HIDE DEF q
<1>3. NotSet(s, w) /\ NotSet(t, w) => NotSet(q, w)
  BY <1>1, <1>2 DEF NotSet
<1>4. ASSUME NEW v, LastSet(t, w, v) PROVE LastSet(q, w, v)
  <2>1. PICK i \in DOMAIN t : /\ Sets(t[i], w) /\ t[i].wires[w] = v
                              /\ \A j \in DOMAIN t : j > i => ~Sets(t[j], w)
    BY <1>4 DEF LastSet
  <2>2. Len(s) + i \in DOMAIN q /\ q[Len(s) + i] = t[i]
    BY <1>1, <2>1
  <2>3. ASSUME NEW j \in DOMAIN q, j > Len(s) + i PROVE ~Sets(q[j], w)
    <3>1. j - Len(s) \in DOMAIN t /\ q[j] = t[j - Len(s)] /\ j - Len(s) > i
      BY <1>1, <1>2, <2>1, <2>3
    <3> QED  BY <2>1, <3>1
  <2> QED  BY <2>1, <2>2, <2>3 DEF LastSet
<1>5. ASSUME NEW v, LastSet(s, w, v), NotSet(t, w) PROVE LastSet(q, w, v)
  <2>1. PICK i \in DOMAIN s : /\ Sets(s[i], w) /\ s[i].wires[w] = v
                              /\ \A j \in DOMAIN s : j > i => ~Sets(s[j], w)
    BY <1>5 DEF LastSet
  <2>2. i \in DOMAIN q /\ q[i] = s[i]
    BY <1>1, <2>1
  <2>3. ASSUME NEW j \in DOMAIN q, j > i PROVE ~Sets(q[j], w)
    <3>1. CASE j \in DOMAIN s
      BY <1>1, <2>1, <2>3, <3>1
    <3>2. CASE j \notin DOMAIN s
      BY <1>2, <1>5, <3>2 DEF NotSet
    <3> QED  BY <3>1, <3>2
  <2> QED  BY <2>1, <2>2, <2>3 DEF LastSet
<1>6. OneWorkflow(s) /\ OneWorkflow(t) => OneWorkflow(q)
  BY <1>1, <1>2 DEF OneWorkflow
<1> QED  BY <1>3, <1>4, <1>5, <1>6 DEF q

-----------------------------------------------------------------------------
(* What the scripts send.                                                  *)

LEMMA TupleList == /\ \A a : IsList(<<a>>)
                   /\ \A a, b, c : IsList(<<a, b, c>>)
                   /\ \A a, b, c, d : IsList(<<a, b, c, d>>)
                   /\ \A a, b, c, d, e : IsList(<<a, b, c, d, e>>)
<1>1. ASSUME NEW a PROVE IsList(<<a>>)
  <2>1. <<a>> \in Seq({a})
    OBVIOUS
  <2> QED  BY <2>1 DEF IsList
<1>2. ASSUME NEW a, NEW b, NEW c PROVE IsList(<<a, b, c>>)
  <2>1. <<a, b, c>> \in Seq({a, b, c})
    OBVIOUS
  <2> QED  BY <2>1 DEF IsList
<1>3. ASSUME NEW a, NEW b, NEW c, NEW d PROVE IsList(<<a, b, c, d>>)
  <2>1. <<a, b, c, d>> \in Seq({a, b, c, d})
    OBVIOUS
  <2> QED  BY <2>1 DEF IsList
<1>4. ASSUME NEW a, NEW b, NEW c, NEW d, NEW e PROVE IsList(<<a, b, c, d, e>>)
  <2>1. <<a, b, c, d, e>> \in Seq({a, b, c, d, e})
    OBVIOUS
  <2> QED  BY <2>1 DEF IsList
<1> QED  BY <1>1, <1>2, <1>3, <1>4

LEMMA ConstructorSets ==
  /\ \A w : Sets(PublicMarket, w) <=> w = "resolver"
  /\ \A o, w : Sets(Workflow(o), w) <=> w = "oracle"
  /\ \A w : Sets(Consumer, w) <=> w = "creWorkflow"
  /\ Consumer.wires["creWorkflow"] = "CREWorkflow"
  /\ \A r, w : Sets(Resolver(r), w) <=> w \in {"oracleConsumer", "registry"}
  /\ \A r : /\ Resolver(r).wires["oracleConsumer"] = "OracleConsumer"
            /\ Resolver(r).wires["registry"] = r
  /\ \A w : ~Sets(Functions, w)
<1>1. \A w : ~Sets(Functions, w)
  BY EmptyList DEF Sets, Functions, Waiting
<1> QED  BY <1>1 DEF Sets, PublicMarket, Workflow, Consumer, Resolver, Waiting

\* A call, that is waited for or not.
IsCall(t, w, v) == (\A x : Sets(t, x) <=> x = w) /\ t.wires[w] = v

LEMMA CallSets ==
  /\ IsCall(Tx(SetResolver), "resolver", "CREWorkflow")
  /\ IsCall(Waiting(SetResolver), "resolver", "CREWorkflow")
  /\ \A o : IsCall(Tx(SetOracle(o)), "oracle", o) /\ IsCall(Waiting(SetOracle(o)), "oracle", o)
  /\ IsCall(Tx(SetCallback), "authorizedCallback", "Wallet")
  /\ IsCall(Waiting(SetCallback), "authorizedCallback", "Wallet")
  /\ IsCall(Tx(SetAutomation), "authorizedAutomation", "AutomationResolver")
  /\ IsCall(Waiting(SetAutomation), "authorizedAutomation", "AutomationResolver")
  /\ IsCall(Tx([creAutomation |-> "OracleConsumer"]), "creAutomation", "OracleConsumer")
BY DEF IsCall, Sets, Tx, Waiting, SetResolver, SetOracle, SetCallback, SetAutomation

LEMMA ContractsSet ==
  ASSUME NEW r
  PROVE  /\ IsList(Contracts(r)) /\ OneWorkflow(Contracts(r))
         /\ LastSet(Contracts(r), "creWorkflow", "CREWorkflow")
         /\ LastSet(Contracts(r), "oracleConsumer", "OracleConsumer")
         /\ LastSet(Contracts(r), "registry", r)
<1> DEFINE a == PublicMarket
           b == Workflow("Wallet")
           c == Consumer
           d == Resolver(r)
           q == <<a, b, c, d>>
<1>1. Contracts(r) = q
  BY DEF Contracts
<1>2. DOMAIN q = 1 .. 4 /\ q[1] = a /\ q[2] = b /\ q[3] = c /\ q[4] = d
  OBVIOUS
<1>3. /\ \A w : Sets(a, w) <=> w = "resolver"
      /\ \A w : Sets(b, w) <=> w = "oracle"
      /\ \A w : Sets(c, w) <=> w = "creWorkflow"
      /\ c.wires["creWorkflow"] = "CREWorkflow"
      /\ \A w : Sets(d, w) <=> w \in {"oracleConsumer", "registry"}
      /\ d.wires["oracleConsumer"] = "OracleConsumer" /\ d.wires["registry"] = r
  BY ConstructorSets
<1>4. IsList(q)
  BY TupleList
<1> HIDE DEF a, b, c, d, q
<1>5. OneWorkflow(q)
  BY <1>2, <1>3 DEF OneWorkflow
<1>6. LastSet(q, "creWorkflow", "CREWorkflow")
  BY <1>2, <1>3 DEF LastSet
<1>7. LastSet(q, "oracleConsumer", "OracleConsumer") /\ LastSet(q, "registry", r)
  BY <1>2, <1>3 DEF LastSet
<1> QED  BY <1>1, <1>4, <1>5, <1>6, <1>7

\* What the calls after the constructors leave alone.
NoContract(q) == \A w \in {"creWorkflow", "oracleConsumer", "registry"} : NotSet(q, w)

LEMMA FunctionsSet ==
  /\ IsList(WithFunctions) /\ OneWorkflow(WithFunctions) /\ NoContract(WithFunctions)
  /\ NotSet(WithFunctions, "resolver")
  /\ LastSet(WithFunctions, "oracle", "FunctionsConsumer")
  /\ LastSet(WithFunctions, "creAutomation", "OracleConsumer")
  /\ LastSet(WithFunctions, "authorizedCallback", "Wallet")
  /\ LastSet(WithFunctions, "authorizedAutomation", "AutomationResolver")
<1> DEFINE a == Functions
           b == Tx(SetOracle("FunctionsConsumer"))
           c == Tx([creAutomation |-> "OracleConsumer"])
           d == Tx(SetCallback)
           e == Tx(SetAutomation)
           q == <<a, b, c, d, e>>
<1>1. WithFunctions = q
  BY DEF WithFunctions
<1>2. /\ DOMAIN q = 1 .. 5
      /\ q[1] = a /\ q[2] = b /\ q[3] = c /\ q[4] = d /\ q[5] = e
  OBVIOUS
<1>3. /\ \A w : ~Sets(a, w)
      /\ IsCall(b, "oracle", "FunctionsConsumer")
      /\ IsCall(c, "creAutomation", "OracleConsumer")
      /\ IsCall(d, "authorizedCallback", "Wallet")
      /\ IsCall(e, "authorizedAutomation", "AutomationResolver")
  BY ConstructorSets, CallSets
<1>4. IsList(q)
  BY TupleList
<1> HIDE DEF a, b, c, d, e, q
<1>5. OneWorkflow(q) /\ NoContract(q) /\ NotSet(q, "resolver")
  BY <1>2, <1>3 DEF OneWorkflow, NoContract, NotSet, IsCall
<1>6. LastSet(q, "oracle", "FunctionsConsumer") /\ LastSet(q, "creAutomation", "OracleConsumer")
  BY <1>2, <1>3 DEF LastSet, IsCall
<1>7. /\ LastSet(q, "authorizedCallback", "Wallet")
      /\ LastSet(q, "authorizedAutomation", "AutomationResolver")
  BY <1>2, <1>3 DEF LastSet, IsCall
<1> QED  BY <1>1, <1>4, <1>5, <1>6, <1>7

LEMMA NoFunctionsSet ==
  /\ IsList(WithoutFunctions) /\ OneWorkflow(WithoutFunctions) /\ NoContract(WithoutFunctions)
  /\ NotSet(WithoutFunctions, "resolver")
  /\ LastSet(WithoutFunctions, "oracle", "OracleConsumer")
  /\ LastSet(WithoutFunctions, "authorizedCallback", "Wallet")
  /\ LastSet(WithoutFunctions, "authorizedAutomation", "AutomationResolver")
<1> DEFINE a == Waiting(SetOracle("OracleConsumer"))
           b == Waiting(SetCallback)
           c == Waiting(SetAutomation)
           q == <<a, b, c>>
<1>1. WithoutFunctions = q
  BY DEF WithoutFunctions
<1>2. DOMAIN q = 1 .. 3 /\ q[1] = a /\ q[2] = b /\ q[3] = c
  OBVIOUS
<1>3. /\ IsCall(a, "oracle", "OracleConsumer")
      /\ IsCall(b, "authorizedCallback", "Wallet")
      /\ IsCall(c, "authorizedAutomation", "AutomationResolver")
  BY CallSets
<1>4. IsList(q)
  BY TupleList
<1> HIDE DEF a, b, c, q
<1>5. OneWorkflow(q) /\ NoContract(q) /\ NotSet(q, "resolver")
  BY <1>2, <1>3 DEF OneWorkflow, NoContract, NotSet, IsCall
<1>6. /\ LastSet(q, "oracle", "OracleConsumer")
      /\ LastSet(q, "authorizedCallback", "Wallet")
      /\ LastSet(q, "authorizedAutomation", "AutomationResolver")
  BY <1>2, <1>3 DEF LastSet, IsCall
<1> QED  BY <1>1, <1>4, <1>5, <1>6

LEMMA ResolverSet ==
  LET q == <<Waiting(SetResolver)>>
  IN  /\ IsList(q) /\ OneWorkflow(q) /\ NoContract(q)
      /\ LastSet(q, "resolver", "CREWorkflow")
<1> DEFINE a == Waiting(SetResolver)
           q == <<a>>
<1>1. DOMAIN q = 1 .. 1 /\ q[1] = a
  OBVIOUS
<1>2. IsCall(a, "resolver", "CREWorkflow") /\ IsList(q)
  BY CallSets, TupleList
<1> HIDE DEF a, q
<1>3. OneWorkflow(q) /\ NoContract(q) /\ LastSet(q, "resolver", "CREWorkflow")
  BY <1>1, <1>2 DEF OneWorkflow, NoContract, NotSet, LastSet, IsCall
<1> QED  BY <1>2, <1>3 DEF a, q

\* WillBeOpen, of what a plan sets.
PlanOpens(s, q) ==
  /\ IsList(q) /\ OneWorkflow(q)
  /\ LastSet(q, "authorizedCallback", "Wallet")
  /\ s # "complete" => LastSet(q, "creWorkflow", "CREWorkflow")
  /\ LastSet(q, "resolver", "CREWorkflow")
  /\ s # "functions" => LastSet(q, "oracle", "OracleConsumer")
  /\ s = "functions" => /\ LastSet(q, "oracle", "FunctionsConsumer")
                        /\ LastSet(q, "creAutomation", "OracleConsumer")
  /\ s \in {"local", "functions", "plain"} =>
       /\ LastSet(q, "authorizedAutomation", "AutomationResolver")
       /\ LastSet(q, "oracleConsumer", "OracleConsumer")
       /\ LastSet(q, "registry", "Wallet") \/ LastSet(q, "registry", "Registry")

LEMMA LocalOpens == PlanOpens("local", Plan["local"])
<1> DEFINE a == Tx(SetOracle("OracleConsumer"))
           b == Tx(SetResolver)
           c == Tx(SetCallback)
           d == Tx(SetAutomation)
           q == <<a, b, c, d>>
<1>1. Plan["local"] = Contracts("Wallet") \o q
  BY DEF Plan
<1>2. DOMAIN q = 1 .. 4 /\ q[1] = a /\ q[2] = b /\ q[3] = c /\ q[4] = d
  OBVIOUS
<1>3. /\ IsCall(a, "oracle", "OracleConsumer")
      /\ IsCall(b, "resolver", "CREWorkflow")
      /\ IsCall(c, "authorizedCallback", "Wallet")
      /\ IsCall(d, "authorizedAutomation", "AutomationResolver")
  BY CallSets
<1>4. IsList(q)
  BY TupleList
<1> HIDE DEF a, b, c, d, q
<1>5. OneWorkflow(q) /\ NoContract(q)
  BY <1>2, <1>3 DEF OneWorkflow, NoContract, NotSet, IsCall
<1>6. LastSet(q, "oracle", "OracleConsumer") /\ LastSet(q, "resolver", "CREWorkflow")
  BY <1>2, <1>3 DEF LastSet, IsCall
<1>7. /\ LastSet(q, "authorizedCallback", "Wallet")
      /\ LastSet(q, "authorizedAutomation", "AutomationResolver")
  BY <1>2, <1>3 DEF LastSet, IsCall
<1>8. IsList(Contracts("Wallet") \o q)
  BY <1>4, ContractsSet, ListConcat
<1> QED
  BY <1>1, <1>4, <1>5, <1>6, <1>7, <1>8, ContractsSet, SetByConcat DEF PlanOpens, NoContract

\* The two plans of deployWithFunctions.js.
LEMMA RegistryOpens ==
  PlanOpens("functions", Plan["functions"]) /\ PlanOpens("plain", Plan["plain"])
<1> DEFINE r == <<Waiting(SetResolver)>>
           q == Contracts("Registry") \o r
<1>1. IsList(r) /\ OneWorkflow(r) /\ NoContract(r) /\ LastSet(r, "resolver", "CREWorkflow")
  BY ResolverSet
<1>2. /\ Plan["functions"] = q \o WithFunctions
      /\ Plan["plain"] = q \o WithoutFunctions
  BY DEF Plan
<1> HIDE DEF r
<1>3. IsList(q) /\ OneWorkflow(q)
  BY <1>1, ContractsSet, ListConcat, SetByConcat
<1>4. /\ LastSet(q, "creWorkflow", "CREWorkflow")
      /\ LastSet(q, "oracleConsumer", "OracleConsumer")
      /\ LastSet(q, "registry", "Registry")
      /\ LastSet(q, "resolver", "CREWorkflow")
  BY <1>1, ContractsSet, SetByConcat DEF NoContract
<1> HIDE DEF q
<1>5. PlanOpens("functions", q \o WithFunctions)
  <2>1. IsList(q \o WithFunctions) /\ OneWorkflow(q \o WithFunctions)
    BY <1>3, FunctionsSet, ListConcat, SetByConcat
  <2> QED  BY <1>3, <1>4, <2>1, FunctionsSet, SetByConcat DEF PlanOpens, NoContract
<1>6. PlanOpens("plain", q \o WithoutFunctions)
  <2>1. IsList(q \o WithoutFunctions) /\ OneWorkflow(q \o WithoutFunctions)
    BY <1>3, NoFunctionsSet, ListConcat, SetByConcat
  <2> QED  BY <1>3, <1>4, <2>1, NoFunctionsSet, SetByConcat DEF PlanOpens, NoContract
<1> QED  BY <1>2, <1>5, <1>6

LEMMA PrivateOpens == PlanOpens("private", Plan["private"])
<1> DEFINE a == PublicMarket
           b == Workflow("None")
           c == Consumer
           d == Tx(SetOracle("OracleConsumer"))
           e == Tx(SetResolver)
           f == Tx(SetCallback)
           q == <<a, b, c, d, e, f>>
<1>1. Plan["private"] = q
  BY DEF Plan
<1>2. /\ DOMAIN q = 1 .. 6 /\ q[1] = a /\ q[2] = b /\ q[3] = c /\ q[4] = d /\ q[5] = e
      /\ q[6] = f
  OBVIOUS
<1>3. /\ \A w : Sets(a, w) <=> w = "resolver"
      /\ \A w : Sets(b, w) <=> w = "oracle"
      /\ \A w : Sets(c, w) <=> w = "creWorkflow"
      /\ c.wires["creWorkflow"] = "CREWorkflow"
      /\ IsCall(d, "oracle", "OracleConsumer")
      /\ IsCall(e, "resolver", "CREWorkflow")
      /\ IsCall(f, "authorizedCallback", "Wallet")
  BY ConstructorSets, CallSets
<1>4. IsList(q)
  <2>1. q \in Seq({a, b, c, d, e, f})
    <3> HIDE DEF a, b, c, d, e, f
    <3> QED OBVIOUS
  <2> QED  BY <2>1 DEF IsList
<1> HIDE DEF a, b, c, d, e, f, q
<1>5. OneWorkflow(q)
  BY <1>2, <1>3 DEF OneWorkflow, IsCall
<1>6. LastSet(q, "creWorkflow", "CREWorkflow") /\ LastSet(q, "oracle", "OracleConsumer")
  BY <1>2, <1>3 DEF LastSet, IsCall
<1>7. LastSet(q, "resolver", "CREWorkflow") /\ LastSet(q, "authorizedCallback", "Wallet")
  BY <1>2, <1>3 DEF LastSet, IsCall
<1> QED  BY <1>1, <1>4, <1>5, <1>6, <1>7 DEF PlanOpens

LEMMA CompleteOpens == PlanOpens("complete", Plan["complete"])
<1> DEFINE a == Waiting(SetResolver)
           b == Waiting(SetOracle("OracleConsumer"))
           c == Waiting(SetCallback)
           q == <<a, b, c>>
<1>1. Plan["complete"] = q
  BY DEF Plan
<1>2. DOMAIN q = 1 .. 3 /\ q[1] = a /\ q[2] = b /\ q[3] = c
  OBVIOUS
<1>3. /\ IsCall(a, "resolver", "CREWorkflow")
      /\ IsCall(b, "oracle", "OracleConsumer")
      /\ IsCall(c, "authorizedCallback", "Wallet")
  BY CallSets
<1>4. IsList(q)
  BY TupleList
<1> HIDE DEF a, b, c, q
<1>5. OneWorkflow(q)
  BY <1>2, <1>3 DEF OneWorkflow, IsCall
<1>6. /\ LastSet(q, "resolver", "CREWorkflow") /\ LastSet(q, "oracle", "OracleConsumer")
      /\ LastSet(q, "authorizedCallback", "Wallet")
  BY <1>2, <1>3 DEF LastSet, IsCall
<1> QED  BY <1>1, <1>4, <1>5, <1>6 DEF PlanOpens

LEMMA PlansOpen == \A s \in Scripts : PlanOpens(s, Plan[s])
<1>1. Scripts = {"local", "functions", "plain", "private", "complete"}
  BY DEF Scripts, Plan
<1> QED  BY <1>1, LocalOpens, RegistryOpens, PrivateOpens, CompleteOpens

-----------------------------------------------------------------------------
(* Steps.                                                                  *)

LEMMA PlanWillOpen ==
  ASSUME NEW s \in Scripts, left' = Plan[s],
         s = "complete" => wire'["creWorkflow"] = "CREWorkflow"
  PROVE  WillBeOpen(s)'
<1>1. PlanOpens(s, left')
  BY PlansOpen
<1> QED  BY <1>1 DEF PlanOpens, WillBeOpen, WillBe

LEMMA StartKeeps == ASSUME DeployInv, NEW s \in Scripts, StartScript(s) PROVE DeployInv'
<1>1. /\ left' = Plan[s] /\ script' = s /\ finished' = "none" /\ s # "none"
      /\ \/ s = "complete" /\ wire["creWorkflow"] # "None" /\ UNCHANGED <<wire, pool>>
         \/ s # "complete" /\ wire' = Unwired /\ pool' = <<>>
  BY DEF StartScript, Scripts, Plan
<1>2. /\ IsList(pool') /\ OneWorkflow(pool')
      /\ wire'["creWorkflow"] \in {"None", "CREWorkflow"}
      /\ s = "complete" => wire'["creWorkflow"] = "CREWorkflow"
  BY <1>1, EmptyList, NothingSet DEF DeployInv, Unwired, Wires
<1>3. WillBeOpen(s)'
  BY <1>1, <1>2, PlanWillOpen
<1>4. IsList(left') /\ OneWorkflow(left')
  BY <1>1, PlansOpen DEF PlanOpens
<1> QED  BY <1>1, <1>2, <1>3, <1>4 DEF DeployInv

\* A transaction that is sent is the last that was sent, and not left any more.
LEMMA SendNextWillBe ==
  ASSUME DeployInv, SendNext
  PROVE  /\ IsList(left') /\ IsList(pool') /\ OneWorkflow(left') /\ OneWorkflow(pool')
         /\ \A w, v : WillBe(w, v) => WillBe(w, v)'
<1> DEFINE h == left[1]
<1>1. /\ left # <<>> /\ left' = Tail(left) /\ pool' = Append(pool, Head(left))
      /\ wire' = wire
  BY DEF SendNext
<1>2. /\ Len(left) \in Nat /\ Len(left) > 0 /\ DOMAIN left = 1 .. Len(left)
      /\ Head(left) = h
      /\ IsList(left') /\ DOMAIN left' = 1 .. Len(left) - 1
      /\ \A i \in 1 .. Len(left) - 1 : left'[i] = left[i + 1]
  BY <1>1, ListTail DEF DeployInv
<1>3. /\ Len(pool) \in Nat /\ DOMAIN pool = 1 .. Len(pool)
      /\ IsList(pool') /\ DOMAIN pool' = 1 .. Len(pool) + 1
      /\ \A i \in 1 .. Len(pool) : pool'[i] = pool[i]
      /\ pool'[Len(pool) + 1] = h
  BY <1>1, <1>2, ListProperties DEF DeployInv
<1> HIDE DEF h
<1>4. OneWorkflow(left') /\ OneWorkflow(pool')
  <2>1. Sets(h, "creWorkflow") => h.wires["creWorkflow"] = "CREWorkflow"
    BY <1>2 DEF DeployInv, OneWorkflow, h
  <2>2. OneWorkflow(left')
    BY <1>2 DEF DeployInv, OneWorkflow
  <2>3. \A i \in DOMAIN pool' : (i \in DOMAIN pool /\ pool'[i] = pool[i]) \/ pool'[i] = h
    BY <1>3
  <2>4. OneWorkflow(pool')
    BY <2>1, <2>3 DEF DeployInv, OneWorkflow
  <2> QED  BY <2>2, <2>4
<1>5. ASSUME NEW w, NEW v, WillBe(w, v) PROVE WillBe(w, v)'
  <2>1. CASE LastSet(left, w, v)
    <3>1. PICK i \in DOMAIN left : /\ Sets(left[i], w) /\ left[i].wires[w] = v
                                   /\ \A j \in DOMAIN left : j > i => ~Sets(left[j], w)
      BY <2>1 DEF LastSet
    <3>2. CASE i > 1
      <4>1. i - 1 \in DOMAIN left' /\ left'[i - 1] = left[i]
        BY <1>2, <3>1, <3>2
      <4>2. ASSUME NEW j \in DOMAIN left', j > i - 1 PROVE ~Sets(left'[j], w)
        <5>1. j + 1 \in DOMAIN left /\ left'[j] = left[j + 1] /\ j + 1 > i
          BY <1>2, <3>1, <4>2
        <5> QED  BY <3>1, <5>1
      <4>3. LastSet(left', w, v)
        BY <3>1, <4>1, <4>2 DEF LastSet
      <4> QED  BY <4>3 DEF WillBe
    <3>3. CASE i = 1
      <4>1. NotSet(left', w)
        <5> SUFFICES ASSUME NEW j \in DOMAIN left' PROVE ~Sets(left'[j], w)
          BY DEF NotSet
        <5>1. j + 1 \in DOMAIN left /\ left'[j] = left[j + 1] /\ j + 1 > 1
          BY <1>2
        <5> QED  BY <3>1, <3>3, <5>1
      <4>2. LastSet(pool', w, v)
        BY <1>3, <3>1, <3>3 DEF LastSet, h
      <4> QED  BY <4>1, <4>2 DEF WillBe
    <3> QED  BY <1>2, <3>1, <3>2, <3>3
  <2>2. ASSUME NotSet(left, w) PROVE NotSet(left', w) /\ ~Sets(h, w)
    BY <1>2, <2>2 DEF NotSet, h
  <2>3. CASE NotSet(left, w) /\ LastSet(pool, w, v)
    <3>1. PICK i \in DOMAIN pool : /\ Sets(pool[i], w) /\ pool[i].wires[w] = v
                                   /\ \A j \in DOMAIN pool : j > i => ~Sets(pool[j], w)
      BY <2>3 DEF LastSet
    <3>2. LastSet(pool', w, v)
      BY <1>3, <2>2, <2>3, <3>1 DEF LastSet
    <3> QED  BY <2>2, <2>3, <3>2 DEF WillBe
  <2>4. CASE NotSet(left, w) /\ NotSet(pool, w) /\ wire[w] = v
    <3>1. NotSet(pool', w)
      BY <1>3, <2>2, <2>4 DEF NotSet
    <3> QED  BY <1>1, <2>2, <2>4, <3>1 DEF WillBe
  <2> QED  BY <1>5, <2>1, <2>3, <2>4 DEF WillBe
<1> QED  BY <1>2, <1>3, <1>4, <1>5

\* The first that was sent sets its wires.
LEMMA MineNextWillBe ==
  ASSUME DeployInv, MineNext
  PROVE  /\ IsList(pool') /\ OneWorkflow(pool')
         /\ wire'["creWorkflow"] \in {"CREWorkflow", wire["creWorkflow"]}
         /\ \A w \in Wires : \A v : WillBe(w, v) => WillBe(w, v)'
<1> DEFINE h == pool[1]
<1>1. /\ pool # <<>> /\ pool' = Tail(pool) /\ left' = left
      /\ wire' = [w \in Wires |-> IF w \in DOMAIN Head(pool).wires
                                  THEN Head(pool).wires[w] ELSE wire[w]]
  BY DEF MineNext
<1>2. /\ Len(pool) \in Nat /\ Len(pool) > 0 /\ DOMAIN pool = 1 .. Len(pool)
      /\ Head(pool) = h
      /\ IsList(pool') /\ DOMAIN pool' = 1 .. Len(pool) - 1
      /\ \A i \in 1 .. Len(pool) - 1 : pool'[i] = pool[i + 1]
  BY <1>1, ListTail DEF DeployInv
<1>3. \A w \in Wires : wire'[w] = IF Sets(h, w) THEN h.wires[w] ELSE wire[w]
  BY <1>1, <1>2 DEF Sets
<1> HIDE DEF h
<1>4. wire'["creWorkflow"] \in {"CREWorkflow", wire["creWorkflow"]}
  <2>1. Sets(h, "creWorkflow") => h.wires["creWorkflow"] = "CREWorkflow"
    BY <1>2 DEF DeployInv, OneWorkflow, h
  <2> QED  BY <1>3, <2>1 DEF Wires
<1>5. OneWorkflow(pool')
  BY <1>2 DEF DeployInv, OneWorkflow
<1>6. ASSUME NEW w \in Wires, NEW v, WillBe(w, v) PROVE WillBe(w, v)'
  <2>1. CASE LastSet(left, w, v)
    BY <1>1, <2>1 DEF WillBe
  <2>2. CASE NotSet(left, w) /\ LastSet(pool, w, v)
    <3>1. PICK i \in DOMAIN pool : /\ Sets(pool[i], w) /\ pool[i].wires[w] = v
                                   /\ \A j \in DOMAIN pool : j > i => ~Sets(pool[j], w)
      BY <2>2 DEF LastSet
    <3>2. CASE i > 1
      <4>1. i - 1 \in DOMAIN pool' /\ pool'[i - 1] = pool[i]
        BY <1>2, <3>1, <3>2
      <4>2. ASSUME NEW j \in DOMAIN pool', j > i - 1 PROVE ~Sets(pool'[j], w)
        <5>1. j + 1 \in DOMAIN pool /\ pool'[j] = pool[j + 1] /\ j + 1 > i
          BY <1>2, <3>1, <4>2
        <5> QED  BY <3>1, <5>1
      <4>3. LastSet(pool', w, v)
        BY <3>1, <4>1, <4>2 DEF LastSet
      <4> QED  BY <1>1, <2>2, <4>3 DEF WillBe
    <3>3. CASE i = 1
      <4>1. NotSet(pool', w)
        <5> SUFFICES ASSUME NEW j \in DOMAIN pool' PROVE ~Sets(pool'[j], w)
          BY DEF NotSet
        <5>1. j + 1 \in DOMAIN pool /\ pool'[j] = pool[j + 1] /\ j + 1 > 1
          BY <1>2
        <5> QED  BY <3>1, <3>3, <5>1
      <4>2. wire'[w] = v
        BY <1>3, <3>1, <3>3 DEF h
      <4> QED  BY <1>1, <2>2, <4>1, <4>2 DEF WillBe
    <3> QED  BY <1>2, <3>1, <3>2, <3>3
  <2>3. CASE NotSet(left, w) /\ NotSet(pool, w) /\ wire[w] = v
    <3>1. NotSet(pool', w) /\ ~Sets(h, w)
      BY <1>2, <2>3 DEF NotSet, h
    <3> QED  BY <1>1, <1>3, <2>3, <3>1 DEF WillBe
  <2> QED  BY <1>6, <2>1, <2>2, <2>3 DEF WillBe
<1> QED  BY <1>2, <1>4, <1>5, <1>6

\* What opens the paths goes on to do so.
LEMMA StayOpen ==
  ASSUME \A w \in Wires : \A v : WillBe(w, v) => WillBe(w, v)',
         wire["creWorkflow"] = "CREWorkflow" => wire'["creWorkflow"] = "CREWorkflow"
  PROVE  \A s : WillBeOpen(s) => WillBeOpen(s)'
<1>1. \A w \in {"authorizedCallback", "creWorkflow", "resolver", "oracle", "creAutomation",
                "authorizedAutomation", "oracleConsumer", "registry"} : \A v :
        WillBe(w, v) => WillBe(w, v)'
  BY DEF Wires
<1> QED  BY <1>1 DEF WillBeOpen

LEMMA DeployNextInv == DeployInv /\ [DeployNext]_deployVars => DeployInv'
<1> SUFFICES ASSUME DeployInv, [DeployNext]_deployVars PROVE DeployInv'
  OBVIOUS
<1>1. ASSUME NEW s \in Scripts, StartScript(s) PROVE DeployInv'
  BY <1>1, StartKeeps
<1>2. CASE SendNext
  <2>1. /\ IsList(left') /\ IsList(pool') /\ OneWorkflow(left') /\ OneWorkflow(pool')
        /\ UNCHANGED <<wire, script, finished>>
    BY <1>2, SendNextWillBe DEF SendNext
  <2>2. script # "none"
    BY <1>2 DEF SendNext, DeployInv
  <2>3. \A s : WillBeOpen(s) => WillBeOpen(s)'
    BY <1>2, <2>1, SendNextWillBe, StayOpen
  <2> QED  BY <2>1, <2>2, <2>3 DEF DeployInv
<1>3. CASE MineNext
  <2>1. /\ IsList(pool') /\ OneWorkflow(pool')
        /\ wire'["creWorkflow"] \in {"CREWorkflow", wire["creWorkflow"]}
        /\ UNCHANGED <<left, script, finished>>
    BY <1>3, MineNextWillBe DEF MineNext
  <2>2. \A s : WillBeOpen(s) => WillBeOpen(s)'
    BY <1>3, <2>1, MineNextWillBe, StayOpen
  <2> QED  BY <2>1, <2>2 DEF DeployInv
<1>4. CASE ScriptEnds
  <2>1. /\ UNCHANGED <<wire, left, pool>> /\ left = <<>>
        /\ script # "none" /\ script' = "none" /\ finished' = script
    BY <1>4 DEF ScriptEnds
  <2>2. \A s : WillBeOpen(s) => WillBeOpen(s)'
    BY <2>1 DEF WillBeOpen, WillBe
  <2> QED  BY <2>1, <2>2 DEF DeployInv
<1>5. CASE ScriptFails
  <2>1. /\ UNCHANGED <<wire, pool, finished>> /\ left' = <<>>
        /\ script # "none" /\ script' = "none"
    BY <1>5 DEF ScriptFails
  <2> QED  BY <2>1, EmptyList, NothingSet DEF DeployInv
<1>6. CASE ApproveLink \/ RegisterUpkeep \/ UNCHANGED deployVars
  <2>1. UNCHANGED <<wire, script, left, pool, finished>>
    BY <1>6 DEF ApproveLink, RegisterUpkeep, deployVars
  <2>2. \A s : WillBeOpen(s) => WillBeOpen(s)'
    BY <2>1 DEF WillBeOpen, WillBe
  <2> QED  BY <2>1, <2>2 DEF DeployInv
<1> QED  BY <1>1, <1>2, <1>3, <1>4, <1>5, <1>6 DEF DeployNext

\* Whatever scripts fail in between and whenever transactions are mined, after the last
\* script that went through the paths it sets up are open.
THEOREM PathsRight == DeploySpec => []PathsAreOpen
<1>1. DeployInv => PathsAreOpen
  <2> SUFFICES ASSUME DeployInv, finished # "none", script = "none", pool = <<>>
               PROVE  PathsAreOpen
    BY DEF PathsAreOpen
  <2>1. left = <<>> /\ WillBeOpen(finished)
    BY DEF DeployInv
  <2>2. \A w, v : WillBe(w, v) => wire[w] = v
    BY <2>1, EmptyList DEF WillBe, LastSet
  <2> QED  BY <2>1, <2>2 DEF WillBeOpen, PathsAreOpen, ConsumerOpen, LetIn
<1> QED  BY <1>1, DeployInitInv, DeployNextInv, PTL DEF DeploySpec

-----------------------------------------------------------------------------
(* The transactions under way: a script sends those that it waits for one  *)
(* by one, and ends with at most four that it does not wait for.           *)

LEMMA ListLengths ==
  ASSUME NEW s, IsList(s)
  PROVE  /\ Len(s) \in Nat /\ DOMAIN s = 1 .. Len(s)
         /\ s # <<>> => Len(s) > 0 /\ Len(Tail(s)) = Len(s) - 1
         /\ \A x : Len(Append(s, x)) = Len(s) + 1
         /\ \A t : IsList(t) => Len(s \o t) = Len(s) + Len(t)
<1>1. PICK S : s \in Seq(S)
  BY DEF IsList
<1>2. Len(s) \in Nat /\ DOMAIN s = 1 .. Len(s)
  BY <1>1, LenProperties
<1>3. s # <<>> => Len(s) > 0 /\ Len(Tail(s)) = Len(s) - 1
  BY <1>1, <1>2, EmptySeq, HeadTailProperties
<1>4. ASSUME NEW x PROVE Len(Append(s, x)) = Len(s) + 1
  <2> DEFINE U == S \cup {x}
  <2>1. s \in Seq(U) /\ x \in U
    BY <1>1, SeqMonotonic
  <2> HIDE DEF U
  <2> QED  BY <2>1, AppendProperties
<1>5. ASSUME NEW t, IsList(t) PROVE Len(s \o t) = Len(s) + Len(t)
  <2>1. PICK T : t \in Seq(T)
    BY <1>5 DEF IsList
  <2> DEFINE U == S \cup T
  <2>2. s \in Seq(U) /\ t \in Seq(U)
    BY <1>1, <2>1, SeqMonotonic
  <2> HIDE DEF U
  <2> QED  BY <2>2, ConcatProperties
<1> QED  BY <1>2, <1>3, <1>4, <1>5

AllWaited(q) == \A i \in DOMAIN q : q[i].wait

\* A list of those that are waited for and of at most four others after them.
Tapers(q) == \A i \in DOMAIN q :
               ~q[i].wait => /\ Len(q) < i + 4
                             /\ \A j \in DOMAIN q : j > i => ~q[j].wait

LEMMA TapersAfter ==
  ASSUME NEW s, NEW t, IsList(s), IsList(t), AllWaited(s), Tapers(t)
  PROVE  Tapers(s \o t) /\ (s # <<>> => (s \o t)[1].wait)
<1> DEFINE q == s \o t
<1>1. /\ Len(s) \in Nat /\ DOMAIN s = 1 .. Len(s)
      /\ Len(t) \in Nat /\ DOMAIN t = 1 .. Len(t)
      /\ DOMAIN q = 1 .. Len(s) + Len(t) /\ Len(q) = Len(s) + Len(t)
      /\ \A i \in 1 .. Len(s) : q[i] = s[i]
      /\ \A i \in 1 .. Len(t) : q[Len(s) + i] = t[i]
  BY ListConcat, ListLengths
<1>2. s # <<>> => Len(s) > 0
  BY ListLengths
<1> HIDE DEF q
<1>3. \A i \in 1 .. Len(s) : q[i].wait
  BY <1>1 DEF AllWaited
<1>4. \A i \in DOMAIN q : i > Len(s) => i - Len(s) \in DOMAIN t /\ q[i] = t[i - Len(s)]
  <2> SUFFICES ASSUME NEW i \in DOMAIN q, i > Len(s)
               PROVE  i - Len(s) \in DOMAIN t /\ q[i] = t[i - Len(s)]
    OBVIOUS
  <2>1. i \in Nat /\ i - Len(s) \in 1 .. Len(t) /\ Len(s) + (i - Len(s)) = i
    BY <1>1
  <2> QED  BY <1>1, <2>1
<1>5. ASSUME NEW i \in DOMAIN q, ~q[i].wait
      PROVE  Len(q) < i + 4 /\ \A j \in DOMAIN q : j > i => ~q[j].wait
  <2>1. i \in Nat /\ i > Len(s)
    BY <1>1, <1>3, <1>5
  <2>2. i - Len(s) \in DOMAIN t /\ ~t[i - Len(s)].wait
    BY <1>4, <1>5, <2>1
  <2>3. Len(t) < (i - Len(s)) + 4
    BY <2>2 DEF Tapers
  <2>4. ASSUME NEW j \in DOMAIN q, j > i PROVE ~q[j].wait
    <3>1. j - Len(s) \in DOMAIN t /\ q[j] = t[j - Len(s)] /\ j - Len(s) > i - Len(s)
      BY <1>1, <1>4, <2>1, <2>4
    <3> QED  BY <2>2, <3>1 DEF Tapers
  <2> QED  BY <1>1, <2>1, <2>3, <2>4
<1>6. s # <<>> => q[1].wait
  BY <1>1, <1>2, <1>3
<1> QED  BY <1>5, <1>6 DEF Tapers, q

LEMMA WaitsOfTransactions == \A a : ~Tx(a).wait /\ Waiting(a).wait
BY DEF Tx, Waiting

LEMMA ShortListsTaper ==
  ASSUME NEW a, NEW b, NEW c, NEW d, ~a.wait, ~b.wait, ~c.wait, ~d.wait
  PROVE  Tapers(<<a, b, c, d>>) /\ Tapers(<<a, b, c>>)
<1>1. ASSUME NEW q, NEW n \in 1 .. 4, IsList(q), Len(q) = n, \A i \in 1 .. n : ~q[i].wait
      PROVE  Tapers(q)
  BY <1>1, ListProperties DEF Tapers
<1>2. Tapers(<<a, b, c, d>>)
  <2> DEFINE q == <<a, b, c, d>>
  <2>1. Len(q) = 4 /\ \A i \in 1 .. 4 : q[i] \in {a, b, c, d}
    OBVIOUS
  <2>2. IsList(q)
    BY TupleList
  <2> HIDE DEF q
  <2>3. Tapers(q)
    BY <1>1, <2>1, <2>2
  <2> QED  BY <2>3 DEF q
<1>3. Tapers(<<a, b, c>>)
  <2> DEFINE q == <<a, b, c>>
  <2>1. Len(q) = 3 /\ \A i \in 1 .. 3 : q[i] \in {a, b, c}
    OBVIOUS
  <2>2. IsList(q)
    BY TupleList
  <2> HIDE DEF q
  <2>3. Tapers(q)
    BY <1>1, <2>1, <2>2
  <2> QED  BY <2>3 DEF q
<1> QED  BY <1>2, <1>3

LEMMA AllWaitedTuples ==
  /\ \A a : a.wait => AllWaited(<<a>>) /\ <<a>> # <<>>
  /\ \A a, b, c : a.wait /\ b.wait /\ c.wait => AllWaited(<<a, b, c>>) /\ <<a, b, c>> # <<>>
  /\ \A r : IsList(Contracts(r)) /\ AllWaited(Contracts(r)) /\ Contracts(r) # <<>>
<1>1. ASSUME NEW a, a.wait PROVE AllWaited(<<a>>) /\ <<a>> # <<>>
  BY <1>1 DEF AllWaited
<1>2. ASSUME NEW a, NEW b, NEW c, a.wait, b.wait, c.wait
      PROVE  AllWaited(<<a, b, c>>) /\ <<a, b, c>> # <<>>
  BY <1>2 DEF AllWaited
<1>3. ASSUME NEW r
      PROVE  IsList(Contracts(r)) /\ AllWaited(Contracts(r)) /\ Contracts(r) # <<>>
  <2> DEFINE a == PublicMarket
             b == Workflow("Wallet")
             c == Consumer
             d == Resolver(r)
  <2>1. a.wait /\ b.wait /\ c.wait /\ d.wait
    BY WaitsOfTransactions DEF PublicMarket, Workflow, Consumer, Resolver
  <2> HIDE DEF a, b, c, d
  <2>2. AllWaited(<<a, b, c, d>>) /\ <<a, b, c, d>> # <<>>
    BY <2>1 DEF AllWaited
  <2>3. Contracts(r) = <<a, b, c, d>>
    BY DEF Contracts, a, b, c, d
  <2> QED  BY <2>2, <2>3, ContractsSet
<1> QED  BY <1>1, <1>2, <1>3

LEMMA PlansTaper == \A s \in Scripts : IsList(Plan[s]) /\ Tapers(Plan[s]) /\ Plan[s][1].wait
<1> DEFINE Good(q) == Tapers(q) /\ q[1].wait
<1>1. \A q : IsList(q) /\ AllWaited(q) /\ q # <<>> => Good(q)
  <2> SUFFICES ASSUME NEW q, IsList(q), AllWaited(q), q # <<>> PROVE Good(q)
    OBVIOUS
  <2>1. 1 \in DOMAIN q
    BY ListLengths
  <2> QED  BY <2>1 DEF AllWaited, Tapers
<1>2. Good(Plan["local"])
  <2> DEFINE q == <<Tx(SetOracle("OracleConsumer")), Tx(SetResolver), Tx(SetCallback),
                    Tx(SetAutomation)>>
  <2>1. IsList(q) /\ Tapers(q)
    BY TupleList, WaitsOfTransactions, ShortListsTaper
  <2>2. Plan["local"] = Contracts("Wallet") \o q
    BY DEF Plan
  <2> HIDE DEF q
  <2> QED  BY <2>1, <2>2, AllWaitedTuples, TapersAfter
<1> DEFINE r == <<Waiting(SetResolver)>>
           begin == Contracts("Registry") \o r
<1>3. IsList(begin) /\ AllWaited(begin) /\ begin # <<>>
  <2>1. IsList(r) /\ AllWaited(r) /\ r # <<>>
    BY TupleList, WaitsOfTransactions, AllWaitedTuples
  <2> HIDE DEF r
  <2> DEFINE s == Contracts("Registry")
  <2>2. IsList(s) /\ AllWaited(s) /\ s # <<>>
    BY AllWaitedTuples
  <2> HIDE DEF s
  <2>3. /\ IsList(s \o r) /\ Len(s) \in Nat /\ Len(r) \in Nat
        /\ DOMAIN s = 1 .. Len(s) /\ DOMAIN r = 1 .. Len(r)
        /\ DOMAIN (s \o r) = 1 .. Len(s) + Len(r) /\ Len(s \o r) = Len(s) + Len(r)
        /\ \A i \in 1 .. Len(s) : (s \o r)[i] = s[i]
        /\ \A i \in 1 .. Len(r) : (s \o r)[Len(s) + i] = r[i]
        /\ Len(s) > 0 /\ Len(<<>>) = 0
    BY <2>1, <2>2, ListConcat, ListLengths
  <2>4. ASSUME NEW i \in DOMAIN (s \o r) PROVE (s \o r)[i].wait
    <3>1. CASE i \in 1 .. Len(s)
      BY <2>2, <2>3, <3>1 DEF AllWaited
    <3>2. CASE i \notin 1 .. Len(s)
      <4>1. i - Len(s) \in 1 .. Len(r) /\ Len(s) + (i - Len(s)) = i
        BY <2>3, <3>2
      <4> QED  BY <2>1, <2>3, <4>1 DEF AllWaited
    <3> QED  BY <3>1, <3>2
  <2>5. s \o r # <<>>
    BY <2>3
  <2> QED  BY <2>3, <2>4, <2>5 DEF AllWaited, s
<1>4. Plan["functions"] = begin \o WithFunctions /\ Plan["plain"] = begin \o WithoutFunctions
  BY DEF Plan
<1> HIDE DEF begin
<1>5. Good(Plan["functions"])
  <2> DEFINE a == Functions
             b == Tx(SetOracle("FunctionsConsumer"))
             c == Tx([creAutomation |-> "OracleConsumer"])
             d == Tx(SetCallback)
             e == Tx(SetAutomation)
             q == <<a, b, c, d, e>>
  <2>1. a.wait /\ ~b.wait /\ ~c.wait /\ ~d.wait /\ ~e.wait
    BY WaitsOfTransactions DEF Functions
  <2>2. /\ DOMAIN q = 1 .. 5 /\ Len(q) = 5 /\ WithFunctions = q
        /\ q[1] = a /\ q[2] = b /\ q[3] = c /\ q[4] = d /\ q[5] = e
    BY DEF WithFunctions
  <2> HIDE DEF a, b, c, d, e, q
  <2>3. Tapers(q)
    BY <2>1, <2>2 DEF Tapers
  <2> QED  BY <1>3, <1>4, <2>2, <2>3, FunctionsSet, TapersAfter
<1>6. Good(Plan["plain"])
  <2>1. Tapers(WithoutFunctions)
    <3>1. AllWaited(WithoutFunctions)
      BY WaitsOfTransactions, AllWaitedTuples DEF WithoutFunctions
    <3> QED  BY <3>1 DEF AllWaited, Tapers
  <2> QED  BY <1>3, <1>4, <2>1, NoFunctionsSet, TapersAfter
<1>7. Good(Plan["private"])
  <2> DEFINE a == PublicMarket
             b == Workflow("None")
             c == Consumer
             d == Tx(SetOracle("OracleConsumer"))
             e == Tx(SetResolver)
             f == Tx(SetCallback)
             q == <<a, b, c, d, e, f>>
  <2>1. a.wait /\ b.wait /\ c.wait /\ ~d.wait /\ ~e.wait /\ ~f.wait
    BY WaitsOfTransactions DEF PublicMarket, Workflow, Consumer
  <2>2. /\ DOMAIN q = 1 .. 6 /\ Len(q) = 6 /\ Plan["private"] = q
        /\ q[1] = a /\ q[2] = b /\ q[3] = c /\ q[4] = d /\ q[5] = e /\ q[6] = f
    BY DEF Plan
  <2> HIDE DEF a, b, c, d, e, f, q
  <2>3. ASSUME NEW i \in 1 .. 6, ~q[i].wait
        PROVE  6 < i + 4 /\ \A j \in 1 .. 6 : j > i => ~q[j].wait
    <3>1. i \in {4, 5, 6}
      BY <2>1, <2>2, <2>3
    <3> QED  BY <2>1, <2>2, <3>1
  <2>4. Tapers(q)
    BY <2>2, <2>3 DEF Tapers
  <2>5. q[1].wait
    BY <2>1, <2>2
  <2> QED  BY <2>2, <2>4, <2>5
<1>8. Good(Plan["complete"])
  <2> DEFINE q == <<Waiting(SetResolver), Waiting(SetOracle("OracleConsumer")),
                    Waiting(SetCallback)>>
  <2>1. IsList(q) /\ AllWaited(q) /\ q # <<>>
    BY TupleList, WaitsOfTransactions, AllWaitedTuples
  <2>2. Plan["complete"] = q
    BY DEF Plan
  <2> HIDE DEF q
  <2> QED  BY <1>1, <2>1, <2>2
<1>9. \A s \in Scripts : IsList(Plan[s])
  BY PlansOpen DEF PlanOpens
<1>10. Scripts = {"local", "functions", "plain", "private", "complete"}
  BY DEF Scripts, Plan
<1> QED  BY <1>2, <1>5, <1>6, <1>7, <1>8, <1>9, <1>10

\* The inductive invariant: one that is waited for is the last in the pool; and what is
\* left of a script that does not wait any more fits in it.
PoolInv ==
  /\ IsList(left) /\ IsList(pool) /\ Tapers(left)
  /\ \A i \in DOMAIN pool : pool[i].wait => i = Len(pool)
  /\ Len(pool) <= 5 /\ (~Awaited => Len(pool) <= 4)
  /\ (left # <<>> /\ ~left[1].wait /\ ~Awaited) => Len(pool) + Len(left) <= 4

LEMMA SendPool == ASSUME PoolInv, SendNext PROVE PoolInv'
<1> DEFINE t == left[1]
<1>1. /\ left # <<>> /\ ~Awaited /\ pool' = Append(pool, t) /\ left' = Tail(left)
      /\ Len(left) \in Nat /\ Len(left) > 0 /\ DOMAIN left = 1 .. Len(left)
      /\ IsList(left') /\ DOMAIN left' = 1 .. Len(left) - 1 /\ Len(left') = Len(left) - 1
      /\ \A i \in 1 .. Len(left) - 1 : left'[i] = left[i + 1]
  BY ListTail, ListLengths DEF SendNext, PoolInv
<1>2. /\ IsList(pool') /\ Len(pool) \in Nat /\ Len(pool') = Len(pool) + 1
      /\ DOMAIN pool = 1 .. Len(pool) /\ DOMAIN pool' = 1 .. Len(pool) + 1
      /\ \A i \in 1 .. Len(pool) : pool'[i] = pool[i]
      /\ pool'[Len(pool) + 1] = t
  BY <1>1, ListProperties, ListLengths DEF PoolInv
<1>3. Len(pool) <= 4 /\ \A i \in DOMAIN pool : ~pool[i].wait
  BY <1>1 DEF PoolInv, Awaited
<1>4. Tapers(left')
  <2> SUFFICES ASSUME NEW i \in DOMAIN left', ~left'[i].wait
               PROVE  Len(left') < i + 4 /\ \A j \in DOMAIN left' : j > i => ~left'[j].wait
    BY DEF Tapers
  <2>1. i \in Nat /\ i + 1 \in DOMAIN left /\ ~left[i + 1].wait
    BY <1>1
  <2>2. /\ Len(left) < (i + 1) + 4
        /\ \A j \in DOMAIN left : j > i + 1 => ~left[j].wait
    BY <2>1 DEF PoolInv, Tapers
  <2> QED  BY <1>1, <2>1, <2>2
<1>5. \A i \in DOMAIN pool' : pool'[i].wait => i = Len(pool')
  BY <1>2, <1>3
<1>6. CASE t.wait
  <2>1. Awaited'
    BY <1>2, <1>6 DEF Awaited
  <2>2. Len(pool') <= 5
    BY <1>2, <1>3
  <2> QED  BY <1>1, <1>2, <1>4, <1>5, <2>1, <2>2 DEF PoolInv
<1>7. CASE ~t.wait
  <2>1. Len(pool) + Len(left) <= 4
    BY <1>1, <1>7 DEF PoolInv
  <2>2. Len(pool') + Len(left') <= 4 /\ Len(pool') <= 4 /\ Len(pool') <= 5
    BY <1>1, <1>2, <2>1
  <2> QED  BY <1>1, <1>2, <1>4, <1>5, <2>2 DEF PoolInv
<1> QED  BY <1>6, <1>7

LEMMA MinePool == ASSUME PoolInv, MineNext PROVE PoolInv'
<1>1. /\ pool # <<>> /\ pool' = Tail(pool) /\ left' = left
      /\ IsList(left) /\ Len(left) \in Nat /\ DOMAIN left = 1 .. Len(left)
      /\ Len(pool) \in Nat /\ Len(pool) > 0 /\ DOMAIN pool = 1 .. Len(pool)
      /\ IsList(pool') /\ DOMAIN pool' = 1 .. Len(pool) - 1 /\ Len(pool') = Len(pool) - 1
      /\ \A i \in 1 .. Len(pool) - 1 : pool'[i] = pool[i + 1]
  BY ListTail, ListLengths DEF MineNext, PoolInv
<1>2. \A i \in DOMAIN pool' : pool'[i].wait => i = Len(pool')
  <2> SUFFICES ASSUME NEW i \in DOMAIN pool', pool'[i].wait PROVE i = Len(pool')
    OBVIOUS
  <2>1. i \in Nat /\ i + 1 \in DOMAIN pool /\ pool[i + 1].wait
    BY <1>1
  <2>2. i + 1 = Len(pool)
    BY <2>1 DEF PoolInv
  <2> QED  BY <1>1, <2>1, <2>2
<1>3. Len(pool') <= 4
  BY <1>1 DEF PoolInv
<1>4. ASSUME left # <<>>, ~left[1].wait, ~Awaited'
      PROVE  Len(pool') + Len(left) <= 4
  <2>1. CASE Awaited
    <3>1. PICK i \in DOMAIN pool : pool[i].wait
      BY <2>1 DEF Awaited
    <3>2. i = Len(pool) /\ i \in Nat
      BY <1>1, <3>1 DEF PoolInv
    <3>3. Len(pool) = 1
      <4> SUFFICES ASSUME Len(pool) > 1 PROVE FALSE
        BY <1>1
      <4>1. i - 1 \in DOMAIN pool' /\ pool'[i - 1] = pool[(i - 1) + 1] /\ (i - 1) + 1 = i
        BY <1>1, <3>2
      <4> QED  BY <1>4, <3>1, <4>1 DEF Awaited
    <3>4. 1 \in DOMAIN left
      BY <1>1, <1>4, ListLengths
    <3>5. Len(left) < 1 + 4
      BY <1>4, <3>4 DEF PoolInv, Tapers
    <3>6. Len(left) \in Nat /\ Len(left) <= 4 /\ Len(pool') = 0
      BY <1>1, <3>3, <3>5
    <3> QED  BY <3>6
  <2>2. CASE ~Awaited
    <3>1. Len(pool) + Len(left) <= 4
      BY <1>4, <2>2 DEF PoolInv
    <3> QED  BY <1>1, <3>1
  <2> QED  BY <2>1, <2>2
<1>5. Len(pool') <= 5
  BY <1>1, <1>3
<1> QED  BY <1>1, <1>2, <1>3, <1>4, <1>5 DEF PoolInv

LEMMA NothingLeft == /\ IsList(<<>>) /\ Tapers(<<>>) /\ Len(<<>>) = 0
                     /\ DOMAIN <<>> = {}
BY EmptyList DEF Tapers

LEMMA PoolStep == PoolInv /\ [DeployNext]_deployVars => PoolInv'
<1> SUFFICES ASSUME PoolInv, [DeployNext]_deployVars PROVE PoolInv'
  OBVIOUS
<1>1. ASSUME NEW s \in Scripts, StartScript(s) PROVE PoolInv'
  <2>1. IsList(left') /\ Tapers(left') /\ left'[1].wait /\ pool' \in {pool, <<>>}
    BY <1>1, PlansTaper DEF StartScript
  <2>2. CASE pool' = pool
    <3>1. Awaited' <=> Awaited
      BY <2>2 DEF Awaited
    <3> QED  BY <2>1, <2>2, <3>1 DEF PoolInv
  <2>3. CASE pool' = <<>>
    BY <2>1, <2>3, NothingLeft DEF PoolInv
  <2> QED  BY <2>1, <2>2, <2>3
<1>2. CASE SendNext
  BY <1>2, SendPool
<1>3. CASE MineNext
  BY <1>3, MinePool
<1>4. CASE ScriptFails
  <2>1. left' = <<>> /\ pool' = pool /\ (Awaited' <=> Awaited)
    BY <1>4 DEF ScriptFails, Awaited
  <2> QED  BY <2>1, NothingLeft DEF PoolInv
<1>5. CASE ScriptEnds \/ ApproveLink \/ RegisterUpkeep \/ UNCHANGED deployVars
  <2>1. left' = left /\ pool' = pool /\ (Awaited' <=> Awaited)
    BY <1>5 DEF ScriptEnds, ApproveLink, RegisterUpkeep, deployVars, Awaited
  <2> QED  BY <2>1 DEF PoolInv
<1> QED  BY <1>1, <1>2, <1>3, <1>4, <1>5 DEF DeployNext

ScriptsOk == /\ DOMAIN wire = Wires
             /\ script \in Scripts \cup {"none"} /\ finished \in Scripts \cup {"none"}
             /\ starts \in 0 .. MaxStarts
             /\ upkeep \in [approved : BOOLEAN, count : 0 .. MaxUpkeeps]

LEMMA ScriptsStep == ScriptsOk /\ [DeployNext]_deployVars => ScriptsOk'
<1> SUFFICES ASSUME ScriptsOk, [DeployNext]_deployVars PROVE ScriptsOk'
  OBVIOUS
<1>1. ASSUME NEW s \in Scripts, StartScript(s) PROVE ScriptsOk'
  <2>1. starts' \in 0 .. MaxStarts
    BY <1>1, DeployConstants DEF StartScript, ScriptsOk
  <2>2. DOMAIN wire' = Wires
    BY <1>1 DEF StartScript, Unwired, ScriptsOk
  <2> QED  BY <1>1, <2>1, <2>2 DEF StartScript, ScriptsOk
<1>2. CASE SendNext \/ MineNext \/ ScriptEnds \/ ScriptFails \/ UNCHANGED deployVars
  BY <1>2 DEF SendNext, MineNext, ScriptEnds, ScriptFails, deployVars, ScriptsOk
<1>3. CASE ApproveLink
  BY <1>3 DEF ApproveLink, ScriptsOk
<1>4. CASE RegisterUpkeep
  <2>1. upkeep.count + 1 \in 0 .. MaxUpkeeps
    BY <1>4, DeployConstants DEF RegisterUpkeep, ScriptsOk
  <2> QED  BY <1>4, <2>1 DEF RegisterUpkeep, ScriptsOk
<1> QED  BY <1>1, <1>2, <1>3, <1>4 DEF DeployNext

LEMMA DeployTyped == DeploySpec => []DeployTypeOK
<1>1. DeployInit => PoolInv /\ ScriptsOk
  <2> SUFFICES ASSUME DeployInit PROVE PoolInv /\ ScriptsOk
    OBVIOUS
  <2>1. PoolInv
    BY NothingLeft DEF DeployInit, PoolInv
  <2>2. DOMAIN wire = Wires
    BY DEF DeployInit, Unwired
  <2>3. starts \in 0 .. MaxStarts /\ upkeep \in [approved : BOOLEAN, count : 0 .. MaxUpkeeps]
    BY DeployConstants DEF DeployInit
  <2> QED  BY <2>1, <2>2, <2>3 DEF DeployInit, ScriptsOk
<1>2. DeployInv /\ PoolInv /\ ScriptsOk => DeployTypeOK
  BY DEF DeployInv, PoolInv, ScriptsOk, DeployTypeOK
<1> QED  BY <1>1, <1>2, DeployInitInv, DeployNextInv, PoolStep, ScriptsStep, PTL
         DEF DeploySpec

-----------------------------------------------------------------------------
(* The price chart.                                                        *)

Answers == [Keys -> [data : Nat, failed : BOOLEAN, busy : BOOLEAN]]

ChosenOk == /\ query \in Answers /\ answers \in Nat /\ sel \in Selections
            /\ opened \in BOOLEAN /\ wanted \in BOOLEAN

\* A canvas, also one that is no longer on the page, has what the last render
\* computed, which is of what is still the answer.
CanvasOk == canvas # "none" => /\ opened
                               /\ deps = Deps /\ drawn = RawBars
                               /\ visible = wanted

ViewOk == /\ DOMAIN view = {"fitted", "scrolled", "prog", "timers", "follow"}
          /\ view.scrolled => view.follow

\* The inductive invariant.
ChartInv == ChosenOk /\ CanvasOk /\ ViewOk

LEMMA ChartInitInv == ChartInit => ChartInv
<1> SUFFICES ASSUME ChartInit PROVE ChartInv
  OBVIOUS
<1>1. query \in Answers
  BY DEF ChartInit, Answers, Unasked
<1>2. ChosenOk /\ CanvasOk
  BY <1>1 DEF ChartInit, ChosenOk, CanvasOk
<1>3. ViewOk
  BY DEF ChartInit, ViewOk, NewView
<1> QED  BY <1>2, <1>3 DEF ChartInv

\* Whatever a render draws follows from what its effect depends on.
LEMMA SameBars == Deps' = Deps => RawBars' = RawBars
<1> SUFFICES ASSUME Deps' = Deps PROVE RawBars' = RawBars
  OBVIOUS
<1>1. Live' = Live /\ LiveData' = LiveData /\ sel'.tf = sel.tf
  BY DEF Deps
<1>2. CASE Live
  <2>1. LiveData = <<sel, query[sel].data>> /\ LiveData' = <<sel', query'[sel'].data>>
    BY <1>1, <1>2 DEF Live, LiveData
  <2>2. sel' = sel /\ query'[sel'].data = query[sel].data
    BY <1>1, <2>1
  <2> QED  BY <1>1, <1>2, <2>2 DEF RawBars
<1>3. CASE ~Live
  BY <1>1, <1>3 DEF RawBars
<1> QED  BY <1>2, <1>3

LEMMA RedrawKeeps == ASSUME ViewOk, Redraw PROVE ViewOk'
<1>1. CASE view' = [view EXCEPT !.fitted = TRUE, !.scrolled = FALSE]
  <2> DEFINE e == [view EXCEPT !.fitted = TRUE]
             f == [e EXCEPT !.scrolled = FALSE]
  <2>1. DOMAIN e = DOMAIN view /\ DOMAIN f = DOMAIN e
    OBVIOUS
  <2>2. f.scrolled = FALSE
    BY <2>1 DEF ViewOk
  <2> HIDE DEF e
  <2> QED  BY <1>1, <2>1, <2>2 DEF ViewOk, e
<1>2. CASE view' = [view EXCEPT !.prog = TRUE, !.timers = @ + 1] /\ ~view.scrolled
  <2> DEFINE e == [view EXCEPT !.prog = TRUE]
             f == [e EXCEPT !.timers = @ + 1]
  <2>1. DOMAIN e = DOMAIN view /\ DOMAIN f = DOMAIN e
    OBVIOUS
  <2>2. e.scrolled = view.scrolled /\ f.scrolled = e.scrolled
    BY <2>1 DEF ViewOk
  <2> HIDE DEF e
  <2> QED  BY <1>2, <2>1, <2>2 DEF ViewOk, e
<1> QED  BY <1>1, <1>2 DEF Redraw, ViewOk

LEMMA RenderKeeps ==
  ASSUME ChartInv, ChosenOk', opened', Render
  PROVE  ChartInv'
<1>1. /\ deps' = Deps' /\ visible' = (canvas' # "none" /\ wanted')
      /\ (canvas' # "none" /\ (~opened \/ deps' # deps)) => drawn' = RawBars' /\ Redraw
      /\ ~(canvas' # "none" /\ (~opened \/ deps' # deps)) => UNCHANGED <<drawn, view>>
  BY DEF Render
<1>2. ViewOk'
  <2>1. CASE Redraw
    BY <2>1, RedrawKeeps DEF ChartInv
  <2>2. CASE view' = view
    BY <2>2 DEF ChartInv, ViewOk
  <2> QED  BY <1>1, <2>1, <2>2
<1>3. opened /\ canvas' # "none" => canvas # "none"
  BY DEF Render
<1>4. canvas' # "none" => drawn' = RawBars'
  <2> SUFFICES ASSUME canvas' # "none", opened, deps' = deps PROVE drawn' = RawBars'
    BY <1>1
  <2>1. drawn' = drawn /\ drawn = RawBars /\ deps = Deps
    BY <1>1, <1>3 DEF ChartInv, CanvasOk
  <2> QED  BY <1>1, <2>1, SameBars
<1>5. canvas' # "none" => visible' = wanted'
  BY <1>1 DEF ChosenOk
<1> QED  BY <1>1, <1>2, <1>4, <1>5 DEF ChartInv, CanvasOk

LEMMA UseKeeps == ASSUME query \in Answers, NEW k PROVE Use(k) \in Answers
<1>1. [Unasked EXCEPT !.busy = TRUE] \in [data : Nat, failed : BOOLEAN, busy : BOOLEAN]
  BY DEF Unasked
<1> QED  BY <1>1 DEF Use, Answers

\* What is rendered at once.
LEMMA ChoiceKeeps ==
  ASSUME ChartInv, Mount \/ Toggle \/ Fetch \/ \E s \in Selections : Select(s)
  PROVE  ChartInv'
<1>1. CASE Mount
  <2>1. ChosenOk' /\ opened' /\ Render
    BY <1>1, UseKeeps DEF Mount, ChartInv, ChosenOk
  <2> QED  BY <2>1, RenderKeeps
<1>2. CASE Toggle
  <2>1. ChosenOk' /\ opened' /\ Render
    BY <1>2 DEF Toggle, candleVars, ChartInv, ChosenOk
  <2> QED  BY <2>1, RenderKeeps
<1>3. CASE Fetch
  <2> DEFINE e == [query[sel] EXCEPT !.busy = TRUE]
             f == [e EXCEPT !.failed = @ /\ query[sel].data # 0]
  <2>1. query[sel] \in [data : Nat, failed : BOOLEAN, busy : BOOLEAN]
    BY <1>3 DEF Fetch, ChartInv, ChosenOk, Answers
  <2>2. e \in [data : Nat, failed : BOOLEAN, busy : BOOLEAN]
    BY <2>1
  <2> HIDE DEF e
  <2>3. f \in [data : Nat, failed : BOOLEAN, busy : BOOLEAN]
    BY <2>2
  <2>4. query' = [query EXCEPT ![sel] = f]
    BY <1>3 DEF Fetch, e
  <2>5. ChosenOk' /\ opened' /\ Render
    BY <1>3, <2>3, <2>4 DEF Fetch, choiceVars, ChartInv, ChosenOk, Answers
  <2> QED  BY <2>5, RenderKeeps
<1>4. ASSUME NEW s \in Selections, Select(s) PROVE ChartInv'
  <2>1. CASE opened
    <3>1. ChosenOk' /\ opened' /\ Render
      BY <1>4, <2>1, UseKeeps DEF Select, ChartInv, ChosenOk
    <3> QED  BY <3>1, RenderKeeps
  <2>2. CASE ~opened
    BY <1>4, <2>2 DEF Select, canvasVars, ChartInv, ChosenOk, CanvasOk, ViewOk
  <2> QED  BY <2>1, <2>2
<1> QED  BY <1>1, <1>2, <1>3, <1>4

\* Answers come and are dropped, also when they are not shown.
LEMMA AnswerKeeps ==
  ASSUME ChartInv, NEW k \in Keys, CandlesSettle(k) \/ Collect(k)
  PROVE  ChartInv'
<1>1. CASE CandlesSettle(k)
  <2>1. query' \in Answers /\ answers' \in Nat
    <3>1. CASE /\ answers' = answers + 1
               /\ query' = [query EXCEPT ![k] = [Unasked EXCEPT !.data = answers']]
      <4>1. answers' \in Nat
        BY <3>1 DEF ChartInv, ChosenOk
      <4>2. [Unasked EXCEPT !.data = answers']
              \in [data : Nat, failed : BOOLEAN, busy : BOOLEAN]
        BY <4>1 DEF Unasked
      <4> QED  BY <3>1, <4>1, <4>2 DEF ChartInv, ChosenOk, Answers
    <3>2. CASE /\ query' = [query EXCEPT ![k].busy = FALSE, ![k].failed = TRUE]
               /\ UNCHANGED answers
      <4> DEFINE e == [query[k] EXCEPT !.busy = FALSE]
                 f == [e EXCEPT !.failed = TRUE]
      <4>1. query[k] \in [data : Nat, failed : BOOLEAN, busy : BOOLEAN]
        BY DEF ChartInv, ChosenOk, Answers
      <4>2. e \in [data : Nat, failed : BOOLEAN, busy : BOOLEAN]
        BY <4>1
      <4> HIDE DEF e
      <4>3. f \in [data : Nat, failed : BOOLEAN, busy : BOOLEAN]
        BY <4>2
      <4>4. query' = [query EXCEPT ![k] = f]
        BY <3>2 DEF e, ChartInv, ChosenOk, Answers
      <4> QED  BY <3>2, <4>3, <4>4 DEF ChartInv, ChosenOk, Answers
    <3> QED  BY <1>1, <3>1, <3>2 DEF CandlesSettle
  <2>2. ChosenOk' /\ opened' = opened
    BY <1>1, <2>1 DEF CandlesSettle, choiceVars, ChartInv, ChosenOk
  <2>3. CASE opened
    BY <1>1, <2>2, <2>3, RenderKeeps DEF CandlesSettle
  <2>4. CASE ~opened
    BY <1>1, <2>2, <2>4 DEF CandlesSettle, canvasVars, ChartInv, CanvasOk, ViewOk
  <2> QED  BY <2>3, <2>4
<1>2. CASE Collect(k)
  <2>1. /\ ~(opened /\ sel = k) /\ query' = [query EXCEPT ![k] = Unasked]
        /\ UNCHANGED <<opened, sel, wanted, answers, canvas, deps, drawn, visible, view>>
    BY <1>2 DEF Collect, choiceVars, canvasVars
  <2>2. ChosenOk'
    BY <2>1 DEF ChartInv, ChosenOk, Answers, Unasked
  <2>3. opened => Deps' = Deps
    BY <2>1 DEF Deps, Live, LiveData, ChartInv, ChosenOk, Answers
  <2> QED  BY <2>1, <2>2, <2>3, SameBars DEF ChartInv, CanvasOk, ViewOk
<1> QED  BY <1>1, <1>2

LEMMA ViewKeeps ==
  ASSUME ChartInv, Unmount \/ RangeChange \/ Timer \/ ResetZoom \/ FollowLatest
  PROVE  ChartInv'
<1>1. CASE Unmount
  BY <1>1 DEF Unmount, candleVars, ChartInv, ChosenOk, CanvasOk, ViewOk, NewView
<1>2. ASSUME RangeChange \/ Timer \/ ResetZoom \/ FollowLatest PROVE ChartInv'
  <2>1. UNCHANGED <<choiceVars, candleVars, canvasVars>>
    BY <1>2 DEF RangeChange, Timer, ResetZoom, FollowLatest
  <2>2. ViewOk'
    BY <1>2 DEF RangeChange, Timer, ResetZoom, FollowLatest, ChartInv, ViewOk
  <2> QED
    BY <2>1, <2>2 DEF choiceVars, candleVars, canvasVars, ChartInv, ChosenOk, CanvasOk,
       Deps, Live, LiveData, RawBars
<1> QED  BY <1>1, <1>2

LEMMA ChartNextInv == ChartInv /\ [ChartNext]_priceVars => ChartInv'
<1> SUFFICES ASSUME ChartInv, [ChartNext]_priceVars PROVE ChartInv'
  OBVIOUS
<1>1. CASE UNCHANGED priceVars
  BY <1>1 DEF priceVars, choiceVars, candleVars, canvasVars, ChartInv, ChosenOk, CanvasOk,
     ViewOk, Deps, Live, LiveData, RawBars
<1> QED  BY <1>1, ChoiceKeeps, AnswerKeeps, ViewKeeps DEF ChartNext

\* However answers, failures and selections come, a canvas on the page shows the newest
\* answer for what is selected, or demo candles when there is none.
THEOREM ShownRight == ChartSpec => []ShownIsSelected
<1>1. ChartInv => ShownIsSelected
  <2> SUFFICES ASSUME ChartInv, canvas = "attached" PROVE ShownIsSelected
    BY DEF ShownIsSelected
  <2>1. drawn = RawBars /\ visible = wanted
    BY DEF ChartInv, CanvasOk
  <2>2. Live => sel.symbol # NoSymbol
    BY ChartConstants DEF Live, Keys
  <2> QED
    BY <2>1, <2>2 DEF ShownIsSelected, RawBars, ChartInv, ViewOk
<1> QED  BY <1>1, ChartInitInv, ChartNextInv, PTL DEF ChartSpec

-----------------------------------------------------------------------------
(* The variables of the chart.                                             *)

Results == [data : 0 .. MaxAnswers, failed : BOOLEAN, busy : BOOLEAN]
Views == [fitted : BOOLEAN, scrolled : BOOLEAN, prog : BOOLEAN,
          timers : 0 .. MaxTimers, follow : BOOLEAN]

QueryTyped == /\ opened \in BOOLEAN /\ sel \in Selections /\ wanted \in BOOLEAN
              /\ query \in [Keys -> Results] /\ answers \in 0 .. MaxAnswers
CanvasTyped == /\ canvas \in {"none", "attached", "detached"}
               /\ drawn \in {<<>>} \cup Bars /\ visible \in BOOLEAN
               /\ view \in Views
AllTyped == QueryTyped /\ CanvasTyped

LEMMA RedrawTyped == ASSUME view \in Views, Redraw PROVE view' \in Views
<1>1. CASE view' = [view EXCEPT !.fitted = TRUE, !.scrolled = FALSE]
  <2> DEFINE e == [view EXCEPT !.fitted = TRUE]
  <2>1. e \in Views
    BY DEF Views
  <2> HIDE DEF e
  <2>2. [e EXCEPT !.scrolled = FALSE] \in Views
    BY <2>1 DEF Views
  <2> QED  BY <1>1, <2>2 DEF e
<1>2. CASE view.timers < MaxTimers /\ view' = [view EXCEPT !.prog = TRUE, !.timers = @ + 1]
  <2> DEFINE e == [view EXCEPT !.prog = TRUE]
  <2>1. e \in Views /\ e.timers = view.timers
    BY DEF Views
  <2> HIDE DEF e
  <2>2. e.timers + 1 \in 0 .. MaxTimers
    BY <1>2, <2>1, ChartConstants DEF Views
  <2>3. [e EXCEPT !.timers = @ + 1] \in Views
    BY <2>1, <2>2 DEF Views
  <2> QED  BY <1>2, <2>3 DEF e
<1> QED  BY <1>1, <1>2 DEF Redraw

LEMMA BarsTyped == QueryTyped => RawBars \in Bars
<1> SUFFICES ASSUME QueryTyped PROVE RawBars \in Bars
  OBVIOUS
<1>1. 0 \in 0 .. MaxAnswers /\ sel.symbol \in Symbol \cup {NoSymbol} /\ sel.tf \in Timeframe
  BY ChartConstants DEF QueryTyped, Selections
<1>2. Live => query[sel].data \in 0 .. MaxAnswers
  BY DEF Live, QueryTyped, Results
<1> QED  BY <1>1, <1>2 DEF RawBars, Bars

LEMMA RenderTyped ==
  ASSUME AllTyped, QueryTyped', Render
  PROVE  AllTyped'
<1>1. canvas' \in {"none", "attached", "detached"} /\ visible' \in BOOLEAN
  BY DEF Render, AllTyped, CanvasTyped, QueryTyped
<1>2. (RawBars \in Bars)'
  BY BarsTyped, PTL
<1>3. drawn' \in {<<>>} \cup Bars
  BY <1>2 DEF Render, AllTyped, CanvasTyped
<1>4. view' \in Views
  BY RedrawTyped DEF Render, AllTyped, CanvasTyped
<1> QED  BY <1>1, <1>3, <1>4 DEF AllTyped, CanvasTyped

LEMMA ResultsMade ==
  /\ Unasked \in Results /\ [Unasked EXCEPT !.busy = TRUE] \in Results
  /\ \A n \in 0 .. MaxAnswers : [Unasked EXCEPT !.data = n] \in Results
  /\ \A e \in Results, b \in BOOLEAN : /\ [e EXCEPT !.busy = b] \in Results
                                       /\ [e EXCEPT !.failed = b] \in Results
<1>1. 0 \in 0 .. MaxAnswers
  BY ChartConstants
<1>2. \A n \in 0 .. MaxAnswers, b \in BOOLEAN :
        [data |-> n, failed |-> FALSE, busy |-> b] \in Results
  BY DEF Results
<1>3. \A e \in Results, b \in BOOLEAN : /\ [e EXCEPT !.busy = b] \in Results
                                        /\ [e EXCEPT !.failed = b] \in Results
  BY DEF Results
<1>4. \A e \in Results, n \in 0 .. MaxAnswers : [e EXCEPT !.data = n] \in Results
  BY DEF Results
<1>5. Unasked \in Results
  BY <1>1, <1>2 DEF Unasked
<1> QED  BY <1>1, <1>2, <1>3, <1>4, <1>5

LEMMA SettleTyped ==
  ASSUME QueryTyped, NEW k \in Keys, CandlesSettle(k)
  PROVE  QueryTyped'
<1>1. CASE /\ answers < MaxAnswers /\ answers' = answers + 1
           /\ query' = [query EXCEPT ![k] = [Unasked EXCEPT !.data = answers']]
  <2>1. answers' \in 0 .. MaxAnswers
    BY <1>1, ChartConstants DEF QueryTyped
  <2>2. [Unasked EXCEPT !.data = answers'] \in Results
    BY <2>1, ResultsMade
  <2>3. query' \in [Keys -> Results]
    BY <1>1, <2>2 DEF QueryTyped
  <2> QED  BY <2>1, <2>3 DEF CandlesSettle, choiceVars, QueryTyped
<1>2. CASE /\ query' = [query EXCEPT ![k].busy = FALSE, ![k].failed = TRUE]
           /\ UNCHANGED answers
  <2> DEFINE e == [query[k] EXCEPT !.busy = FALSE]
             f == [e EXCEPT !.failed = TRUE]
  <2>1. query[k] \in Results
    BY DEF QueryTyped
  <2>2. e \in Results
    BY <2>1, ResultsMade
  <2> HIDE DEF e
  <2>3. f \in Results
    BY <2>2, ResultsMade
  <2>4. query' = [query EXCEPT ![k] = f]
    BY <1>2 DEF e, QueryTyped
  <2>5. query' \in [Keys -> Results]
    BY <2>3, <2>4 DEF QueryTyped
  <2> QED  BY <1>2, <2>5 DEF CandlesSettle, choiceVars, QueryTyped
<1> QED  BY <1>1, <1>2 DEF CandlesSettle

LEMMA ChoiceTyped ==
  ASSUME AllTyped,
         Mount \/ Toggle \/ Fetch \/ \E s \in Selections : Select(s)
  PROVE  AllTyped'
<1>1. \A k : Use(k) \in [Keys -> Results]
  BY ResultsMade DEF Use, AllTyped, QueryTyped
<1>2. CASE Mount
  BY <1>1, <1>2, RenderTyped DEF Mount, AllTyped, QueryTyped
<1>3. CASE Toggle
  BY <1>3, RenderTyped DEF Toggle, candleVars, AllTyped, QueryTyped
<1>4. CASE Fetch
  <2> DEFINE b == query[sel].failed /\ query[sel].data # 0
             e == [query[sel] EXCEPT !.busy = TRUE]
             f == [e EXCEPT !.failed = @ /\ query[sel].data # 0]
  <2>1. query[sel] \in Results /\ sel \in Keys
    BY <1>4 DEF Fetch, AllTyped, QueryTyped
  <2>2. e \in Results
    BY <2>1, ResultsMade
  <2> HIDE DEF e
  <2>3. f \in Results
    BY <2>2 DEF Results
  <2>4. query' = [query EXCEPT ![sel] = f]
    BY <1>4 DEF Fetch, e
  <2> HIDE DEF f
  <2>5. query' \in [Keys -> Results]
    BY <2>3, <2>4 DEF AllTyped, QueryTyped
  <2>6. QueryTyped'
    BY <1>4, <2>5 DEF Fetch, choiceVars, AllTyped, QueryTyped
  <2> QED  BY <1>4, <2>6, RenderTyped DEF Fetch
<1>5. ASSUME NEW s \in Selections, Select(s) PROVE AllTyped'
  <2>1. QueryTyped'
    BY <1>1, <1>5 DEF Select, AllTyped, QueryTyped
  <2>2. CASE opened
    BY <1>5, <2>1, <2>2, RenderTyped DEF Select
  <2>3. CASE ~opened
    BY <1>5, <2>1, <2>3 DEF Select, canvasVars, AllTyped, CanvasTyped
  <2> QED  BY <2>2, <2>3
<1> QED  BY <1>2, <1>3, <1>4, <1>5

LEMMA ViewTyped ==
  ASSUME view \in Views,
         \/ Unmount \/ RangeChange \/ Timer \/ ResetZoom
         \/ FollowLatest
  PROVE  view' \in Views
<1>1. PICK a \in BOOLEAN, b \in BOOLEAN, c \in BOOLEAN, n \in 0 .. MaxTimers, d \in BOOLEAN :
        view = [fitted |-> a, scrolled |-> b, prog |-> c, timers |-> n, follow |-> d]
  BY DEF Views
<1>2. CASE Unmount
  BY <1>2, ChartConstants DEF Unmount, NewView, Views
<1>3. CASE RangeChange
  <2>1. view' = [fitted |-> a, scrolled |-> TRUE, prog |-> c, timers |-> n, follow |-> TRUE]
    BY <1>1, <1>3 DEF RangeChange
  <2> QED  BY <2>1 DEF Views
<1>4. CASE Timer
  <2>1. n - 1 \in 0 .. MaxTimers
    BY <1>1, <1>4, ChartConstants DEF Timer
  <2>2. view' = [fitted |-> a, scrolled |-> b, prog |-> FALSE, timers |-> n - 1, follow |-> d]
    BY <1>1, <1>4 DEF Timer
  <2> QED  BY <2>1, <2>2 DEF Views
<1>5. CASE ResetZoom
  <2>1. view' = [fitted |-> TRUE, scrolled |-> FALSE, prog |-> c, timers |-> n, follow |-> d]
    BY <1>1, <1>5 DEF ResetZoom
  <2> QED  BY <2>1 DEF Views
<1>6. CASE FollowLatest
  <2>1. n + 1 \in 0 .. MaxTimers
    BY <1>1, <1>6, ChartConstants DEF FollowLatest
  <2>2. view' = [fitted |-> a, scrolled |-> FALSE, prog |-> TRUE, timers |-> n + 1,
                 follow |-> FALSE]
    BY <1>1, <1>6 DEF FollowLatest
  <2> QED  BY <2>1, <2>2 DEF Views
<1> QED  BY <1>2, <1>3, <1>4, <1>5, <1>6

LEMMA ChartStep == AllTyped /\ [ChartNext]_priceVars => AllTyped'
<1> SUFFICES ASSUME AllTyped, [ChartNext]_priceVars PROVE AllTyped'
  OBVIOUS
<1>1. ASSUME NEW k \in Keys, CandlesSettle(k) PROVE AllTyped'
  <2>1. QueryTyped'
    BY <1>1, SettleTyped DEF AllTyped
  <2> QED  BY <1>1, <2>1, RenderTyped DEF CandlesSettle, canvasVars, AllTyped, CanvasTyped
<1>2. ASSUME NEW k \in Keys, Collect(k) PROVE AllTyped'
  BY <1>2, ResultsMade DEF Collect, choiceVars, canvasVars, AllTyped, QueryTyped, CanvasTyped
<1>3. CASE Unmount \/ RangeChange \/ Timer \/ ResetZoom \/ FollowLatest
  <2>1. view' \in Views
    BY <1>3, ViewTyped DEF AllTyped, CanvasTyped
  <2>2. QueryTyped'
    BY <1>3 DEF Unmount, RangeChange, Timer, ResetZoom, FollowLatest, choiceVars, candleVars,
       AllTyped, QueryTyped
  <2>3. /\ canvas' \in {"none", canvas} /\ drawn' \in {<<>>, drawn}
        /\ visible' \in {FALSE, visible}
    BY <1>3 DEF Unmount, RangeChange, Timer, ResetZoom, FollowLatest, canvasVars
  <2> QED  BY <2>1, <2>2, <2>3 DEF AllTyped, CanvasTyped
<1>4. CASE UNCHANGED priceVars
  BY <1>4 DEF priceVars, choiceVars, candleVars, canvasVars, AllTyped, QueryTyped, CanvasTyped
<1> QED  BY <1>1, <1>2, <1>3, <1>4, ChoiceTyped DEF ChartNext

LEMMA ChartTyped == ChartSpec => []ChartTypeOK
<1>1. ChartInit => AllTyped
  <2> SUFFICES ASSUME ChartInit PROVE AllTyped
    OBVIOUS
  <2>1. 0 \in 0 .. MaxAnswers /\ 0 \in 0 .. MaxTimers
    BY ChartConstants
  <2>2. NewView \in Views
    BY <2>1 DEF NewView, Views
  <2>3. query \in [Keys -> Results]
    BY ResultsMade DEF ChartInit
  <2> QED  BY <2>1, <2>2, <2>3 DEF ChartInit, AllTyped, QueryTyped, CanvasTyped
<1>2. AllTyped => ChartTypeOK
  BY DEF AllTyped, QueryTyped, CanvasTyped, Results, Views, ChartTypeOK
<1> QED  BY <1>1, <1>2, ChartStep, PTL DEF ChartSpec

-----------------------------------------------------------------------------
(* The signals.                                                            *)

LEMMA FirstIsOne ==
  ASSUME NEW S, S \subseteq Nat, S # {}
  PROVE  (CHOOSE i \in S : \A j \in S : i <= j) \in S
<1>1. PICK i \in S : \A j \in S : ~ (<<j, i>> \in OpToRel(<, Nat))
  BY WFMin, NatLessThanWellFounded
<1>2. \A j \in S : i <= j
  <2> SUFFICES ASSUME NEW j \in S PROVE i <= j
    OBVIOUS
  <2>1. <<j, i>> \in Nat \X Nat /\ ~ (j < i)
    BY <1>1 DEF OpToRel
  <2> QED  BY <2>1
<1> QED  BY <1>2

\* The price the chart shows is of one of the sources in use, in a state and the next.
LEMMA PriceIsUsed ==
  /\ ChartPrice \in Used \cup {Absent}
  /\ ChartPrice' \in Used' \cup {Absent}
<1>1. DOMAIN Order \subseteq Nat /\ \A i \in DOMAIN Order : Order[i] \in Source
  BY SignalsConstants, LenProperties, ElementOfSeq
<1>2. ASSUME NEW S, S \subseteq DOMAIN Order, S # {}
      PROVE  Order[CHOOSE i \in S : \A j \in S : i <= j] \in Source
  <2>1. (CHOOSE i \in S : \A j \in S : i <= j) \in S
    BY <1>1, <1>2, FirstIsOne
  <2> QED  BY <1>1, <1>2, <2>1
<1>3. ChartPrice \in Used \cup {Absent}
  <2>1. CASE Priced = {}
    BY <2>1 DEF ChartPrice
  <2>2. CASE Priced # {}
    <3>1. Order[CHOOSE i \in Priced : \A j \in Priced : i <= j] \in Source
      BY <1>2, <2>2 DEF Priced
    <3> QED  BY <2>2, <3>1 DEF ChartPrice, Used
  <2> QED  BY <2>1, <2>2
<1>4. ChartPrice' \in Used' \cup {Absent}
  <2>1. CASE Priced' = {}
    BY <2>1 DEF ChartPrice
  <2>2. CASE Priced' # {}
    <3>1. (Order[CHOOSE i \in Priced : \A j \in Priced : i <= j])' \in Source
      BY <1>2, <2>2 DEF Priced
    <3> QED  BY <2>2, <3>1 DEF ChartPrice, Used
  <2> QED  BY <2>1, <2>2
<1> QED  BY <1>3, <1>4

\* The inductive invariant: so is a prediction that was asked for, or is to be.
SignalInv == /\ points \in Seq(Used)
             /\ pred \subseteq Used
             /\ dialog = [of |-> dialog.of, pending |-> dialog.pending,
                          result |-> dialog.result]
             /\ {dialog.of, dialog.pending, dialog.result} \subseteq {selected, Absent}

LEMMA SignalInitInv == SignalsInit => SignalInv
BY EmptySeq DEF SignalsInit, SignalInv, Closed

LEMMA PointAdded ==
  ASSUME NEW U, points \in Seq(U), pred \subseteq U, NEW k \in U, AddPoint(k)
  PROVE  points' \in Seq(U) /\ pred' \subseteq U
<1> DEFINE all == Append(points, k)
<1>1. all \in Seq(U) /\ all # <<>>
  BY AppendProperties, EmptySeq
<1>2. Tail(all) \in Seq(U)
  BY <1>1, HeadTailProperties
<1> QED  BY <1>1, <1>2 DEF AddPoint

\* The same dashboard goes on: its points are of the same asset.
LEMMA ChartKeeps ==
  ASSUME SignalInv,
         Tick \/ \E k \in SourceKeys : PriceSettles(k)
  PROVE  SignalInv'
<1>1. UNCHANGED <<selected, dialog>> /\ Used' = Used
  BY DEF Tick, PriceSettles, Used
<1>2. points' \in Seq(Used) /\ pred' \subseteq Used
  <2>1. CASE Tick
    BY <2>1, PriceIsUsed, PointAdded DEF Tick, SignalInv
  <2>2. CASE \E k \in SourceKeys : PriceSettles(k)
    <3>1. CASE ChartPrice' # Absent /\ AddPoint(ChartPrice')
      BY <1>1, <3>1, PriceIsUsed, PointAdded DEF SignalInv
    <3>2. CASE UNCHANGED <<points, pred>>
      BY <3>2 DEF SignalInv
    <3> QED  BY <2>2, <3>1, <3>2 DEF PriceSettles, Repriced
  <2> QED  BY <2>1, <2>2
<1> QED  BY <1>1, <1>2 DEF SignalInv

LEMMA OnePoint == ASSUME NEW U, NEW k \in U PROVE <<k>> \in Seq(U)
OBVIOUS

LEMMA SelectKeeps ==
  ASSUME SignalInv, NEW a \in Asset, SelectAsset(a)
  PROVE  SignalInv'
<1>1. points' \in Seq(Used') /\ pred' \subseteq Used'
  <2>1. CASE ChartPrice' = Absent
    BY <2>1, EmptySeq DEF SelectAsset
  <2>2. CASE ChartPrice' # Absent
    <3>1. ChartPrice' \in Used'
      BY <2>2, PriceIsUsed
    <3>2. points' = <<ChartPrice'>> /\ pred' = {ChartPrice'}
      BY <2>2 DEF SelectAsset
    <3> QED  BY <3>1, <3>2, OnePoint
  <2> QED  BY <2>1, <2>2
<1>2. dialog' = Closed
  BY DEF SelectAsset
<1> QED  BY <1>1, <1>2 DEF SignalInv, Closed

LEMMA DialogKeeps ==
  ASSUME SignalInv,
         \/ OpenFusion \/ Recalculate
         \/ Predicted \/ CloseFusion
  PROVE  SignalInv'
<1>1. UNCHANGED <<selected, points, pred>> /\ Used' = Used
  BY DEF OpenFusion, Recalculate, Predicted, CloseFusion,
     Used
<1> DEFINE Are(d) == /\ d = [of |-> d.of, pending |-> d.pending, result |-> d.result]
                     /\ {d.of, d.pending, d.result} \subseteq {selected, Absent}
<1>2. Are(dialog')
  <2>1. Are(Closed) /\ Are([Closed EXCEPT !.of = selected])
    BY DEF Closed
  <2>2. PICK o, q, r \in {selected, Absent} :
          dialog = [of |-> o, pending |-> q, result |-> r]
    BY DEF SignalInv
  <2>3. Are([dialog EXCEPT !.pending = dialog.of, !.result = Absent])
    <3> DEFINE e == [dialog EXCEPT !.pending = dialog.of]
               f == [e EXCEPT !.result = Absent]
    <3>1. e = [of |-> o, pending |-> o, result |-> r]
      BY <2>2
    <3> HIDE DEF e
    <3>2. f = [of |-> o, pending |-> o, result |-> Absent]
      BY <3>1
    <3>3. Are(f)
      BY <3>2
    <3> QED  BY <3>3 DEF e
  <2>4. ASSUME NEW s \in {dialog.pending, Absent}
        PROVE  Are([dialog EXCEPT !.pending = Absent, !.result = s])
    <3> DEFINE e == [dialog EXCEPT !.pending = Absent]
               f == [e EXCEPT !.result = s]
    <3>1. e = [of |-> o, pending |-> Absent, result |-> r]
      BY <2>2
    <3> HIDE DEF e
    <3>2. f = [of |-> o, pending |-> Absent, result |-> s] /\ s \in {selected, Absent}
      BY <2>2, <3>1
    <3>3. Are(f)
      BY <3>2
    <3> QED  BY <3>3 DEF e
  <2> HIDE DEF Are
  <2> QED  BY <2>1, <2>3, <2>4 DEF OpenFusion, Recalculate, Predicted, CloseFusion
<1> QED  BY <1>1, <1>2 DEF SignalInv

LEMMA SignalNextInv == SignalInv /\ [SignalsNext]_signalVars => SignalInv'
<1> SUFFICES ASSUME SignalInv, [SignalsNext]_signalVars PROVE SignalInv'
  OBVIOUS
<1>1. ASSUME UNCHANGED <<selected, points, pred, dialog>> PROVE SignalInv'
  BY <1>1 DEF SignalInv, Used
<1>2. ASSUME NEW k, Poll(k) \/ DropPrice(k) PROVE SignalInv'
  BY <1>1, <1>2 DEF Poll, DropPrice, dashboardVars
<1>3. CASE UNCHANGED signalVars
  BY <1>1, <1>3 DEF signalVars, dashboardVars
<1>4. CASE \E a \in Asset : SelectAsset(a)
  BY <1>4, SelectKeeps
<1>5. CASE Tick \/ \E k \in SourceKeys : PriceSettles(k)
  BY <1>5, ChartKeeps
<1>6. CASE OpenFusion \/ Recalculate \/ Predicted \/ CloseFusion
  BY <1>6, DialogKeeps
<1>7. CASE \E k \in SourceKeys : Poll(k) \/ DropPrice(k)
  BY <1>2, <1>7
<1> QED  BY <1>3, <1>4, <1>5, <1>6, <1>7 DEF SignalsNext

\* However late answers come and whichever assets are selected in between, every point
\* shown, every price predicted to and the fused result are of the asset selected.
THEOREM AssetRight == SignalsSpec => []SignalsOfAsset
<1>1. SignalInv => SignalsOfAsset
  <2> SUFFICES ASSUME SignalInv PROVE SignalsOfAsset
    OBVIOUS
  <2>1. \A i \in DOMAIN points : points[i] \in Used
    BY LenProperties, ElementOfSeq DEF SignalInv
  <2> QED  BY <2>1 DEF SignalInv, SignalsOfAsset, ToSet
<1> QED  BY <1>1, SignalInitInv, SignalNextInv, PTL DEF SignalsSpec

LEMMA KeysOfAssets == ASSUME NEW a \in Asset, NEW s \in Source
                      PROVE  SourceKey(s, a) \in SourceKeys
BY DEF SourceKeys

LEMMA UsedAreKeys ==
  /\ selected \in Asset => Used \subseteq SourceKeys
  /\ selected' \in Asset => Used' \subseteq SourceKeys
BY KeysOfAssets DEF Used

LEMMA FewPoints ==
  ASSUME SignalInv, Len(points) <= MaxPoints, NEW k, AddPoint(k)
  PROVE  Len(points') <= MaxPoints
<1> DEFINE U == Used \cup {k}
           all == Append(points, k)
<1>1. points \in Seq(U)
  BY SeqMonotonic DEF SignalInv
<1>2. /\ all \in Seq(U) /\ all # <<>> /\ Len(all) = Len(points) + 1
      /\ Len(points) \in Nat
  BY <1>1, AppendProperties, EmptySeq, LenProperties
<1>3. Len(Tail(all)) = Len(points)
  BY <1>2, HeadTailProperties
<1> QED  BY <1>2, <1>3, SignalsConstants DEF AddPoint

\* What is kept of every source, and the length of the chart.
SourcesOk == /\ selected \in Asset
             /\ prices \in [SourceKeys -> {"none", "unpriced", "priced"}]
             /\ asked \subseteq SourceKeys
             /\ Len(points) <= MaxPoints

LEMMA SourcesStep ==
  ASSUME SignalInv, SourcesOk, [SignalsNext]_signalVars
  PROVE  SourcesOk'
<1>1. CASE Tick
  BY <1>1, FewPoints DEF Tick, SourcesOk
<1>2. ASSUME NEW k \in SourceKeys, PriceSettles(k) PROVE SourcesOk'
  <2>1. Len(points') <= MaxPoints
    BY <1>2, FewPoints DEF PriceSettles, Repriced, SourcesOk
  <2> QED  BY <1>2, <2>1 DEF PriceSettles, SourcesOk
<1>3. ASSUME NEW k \in SourceKeys, Poll(k) \/ DropPrice(k) PROVE SourcesOk'
  BY <1>3 DEF Poll, DropPrice, dashboardVars, SourcesOk
<1>4. ASSUME NEW a \in Asset, SelectAsset(a) PROVE SourcesOk'
  <2>1. selected' \in Asset /\ prices' = prices
    BY <1>4 DEF SelectAsset
  <2>2. asked' \subseteq SourceKeys
    BY <1>4, <2>1, UsedAreKeys DEF SelectAsset, SourcesOk
  <2>3. Len(points') <= MaxPoints
    <3>1. Len(<<>>) = 0 /\ \A k : Len(<<k>>) = 1
      OBVIOUS
    <3>2. \E k : points' \in {<<>>, <<k>>}
      BY <1>4 DEF SelectAsset
    <3>3. Len(points') \in {0, 1}
      BY <3>1, <3>2
    <3>4. 0 <= MaxPoints /\ 1 <= MaxPoints
      BY SignalsConstants
    <3> QED  BY <3>3, <3>4
  <2> QED  BY <2>1, <2>2, <2>3 DEF SourcesOk
<1>5. CASE OpenFusion \/ Recalculate \/ Predicted \/ CloseFusion \/ UNCHANGED signalVars
  BY <1>5 DEF OpenFusion, Recalculate, Predicted, CloseFusion, signalVars, dashboardVars,
     SourcesOk
<1> QED  BY <1>1, <1>2, <1>3, <1>4, <1>5 DEF SignalsNext

LEMMA SignalsTyped == SignalsSpec => []SignalsTypeOK
<1>1. SignalsInit => SourcesOk
  <2> SUFFICES ASSUME SignalsInit PROVE SourcesOk
    OBVIOUS
  <2>1. Used \subseteq SourceKeys
    BY UsedAreKeys DEF SignalsInit
  <2> QED  BY <2>1, EmptySeq, SignalsConstants DEF SignalsInit, SourcesOk
<1>2. SignalInv /\ SourcesOk => SignalsTypeOK
  <2> SUFFICES ASSUME SignalInv, SourcesOk PROVE SignalsTypeOK
    OBVIOUS
  <2>1. Used \subseteq SourceKeys
    BY UsedAreKeys DEF SourcesOk
  <2>2. \A i \in DOMAIN points : points[i] \in Used
    BY LenProperties, ElementOfSeq DEF SignalInv
  <2>3. {dialog.of, dialog.pending, dialog.result} \subseteq Asset \cup {Absent}
    BY DEF SignalInv, SourcesOk
  <2>4. dialog \in [of : Asset \cup {Absent}, pending : Asset \cup {Absent},
                    result : Asset \cup {Absent}]
    BY <2>3 DEF SignalInv
  <2> QED  BY <2>1, <2>2, <2>4 DEF SignalInv, SourcesOk, SignalsTypeOK
<1> QED  BY <1>1, <1>2, SignalInitInv, SignalNextInv, SourcesStep, PTL DEF SignalsSpec


-----------------------------------------------------------------------------
(* The page of one market.                                                 *)

MarketRequest == [of : Row, got : Page!View, stage : Page!Stages]
AskedBet == [to : Nat, on : Row, shown : BOOLEAN]

RowsTyped == /\ chainId \in ChainIds
             /\ row \in [Row -> Page!View] /\ cached \in [Row -> Page!View]
             /\ reader \in [of : Row, got : Page!View] \cup {Nothing}
\* A stream is that of an open page.
OpenTyped == /\ at \in Row \cup {0} /\ seen \in Page!View /\ failed \in BOOLEAN
             /\ request \in MarketRequest \cup {Nothing}
             /\ stream \in BOOLEAN /\ (stream => at # 0)
BetsTyped == /\ btn \in {"idle", "pending", "success", "error"}
             /\ asksToBet \subseteq AskedBet
             /\ \A b \in sent : b \in [to : Nat, on : Row]
             /\ \A w \in watched : w \in [id : Nat, question : Row]
             /\ \A n \in told : n \in [question : Row, outcome : {"Yes", "No"}]

LEMMA AskTyped == ASSUME NEW r \in Row, Page!Ask(r) PROVE request' \in MarketRequest
BY DEF Page!Ask, MarketRequest, Page!View, Page!Stages

LEMMA FormTyped ==
  ASSUME BetsTyped, Page!UnmountForm
  PROVE  btn' = "idle" /\ asksToBet' \subseteq AskedBet
<1>1. \A p \in asksToBet : [p EXCEPT !.shown = FALSE] \in AskedBet
  BY DEF BetsTyped, AskedBet
<1> QED  BY <1>1 DEF Page!UnmountForm

LEMMA UnmountTyped ==
  ASSUME BetsTyped, Page!Unmount
  PROVE  OpenTyped' /\ btn' = "idle" /\ asksToBet' \subseteq AskedBet
<1>1. OpenTyped'
  BY DEF Page!Unmount, OpenTyped, Page!View
<1> QED  BY <1>1, FormTyped DEF Page!Unmount

\* Whatever number is asked for, a view of a row is found, or nothing.
LEMMA FoundTyped ==
  ASSUME RowsTyped, NEW n
  PROVE  Page!InStore(n) \in Page!View /\ Page!Found(n) \in Page!View
<1>1. Page!Numbered(n) # {} => row[CHOOSE r \in Page!Numbered(n) : TRUE] \in Page!View
  BY DEF Page!Numbered, RowsTyped
<1>2. Page!InStore(n) \in Page!View
  BY <1>1 DEF Page!InStore, RowsTyped, Page!View
<1> QED  BY <1>2 DEF Page!Found, RowsTyped

\* What the API reads and caches.
LEMMA RowsStep ==
  ASSUME RowsTyped, OpenTyped,
         \/ \E r \in Row, o \in {"Yes", "No"} : Page!IndexResolution(r, o)
         \/ \E r \in Row : Page!CacheExpires(r) \/ Page!OtherRead(r)
         \/ Page!OtherCaches \/ Page!Answer
  PROVE  RowsTyped' /\ OpenTyped'
<1>1. ASSUME NEW r \in Row, NEW o \in {"Yes", "No"}, Page!IndexResolution(r, o)
      PROVE  RowsTyped' /\ OpenTyped'
  <2>1. row[r] \in Page!View /\ row[r] # Nothing
    BY <1>1 DEF RowsTyped, Page!IndexResolution
  <2>2. [row[r] EXCEPT !.status = o] \in Page!View
    BY <1>1, <2>1 DEF Page!View
  <2>3. /\ row' = [row EXCEPT ![r] = [row[r] EXCEPT !.status = o]]
        /\ UNCHANGED <<chainId, cached, reader, at, seen, failed, request, stream>>
    BY <1>1 DEF Page!IndexResolution
  <2> QED  BY <2>2, <2>3 DEF RowsTyped, OpenTyped
<1>2. ASSUME NEW r \in Row, Page!CacheExpires(r) \/ Page!OtherRead(r)
      PROVE  RowsTyped' /\ OpenTyped'
  <2>1. UNCHANGED <<chainId, row, at, seen, failed, request, stream>>
    BY <1>2 DEF Page!CacheExpires, Page!OtherRead
  <2>2. cached' \in [Row -> Page!View]
    BY <1>2 DEF Page!CacheExpires, Page!OtherRead, RowsTyped, Page!View
  <2>3. reader' \in [of : Row, got : Page!View] \cup {Nothing}
    BY <1>2 DEF Page!CacheExpires, Page!OtherRead, RowsTyped
  <2> QED  BY <2>1, <2>2, <2>3 DEF RowsTyped, OpenTyped
<1>3. CASE Page!OtherCaches
  <2>1. /\ reader \in [of : Row, got : Page!View]
        /\ cached' = [cached EXCEPT ![reader.of] = reader.got] /\ reader' = Nothing
        /\ UNCHANGED <<chainId, row, at, seen, failed, request, stream>>
    BY <1>3 DEF Page!OtherCaches, RowsTyped
  <2> QED  BY <2>1 DEF RowsTyped, OpenTyped
<1>4. CASE Page!Answer
  <2>1. /\ request \in MarketRequest /\ seen' = request.got /\ request' = Nothing
        /\ cached' \in {cached, [cached EXCEPT ![request.of] = request.got]}
        /\ failed' = FALSE
        /\ UNCHANGED <<chainId, row, reader, at, stream>>
    BY <1>4 DEF Page!Answer, Page!Caching, OpenTyped
  <2> QED  BY <2>1 DEF MarketRequest, RowsTyped, OpenTyped
<1> QED  BY <1>1, <1>2, <1>3, <1>4

\* What the page asks and hears.
LEMMA OpenStep ==
  ASSUME RowsTyped, OpenTyped,
         \/ \E r \in Row : Page!OpenPage(r)
         \/ Page!Poll \/ Page!StreamEvent \/ Page!StreamError \/ Page!ServeRead
  PROVE  RowsTyped' /\ OpenTyped'
<1>1. UNCHANGED <<chainId, row, cached, reader>>
  BY DEF Page!OpenPage, Page!Poll, Page!StreamEvent, Page!StreamError, Page!ServeRead,
     Page!backend
<1>2. ASSUME NEW r \in Row, Page!OpenPage(r) PROVE OpenTyped'
  <2>1. /\ at' = r /\ seen' = Nothing /\ failed' = FALSE /\ stream' = TRUE /\ r # 0
        /\ request' \in MarketRequest
    BY <1>2, AskTyped, PageConstants DEF Page!OpenPage
  <2> QED  BY <2>1 DEF OpenTyped, Page!View
<1>3. ASSUME Page!Poll \/ Page!StreamEvent PROVE OpenTyped'
  <2>1. UNCHANGED <<at, seen, failed, stream>> /\ at \in Row /\ Page!Ask(at)
    BY <1>3 DEF Page!Poll, Page!StreamEvent, OpenTyped
  <2> QED  BY <2>1, AskTyped DEF OpenTyped
<1>4. ASSUME Page!StreamError PROVE OpenTyped'
  <2>1. UNCHANGED <<at, seen, failed, request>> /\ stream' = FALSE
    BY <1>4 DEF Page!StreamError
  <2> QED  BY <2>1 DEF OpenTyped
<1>5. ASSUME Page!ServeRead PROVE OpenTyped'
  <2>1. /\ UNCHANGED <<at, seen, failed, stream>> /\ request \in MarketRequest
        /\ request' = [request EXCEPT
              !.got = Page!Found(request.of),
              !.stage = IF cached[request.of] = Nothing THEN "read" ELSE "hit"]
    BY <1>5 DEF Page!ServeRead, OpenTyped
  <2>2. Page!Found(request.of) \in Page!View
    BY FoundTyped
  <2>3. request' \in MarketRequest
    BY <2>1, <2>2 DEF MarketRequest, Page!Stages
  <2> QED  BY <2>1, <2>3 DEF OpenTyped
<1> QED  BY <1>1, <1>2, <1>3, <1>4, <1>5 DEF RowsTyped

\* The bets that the page asks the wallet for.
LEMMA BetsStep ==
  ASSUME RowsTyped, OpenTyped, BetsTyped,
         \/ Page!SubmitBet \/ \E p \in asksToBet : Page!ConfirmBet(p) \/ Page!RejectBet(p)
         \/ Page!ResetForm
         \/ \E w \in watched : Page!WatcherChecks(w) \/ Page!WatcherFails(w)
  PROVE  RowsTyped' /\ OpenTyped' /\ BetsTyped'
<1>1. UNCHANGED <<chainId, row, cached, reader, at, seen, failed, request, stream>>
  BY DEF Page!SubmitBet, Page!ConfirmBet, Page!RejectBet, Page!ResetForm,
     Page!WatcherChecks, Page!WatcherFails, Page!backend
<1>2. ASSUME Page!SubmitBet PROVE BetsTyped'
  <2> DEFINE bet == [to |-> Page!ChainIdFor(seen), on |-> seen.of, shown |-> TRUE]
  <2>1. seen.of \in Row /\ at \in Row
    BY <1>2 DEF Page!SubmitBet, Page!BettingShown, Page!MarketShown, Page!View, OpenTyped
  <2>2. Page!ChainIdFor(seen) \in Nat
    BY <2>1, PageConstants DEF Page!ChainIdFor, RowsTyped
  <2>3. /\ asksToBet' = asksToBet \cup {bet}
        /\ btn' = "pending" /\ UNCHANGED <<sent, watched, told>>
    BY <1>2 DEF Page!SubmitBet
  <2>4. bet \in AskedBet
    BY <2>1, <2>2 DEF AskedBet
  <2> HIDE DEF bet
  <2> QED  BY <2>3, <2>4 DEF BetsTyped
<1>3. ASSUME NEW p \in asksToBet, Page!ConfirmBet(p) PROVE BetsTyped'
  <2>1. /\ p \in AskedBet /\ asksToBet' \subseteq asksToBet /\ told' = told
        /\ sent' = sent \cup {[to |-> p.to, on |-> p.on]}
    BY <1>3 DEF Page!ConfirmBet, BetsTyped
  <2>2. /\ btn' \in {btn, "success"}
        /\ watched' \subseteq watched \cup {[id |-> p.to, question |-> p.on]}
    BY <1>3 DEF Page!ConfirmBet
  <2> QED  BY <2>1, <2>2 DEF BetsTyped, AskedBet
<1>4. ASSUME Page!ResetForm \/ \E p \in asksToBet : Page!RejectBet(p) PROVE BetsTyped'
  BY <1>4 DEF Page!RejectBet, Page!ResetForm, BetsTyped
<1>5. ASSUME NEW w \in watched, Page!WatcherChecks(w) \/ Page!WatcherFails(w)
      PROVE  BetsTyped'
  <2>1. UNCHANGED <<btn, asksToBet, sent>> /\ watched' \subseteq watched
    BY <1>5 DEF Page!WatcherChecks, Page!WatcherFails
  <2>2. w \in [id : Nat, question : Row]
    BY DEF BetsTyped
  <2>3. \A n \in told' : n \in [question : Row, outcome : {"Yes", "No"}]
    <3>1. CASE told' = told
      BY <3>1 DEF BetsTyped
    <3>2. CASE told' # told
      <4> DEFINE v == Page!Found(w.id)
                 n == [question |-> w.question, outcome |-> v.status]
      <4>1. /\ v # Nothing /\ v.status # "Open"
            /\ told' = told \cup {n}
        BY <1>5, <3>2 DEF Page!WatcherChecks, Page!WatcherFails
      <4>2. v \in Page!View
        BY FoundTyped
      <4>3. n \in [question : Row, outcome : {"Yes", "No"}]
        BY <2>2, <4>1, <4>2 DEF Page!View
      <4> HIDE DEF n
      <4> QED  BY <4>1, <4>3 DEF BetsTyped
    <3> QED  BY <3>1, <3>2
  <2> QED  BY <2>1, <2>3 DEF BetsTyped
<1>6. BetsTyped'
  BY <1>2, <1>3, <1>4, <1>5
<1> QED  BY <1>1, <1>6 DEF RowsTyped, OpenTyped

\* The page is left, gives up or shows an error, and the market it shows is edited or
\* deleted.
LEMMA EditStep ==
  ASSUME RowsTyped, OpenTyped, BetsTyped,
         \/ Page!LeavePage \/ Page!AnswerNotFound \/ Page!FirstRequestFails
         \/ Page!RequestFails \/ Page!SaveEdit \/ Page!DeleteMarket
  PROVE  RowsTyped' /\ OpenTyped' /\ BetsTyped'
<1>1. CASE Page!LeavePage \/ Page!AnswerNotFound \/ Page!FirstRequestFails
  <2>1. /\ UNCHANGED <<chainId, row, cached, reader, sent, watched, told>>
        /\ Page!Unmount
    BY <1>1 DEF Page!LeavePage, Page!AnswerNotFound, Page!FirstRequestFails, Page!backend
  <2> QED  BY <2>1, UnmountTyped DEF RowsTyped, BetsTyped
<1>2. CASE Page!RequestFails
  <2>1. /\ UNCHANGED <<chainId, row, cached, reader, sent, watched, told>>
        /\ UNCHANGED <<at, seen, stream>> /\ request' = Nothing /\ failed' = TRUE
        /\ Page!UnmountForm
    BY <1>2 DEF Page!RequestFails, Page!backend
  <2> QED  BY <2>1, FormTyped DEF RowsTyped, OpenTyped, BetsTyped
<1>3. ASSUME Page!MarketShown PROVE seen.of \in Row /\ at \in Row
  BY <1>3 DEF Page!MarketShown, Page!View, OpenTyped
<1>4. CASE Page!SaveEdit
  <2> DEFINE m == seen.of
             n == row[m].text + 1
             v == [row[m] EXCEPT !.text = n]
  <2>1. /\ UNCHANGED <<chainId, reader, at, seen, failed, stream>> /\ Page!Ask(at)
        /\ UNCHANGED <<btn, asksToBet, sent, watched, told>> /\ at \in Row /\ m \in Row
    BY <1>3, <1>4 DEF Page!SaveEdit, Page!form
  <2>2. /\ row' = [row EXCEPT ![m] = v]
        /\ cached' = [cached EXCEPT ![m] = Nothing]
        /\ row[m] # Nothing /\ row[m].text < MaxEdits
    BY <1>4 DEF Page!SaveEdit
  <2> HIDE DEF m
  <2>3. row[m] \in [of : Row, status : {"Open", "Yes", "No"}, text : 0 .. MaxEdits]
    BY <2>1, <2>2 DEF RowsTyped, Page!View
  <2>4. n \in 0 .. MaxEdits
    BY <2>2, <2>3, PageConstants
  <2> HIDE DEF n
  <2>5. v \in Page!View
    BY <2>3, <2>4 DEF Page!View
  <2> HIDE DEF v
  <2>6. row' \in [Row -> Page!View] /\ cached' \in [Row -> Page!View]
    BY <2>1, <2>2, <2>5 DEF RowsTyped, Page!View
  <2> QED  BY <2>1, <2>6, AskTyped DEF RowsTyped, OpenTyped, BetsTyped
<1>5. CASE Page!DeleteMarket
  <2>1. /\ UNCHANGED <<chainId, reader, sent, watched, told>> /\ Page!Unmount
        /\ row' = [row EXCEPT ![seen.of] = Nothing]
        /\ cached' = [cached EXCEPT ![seen.of] = Nothing]
    BY <1>5 DEF Page!DeleteMarket
  <2>2. row' \in [Row -> Page!View] /\ cached' \in [Row -> Page!View]
    BY <2>1 DEF RowsTyped, Page!View
  <2> QED  BY <2>1, <2>2, UnmountTyped DEF RowsTyped, BetsTyped
<1> QED  BY <1>1, <1>2, <1>4, <1>5

LEMMA MarketPageInit ==
  ASSUME Page!PageInit
  PROVE  RowsTyped /\ OpenTyped /\ BetsTyped
<1>1. /\ \A r \in Row : [of |-> r, status |-> "Open", text |-> 0] \in Page!View
      /\ Nothing \in Page!View
  BY PageConstants DEF Page!View
<1>2. RowsTyped
  BY <1>1 DEF Page!PageInit, RowsTyped
<1>3. OpenTyped
  BY <1>1 DEF Page!PageInit, OpenTyped
<1>4. BetsTyped
  BY DEF Page!PageInit, BetsTyped
<1> QED  BY <1>2, <1>3, <1>4

LEMMA MarketPageStep ==
  ASSUME RowsTyped, OpenTyped, BetsTyped, [Page!PageNext]_(Page!pageVars)
  PROVE  RowsTyped' /\ OpenTyped' /\ BetsTyped'
<1>1. ASSUME \/ \E r \in Row, o \in {"Yes", "No"} : Page!IndexResolution(r, o)
             \/ \E r \in Row : Page!CacheExpires(r) \/ Page!OtherRead(r)
             \/ Page!OtherCaches \/ Page!Answer
      PROVE  RowsTyped' /\ OpenTyped' /\ BetsTyped'
  <2>1. UNCHANGED <<btn, asksToBet, sent, watched, told>>
    BY <1>1 DEF Page!IndexResolution, Page!CacheExpires, Page!OtherRead,
       Page!OtherCaches, Page!Answer, Page!form
  <2> QED  BY <1>1, <2>1, RowsStep DEF BetsTyped
<1>2. ASSUME \/ \E r \in Row : Page!OpenPage(r)
             \/ Page!Poll \/ Page!StreamEvent \/ Page!StreamError \/ Page!ServeRead
      PROVE  RowsTyped' /\ OpenTyped' /\ BetsTyped'
  <2>1. btn' \in {"idle", btn} /\ UNCHANGED <<asksToBet, sent, watched, told>>
    BY <1>2 DEF Page!OpenPage, Page!Poll, Page!StreamEvent, Page!StreamError,
       Page!ServeRead, Page!form
  <2> QED  BY <1>2, <2>1, OpenStep DEF BetsTyped
<1>3. CASE UNCHANGED Page!pageVars
  BY <1>3 DEF Page!pageVars, RowsTyped, OpenTyped, BetsTyped
<1> QED  BY <1>1, <1>2, <1>3, BetsStep, EditStep DEF Page!PageNext

\* The page, with its caches, stream, wallet and watcher: every variable has its type,
\* and only an open page has a stream.
LEMMA MarketPageTyped ==
  Page!PageInit /\ [][Page!PageNext]_(Page!pageVars) => []Page!PageTypeOK
<1>1. RowsTyped /\ OpenTyped /\ BetsTyped => Page!PageTypeOK
  BY DEF RowsTyped, OpenTyped, BetsTyped, MarketRequest, AskedBet, Page!PageTypeOK
<1> QED  BY <1>1, MarketPageInit, MarketPageStep, PTL


-----------------------------------------------------------------------------
(* The list of the home page.                                              *)

\* The bound of the rows, so of the pages.
MaxRows == 2 * MaxChanges

ListAnswers == {a \in [items : Seq(Nat), total : 0 .. MaxRows, page : List!Pages] :
                  Len(a.items) <= PageSize}
Requests == [kind : {"idle", "all", "next"}, got : Seq(ListAnswers), want : Nat]

\* Rows come and go: each change adds one at most.
TableTyped == /\ table \in Seq(Nat) /\ List!IsInjective(table)
              /\ \A i \in DOMAIN table : table[i] <= newest
              /\ newest \in Nat /\ changes \in 0 .. MaxChanges
              /\ Len(table) <= newest /\ newest <= MaxChanges + changes
              /\ clear \in BOOLEAN

AnswerTo(k, a) == a \in ListAnswers /\ a.page = k
KeptTyped == /\ DOMAIN cache \subseteq List!Pages
             /\ \A k \in DOMAIN cache : AnswerTo(k, cache[k])

\* A list goes on after a page only when that is not the last one.
PagesTyped(s) == /\ s \in Seq(ListAnswers)
                 /\ \A i \in DOMAIN s : AnswerTo(i, s[i])
GoesOn(s) == \A i \in DOMAIN s : ~List!IsLast(s[i])

\* The answer under way is to the page that comes after those that were fetched.
BrowserTyped ==
  /\ PagesTyped(list)
  /\ \A i \in DOMAIN list : i < Len(list) => ~List!IsLast(list[i])
  /\ fetch \in Requests /\ PagesTyped(fetch.got) /\ GoesOn(fetch.got)
  /\ \/ reading = <<>>
     \/ /\ fetch # List!Idle
        /\ \E a, h : /\ reading = <<[answer |-> a, hit |-> h]>>
                     /\ AnswerTo(Len(fetch.got) + 1, a)

LEMMA MaxRowsNat == MaxRows \in Nat /\ List!Pages = 1 .. MaxRows + 1
BY ListConstants DEF MaxRows, List!Pages

\* There are no more pages than rows.
LEMMA PagesOfRows ==
  ASSUME NEW t \in Nat
  PROVE  List!TotalPages(t) \in Nat /\ List!TotalPages(t) <= t
<1> DEFINE n == t + PageSize - 1
           q == n \div PageSize
<1>1. PageSize \in Nat \ {0} /\ n \in Nat
  BY ListConstants
<1> HIDE DEF n
<1>2. /\ n = PageSize * (n \div PageSize) + (n % PageSize)
      /\ n % PageSize \in 0 .. (PageSize - 1) /\ n \div PageSize \in Int
  BY <1>1, SMT
<1>3. q \in Nat
  BY <1>1, SMT
<1>4. PageSize * q <= n
  BY <1>1, <1>2, SMT
<1> HIDE DEF q
<1>5. q <= t
  <2> SUFFICES ASSUME q >= t + 1 PROVE FALSE
    BY <1>3
  <2>1. PageSize * q >= PageSize * (t + 1)
    BY <1>1, <1>3, SMT
  <2>2. PageSize * (t + 1) = PageSize * t + PageSize
    BY <1>1, SMT
  <2>3. PageSize * t >= t
    BY <1>1, SMT
  <2>4. PageSize * q \in Nat /\ PageSize * t \in Nat
    BY <1>1, <1>3, SMT
  <2>5. n = t + PageSize - 1
    BY DEF n
  <2> QED  BY <1>1, <1>4, <2>1, <2>2, <2>3, <2>4, <2>5
<1> QED  BY <1>3, <1>5 DEF List!TotalPages, q, n

\* The page after one that is not the last is one of the pages.
LEMMA NextPage ==
  ASSUME NEW s, PagesTyped(s), GoesOn(s)
  PROVE  Len(s) + 1 \in List!Pages
<1>1. Len(s) \in Nat /\ DOMAIN s = 1 .. Len(s)
  BY LenProperties DEF PagesTyped
<1>2. CASE Len(s) = 0
  BY <1>2, MaxRowsNat
<1>3. CASE Len(s) > 0
  <2> DEFINE a == s[Len(s)]
  <2>1. a \in ListAnswers /\ a.page = Len(s) /\ ~List!IsLast(a)
    BY <1>1, <1>3 DEF PagesTyped, AnswerTo, GoesOn
  <2>2. a.total \in 0 .. MaxRows
    BY <2>1 DEF ListAnswers
  <2> HIDE DEF a
  <2>3. a.total \in Nat /\ a.total <= MaxRows
    BY <2>2, MaxRowsNat
  <2> DEFINE p == List!TotalPages(a.total)
  <2>4. p \in Nat /\ p <= MaxRows
    <3>1. p \in Nat /\ p <= a.total
      BY <2>3, PagesOfRows
    <3> HIDE DEF p
    <3> QED  BY <2>3, <3>1, MaxRowsNat
  <2>5. Len(s) < List!TotalPages(a.total)
    BY <1>1, <2>1, <2>4 DEF List!IsLast
  <2> QED  BY <1>1, <2>4, <2>5, MaxRowsNat
<1> QED  BY <1>1, <1>2, <1>3

\* A query answers with a page of the table, of at most PageSize rows.
LEMMA PageAnswers ==
  ASSUME TableTyped, NEW k \in List!Pages
  PROVE  AnswerTo(k, List!Page(k))
<1> DEFINE first == (k - 1) * PageSize + 1
           end == IF k * PageSize < Len(table) THEN k * PageSize ELSE Len(table)
           items == SubSeq(table, first, end)
           a == [items |-> items, total |-> Len(table), page |-> k]
<1>1. k \in Nat /\ k >= 1 /\ PageSize \in Nat \ {0}
  BY ListConstants, MaxRowsNat
<1>2. Len(table) \in Nat
  BY LenProperties DEF TableTyped
<1>3. /\ k * PageSize \in Nat /\ (k - 1) * PageSize \in Nat
      /\ (k - 1) * PageSize = k * PageSize - PageSize
  BY <1>1, SMT
<1>4. /\ first \in Nat /\ first >= 1 /\ end \in Nat /\ end <= Len(table)
      /\ end - first + 1 <= PageSize
  BY <1>1, <1>2, <1>3
<1> HIDE DEF first, end
<1>5. \A i \in first .. end : table[i] \in Nat
  BY <1>2, <1>4, ElementOfSeq DEF TableTyped
<1>6. /\ items \in Seq(Nat)
      /\ Len(items) = IF first <= end THEN end - first + 1 ELSE 0
  BY <1>4, <1>5, SubSeqProperties
<1>7. Len(items) <= PageSize
  BY <1>1, <1>4, <1>6
<1>8. Len(table) \in 0 .. MaxRows
  BY <1>2, ListConstants DEF TableTyped, MaxRows
<1> HIDE DEF items
<1>9. a \in ListAnswers /\ a.page = k
  BY <1>6, <1>7, <1>8 DEF ListAnswers
<1> HIDE DEF a
<1>10. List!Page(k) = a
  BY DEF List!Page, a, items, first, end
<1> QED  BY <1>9, <1>10 DEF AnswerTo

LEMMA KeptAnswer ==
  ASSUME KeptTyped, NEW k \in List!Pages, NEW a, AnswerTo(k, a),
         cache' = List!Kept(a)
  PROVE  KeptTyped'
BY DEF KeptTyped, AnswerTo, List!Kept

\* One more page.
LEMMA MorePages ==
  ASSUME NEW s, PagesTyped(s), NEW a, AnswerTo(Len(s) + 1, a)
  PROVE  /\ PagesTyped(Append(s, a))
         /\ Len(Append(s, a)) = Len(s) + 1 /\ Len(s) \in Nat
         /\ GoesOn(s) => /\ \A i \in DOMAIN Append(s, a) :
                              i < Len(Append(s, a)) => ~List!IsLast(Append(s, a)[i])
                         /\ ~List!IsLast(a) => GoesOn(Append(s, a))
<1> DEFINE t == Append(s, a)
<1>1. s \in Seq(ListAnswers) /\ a \in ListAnswers /\ a.page = Len(s) + 1
  BY DEF PagesTyped, AnswerTo
<1>2. /\ Len(s) \in Nat /\ DOMAIN s = 1 .. Len(s)
      /\ t \in Seq(ListAnswers) /\ Len(t) = Len(s) + 1
      /\ \A i \in 1 .. Len(s) : t[i] = s[i]
      /\ t[Len(s) + 1] = a
  BY <1>1, AppendProperties, LenProperties
<1>3. DOMAIN t = 1 .. Len(s) + 1
  BY <1>2, LenProperties
<1> HIDE DEF t
<1>4. PagesTyped(t)
  BY <1>1, <1>2, <1>3 DEF PagesTyped, AnswerTo
<1>5. ASSUME GoesOn(s)
      PROVE  /\ \A i \in DOMAIN t : i < Len(t) => ~List!IsLast(t[i])
             /\ ~List!IsLast(a) => GoesOn(t)
  BY <1>2, <1>3, <1>5 DEF GoesOn
<1> QED  BY <1>2, <1>4, <1>5 DEF t


\* A row is added at the top, under a new id.
LEMMA InsertTyped ==
  ASSUME TableTyped, List!Change, List!InsertRow, clear' \in BOOLEAN
  PROVE  TableTyped'
<1> DEFINE n == newest + 1
           t == <<n>> \o table
<1>1. /\ table \in Seq(Nat) /\ newest \in Nat /\ changes \in 0 .. MaxChanges
      /\ \A i \in DOMAIN table : table[i] <= newest
      /\ Len(table) <= newest /\ newest <= MaxChanges + changes
  BY DEF TableTyped
<1>2. /\ newest' = n /\ table' = t
      /\ changes < MaxChanges /\ changes' = changes + 1
  BY DEF List!InsertRow, List!Change
<1>3. <<n>> \in Seq(Nat) /\ Len(<<n>>) = 1 /\ <<n>>[1] = n /\ n \in Nat
  BY <1>1
<1>4. Len(table) \in Nat /\ DOMAIN table = 1 .. Len(table)
      /\ \A i \in 1 .. Len(table) : table[i] \in Nat
  BY <1>1, LenProperties, ElementOfSeq
<1>5. /\ t \in Seq(Nat) /\ Len(t) = Len(table) + 1
      /\ \A i \in 1 .. Len(table) + 1 : t[i] = IF i = 1 THEN n ELSE table[i - 1]
  <2> DEFINE h == <<n>>
  <2>1. h \in Seq(Nat) /\ Len(h) = 1 /\ h[1] = n
    BY <1>3
  <2> HIDE DEF h
  <2>2. /\ h \o table \in Seq(Nat) /\ Len(h \o table) = Len(h) + Len(table)
        /\ \A i \in 1 .. Len(h) + Len(table) :
             (h \o table)[i] = IF i <= Len(h) THEN h[i] ELSE table[i - Len(h)]
    BY <1>1, <2>1, ConcatProperties
  <2>3. t = h \o table
    BY DEF h
  <2> HIDE DEF t
  <2> QED  BY <1>4, <2>1, <2>2, <2>3
<1>6. DOMAIN t = 1 .. Len(table) + 1
  BY <1>5, LenProperties
<1> HIDE DEF t
<1> HIDE DEF n
<1>7. /\ \A i \in DOMAIN t : i # 1 => /\ i - 1 \in DOMAIN table /\ t[i] = table[i - 1]
                                    /\ t[i] \in Nat /\ t[i] < n
      /\ t[1] = n
  <2>1. \A i \in DOMAIN table : table[i] \in Nat /\ table[i] < n
    BY <1>1, <1>4 DEF n
  <2>2. \A i \in DOMAIN t : i # 1 => i - 1 \in DOMAIN table
    BY <1>4, <1>6
  <2>3. t[1] = n
    BY <1>4, <1>5
  <2>4. \A i \in DOMAIN t : i # 1 => t[i] = table[i - 1]
    BY <1>5, <1>6
  <2> QED  BY <2>1, <2>2, <2>3, <2>4
<1>8. ASSUME NEW i \in DOMAIN t, NEW j \in DOMAIN t, t[i] = t[j]
      PROVE  i = j
  <2>1. CASE i = 1 /\ j # 1
    BY <1>3, <1>7, <1>8, <2>1
  <2>2. CASE i # 1 /\ j = 1
    BY <1>3, <1>7, <1>8, <2>2
  <2>3. CASE i # 1 /\ j # 1
    <3>1. /\ i - 1 \in DOMAIN table /\ j - 1 \in DOMAIN table
          /\ table[i - 1] = table[j - 1]
      BY <1>7, <1>8, <2>3
    <3>2. i - 1 = j - 1
      BY <3>1 DEF TableTyped, List!IsInjective
    <3> QED  BY <1>4, <1>6, <3>2
  <2> QED  BY <2>1, <2>2, <2>3
<1>9. List!IsInjective(t)
  BY <1>8 DEF List!IsInjective
<1>10. n <= MaxChanges + changes' /\ changes' \in 0 .. MaxChanges
       /\ Len(t) <= n
  BY <1>1, <1>2, <1>4, <1>5, ListConstants DEF n
<1>11. \A i \in DOMAIN t : t[i] <= n
  BY <1>3, <1>7
<1> QED  BY <1>2, <1>3, <1>5, <1>9, <1>10, <1>11 DEF TableTyped

\* A row is deleted: those after it move up.
LEMMA DeleteTyped ==
  ASSUME TableTyped, NEW d \in DOMAIN table, List!DeleteRow(d)
  PROVE  TableTyped'
<1> DEFINE n == Len(table)
           x == SubSeq(table, 1, d - 1)
           y == SubSeq(table, d + 1, n)
           t == x \o y
<1>1. table \in Seq(Nat)
  BY DEF TableTyped
<1>2. n \in Nat /\ DOMAIN table = 1 .. n /\ \A i \in 1 .. n : table[i] \in Nat
  BY <1>1, LenProperties, ElementOfSeq
<1>3. d \in Int /\ d >= 1 /\ d <= n
  BY <1>2
<1>4. /\ x \in Seq(Nat) /\ Len(x) = d - 1
      /\ \A i \in 1 .. d - 1 : x[i] = table[i]
  <2>1. \A i \in 1 .. d - 1 : table[i] \in Nat
    BY <1>2, <1>3
  <2>2. /\ x \in Seq(Nat) /\ Len(x) = IF 1 <= d - 1 THEN d - 1 - 1 + 1 ELSE 0
        /\ \A i \in 1 .. (d - 1) - 1 + 1 : x[i] = table[1 + i - 1]
    BY <1>3, <2>1, SubSeqProperties
  <2> HIDE DEF x
  <2> QED  BY <1>3, <2>2
<1>5. /\ y \in Seq(Nat) /\ Len(y) = n - d
      /\ \A i \in 1 .. n - d : y[i] = table[d + i]
  <2>1. \A i \in d + 1 .. n : table[i] \in Nat
    BY <1>2, <1>3
  <2>2. /\ y \in Seq(Nat) /\ Len(y) = IF d + 1 <= n THEN n - (d + 1) + 1 ELSE 0
        /\ \A i \in 1 .. n - (d + 1) + 1 : y[i] = table[d + 1 + i - 1]
    BY <1>2, <1>3, <2>1, SubSeqProperties
  <2> HIDE DEF y
  <2>3. Len(y) = n - d
    <3>1. Len(y) \in Nat
      BY <2>2, LenProperties
    <3>2. CASE d + 1 <= n
      <4>1. Len(y) = n - (d + 1) + 1
        BY <2>2, <3>2
      <4> QED  BY <1>2, <1>3, <3>1, <4>1
    <3>3. CASE ~(d + 1 <= n)
      <4>1. Len(y) = 0 /\ n = d
        BY <1>2, <1>3, <2>2, <3>3
      <4> QED  BY <1>2, <1>3, <4>1
    <3> QED  BY <3>2, <3>3
  <2>4. ASSUME NEW i \in 1 .. n - d PROVE y[i] = table[d + i]
    <3>1. i \in 1 .. n - (d + 1) + 1 /\ d + 1 + i - 1 = d + i
      BY <1>2, <1>3
    <3> QED  BY <2>2, <3>1
  <2> QED  BY <2>2, <2>3, <2>4
<1>6. table' = t
  BY DEF List!DeleteRow, List!RemoveAt
<1> HIDE DEF x, y
<1>7. /\ t \in Seq(Nat) /\ Len(t) = Len(x) + Len(y)
      /\ \A i \in 1 .. Len(x) + Len(y) : t[i] = IF i <= Len(x) THEN x[i] ELSE y[i - Len(x)]
  BY <1>4, <1>5, ConcatProperties
<1>8. DOMAIN t = 1 .. Len(t)
  BY <1>7, LenProperties
<1> HIDE DEF t
<1>9. Len(t) = n - 1
  BY <1>2, <1>3, <1>4, <1>5, <1>7
<1> DEFINE from(i) == IF i < d THEN i ELSE i + 1
<1>10. ASSUME NEW i \in DOMAIN t
       PROVE  /\ from(i) \in DOMAIN table /\ t[i] = table[from(i)]
  <2>1. i \in Nat /\ i >= 1 /\ i <= n - 1
    BY <1>2, <1>8, <1>9
  <2>2. CASE i < d
    BY <1>2, <1>3, <1>4, <1>5, <1>7, <2>1, <2>2
  <2>3. CASE ~(i < d)
    <3> DEFINE j == i - (d - 1)
    <3>1. /\ j \in 1 .. n - d /\ d + j = i + 1
          /\ i \in 1 .. Len(x) + Len(y) /\ ~(i <= Len(x))
      BY <1>2, <1>3, <1>4, <1>5, <2>1, <2>3
    <3>2. t[i] = y[j]
      BY <1>4, <1>7, <3>1
    <3> HIDE DEF j
    <3>3. t[i] = table[d + j] /\ from(i) = i + 1
      BY <1>5, <2>3, <3>1, <3>2
    <3> QED  BY <1>2, <2>1, <3>1, <3>3
  <2> QED  BY <2>2, <2>3
<1>11. \A i, j \in DOMAIN t : from(i) = from(j) => i = j
  BY <1>2, <1>3, <1>8, <1>9
<1> HIDE DEF from
<1>12. List!IsInjective(t)
  BY <1>10, <1>11 DEF TableTyped, List!IsInjective
<1>13. \A i \in DOMAIN t : t[i] <= newest
  BY <1>10 DEF TableTyped
<1>14. /\ changes < MaxChanges /\ changes' = changes + 1
       /\ newest' = newest /\ clear' = TRUE
  BY DEF List!DeleteRow, List!Change
<1>15. /\ newest \in Nat /\ changes' \in 0 .. MaxChanges
       /\ Len(t) <= newest /\ newest <= MaxChanges + changes'
  BY <1>2, <1>9, <1>14, ListConstants DEF TableTyped
<1> QED  BY <1>6, <1>7, <1>12, <1>13, <1>14, <1>15 DEF TableTyped

\* The browser's own steps.
LEMMA FetchTyped ==
  ASSUME BrowserTyped, List!Refetch \/ List!FetchNextPage \/ List!RequestFails
  PROVE  BrowserTyped'
<1>1. Len(list) \in Nat /\ DOMAIN list = 1 .. Len(list) /\ list \in Seq(ListAnswers)
  BY LenProperties DEF BrowserTyped, PagesTyped
<1>2. <<>> \in Seq(ListAnswers) /\ DOMAIN <<>> = {}
  BY EmptyList, EmptySeq
<1>3. PagesTyped(<<>>) /\ GoesOn(<<>>)
  BY <1>2 DEF PagesTyped, GoesOn
<1>4. CASE List!Refetch
  <2> DEFINE w == IF list = <<>> THEN 1 ELSE Len(list)
             f == [kind |-> "all", got |-> <<>>, want |-> w]
  <2>1. fetch = List!Idle /\ fetch' = f /\ UNCHANGED <<list, reading>>
    BY <1>4 DEF List!Refetch
  <2>2. w \in Nat
    BY <1>1
  <2> HIDE DEF w
  <2>3. f \in Requests /\ f.got = <<>>
    BY <1>2, <2>2 DEF Requests
  <2> HIDE DEF f
  <2>4. reading = <<>>
    BY <2>1 DEF BrowserTyped
  <2> QED  BY <1>3, <2>1, <2>3, <2>4 DEF BrowserTyped
<1>5. CASE List!FetchNextPage
  <2> DEFINE w == Len(list) + 1
             f == [kind |-> "next", got |-> list, want |-> w]
  <2>1. /\ list # <<>> /\ ~List!IsLast(list[Len(list)])
        /\ fetch' = f /\ list' = list /\ reading' = <<>>
    BY <1>5 DEF List!FetchNextPage, List!HasNext, List!Last
  <2>2. w \in Nat
    BY <1>1
  <2> HIDE DEF w
  <2>3. f \in Requests /\ f.got = list
    BY <1>1, <2>2 DEF Requests
  <2> HIDE DEF f
  <2>4. GoesOn(list)
    BY <1>1, <2>1 DEF BrowserTyped, GoesOn
  <2> QED  BY <2>1, <2>3, <2>4 DEF BrowserTyped
<1>6. CASE List!RequestFails
  <2>1. list' = list /\ fetch' = List!Idle /\ reading' = <<>>
    BY <1>6 DEF List!RequestFails
  <2>2. List!Idle \in Requests /\ List!Idle.got = <<>>
    BY <1>2 DEF List!Idle, Requests
  <2> QED  BY <1>3, <2>1, <2>2 DEF BrowserTyped
<1> QED  BY <1>4, <1>5, <1>6

\* A page is asked for, and answered from the cache or the table.
LEMMA AskPageTyped ==
  ASSUME TableTyped, KeptTyped, BrowserTyped, List!Ask
  PROVE  BrowserTyped'
<1> DEFINE k == Len(fetch.got) + 1
           a == IF k \in DOMAIN cache THEN cache[k] ELSE List!Page(k)
           h == k \in DOMAIN cache
<1>1. /\ fetch # List!Idle /\ UNCHANGED <<list, fetch>>
      /\ reading' = <<[answer |-> a, hit |-> h]>>
  BY DEF List!Ask
<1>2. k \in List!Pages
  BY NextPage DEF BrowserTyped
<1>3. AnswerTo(k, a)
  BY <1>2, PageAnswers DEF KeptTyped
<1> HIDE DEF a, h
<1>4. \E b, c : reading' = <<[answer |-> b, hit |-> c]>> /\ AnswerTo(k, b)
  BY <1>1, <1>3
<1> QED  BY <1>1, <1>4 DEF BrowserTyped

LEMMA AnswerTyped ==
  ASSUME KeptTyped, BrowserTyped, List!Answer
  PROVE  KeptTyped' /\ BrowserTyped'
<1> DEFINE k == Len(fetch.got) + 1
<1>1. PICK a, h : reading = <<[answer |-> a, hit |-> h]>> /\ AnswerTo(k, a)
  BY DEF List!Answer, BrowserTyped
<1>2. reading[1].answer = a /\ reading[1].hit = h
  BY <1>1
<1> DEFINE got == Append(fetch.got, a)
           done == Len(got) = fetch.want \/ List!IsLast(a)
<1>3. /\ cache' = IF h THEN cache ELSE List!Kept(a)
      /\ list' = IF done THEN got ELSE list
      /\ fetch' = IF done THEN List!Idle ELSE [fetch EXCEPT !.got = got]
      /\ reading' = <<>>
  BY <1>2 DEF List!Answer
<1>4. PagesTyped(fetch.got) /\ GoesOn(fetch.got) /\ fetch \in Requests
  BY DEF BrowserTyped
<1>5. k \in List!Pages
  BY <1>4, NextPage
<1>6. KeptTyped'
  BY <1>1, <1>3, <1>5, KeptAnswer DEF KeptTyped
<1>7. /\ PagesTyped(got) /\ (~List!IsLast(a) => GoesOn(got))
      /\ \A i \in DOMAIN got : i < Len(got) => ~List!IsLast(got[i])
  BY <1>1, <1>4, MorePages
<1> HIDE DEF got
<1>8. CASE done
  <2>1. list' = got /\ fetch' = List!Idle /\ reading' = <<>>
    BY <1>3, <1>8
  <2>2. <<>> \in Seq(ListAnswers) /\ DOMAIN <<>> = {}
    BY EmptyList, EmptySeq
  <2>3. /\ List!Idle \in Requests /\ List!Idle.got = <<>>
        /\ PagesTyped(<<>>) /\ GoesOn(<<>>)
    BY <2>2 DEF List!Idle, Requests, PagesTyped, GoesOn
  <2>4. BrowserTyped'
    BY <1>7, <2>1, <2>3 DEF BrowserTyped
  <2> QED  BY <1>6, <2>4
<1>9. CASE ~done
  <2> DEFINE f == [fetch EXCEPT !.got = got]
  <2>1. list' = list /\ fetch' = f /\ reading' = <<>> /\ ~List!IsLast(a)
    BY <1>3, <1>9
  <2>2. f \in Requests /\ f.got = got
    BY <1>4, <1>7 DEF Requests, PagesTyped
  <2> HIDE DEF f
  <2>3. BrowserTyped'
    BY <1>7, <2>1, <2>2 DEF BrowserTyped
  <2> QED  BY <1>6, <2>3
<1> QED  BY <1>8, <1>9


LEMMA ListInitTyped ==
  ASSUME List!ListInit
  PROVE  TableTyped /\ KeptTyped /\ BrowserTyped
<1> DEFINE n == newest
           t == [i \in 1 .. n |-> n + 1 - i]
<1>1. /\ n \in Nat /\ n <= MaxChanges /\ table = t /\ clear = FALSE /\ changes = 0
      /\ cache = <<>> /\ list = <<>> /\ fetch = List!Idle /\ reading = <<>>
  BY ListConstants DEF List!ListInit
<1> HIDE DEF n
<1>2. t \in [1 .. n -> Nat] /\ DOMAIN t = 1 .. n
  BY <1>1
<1>3. t \in Seq(Nat)
  BY <1>1, <1>2, SeqDef
<1>4. Len(t) = n
  BY <1>1, <1>2, <1>3, LenProperties
<1>5. \A i \in 1 .. n : t[i] = n + 1 - i /\ t[i] <= n
  BY <1>1
<1> HIDE DEF t
<1>6. List!IsInjective(t)
  BY <1>1, <1>2, <1>5 DEF List!IsInjective
<1>7. TableTyped
  <2>1. n <= MaxChanges + changes /\ changes \in 0 .. MaxChanges
    BY <1>1, ListConstants
  <2>2. table \in Seq(Nat) /\ List!IsInjective(table) /\ Len(table) <= n
    BY <1>1, <1>3, <1>4, <1>6
  <2>3. \A i \in DOMAIN table : table[i] <= n
    BY <1>1, <1>2, <1>5
  <2>4. clear \in BOOLEAN
    BY <1>1
  <2> QED  BY <1>1, <2>1, <2>2, <2>3, <2>4 DEF TableTyped, n
<1>8. <<>> \in Seq(ListAnswers) /\ DOMAIN <<>> = {}
  BY EmptyList, EmptySeq
<1>9. PagesTyped(<<>>) /\ GoesOn(<<>>)
  BY <1>8 DEF PagesTyped, GoesOn
<1>10. List!Idle \in Requests /\ List!Idle.got = <<>>
  BY <1>8 DEF List!Idle, Requests
<1>11. KeptTyped
  BY <1>1, <1>8 DEF KeptTyped
<1>12. BrowserTyped
  BY <1>1, <1>8, <1>9, <1>10 DEF BrowserTyped
<1> QED  BY <1>7, <1>11, <1>12

LEMMA ListStep ==
  ASSUME TableTyped, KeptTyped, BrowserTyped, [List!ListNext]_(List!listVars)
  PROVE  TableTyped' /\ KeptTyped' /\ BrowserTyped'
<1>1. CASE List!PostRow \/ List!IndexRow
  <2>1. List!Change /\ List!InsertRow /\ clear' \in BOOLEAN
    BY <1>1 DEF List!PostRow, List!IndexRow, TableTyped
  <2>2. UNCHANGED <<cache, list, fetch, reading>>
    BY <2>1 DEF List!Change
  <2> QED  BY <2>1, <2>2, InsertTyped DEF KeptTyped, BrowserTyped
<1>2. ASSUME NEW i \in DOMAIN table, List!DeleteRow(i)
      PROVE  TableTyped' /\ KeptTyped' /\ BrowserTyped'
  <2>1. UNCHANGED <<cache, list, fetch, reading>>
    BY <1>2 DEF List!DeleteRow, List!Change
  <2> QED  BY <1>2, <2>1, DeleteTyped DEF KeptTyped, BrowserTyped
<1>3. CASE List!ClearCache
  <2>1. /\ UNCHANGED <<table, newest, changes, list, fetch, reading>>
        /\ clear' = FALSE /\ cache' = <<>>
    BY <1>3 DEF List!ClearCache, List!tableVars
  <2> QED  BY <2>1, EmptyList DEF TableTyped, KeptTyped, BrowserTyped
<1>4. ASSUME NEW k \in List!Pages, List!Expire(k)
      PROVE  TableTyped' /\ KeptTyped' /\ BrowserTyped'
  <2>1. /\ UNCHANGED <<table, newest, changes, clear, list, fetch, reading>>
        /\ cache' = [j \in DOMAIN cache \ {k} |-> cache[j]]
    BY <1>4 DEF List!Expire, List!tableVars
  <2> QED  BY <2>1 DEF TableTyped, KeptTyped, BrowserTyped
<1>5. ASSUME NEW k \in List!Pages, List!OtherRead(k)
      PROVE  TableTyped' /\ KeptTyped' /\ BrowserTyped'
  <2>1. /\ UNCHANGED <<table, newest, changes, clear, list, fetch, reading>>
        /\ cache' = List!Kept(List!Page(k))
    BY <1>5 DEF List!OtherRead, List!tableVars
  <2>2. KeptTyped'
    BY <2>1, PageAnswers, KeptAnswer
  <2> QED  BY <2>1, <2>2 DEF TableTyped, BrowserTyped
<1>6. CASE List!Refetch \/ List!FetchNextPage \/ List!RequestFails
  <2>1. UNCHANGED <<table, newest, changes, clear, cache>>
    BY <1>6 DEF List!Refetch, List!FetchNextPage, List!RequestFails, List!tableVars
  <2> QED  BY <1>6, <2>1, FetchTyped DEF TableTyped, KeptTyped
<1>7. CASE List!Ask
  <2>1. UNCHANGED <<table, newest, changes, clear, cache>>
    BY <1>7 DEF List!Ask, List!tableVars
  <2> QED  BY <1>7, <2>1, AskPageTyped DEF TableTyped, KeptTyped
<1>8. CASE List!Answer
  <2>1. UNCHANGED <<table, newest, changes, clear>>
    BY <1>8 DEF List!Answer, List!tableVars
  <2> QED  BY <1>8, <2>1, AnswerTyped DEF TableTyped
<1>9. CASE UNCHANGED List!listVars
  BY <1>9 DEF List!listVars, List!tableVars, TableTyped, KeptTyped, BrowserTyped
<1> QED
  BY <1>1, <1>2, <1>3, <1>4, <1>5, <1>6, <1>7, <1>8, <1>9 DEF List!ListNext

\* However many rows come and go while pages are cached, fetched and refetched: the
\* browser holds pages one to n, and asks for no page beyond the most rows there were.
LEMMA MarketListTyped ==
  List!ListInit /\ [][List!ListNext]_(List!listVars) => []List!ListTypeOK
<1>1. ASSUME TableTyped, KeptTyped, BrowserTyped PROVE List!ListTypeOK
  <2>1. ASSUME NEW k, NEW a, AnswerTo(k, a) PROVE List!IsAnswer(a) /\ a.page = k
    BY <2>1, MaxRowsNat DEF AnswerTo, ListAnswers, List!IsAnswer
  <2>2. /\ DOMAIN cache \subseteq List!Pages
        /\ \A k \in DOMAIN cache : List!IsAnswer(cache[k]) /\ cache[k].page = k
    BY <1>1, <2>1 DEF KeptTyped
  <2>3. \A i \in DOMAIN list : List!IsAnswer(list[i]) /\ list[i].page = i
    BY <1>1, <2>1 DEF BrowserTyped, PagesTyped
  <2>4. fetch.kind \in {"idle", "all", "next"}
    BY <1>1 DEF BrowserTyped, Requests
  <2>5. /\ Len(reading) <= 1
        /\ \A i \in DOMAIN reading : /\ List!IsAnswer(reading[i].answer)
                                     /\ fetch # List!Idle
    <3>1. CASE reading = <<>>
      BY <3>1, EmptyList, EmptySeq
    <3>2. CASE reading # <<>>
      <4>1. PICK a, h : /\ reading = <<[answer |-> a, hit |-> h]>>
                        /\ AnswerTo(Len(fetch.got) + 1, a)
        BY <1>1, <3>2 DEF BrowserTyped
      <4>2. List!IsAnswer(a) /\ fetch # List!Idle
        BY <1>1, <2>1, <3>2, <4>1 DEF BrowserTyped
      <4>3. Len(reading) = 1 /\ DOMAIN reading = {1} /\ reading[1].answer = a
        BY <4>1
      <4> QED  BY <4>2, <4>3
    <3> QED  BY <3>1, <3>2
  <2> QED  BY <1>1, <2>2, <2>3, <2>4, <2>5 DEF TableTyped, List!ListTypeOK
<1> QED  BY <1>1, ListInitTyped, ListStep, PTL

-----------------------------------------------------------------------------
(* The pool, and the page of positions over it.                            *)

USE UserFinite, ValuePositive, MaxStakeNat, PositionsConstants

\* The inductive invariant: solvency alone is not preserved by a payment, it
\* must be known that what was paid so far is at most the claimants' share.
IInv == TypeOK /\ PaidInProportion /\ ExactShares

LEMMA PoolNat ==
  ASSUME TypeOK
  PROVE  Pool \in Nat /\ \A o \in Sides : stake[o] \in [User -> Nat]
<1>1. \A o \in Sides : stake[o] \in [User -> Nat]
  BY DEF TypeOK
<1>2. \A o \in Sides : Total(stake[o]) \in Nat
  BY <1>1, CoinsFinite
<1> QED  BY <1>1, <1>2 DEF Pool, Sides

LEMMA InitInv == Init => IInv
<1> SUFFICES ASSUME Init PROVE IInv
  OBVIOUS
<1>1. TypeOK
  BY DEF Init, TypeOK
<1>2. PaidInProportion
  BY DEF Init, PaidInProportion
<1>3. ExactShares
  BY DEF Init, ExactShares
<1> QED  BY <1>1, <1>2, <1>3 DEF IInv

LEMMA BetInv ==
  ASSUME IInv, NEW u \in User, NEW o \in Sides, NEW v \in Value, Bet(u, o, v)
  PROVE  IInv'
<1>1. TypeOK'
  <2>1. v \in Nat
    OBVIOUS
  <2>2. stake' \in [Sides -> [User -> Nat]]
    BY <2>1 DEF IInv, TypeOK, Bet
  <2> QED  BY <2>2 DEF IInv, TypeOK, Bet
<1>2. PaidInProportion'
  BY DEF IInv, TypeOK, Bet, PaidInProportion
<1>3. ExactShares'
  <2>1. \A w \in User : received[w] = 0 /\ ~claimed[w]
    BY DEF IInv, Bet, PaidInProportion
  <2> QED  BY <2>1 DEF Bet, ExactShares
<1> QED  BY <1>1, <1>2, <1>3 DEF IInv

LEMMA CloseInv == ASSUME IInv, Close PROVE IInv'
<1>1. TypeOK'  BY DEF IInv, TypeOK, Close
<1>2. PaidInProportion'
  BY DEF IInv, Close, PaidInProportion, Pool
<1>3. ExactShares'
  BY DEF IInv, Close, ExactShares, Payout, Pool
<1> QED  BY <1>1, <1>2, <1>3 DEF IInv

LEMMA SettleInv ==
  ASSUME IInv, NEW o \in Sides, Settle(o)
  PROVE  IInv'
<1>1. TypeOK'  BY DEF IInv, TypeOK, Settle
<1>2. \A u \in User : received[u] = 0 /\ ~claimed[u]
  BY DEF IInv, TypeOK, Settle, PaidInProportion
<1>3. PaidInProportion'
  <2>1. outcome' # "Undecided" /\ phase' = "Settled"
    BY DEF Settle, Sides
  <2>2. /\ stake[o] \in [User -> Nat] /\ Pool \in Nat
        /\ claimed \in [User -> BOOLEAN] /\ received \in [User -> Nat]
    BY PoolNat DEF IInv, TypeOK
  <2>3. InProportion(stake[o], claimed, received, Pool)
    BY <1>2, <2>2, NothingPaidInProportion
  <2> QED  BY <2>1, <2>3 DEF Settle, PaidInProportion, Pool
<1>4. ExactShares'
  BY <1>2 DEF Settle, ExactShares
<1> QED  BY <1>1, <1>3, <1>4 DEF IInv

LEMMA PayInv ==
  ASSUME IInv, NEW u \in User, Pay(u)
  PROVE  IInv'
<1>1. outcome \in Sides /\ phase = "Settled" /\ ~claimed[u]
  BY DEF IInv, TypeOK, Pay, PaidInProportion
<1>2. /\ stake[outcome] \in [User -> Nat] /\ Pool \in Nat
      /\ claimed \in [User -> BOOLEAN] /\ received \in [User -> Nat]
      /\ received[u] = 0
  BY <1>1, PoolNat DEF IInv, TypeOK, ExactShares
<1>3. Payout(u) \in Nat
  BY <1>2, ShareOfBounds DEF Payout
<1>4. TypeOK'
  BY <1>1, <1>2, <1>3 DEF IInv, TypeOK, Pay
<1>5. PaidInProportion'
  <2>1. InProportion(stake[outcome], claimed, received, Pool)
    BY <1>1 DEF IInv, PaidInProportion, Sides
  <2>2. /\ claimed' \in [User -> BOOLEAN] /\ received' \in [User -> Nat]
        /\ claimed'[u] /\ received'[u] = received[u] + Payout(u)
        /\ \A x \in User \ {u} : /\ claimed'[x] = claimed[x]
                                 /\ received'[x] = received[x]
    BY <1>2, <1>3 DEF Pay
  <2>3. InProportion(stake[outcome], claimed', received', Pool)
    <3> DEFINE won == stake[outcome]
    <3>1. /\ won \in [User -> Nat] /\ ~claimed[u] /\ Pool \in Nat /\ IsFiniteSet(User)
          /\ received'[u] = received[u] + ShareOf(won, u, Pool)
      BY <1>1, <1>2, <2>2, UserFinite DEF Payout
    <3>2. claimed \in [User -> BOOLEAN] /\ received \in [User -> Nat] /\ u \in User
      BY <1>2
    <3> HIDE DEF won
    <3>3. InProportion(won, claimed', received', Pool)
      BY ONLY <2>1, <2>2, <3>1, <3>2, PaymentInProportion DEF won
    <3> QED  BY <3>3 DEF won
  <2> QED  BY <1>1, <2>3 DEF Pay, PaidInProportion, Pool, Sides
<1>6. ExactShares'
  <2>1. \A x \in User : Payout(x)' = Payout(x)
    BY DEF Pay, Payout, Pool
  <2>2. received'[u] = Payout(u) /\ claimed'[u]
    BY <1>2, <1>3 DEF Pay
  <2>3. \A x \in User \ {u} : received'[x] = received[x]
                             /\ claimed'[x] = claimed[x]
    BY <1>2 DEF Pay
  <2> QED  BY <2>1, <2>2, <2>3 DEF IInv, ExactShares
<1> QED  BY <1>4, <1>5, <1>6 DEF IInv

LEMMA NextInv == IInv /\ [Next]_vars => IInv'
<1> SUFFICES ASSUME IInv, [Next]_vars PROVE IInv'
  OBVIOUS
<1>1. CASE UNCHANGED vars
  BY <1>1 DEF vars, IInv, TypeOK, PaidInProportion, ExactShares, Payout, Pool
<1> QED  BY <1>1, BetInv, CloseInv, SettleInv, PayInv DEF Next

LEMMA InvSolvent == IInv => Solvent
<1> SUFFICES ASSUME IInv PROVE Total(received) <= Pool
  BY DEF Solvent
<1>1. Pool \in Nat /\ received \in [User -> Nat] /\ claimed \in [User -> BOOLEAN]
  BY PoolNat DEF IInv, TypeOK
<1>2. CASE outcome = "Undecided"
  <2>1. Total(received) = 0
    BY <1>1, <1>2, TotalZero DEF IInv, PaidInProportion
  <2> QED  BY <1>1, <2>1
<1>3. CASE outcome \in Sides
  <2>1. stake[outcome] \in [User -> Nat]
    BY <1>3, PoolNat DEF IInv
  <2>2. InProportion(stake[outcome], claimed, received, Pool)
    BY <1>3 DEF IInv, PaidInProportion, Sides
  <2> QED  BY <1>1, <2>1, <2>2, ProportionSolvent
<1> QED  BY <1>2, <1>3 DEF IInv, TypeOK

\* A market that keeps the promise never sends out more than it took in, for
\* any number of bettors and any amounts.
LEMMA PoolSolvent == Spec => []Solvent
<1>1. Spec => []IInv
  BY InitInv, NextInv, PTL DEF Spec
<1> QED  BY <1>1, InvSolvent, PTL

\* Every bettor has received nothing, or exactly its share of the pool as the
\* final stakes give it, whatever the order of the claims.
LEMMA PoolExactShares == Spec => []ExactShares
<1>1. Spec => []IInv
  BY InitInv, NextInv, PTL DEF Spec
<1>2. IInv => ExactShares
  BY DEF IInv
<1> QED  BY <1>1, <1>2, PTL

\* Both together: all bettors get their exact shares, and their stakes pay for them.
THEOREM PoolPaysOut == Spec => []PaysOut
<1>1. Solvent /\ ExactShares => PaysOut
  BY DEF PaysOut
<1> QED  BY <1>1, PoolSolvent, PoolExactShares, PTL

-----------------------------------------------------------------------------
(* The page over the market.                                               *)

\* A receipt is that of the submitted claim, and what succeeded was paid.
ReceiptOfClaim ==
  receipt # "none" => /\ inFlight # NoUser
                      /\ receipt = "success" => claimed[inFlight]

\* Unless the account was changed in between, a claim under way is its own.
ClaimOfAccount ==
  ~crossed => prompt \in {NoUser, account} /\ inFlight \in {NoUser, account}

\* What the page remembers as claimed was paid.
MarkedIsPaid == marked /\ ~crossed => account # NoUser /\ claimed[account]

Claims == ReceiptOfClaim /\ ClaimOfAccount /\ MarkedIsPaid

\* The inductive invariant.
PageInv == IInv /\ PositionsTypeOK /\ Claims

LEMMA PageInitInv == PositionsInit => PageInv
<1> SUFFICES ASSUME PositionsInit PROVE PageInv
  OBVIOUS
<1>1. IInv
  BY InitInv DEF PositionsInit
<1>2. PositionsTypeOK
  BY <1>1 DEF PositionsInit, PositionsTypeOK, IInv, Statuses, Unread
<1>3. Claims
  BY DEF PositionsInit, Claims, ReceiptOfClaim, ClaimOfAccount, MarkedIsPaid
<1> QED  BY <1>1, <1>2, <1>3 DEF PageInv

\* Every step of the page is a step of the market or none.
LEMMA PageStep ==
  ASSUME PageInv, [PositionsNext]_positionVars
  PROVE  [Next]_vars
<1>1. CASE Market
  BY <1>1 DEF Market, Next
<1>2. CASE MineClaim
  BY <1>2 DEF MineClaim, Next, PageInv, PositionsTypeOK
<1>3. CASE ~Market /\ ~MineClaim
  BY <1>3 DEF PositionsNext, positionVars, OpenModal, PickConnector, Connected,
     ConnectFails, Disconnect, ChangeAccount, LeaveNetwork, SwitchToRequired,
     FetchMarkets, ReadStakes, Refresh, Reload, PressClaim, ConfirmClaim, RejectClaim,
     SeeReceipt, IndexRow
<1> QED  BY <1>1, <1>2, <1>3

\* Nobody's claim is taken back.
LEMMA ClaimsStay ==
  ASSUME TypeOK, [Next]_vars, NEW u \in User, claimed[u]
  PROVE  claimed'[u]
BY DEF TypeOK, Next, Bet, Close, Settle, Pay, vars

LEMMA PageTyped ==
  ASSUME PageInv, [PositionsNext]_positionVars
  PROVE  PositionsTypeOK'
<1>1. TypeOK'
  BY PageStep, NextInv DEF PageInv, IInv
<1>2. account' \in Visitor \cup {NoUser} /\ modal' \in {"closed", "open", "connecting"}
      /\ rightNet' \in BOOLEAN /\ crossed' \in BOOLEAN
  BY DEF PageInv, PositionsTypeOK, PositionsNext, positionVars, walletVars, dataVars,
     claimVars, OpenModal, PickConnector, Connected, ConnectFails, Disconnect,
     ChangeAccount, Become, LeaveNetwork, SwitchToRequired, FetchMarkets, ReadStakes,
     Refresh, Reload, PressClaim, ConfirmClaim, RejectClaim, MineClaim, SeeReceipt,
     Market, IndexRow
<1>3. listed' \in Statuses
  <2>1. CASE IndexRow
    BY <2>1 DEF IndexRow, PageInv, IInv, TypeOK, PaidInProportion, Statuses
  <2>2. CASE ~IndexRow
    BY <2>2 DEF PageInv, PositionsTypeOK, PositionsNext, positionVars, walletVars,
       dataVars, claimVars, OpenModal, PickConnector, Connected, ConnectFails,
       Disconnect, ChangeAccount, Become, LeaveNetwork, SwitchToRequired, FetchMarkets,
       ReadStakes, Refresh, Reload, PressClaim, ConfirmClaim, RejectClaim, MineClaim,
       SeeReceipt, Market
  <2> QED  BY <2>1, <2>2
<1>4. rowSeen' \in Statuses \cup {"none"} /\ stakeSeen' \in [Visitor -> [Sides -> Nat]]
  <2>1. CASE ReadStakes
    <3> DEFINE s == [o \in Sides |-> stake[o][account]]
    <3>1. account \in Visitor
      BY <2>1 DEF ReadStakes, PageInv, PositionsTypeOK
    <3>2. s \in [Sides -> Nat]
      BY <3>1 DEF PageInv, IInv, TypeOK
    <3>3. rowSeen' = rowSeen /\ stakeSeen' = [stakeSeen EXCEPT ![account] = s]
      BY <2>1 DEF ReadStakes, Refresh
    <3> HIDE DEF s
    <3> QED  BY <3>1, <3>2, <3>3 DEF PageInv, PositionsTypeOK
  <2>2. CASE FetchMarkets \/ Reload
    BY <2>2 DEF FetchMarkets, Refresh, Reload, Unread, PageInv, PositionsTypeOK
  <2>3. CASE ~ReadStakes /\ ~FetchMarkets /\ ~Reload
    BY <2>3 DEF PageInv, PositionsTypeOK, PositionsNext, positionVars, walletVars,
       dataVars, claimVars, OpenModal, PickConnector, Connected, ConnectFails,
       Disconnect, ChangeAccount, Become, LeaveNetwork, SwitchToRequired, PressClaim,
       ConfirmClaim, RejectClaim, MineClaim, SeeReceipt, Market, IndexRow
  <2> QED  BY <2>1, <2>2, <2>3
<1>5. marked' \in BOOLEAN /\ button' \in {"idle", "pending", "confirming", "error"}
  BY DEF PageInv, PositionsTypeOK, PositionsNext, positionVars, walletVars, dataVars,
     claimVars, OpenModal, PickConnector, Connected, ConnectFails, Disconnect,
     ChangeAccount, Become, Keep, LeaveNetwork, SwitchToRequired, FetchMarkets,
     ReadStakes, Refresh, Reload, PressClaim, ConfirmClaim, RejectClaim, MineClaim,
     SeeReceipt, Market, IndexRow
<1>6. prompt' \in Visitor \cup {NoUser} /\ inFlight' \in Visitor \cup {NoUser}
      /\ receipt' \in {"none", "success", "reverted"}
  BY DEF PageInv, PositionsTypeOK, PositionsNext, positionVars, walletVars, dataVars,
     claimVars, OpenModal, PickConnector, Connected, ConnectFails, Disconnect,
     ChangeAccount, Become, LeaveNetwork, SwitchToRequired, FetchMarkets, ReadStakes,
     Refresh, Reload, PressClaim, ConfirmClaim, RejectClaim, MineClaim, SeeReceipt,
     Market, IndexRow
<1> QED  BY <1>1, <1>2, <1>3, <1>4, <1>5, <1>6 DEF PositionsTypeOK

\* Another account: what the page remembers is forgotten, and a claim under way is
\* noted.
LEMMA BecomeClaims ==
  ASSUME PageInv, NEW u \in Visitor \cup {NoUser}, Become(u),
         UNCHANGED <<vars, prompt, inFlight, receipt>>
  PROVE  Claims'
<1>1. ReceiptOfClaim'
  BY DEF PageInv, Claims, ReceiptOfClaim, vars
<1>2. ClaimOfAccount'
  BY DEF Become, UnderWay, PageInv, PositionsTypeOK, ClaimOfAccount
<1>3. MarkedIsPaid'
  BY DEF Become, MarkedIsPaid
<1> QED  BY <1>1, <1>2, <1>3 DEF Claims

\* A claim is asked of the wallet, submitted or refused by its account.
LEMMA RequestClaims ==
  ASSUME PageInv, PressClaim \/ ConfirmClaim \/ RejectClaim
  PROVE  Claims'
<1>1. UNCHANGED <<vars, account, marked, crossed>>
  BY DEF PressClaim, ConfirmClaim, RejectClaim, walletVars
<1>2. CASE PressClaim
  BY <1>1, <1>2 DEF PressClaim, PageInv, Claims, ReceiptOfClaim, ClaimOfAccount,
     MarkedIsPaid, vars
<1>3. CASE ConfirmClaim
  BY <1>1, <1>3 DEF ConfirmClaim, PageInv, Claims, ReceiptOfClaim, ClaimOfAccount,
     MarkedIsPaid, vars
<1>4. CASE RejectClaim
  BY <1>1, <1>4 DEF RejectClaim, PageInv, Claims, ReceiptOfClaim, ClaimOfAccount,
     MarkedIsPaid, vars
<1> QED  BY <1>2, <1>3, <1>4

\* A claim that is mined pays, or is reverted.
LEMMA MineClaims ==
  ASSUME PageInv, MineClaim
  PROVE  Claims'
<1>1. UNCHANGED <<account, marked, prompt, inFlight, crossed>>
  BY DEF MineClaim, walletVars
<1>2. inFlight \in User /\ account \in User \cup {NoUser} /\ TypeOK
  BY DEF MineClaim, PageInv, PositionsTypeOK
<1>3. [Next]_vars
  BY <1>2 DEF MineClaim, Next
<1>4. receipt' = "success" => claimed'[inFlight]
  BY <1>2 DEF MineClaim, Pay, TypeOK
<1>5. ReceiptOfClaim' /\ ClaimOfAccount'
  BY <1>1, <1>2, <1>4 DEF PageInv, Claims, ReceiptOfClaim, ClaimOfAccount
<1>6. MarkedIsPaid'
  BY <1>1, <1>2, <1>3, ClaimsStay DEF PageInv, Claims, MarkedIsPaid
<1> QED  BY <1>5, <1>6 DEF Claims

\* What is marked is what the receipt says of this account's claim.
LEMMA ReceiptClaims ==
  ASSUME PageInv, SeeReceipt
  PROVE  Claims'
<1>1. UNCHANGED <<vars, account, prompt, crossed>>
  BY DEF SeeReceipt, walletVars
<1>2. MarkedIsPaid'
  <2> SUFFICES ASSUME marked', ~crossed
               PROVE  account # NoUser /\ claimed[account]
    BY <1>1 DEF MarkedIsPaid, vars
  <2>1. CASE marked
    BY <2>1 DEF PageInv, Claims, MarkedIsPaid
  <2>2. CASE button = "confirming" /\ receipt = "success"
    BY <2>2 DEF PageInv, Claims, ReceiptOfClaim, ClaimOfAccount
  <2>3. marked' = (marked \/ (button = "confirming" /\ receipt = "success"))
    BY DEF SeeReceipt
  <2> QED  BY <2>1, <2>2, <2>3
<1>3. ReceiptOfClaim' /\ ClaimOfAccount'
  BY <1>1 DEF SeeReceipt, PageInv, Claims, ReceiptOfClaim, ClaimOfAccount
<1> QED  BY <1>2, <1>3 DEF Claims

\* Steps that concern no claim of this browser.
LEMMA ElsewhereClaims ==
  ASSUME PageInv, [Next]_vars, UNCHANGED <<account, prompt, inFlight, receipt, crossed>>,
         marked' \in {FALSE, marked}
  PROVE  Claims'
<1>1. /\ inFlight \in User \cup {NoUser} /\ account \in User \cup {NoUser}
      /\ TypeOK /\ marked \in BOOLEAN
  BY DEF PageInv, PositionsTypeOK
<1>2. ReceiptOfClaim'
  BY <1>1, ClaimsStay DEF PageInv, Claims, ReceiptOfClaim
<1>3. ClaimOfAccount'
  BY DEF PageInv, Claims, ClaimOfAccount
<1>4. MarkedIsPaid'
  BY <1>1, ClaimsStay DEF PageInv, Claims, MarkedIsPaid
<1> QED  BY <1>2, <1>3, <1>4 DEF Claims

LEMMA PageNextInv == PageInv /\ [PositionsNext]_positionVars => PageInv'
<1> SUFFICES ASSUME PageInv, [PositionsNext]_positionVars PROVE PageInv'
  OBVIOUS
<1>1. [Next]_vars
  BY PageStep
<1>2. ASSUME Disconnect \/ \E u \in Visitor : Connected(u) \/ ChangeAccount(u)
      PROVE  Claims'
  <2>1. \/ Become(NoUser)
        \/ \E u \in Visitor : Become(u)
    BY <1>2 DEF Disconnect, Connected, ChangeAccount
  <2>2. UNCHANGED <<vars, prompt, inFlight, receipt>>
    BY <1>2 DEF Disconnect, Connected, ChangeAccount
  <2>3. PICK u \in Visitor \cup {NoUser} : Become(u)
    BY <2>1
  <2> QED  BY <2>2, <2>3, BecomeClaims
<1>3. ASSUME \/ OpenModal \/ PickConnector \/ ConnectFails \/ LeaveNetwork
             \/ SwitchToRequired \/ FetchMarkets \/ ReadStakes \/ Reload \/ Market
             \/ IndexRow \/ UNCHANGED positionVars
      PROVE  Claims'
  <2>1. UNCHANGED <<account, prompt, inFlight, receipt, crossed>>
    BY <1>3 DEF positionVars, walletVars, claimVars, OpenModal, PickConnector,
       ConnectFails, LeaveNetwork, SwitchToRequired, FetchMarkets, ReadStakes, Refresh,
       Reload, Market, IndexRow
  <2>2. marked' \in {FALSE, marked}
    BY <1>3 DEF positionVars, walletVars, claimVars, OpenModal, PickConnector,
       ConnectFails, LeaveNetwork, SwitchToRequired, FetchMarkets, ReadStakes, Refresh,
       Reload, Market, IndexRow
  <2> QED  BY <1>1, <2>1, <2>2, ElsewhereClaims
<1>4. Claims'
  BY <1>2, <1>3, RequestClaims, MineClaims, ReceiptClaims DEF PositionsNext
<1> QED  BY <1>1, <1>4, PageTyped, NextInv DEF PageInv

LEMMA PageInvariance == PositionsSpec => []PageInv
BY PageInitInv, PageNextInv, PTL DEF PositionsSpec

\* The page, with its stale rows, late receipts and changed accounts, is one more
\* user of the market, which promises what it promised.
THEOREM PageUsesPool == PositionsSpec => Spec
<1>1. PositionsInit => Init
  BY DEF PositionsInit
<1>2. PageInv /\ [PositionsNext]_positionVars => [Next]_vars
  BY PageStep
<1> QED  BY <1>1, <1>2, PageInvariance, PTL DEF PositionsSpec, Spec

\* "Claimed" is shown to an account that the market has paid, however often the page
\* is reloaded and claims are refused or reverted, unless the account was changed
\* while a claim was under way.
THEOREM ShownIsPaid == PositionsSpec => []ClaimedShownIsPaid
<1>1. PageInv => ClaimedShownIsPaid
  BY DEF PageInv, PositionsTypeOK, Claims, MarkedIsPaid, ClaimedShownIsPaid, Result
<1> QED  BY <1>1, PageInvariance, PTL

\* The variables of the page and of the market behind it keep their types.
THEOREM PageTypeCorrect == PositionsSpec => []PositionsTypeOK
<1>1. PageInv => PositionsTypeOK
  BY DEF PageInv
<1> QED  BY <1>1, PageInvariance, PTL

-----------------------------------------------------------------------------
(* The parts together.                                                     *)

\* The two parts whose specifications state fairness, without it.
MarketPagePart == Page!PageInit /\ [][Page!PageNext]_(Page!pageVars)
MarketListPart == List!ListInit /\ [][List!ListNext]_(List!listVars)

\* While a part runs, the others rest: for each of them, what happens is a behavior
\* of its own.
THEOREM WebUsesParts ==
  WebSpec => /\ MarketPagePart /\ MarketListPart
             /\ DraftSpec /\ CreationSpec /\ FilterSpec /\ DeploySpec /\ ChartSpec
             /\ SignalsSpec
<1>1. WebInit => /\ Page!PageInit /\ List!ListInit
                 /\ DraftInit /\ CreationInit /\ FilterInit /\ DeployInit /\ ChartInit
                 /\ SignalsInit
  BY DEF WebInit
<1>2. [WebNext]_webVars => /\ [Page!PageNext]_(Page!pageVars)
                           /\ [List!ListNext]_(List!listVars)
  <2>1. UNCHANGED pageVars => UNCHANGED Page!pageVars
    BY DEF pageVars, Page!pageVars
  <2>2. UNCHANGED listVars => UNCHANGED List!listVars
    BY DEF listVars, List!listVars, List!tableVars
  <2>3. UNCHANGED webVars => UNCHANGED <<pageVars, listVars>>
    BY DEF webVars
  <2>4. WebNext => /\ Page!PageNext \/ UNCHANGED pageVars
                   /\ List!ListNext \/ UNCHANGED listVars
    BY DEF WebNext, Only
  <2> QED  BY <2>1, <2>2, <2>3, <2>4
<1>3. [WebNext]_webVars => /\ [DraftNext]_draftVars /\ [CreationNext]_creationVars
                           /\ [FilterNext]_filterVars /\ [DeployNext]_deployVars
                           /\ [ChartNext]_priceVars /\ [SignalsNext]_signalVars
  <2>1. UNCHANGED webVars => UNCHANGED <<draftVars, creationVars, filterVars, deployVars,
                                         priceVars, signalVars>>
    BY DEF webVars
  <2>2. WebNext => /\ [DraftNext]_draftVars /\ [CreationNext]_creationVars
                   /\ [FilterNext]_filterVars /\ [DeployNext]_deployVars
                   /\ [ChartNext]_priceVars /\ [SignalsNext]_signalVars
    BY DEF WebNext, Only
  <2> QED  BY <2>1, <2>2
<1> QED
  BY <1>1, <1>2, <1>3, PTL DEF WebSpec, MarketPagePart, MarketListPart, DraftSpec,
     CreationSpec, FilterSpec, DeploySpec, ChartSpec, SignalsSpec

\* The pool is used by bettors, and by this browser's page as well.
LEMMA WebPoolInv == WebSpec => []PageInv
<1>1. WebInit => PageInv
  BY PageInitInv DEF WebInit
<1>2. PageInv /\ [WebNext]_webVars => PageInv'
  <2> SUFFICES ASSUME PageInv, [WebNext]_webVars PROVE PageInv'
    OBVIOUS
  <2>1. CASE [Next]_vars /\ UNCHANGED browserVars
    <3>1. UNCHANGED <<account, modal, rightNet, listed, rowSeen, stakeSeen, marked,
                      button, prompt, inFlight, receipt, crossed>>
      BY <2>1 DEF browserVars, walletVars, dataVars, claimVars
    <3>2. IInv' /\ TypeOK'
      BY <2>1, NextInv DEF PageInv, IInv
    <3>3. marked' \in {FALSE, marked}
      BY <3>1
    <3>4. Claims'
      BY <2>1, <3>1, <3>3, ElsewhereClaims
    <3>5. PositionsTypeOK'
      BY <3>1, <3>2 DEF PageInv, PositionsTypeOK
    <3> QED  BY <3>2, <3>4, <3>5 DEF PageInv
  <2>2. CASE [PositionsNext]_positionVars
    BY <2>2, PageNextInv
  <2>3. UNCHANGED webVars => UNCHANGED positionVars
    BY DEF webVars
  <2>4. WebNext => \/ [Next]_vars /\ UNCHANGED browserVars
                   \/ PositionsNext
    BY DEF WebNext, Only
  <2> QED  BY <2>1, <2>2, <2>3, <2>4
<1> QED  BY <1>1, <1>2, PTL DEF WebSpec

\* What each part promises holds of the whole, for any number of bettors, rows,
\* submissions, links and assets: it pays out what was won and says so to those it
\* paid, registers what was created, keeps the draft's symbol, its links and what it
\* shows consistent, and is deployed with its paths open.
THEOREM WebKeepsPromises ==
  WebSpec => [](/\ PaysOut /\ ClaimedShownIsPaid /\ SymbolIsOfToken /\ ChainIsRegistered
                /\ RestIsConsistent /\ PathsAreOpen /\ ShownIsSelected /\ SignalsOfAsset)
<1>1. PageInv => PaysOut /\ ClaimedShownIsPaid
  <2>1. PageInv => ClaimedShownIsPaid
    BY DEF PageInv, PositionsTypeOK, Claims, MarkedIsPaid, ClaimedShownIsPaid, Result
  <2>2. PageInv => PaysOut
    BY InvSolvent DEF PageInv, IInv, PaysOut
  <2> QED  BY <2>1, <2>2
<1>2. WebSpec => []PaysOut /\ []ClaimedShownIsPaid
  BY <1>1, WebPoolInv, PTL
<1>3. WebSpec => /\ []SymbolIsOfToken /\ []ChainIsRegistered /\ []RestIsConsistent
                 /\ []PathsAreOpen /\ []ShownIsSelected /\ []SignalsOfAsset
  BY WebUsesParts, SymbolRight, CreationRight, RestRight, PathsRight, ShownRight,
     AssetRight, PTL
<1> QED  BY <1>2, <1>3, PTL

\* All variables of the web app keep their types, for any number of rows, pages,
\* submissions, scripts, links, candles and prices.  Of the wallet that deploys: its
\* pool never holds more than five transactions.  Of the list: no page is asked for
\* beyond the most rows there were.
THEOREM WebTypeCorrect == WebSpec => []WebTypeOK
<1>1. PageInv => PositionsTypeOK
  BY DEF PageInv
<1>2. WebSpec => []PositionsTypeOK
  BY <1>1, WebPoolInv, PTL
<1>3. WebSpec => []Page!PageTypeOK /\ []List!ListTypeOK
  BY WebUsesParts, MarketPageTyped, MarketListTyped, PTL DEF MarketPagePart,
     MarketListPart
<1>4. WebSpec => /\ []DraftTypeOK /\ []CreationTypeOK /\ []FilterTypeOK
                 /\ []DeployTypeOK /\ []ChartTypeOK /\ []SignalsTypeOK
  BY WebUsesParts, DraftTyped, CreationTyped, FilterTyped, DeployTyped, ChartTyped,
     SignalsTyped, PTL
<1>5. /\ PositionsTypeOK /\ Page!PageTypeOK /\ List!ListTypeOK
      /\ DraftTypeOK /\ CreationTypeOK /\ FilterTypeOK
      /\ DeployTypeOK /\ ChartTypeOK /\ SignalsTypeOK
      => WebTypeOK
  BY DEF WebTypeOK
<1> QED  BY <1>2, <1>3, <1>4, <1>5, PTL
=============================================================================
