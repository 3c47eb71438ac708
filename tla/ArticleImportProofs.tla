------------------------ MODULE ArticleImportProofs -------------------------
(***************************************************************************)
(* Proofs about ArticleImport, for any number of writers, slugs, tags,     *)
(* tag lists and failures.                                                 *)
(***************************************************************************)
EXTENDS ArticleImport, TLAPS, SequenceTheorems

(***************************************************************************)
(* The inductive invariant: what a writer's place says of its transaction, *)
(* and what its transaction says of the tables other writers change.       *)
(***************************************************************************)
InTransaction == {"select", "insert", "link", "unlink", "commit"}

\* Where a writer can be, what it holds there, and how it may have ended.
PlaceInv(w) ==
  /\ call[w].kind = "import" => pc[w] \in {"upsert", "done"} \cup InTransaction
  /\ call[w].kind = "create" => pc[w] \in {"find", "make", "fetch", "save", "done"}
  /\ tx[w].row <=> pc[w] \in InTransaction
  /\ ~tx[w].row => tx[w].made = {}
  /\ pc[w] \in {"upsert", "find"} => todo[w] = call[w].tags /\ tx[w] = NoTx
  /\ pc[w] \in {"link", "unlink", "commit", "save"} => todo[w] = <<>>
  /\ pc[w] = "done" <=> answer[w] # "none"
  /\ w \in written => pc[w] = "done"
  /\ answer[w] = "ok" => w \in written
  /\ answer[w] = "failed" /\ w \in written => w \in hit

\* The tags on the way from the call into the table.
TagsInv(w) ==
  /\ ToSet(todo[w]) \cup tx[w].made \subseteq TagsOf(w)
  /\ pc[w] \in InTransaction => TagsOf(w) \subseteq tags \cup tx[w].made \cup ToSet(todo[w])
  /\ pc[w] = "insert" => Head(todo[w]) \notin OldTags \cup tx[w].made
  /\ tx[w].found \subseteq tags
  /\ pc[w] = "fetch" => Head(todo[w]) \in tags \/ w \in hit
  /\ pc[w] \in {"make", "fetch", "save"} /\ w \notin hit =>
       tx[w].linked \subseteq tags /\ tx[w].linked \cup ToSet(todo[w]) = TagsOf(w)
  /\ answer[w] = "ok" /\ w \notin hit => TagsOf(w) \subseteq tags

\* What a commit will do to the links of a row that nobody else can write.
LinksInv(w) ==
  /\ pc[w] = "unlink" => tx[w].linked = TagsOf(w)
  /\ pc[w] = "commit" =>
       \/ tx[w].linked = TagsOf(w) /\ tx[w].unlinked = RowOf(w).links \ TagsOf(w)
       \/ TagsOf(w) = {} /\ tx[w].linked = {} /\ tx[w].unlinked = {}

\* Why a record was refused.
RefusedInv(w) ==
  answer[w] = "failed" /\ w \notin hit =>
    IF call[w].kind = "create"
    THEN RowOf(w) # NoRow
    ELSE \E r \in Writers \ {w} : (TagsOf(w) \cap TagsOf(r)) \ OldTags # {}

\* A creation that was answered 201.
CreatedInv(w) ==
  /\ w \notin hit /\ call[w].kind = "create" /\ answer[w] = "ok"
  /\ \A r \in written \ {w} : call[r].slug # call[w].slug
  => RowOf(w) = [by |-> w, links |-> TagsOf(w)]

WriterInv(w) == PlaceInv(w) /\ TagsInv(w) /\ LinksInv(w) /\ RefusedInv(w) /\ CreatedInv(w)

\* Two transactions never hold one slug.
SlugInv == \A v, w \in Writers : v # w /\ tx[v].row /\ tx[w].row => call[v].slug # call[w].slug

\* Where the rows and tags come from.
TablesInv ==
  /\ OldTags \subseteq tags
  /\ \A s \in Slugs : articles[s].by \in written \cup {Before, "none"}
  /\ \A t \in tags \ OldTags :
       \E w \in Writers : t \in TagsOf(w) /\ (w \in written \/ call[w].kind = "create")

IInv == WriterTypeOK /\ (\A w \in Writers : WriterInv(w)) /\ SlugInv /\ TablesInv
          /\ TagsOfOneRecord
-----------------------------------------------------------------------------
(***************************************************************************)
(* Lists of tags, and types a variable at a time.                          *)
(***************************************************************************)
Places == {"upsert", "select", "insert", "link", "unlink", "commit", "find", "make", "fetch",
           "save", "done"}
Txs == [row : BOOLEAN, made : SUBSET Tags, linked : SUBSET Tags, unlinked : SUBSET Tags,
        found : SUBSET Tags]

LEMMA ListOfTags ==
  ASSUME NEW s \in Seq(Tags)
  PROVE  /\ ToSet(s) \subseteq Tags
         /\ s = <<>> => ToSet(s) = {}
         /\ s # <<>> => /\ Head(s) \in Tags /\ Tail(s) \in Seq(Tags)
                        /\ ToSet(s) = {Head(s)} \cup ToSet(Tail(s))
                        /\ Len(s) = 1 <=> Tail(s) = <<>>
<1>1. Len(s) \in Nat /\ DOMAIN s = 1..Len(s) /\ \A i \in 1..Len(s) : s[i] \in Tags
  BY LenProperties
<1>2. ToSet(s) = {s[i] : i \in 1..Len(s)}
  BY <1>1 DEF ToSet
<1>3. CASE s = <<>>
  BY <1>2, <1>3
<1>4. CASE s # <<>>
  <2> DEFINE t == Tail(s)
  <2>1. /\ Head(s) \in Tags /\ t \in Seq(Tags) /\ Head(s) = s[1] /\ Len(s) >= 1
        /\ Len(t) = Len(s) - 1 /\ \A i \in 1..Len(t) : t[i] = s[i + 1]
    BY <1>1, <1>4, HeadTailProperties, EmptySeq
  <2>2. DOMAIN t = 1..Len(t)
    BY <2>1, LenProperties
  <2>3. ToSet(t) = {t[i] : i \in 1..Len(t)}
    BY <2>2 DEF ToSet
  <2> HIDE DEF t
  <2>4. ASSUME NEW x \in ToSet(s) PROVE x \in {Head(s)} \cup ToSet(t)
    <3>1. PICK i \in 1..Len(s) : x = s[i]
      BY <1>2
    <3>2. CASE i = 1
      BY <2>1, <3>1, <3>2
    <3>3. CASE i # 1
      <4>1. i - 1 \in 1..Len(t) /\ (i - 1) + 1 = i
        BY <1>1, <2>1, <3>3
      <4>2. t[i - 1] = x
        BY <2>1, <3>1, <4>1
      <4> QED BY <2>3, <4>1, <4>2
    <3> QED BY <3>2, <3>3
  <2>5. Head(s) \in ToSet(s)
    <3>1. 1 \in 1..Len(s)
      BY <1>1, <2>1
    <3> QED BY <1>2, <2>1, <3>1
  <2>6. ASSUME NEW x \in ToSet(t) PROVE x \in ToSet(s)
    <3>1. PICK i \in 1..Len(t) : x = t[i]
      BY <2>3
    <3>2. i + 1 \in 1..Len(s) /\ x = s[i + 1]
      BY <1>1, <2>1, <3>1
    <3> QED BY <1>2, <3>2
  <2>7. ToSet(s) = {Head(s)} \cup ToSet(t)
    BY <2>4, <2>5, <2>6
  <2>8. Len(s) = 1 <=> t = <<>>
    BY <1>1, <2>1, EmptySeq
  <2>9. ToSet(s) \subseteq Tags
    BY <1>1, <1>2
  <2> QED BY <1>4, <2>1, <2>7, <2>8, <2>9 DEF t
<1> QED BY <1>1, <1>2, <1>3, <1>4

LEMMA CallType ==
  ASSUME WriterTypeOK, NEW w \in Writers
  PROVE  /\ call[w].kind \in {"import", "create"} /\ call[w].slug \in Slugs
         /\ call[w].tags \in Seq(Tags) /\ TagsOf(w) \in SUBSET Tags
<1>1. call[w] \in [kind : {"import", "create"}, slug : Slugs, tags : Seq(Tags)]
  BY WriterAssumption DEF WriterTypeOK
<1> QED BY <1>1, ListOfTags DEF TagsOf

LEMMA InitIInv == Init => IInv
<1> SUFFICES ASSUME Init PROVE IInv
  OBVIOUS
<1>1. WriterTypeOK
  <2>1. PICK old \in SUBSET OldSlugs :
          articles = [s \in Slugs |-> IF s \in old THEN OldRow ELSE NoRow]
    BY DEF Init
  <2>2. OldRow \in Rows /\ NoRow \in Rows
    BY WriterAssumption DEF OldRow, NoRow, Rows
  <2>3. articles \in [Slugs -> Rows]
    BY <2>1, <2>2
  <2>4. \A w \in Writers : call[w].tags \in Seq(Tags)
    BY WriterAssumption DEF Init
  <2>5. todo \in [Writers -> Seq(Tags)]
    BY <2>4 DEF Init
  <2>6. NoTx \in Txs
    BY DEF NoTx, Txs
  <2>7. tx \in [Writers -> Txs]
    BY <2>6 DEF Init
  <2> QED BY <2>3, <2>5, <2>7, WriterAssumption DEF Init, WriterTypeOK, Txs
<1>2. ASSUME NEW w \in Writers PROVE WriterInv(w)
  <2>1. /\ pc[w] = IF call[w].kind = "import" THEN "upsert" ELSE "find"
        /\ todo[w] = call[w].tags /\ tx[w] = NoTx /\ answer[w] = "none" /\ w \notin written
    BY <1>2 DEF Init
  <2>2. PlaceInv(w)
    BY <2>1, <1>1, CallType DEF PlaceInv, NoTx, InTransaction
  <2>3. TagsInv(w)
    BY <2>1 DEF TagsInv, TagsOf, NoTx, InTransaction
  <2> QED BY <2>1, <2>2, <2>3 DEF WriterInv, LinksInv, RefusedInv, CreatedInv
<1>3. SlugInv
  BY DEF Init, SlugInv, NoTx
<1>4. TablesInv /\ TagsOfOneRecord
  <2>1. PICK old \in SUBSET OldSlugs :
          articles = [s \in Slugs |-> IF s \in old THEN OldRow ELSE NoRow]
    BY DEF Init
  <2>2. \A s \in Slugs : articles[s] = OldRow \/ articles[s] = NoRow
    BY <2>1
  <2>3. tags = OldTags
    BY DEF Init
  <2> QED BY <2>2, <2>3 DEF TablesInv, TagsOfOneRecord, OldRow, NoRow
<1> QED BY <1>1, <1>2, <1>3, <1>4 DEF IInv
-----------------------------------------------------------------------------
(***************************************************************************)
(* What a step of one writer does to the others.                           *)
(***************************************************************************)
Still(v) ==
  /\ pc'[v] = pc[v] /\ todo'[v] = todo[v] /\ tx'[v] = tx[v] /\ answer'[v] = answer[v]
  /\ v \in hit' <=> v \in hit
  /\ v \in written' <=> v \in written

\* Tables only grow.
Grows == tags \subseteq tags' /\ written \subseteq written' /\ hit \subseteq hit'

LEMMA OwnPartsStay ==
  ASSUME NEW v \in Writers, PlaceInv(v), TagsInv(v), Still(v), Grows, UNCHANGED call
  PROVE  PlaceInv(v)' /\ TagsInv(v)'
<1>1. PlaceInv(v)'
  BY DEF PlaceInv, Still
<1>2. TagsInv(v)'
  BY DEF TagsInv, TagsOf, Still, Grows
<1> QED BY <1>1, <1>2

LEMMA RowPartsStay ==
  ASSUME NEW v \in Writers, WriterInv(v), Still(v), Grows, UNCHANGED call, RowOf(v)' = RowOf(v)
  PROVE  WriterInv(v)'
<1>1. PlaceInv(v)' /\ TagsInv(v)'
  BY OwnPartsStay DEF WriterInv
<1>2. LinksInv(v)'
  BY DEF WriterInv, LinksInv, TagsOf, Still
<1>3. RefusedInv(v)'
  BY DEF WriterInv, RefusedInv, TagsOf, Still
<1>4. CreatedInv(v)'
  BY DEF WriterInv, CreatedInv, TagsOf, Still, Grows
<1> QED BY <1>1, <1>2, <1>3, <1>4 DEF WriterInv

\* A step of w that writes no row.
LEMMA QuietStep ==
  ASSUME IInv, NEW w \in Writers,
         UNCHANGED <<call, articles>>, WriterTypeOK', Grows,
         \A v \in Writers \ {w} : Still(v),
         \A t \in tags' \ tags : t \in TagsOf(w) /\ call[w].kind = "create",
         \A v \in Writers : tx'[w].row /\ ~tx[w].row /\ v # w /\ tx[v].row =>
                              call[v].slug # call[w].slug,
         PlaceInv(w)', TagsInv(w)', LinksInv(w)', RefusedInv(w)',
         answer'[w] # "ok" \/ (answer'[w] = answer[w] /\ (w \in hit' <=> w \in hit))
  PROVE  IInv'
<1>1. ASSUME NEW v \in Writers \ {w} PROVE WriterInv(v)'
  <2>1. RowOf(v)' = RowOf(v)
    BY DEF RowOf
  <2> QED BY <2>1, RowPartsStay DEF IInv
<1>2. CreatedInv(w)'
  BY DEF IInv, WriterInv, CreatedInv, RowOf, TagsOf, Grows
<1>3. WriterInv(w)'
  BY <1>2 DEF WriterInv
<1>4. SlugInv'
  BY DEF IInv, SlugInv, Still
<1>5. TablesInv'
  <2>1. OldTags \subseteq tags'
    BY DEF IInv, TablesInv, Grows
  <2>2. \A s \in Slugs : articles'[s].by \in written' \cup {Before, "none"}
    BY DEF IInv, TablesInv, Grows
  <2>3. ASSUME NEW t \in tags' \ OldTags
        PROVE  \E v \in Writers : t \in TagsOf(v) /\ (v \in written' \/ call[v].kind = "create")
    BY DEF IInv, TablesInv, Grows
  <2> QED BY <2>1, <2>2, <2>3 DEF TablesInv, TagsOf
<1>6. TagsOfOneRecord'
  BY DEF IInv, TagsOfOneRecord, Grows, TagsOf
<1> QED BY <1>1, <1>3, <1>4, <1>5, <1>6 DEF IInv

LEMMA WriterTypes ==
  ASSUME WriterTypeOK, NEW w \in Writers
  PROVE  /\ pc[w] \in Places /\ todo[w] \in Seq(Tags) /\ tx[w] \in Txs
         /\ answer[w] \in {"none", "ok", "failed"} /\ RowOf(w) \in Rows
         /\ pc[w] \in {"select", "insert", "make", "fetch"} => todo[w] # <<>>
         /\ pc[w] = "done" => tx[w] = NoTx
  BY CallType DEF WriterTypeOK, Places, Txs, RowOf

\* A writer's place, list, transaction and answer.
Fit(p, l, x, a) ==
  /\ p \in Places /\ l \in Seq(Tags) /\ x \in Txs /\ a \in {"none", "ok", "failed"}
  /\ p \in {"select", "insert", "make", "fetch"} => l # <<>>
  /\ p = "done" => x = NoTx

Moves(w, p, l, x, a) ==
  /\ pc' = [pc EXCEPT ![w] = p] /\ todo' = [todo EXCEPT ![w] = l]
  /\ tx' = [tx EXCEPT ![w] = x] /\ answer' = [answer EXCEPT ![w] = a]

\* The variables of one writer are written, and the tables perhaps.
LEMMA TypeStep ==
  ASSUME WriterTypeOK, NEW w \in Writers, NEW p, NEW l, NEW x, NEW a,
         Fit(p, l, x, a), Moves(w, p, l, x, a),
         call' = call, articles' \in [Slugs -> Rows], tags' \subseteq Tags,
         hit' \subseteq hit \cup {w}, written' \subseteq written \cup {w}
  PROVE  /\ WriterTypeOK'
         /\ pc'[w] = p /\ todo'[w] = l /\ tx'[w] = x /\ answer'[w] = a
         /\ \A v \in Writers \ {w} : /\ pc'[v] = pc[v] /\ todo'[v] = todo[v]
                                     /\ tx'[v] = tx[v] /\ answer'[v] = answer[v]
<1> USE DEF Fit, Moves
<1>1. /\ pc'[w] = p /\ todo'[w] = l /\ tx'[w] = x /\ answer'[w] = a
      /\ \A v \in Writers \ {w} : /\ pc'[v] = pc[v] /\ todo'[v] = todo[v]
                                  /\ tx'[v] = tx[v] /\ answer'[v] = answer[v]
  BY DEF WriterTypeOK
<1>2. pc' \in [Writers -> Places] /\ todo' \in [Writers -> Seq(Tags)]
  BY DEF WriterTypeOK, Places
<1>3. tx' \in [Writers -> Txs] /\ answer' \in [Writers -> {"none", "ok", "failed"}]
  BY DEF WriterTypeOK, Txs
<1>4. \A v \in Writers : /\ pc'[v] \in {"select", "insert", "make", "fetch"} => todo'[v] # <<>>
                         /\ pc'[v] = "done" => tx'[v] = NoTx
  BY <1>1 DEF WriterTypeOK
<1>5. call' \in [Writers -> Calls] /\ hit' \subseteq Writers /\ written' \subseteq Writers
  BY DEF WriterTypeOK
<1> QED BY <1>1, <1>2, <1>3, <1>4, <1>5 DEF WriterTypeOK, Places, Txs

LEMMA NoTxType == NoTx \in Txs
  BY DEF NoTx, Txs
-----------------------------------------------------------------------------
(***************************************************************************)
(* The importer.                                                           *)
(***************************************************************************)
Reason(w) == IF call[w].kind = "create"
             THEN RowOf(w) # NoRow
             ELSE \E r \in Writers \ {w} : (TagsOf(w) \cap TagsOf(r)) \ OldTags # {}

\* A rollback leaves the tables alone and has a failure or a reason.
LEMMA RollbackStep ==
  ASSUME IInv, NEW w \in Writers, pc[w] # "done", Rollback(w),
         UNCHANGED hit \/ Fault(w), w \in hit' \/ Reason(w)
  PROVE  IInv'
<1>1. WriterTypeOK /\ PlaceInv(w) /\ TagsInv(w)
  BY DEF IInv, WriterInv
<1>2. /\ todo[w] \in Seq(Tags) /\ "done" \in Places /\ "failed" \in {"none", "ok", "failed"}
      /\ todo' = [todo EXCEPT ![w] = todo[w]]
  BY <1>1, WriterTypes DEF Rollback, Places, WriterTypeOK
<1>3. /\ articles' \in [Slugs -> Rows] /\ tags' \subseteq Tags
      /\ hit' \subseteq hit \cup {w} /\ written' \subseteq written \cup {w}
  BY <1>1 DEF Rollback, tables, Fault, WriterTypeOK
<1>4. /\ WriterTypeOK'
      /\ pc'[w] = "done" /\ todo'[w] = todo[w] /\ tx'[w] = NoTx /\ answer'[w] = "failed"
      /\ \A v \in Writers \ {w} : /\ pc'[v] = pc[v] /\ todo'[v] = todo[v]
                                  /\ tx'[v] = tx[v] /\ answer'[v] = answer[v]
  <2>1. Moves(w, "done", todo[w], NoTx, "failed") /\ call' = call
    BY <1>2 DEF Rollback, Finish, Goto, Moves
  <2>2. Fit("done", todo[w], NoTx, "failed")
    BY <1>2, NoTxType DEF Fit
  <2> QED BY <1>1, <1>3, <2>1, <2>2, TypeStep
<1>5. /\ UNCHANGED <<call, articles, tags, written>> /\ Grows
      /\ \A v \in Writers \ {w} : Still(v)
  BY <1>4 DEF Rollback, tables, Fault, Grows, Still
<1>6. w \notin written /\ ToSet(todo[w]) \subseteq TagsOf(w)
  BY <1>1 DEF PlaceInv, TagsInv
<1>7. PlaceInv(w)'
  <2>1. call[w].kind \in {"import", "create"}
    BY <1>1, CallType
  <2> QED BY <1>4, <1>5, <1>6, <2>1 DEF PlaceInv, NoTx, InTransaction
<1>8. TagsInv(w)' /\ LinksInv(w)'
  BY <1>4, <1>5, <1>6 DEF TagsInv, LinksInv, TagsOf, NoTx, InTransaction
<1>9. RefusedInv(w)'
  BY <1>5 DEF RefusedInv, Reason, RowOf, TagsOf
<1>10. ~tx'[w].row
  BY <1>4 DEF NoTx
<1> QED BY <1>4, <1>5, <1>7, <1>8, <1>9, <1>10, QuietStep

\* Whoever is in a deadlock is there over a tag that another writer has made too.
LEMMA DeadlockOverATag ==
  ASSUME IInv, NEW w \in Writers, Deadlocked(w),
         pc[w] \in {"upsert", "select", "insert", "link", "unlink"}
  PROVE  Reason(w)
<1>1. PICK C \in SUBSET Writers : /\ w \in C /\ C = UNION {WaitsFor(r) : r \in C}
                                  /\ \A r \in C : WaitsFor(r) # {}
  BY DEF Deadlocked
<1>2. PlaceInv(w) /\ TagsInv(w) /\ WriterTypeOK
  BY DEF IInv, WriterInv
<1>3. PICK u \in C : w \in WaitsFor(u)
  BY <1>1
<1>4. tx[w].row \/ tx[w].made # {}
  BY <1>3 DEF WaitsFor, HoldersOfSlug, HoldersOfTag
<1>5. tx[w].row
  BY <1>2, <1>4 DEF PlaceInv
<1>6. pc[w] = "insert"
  BY <1>1, <1>2, <1>5 DEF PlaceInv, InTransaction, WaitsFor
<1>7. PICK r \in HoldersOfTag(w) : TRUE
  BY <1>1, <1>6 DEF WaitsFor
<1>8. r \in Writers \ {w} /\ Head(todo[w]) \in tx[r].made
  BY <1>7 DEF HoldersOfTag
<1>9. Head(todo[w]) \in TagsOf(r)
  BY <1>8 DEF IInv, WriterInv, TagsInv
<1>10. Head(todo[w]) \in TagsOf(w) \ OldTags
  <2>1. Head(todo[w]) \in ToSet(todo[w])
    BY <1>2, <1>6, WriterTypes, ListOfTags
  <2> QED BY <1>2, <1>6, <2>1 DEF TagsInv
<1>11. call[w].kind # "create"
  BY <1>2, <1>6 DEF PlaceInv
<1> QED BY <1>8, <1>9, <1>10, <1>11 DEF Reason

LEMMA FailStep == ASSUME IInv, NEW w \in Writers, Fail(w) PROVE IInv'
<1>1. CASE Fault(w)
  BY <1>1, RollbackStep DEF Fail, Fault
<1>2. CASE Deadlocked(w) /\ UNCHANGED hit
  BY <1>2, RollbackStep, DeadlockOverATag DEF Fail
<1> QED BY <1>1, <1>2 DEF Fail

LEMMA UpsertStep == ASSUME IInv, NEW w \in Writers, Upsert(w) PROVE IInv'
<1> DEFINE p == IF todo[w] = <<>> THEN "commit" ELSE "select"
           x == [tx[w] EXCEPT !.row = TRUE]
<1>1. WriterTypeOK /\ PlaceInv(w) /\ TagsInv(w) /\ pc[w] = "upsert"
  BY DEF IInv, WriterInv, Upsert
<1>2. /\ tx[w] = NoTx /\ todo[w] = call[w].tags /\ call[w].kind = "import"
      /\ answer[w] = "none" /\ w \notin written
  <2>1. call[w].kind \in {"import", "create"}
    BY <1>1, CallType
  <2> QED BY <1>1, <2>1 DEF PlaceInv
<1>3. x = [row |-> TRUE, made |-> {}, linked |-> {}, unlinked |-> {}, found |-> {}]
  <2>1. x = [NoTx EXCEPT !.row = TRUE]
    BY <1>2
  <2> HIDE DEF x
  <2> QED BY <2>1 DEF NoTx
<1>4. /\ todo[w] \in Seq(Tags) /\ p \in Places /\ x \in Txs
      /\ answer[w] \in {"none", "ok", "failed"}
      /\ p \in {"select", "insert", "make", "fetch"} => todo[w] # <<>>
      /\ p # "done"
  BY <1>1, <1>3, WriterTypes DEF Places, Txs
<1>5. /\ pc' = [pc EXCEPT ![w] = p] /\ tx' = [tx EXCEPT ![w] = x]
      /\ todo' = [todo EXCEPT ![w] = todo[w]] /\ answer' = [answer EXCEPT ![w] = answer[w]]
      /\ UNCHANGED <<call, articles, tags, hit, written>>
  BY <1>1 DEF Upsert, Goto, tables, WriterTypeOK
<1> HIDE DEF x, p
<1>6. /\ WriterTypeOK'
      /\ pc'[w] = p /\ todo'[w] = todo[w] /\ tx'[w] = x /\ answer'[w] = answer[w]
      /\ \A v \in Writers \ {w} : /\ pc'[v] = pc[v] /\ todo'[v] = todo[v]
                                  /\ tx'[v] = tx[v] /\ answer'[v] = answer[v]
  <2>1. articles' \in [Slugs -> Rows] /\ tags' \subseteq Tags
    BY <1>1, <1>5 DEF WriterTypeOK
  <2>2. Fit(p, todo[w], x, answer[w]) /\ Moves(w, p, todo[w], x, answer[w])
    BY <1>4, <1>5 DEF Fit, Moves
  <2> QED BY <1>1, <1>5, <2>1, <2>2, TypeStep
<1>7. Grows /\ \A v \in Writers \ {w} : Still(v)
  BY <1>5, <1>6 DEF Grows, Still
<1>8. PlaceInv(w)'
  BY <1>2, <1>3, <1>5, <1>6 DEF PlaceInv, InTransaction, p
<1>9. TagsInv(w)'
  BY <1>1, <1>2, <1>3, <1>5, <1>6 DEF TagsInv, TagsOf, InTransaction, p
<1>10. LinksInv(w)'
  <2>1. todo[w] = <<>> => TagsOf(w) = {}
    BY <1>2, <1>4, ListOfTags DEF TagsOf
  <2> QED BY <1>3, <1>5, <1>6, <2>1 DEF LinksInv, TagsOf, p
<1>11. RefusedInv(w)'
  BY <1>2, <1>6 DEF RefusedInv
<1>12. \A v \in Writers : v # w /\ tx[v].row => call[v].slug # call[w].slug
  BY <1>1 DEF Upsert, Ready, WaitsFor, HoldersOfSlug
<1> QED BY <1>5, <1>6, <1>7, <1>8, <1>9, <1>10, <1>11, <1>12, <1>2, QuietStep

\* A statement that neither ends the transaction nor writes a row: the parts of
\* the invariant about the writer itself are all there is to show.
LEMMA OwnStep ==
  ASSUME IInv, NEW w \in Writers, pc[w] # "done", NEW p, NEW l, NEW x,
         Fit(p, l, x, "none"), Moves(w, p, l, x, "none"), p # "done", x.row = tx[w].row,
         UNCHANGED <<call, articles, written>>, UNCHANGED hit \/ Fault(w),
         tags \subseteq tags', tags' \subseteq Tags,
         \A t \in tags' \ tags : t \in TagsOf(w) /\ call[w].kind = "create"
  PROVE  /\ pc'[w] = p /\ todo'[w] = l /\ tx'[w] = x /\ answer'[w] = "none" /\ w \notin written'
         /\ w \in hit => w \in hit'
         /\ PlaceInv(w)' /\ TagsInv(w)' /\ LinksInv(w)' => IInv'
<1>1. WriterTypeOK /\ PlaceInv(w)
  BY DEF IInv, WriterInv
<1>2. answer[w] = "none" /\ w \notin written
  BY <1>1 DEF PlaceInv
<1>3. hit' \subseteq hit \cup {w} /\ hit \subseteq hit'
  BY DEF Fault
<1>4. /\ WriterTypeOK'
      /\ pc'[w] = p /\ todo'[w] = l /\ tx'[w] = x /\ answer'[w] = "none"
      /\ \A v \in Writers \ {w} : /\ pc'[v] = pc[v] /\ todo'[v] = todo[v]
                                  /\ tx'[v] = tx[v] /\ answer'[v] = answer[v]
  <2>1. /\ articles' \in [Slugs -> Rows] /\ written' \subseteq written \cup {w}
        /\ call' = call
    BY <1>1 DEF WriterTypeOK
  <2> QED BY <1>1, <1>3, <2>1, TypeStep
<1>5. Grows /\ \A v \in Writers \ {w} : Still(v)
  BY <1>3, <1>4 DEF Grows, Still
<1>6. RefusedInv(w)'
  BY <1>2, <1>4 DEF RefusedInv
<1>7. PlaceInv(w)' /\ TagsInv(w)' /\ LinksInv(w)' => IInv'
  BY <1>2, <1>4, <1>5, <1>6, QuietStep
<1> QED BY <1>2, <1>3, <1>4, <1>7

LEMMA OwnQuietStep ==
  ASSUME IInv, NEW w \in Writers, pc[w] # "done", NEW p, NEW l, NEW x,
         Fit(p, l, x, "none"), Moves(w, p, l, x, "none"), p # "done", x.row = tx[w].row,
         UNCHANGED <<call, articles, tags, hit, written>>
  PROVE  /\ pc'[w] = p /\ todo'[w] = l /\ tx'[w] = x /\ answer'[w] = "none" /\ w \notin written'
         /\ PlaceInv(w)' /\ TagsInv(w)' /\ LinksInv(w)' => IInv'
<1>1. /\ UNCHANGED <<call, articles, written>> /\ (UNCHANGED hit \/ Fault(w))
      /\ tags \subseteq tags' /\ tags' \subseteq Tags
      /\ \A t \in tags' \ tags : t \in TagsOf(w) /\ call[w].kind = "create"
  BY DEF IInv, WriterTypeOK
<1> QED BY <1>1, OwnStep

\* A writer that has not ended has no answer.
LEMMA NoAnswer ==
  ASSUME IInv, NEW w \in Writers, pc[w] # "done"
  PROVE  answer[w] = "none" /\ answer = [answer EXCEPT ![w] = "none"]
<1>1. answer[w] = "none"
  BY DEF IInv, WriterInv, PlaceInv
<1> QED BY <1>1 DEF IInv, WriterTypeOK

\* A tag is done with: the rest of the list is what is left.
LEMMA NextTagStep ==
  ASSUME IInv, NEW w \in Writers, pc[w] \in {"select", "insert"},
         NEW x \in Txs, x.row = tx[w].row, x.made \subseteq TagsOf(w), x.found = tx[w].found,
         Head(todo[w]) \in tags \cup x.made, tx[w].made \subseteq x.made,
         tx' = [tx EXCEPT ![w] = x], NextTag(w),
         UNCHANGED <<call, tables, answer, hit, written>>
  PROVE  IInv'
<1> DEFINE p == IF Len(todo[w]) = 1 THEN "link" ELSE "select"
           l == Tail(todo[w])
<1>1. WriterTypeOK /\ PlaceInv(w) /\ TagsInv(w)
  BY DEF IInv, WriterInv
<1>2. /\ todo[w] \in Seq(Tags) /\ todo[w] # <<>> /\ l \in Seq(Tags)
      /\ ToSet(todo[w]) = {Head(todo[w])} \cup ToSet(l)
      /\ Len(todo[w]) = 1 <=> l = <<>>
  BY <1>1, WriterTypes, ListOfTags
<1>3. /\ p \in Places /\ p # "done" /\ (p \in {"select", "insert", "make", "fetch"} => l # <<>>)
      /\ p \in {"link", "select"} /\ (p = "link" => l = <<>>)
  BY <1>2 DEF Places
<1>4. /\ pc' = [pc EXCEPT ![w] = p] /\ todo' = [todo EXCEPT ![w] = l]
      /\ UNCHANGED <<call, articles, tags, answer, hit, written>>
  BY DEF NextTag, Goto, tables
<1> HIDE DEF p, l
<1>5. /\ pc'[w] = p /\ todo'[w] = l /\ tx'[w] = x /\ answer'[w] = "none" /\ w \notin written'
      /\ PlaceInv(w)' /\ TagsInv(w)' /\ LinksInv(w)' => IInv'
  <2>1. Fit(p, l, x, "none") /\ Moves(w, p, l, x, "none")
    BY <1>2, <1>3, <1>4, NoAnswer DEF Fit, Moves
  <2> QED BY <1>3, <1>4, <2>1, OwnQuietStep
<1>6. PlaceInv(w)'
  BY <1>1, <1>3, <1>4, <1>5 DEF PlaceInv, InTransaction
<1>7. TagsInv(w)'
  <2>1. TagsOf(w) \subseteq tags \cup x.made \cup ToSet(l)
    BY <1>1, <1>2 DEF TagsInv, InTransaction
  <2>2. ToSet(l) \cup x.made \subseteq TagsOf(w)
    BY <1>1, <1>2 DEF TagsInv
  <2>3. x.found \subseteq tags
    BY <1>1 DEF TagsInv
  <2> QED BY <1>3, <1>4, <1>5, <2>1, <2>2, <2>3 DEF TagsInv, TagsOf
<1>8. LinksInv(w)'
  BY <1>3, <1>5 DEF LinksInv
<1> QED BY <1>5, <1>6, <1>7, <1>8

LEMMA SelectTagStep == ASSUME IInv, NEW w \in Writers, SelectTag(w) PROVE IInv'
<1>1. WriterTypeOK /\ PlaceInv(w) /\ TagsInv(w) /\ TablesInv /\ pc[w] = "select"
  BY DEF IInv, WriterInv, SelectTag
<1>2. tx[w] \in Txs /\ todo[w] \in Seq(Tags) /\ todo[w] # <<>> /\ tx' = [tx EXCEPT ![w] = tx[w]]
  BY <1>1, WriterTypes DEF SelectTag, WriterTypeOK
<1>3. CASE Head(todo[w]) \in Visible(w)
  <2>1. tx[w].made \subseteq TagsOf(w) /\ Head(todo[w]) \in tags \cup tx[w].made
    BY <1>1, <1>3 DEF TagsInv, Visible
  <2>2. NextTag(w) /\ UNCHANGED <<call, tables, answer, hit, written>>
    BY <1>3 DEF SelectTag
  <2> QED BY <1>1, <1>2, <2>1, <2>2, NextTagStep
<1>4. CASE Head(todo[w]) \notin Visible(w)
  <2>1. /\ pc' = [pc EXCEPT ![w] = "insert"] /\ todo' = [todo EXCEPT ![w] = todo[w]]
        /\ UNCHANGED <<call, articles, tags, answer, hit, written>>
    BY <1>1, <1>4 DEF SelectTag, Goto, tables, WriterTypeOK
  <2>2. /\ pc'[w] = "insert" /\ todo'[w] = todo[w] /\ tx'[w] = tx[w] /\ answer'[w] = "none"
        /\ w \notin written'
        /\ PlaceInv(w)' /\ TagsInv(w)' /\ LinksInv(w)' => IInv'
    <3>1. Fit("insert", todo[w], tx[w], "none") /\ Moves(w, "insert", todo[w], tx[w], "none")
      BY <1>1, <1>2, <2>1, NoAnswer DEF Fit, Moves, Places
    <3> QED BY <1>1, <2>1, <3>1, OwnQuietStep
  <2>3. PlaceInv(w)'
    BY <1>1, <2>1, <2>2 DEF PlaceInv, InTransaction
  <2>4. TagsInv(w)'
    BY <1>1, <1>4, <2>1, <2>2 DEF TagsInv, TagsOf, InTransaction, Visible, TablesInv
  <2>5. LinksInv(w)'
    BY <2>2 DEF LinksInv
  <2> QED BY <2>2, <2>3, <2>4, <2>5
<1> QED BY <1>3, <1>4

LEMMA InsertTagStep == ASSUME IInv, NEW w \in Writers, InsertTag(w) PROVE IInv'
<1>1. WriterTypeOK /\ PlaceInv(w) /\ TagsInv(w) /\ TablesInv /\ pc[w] = "insert" /\ UNCHANGED hit
  BY DEF IInv, WriterInv, InsertTag
<1>2. /\ tx[w] \in Txs /\ todo[w] \in Seq(Tags) /\ todo[w] # <<>>
      /\ Head(todo[w]) \in Tags /\ Head(todo[w]) \in ToSet(todo[w])
  BY <1>1, WriterTypes, ListOfTags
<1>3. Head(todo[w]) \in TagsOf(w) /\ Head(todo[w]) \notin OldTags \cup tx[w].made
  BY <1>1, <1>2 DEF TagsInv
<1>4. CASE Head(todo[w]) \in Visible(w)
  <2>1. Head(todo[w]) \in tags \ OldTags
    BY <1>3, <1>4 DEF Visible
  <2>2. PICK r \in Writers : /\ Head(todo[w]) \in TagsOf(r)
                             /\ r \in written \/ call[r].kind = "create"
    BY <1>1, <2>1 DEF TablesInv
  <2>3. call[w].kind # "create" /\ w \notin written
    BY <1>1 DEF PlaceInv
  <2>4. Reason(w)
    BY <1>3, <2>2, <2>3 DEF Reason
  <2>5. Rollback(w)
    BY <1>4 DEF InsertTag
  <2> QED BY <1>1, <2>4, <2>5, RollbackStep
<1>5. CASE Head(todo[w]) \notin Visible(w)
  <2> DEFINE x == [tx[w] EXCEPT !.made = @ \cup {Head(todo[w])}]
  <2>1. /\ x \in Txs /\ x.row = tx[w].row /\ x.found = tx[w].found
        /\ x.made = tx[w].made \cup {Head(todo[w])}
    BY <1>2 DEF Txs
  <2>2. tx' = [tx EXCEPT ![w] = x]
    BY <1>1, <1>5 DEF InsertTag
  <2>3. NextTag(w) /\ UNCHANGED <<call, tables, answer, hit, written>>
    BY <1>5 DEF InsertTag
  <2>4. x.made \subseteq TagsOf(w)
    BY <1>1, <1>3, <2>1 DEF TagsInv
  <2> HIDE DEF x
  <2> QED BY <1>1, <2>1, <2>2, <2>3, <2>4, NextTagStep
<1> QED BY <1>4, <1>5

LEMMA LinkStep == ASSUME IInv, NEW w \in Writers, Link(w) PROVE IInv'
<1> DEFINE x == [tx[w] EXCEPT !.linked = TagsOf(w)]
<1>1. WriterTypeOK /\ PlaceInv(w) /\ TagsInv(w) /\ pc[w] = "link"
  BY DEF IInv, WriterInv, Link
<1>2. tx[w] \in Txs /\ todo[w] \in Seq(Tags) /\ TagsOf(w) \in SUBSET Tags
  BY <1>1, WriterTypes, CallType
<1>3. /\ x \in Txs /\ x.row = tx[w].row /\ x.found = tx[w].found /\ x.made = tx[w].made
      /\ x.linked = TagsOf(w)
  BY <1>2 DEF Txs
<1>4. /\ pc' = [pc EXCEPT ![w] = "unlink"] /\ todo' = [todo EXCEPT ![w] = todo[w]]
      /\ tx' = [tx EXCEPT ![w] = x]
      /\ UNCHANGED <<call, articles, tags, answer, hit, written>>
  BY <1>1 DEF Link, Goto, tables, WriterTypeOK
<1> HIDE DEF x
<1>5. /\ pc'[w] = "unlink" /\ todo'[w] = todo[w] /\ tx'[w] = x /\ answer'[w] = "none"
      /\ w \notin written'
      /\ PlaceInv(w)' /\ TagsInv(w)' /\ LinksInv(w)' => IInv'
  <2>1. Fit("unlink", todo[w], x, "none") /\ Moves(w, "unlink", todo[w], x, "none")
    BY <1>1, <1>2, <1>3, <1>4, NoAnswer DEF Fit, Moves, Places
  <2> QED BY <1>1, <1>3, <1>4, <2>1, OwnQuietStep
<1>6. PlaceInv(w)'
  BY <1>1, <1>3, <1>4, <1>5 DEF PlaceInv, InTransaction
<1>7. TagsInv(w)'
  BY <1>1, <1>3, <1>4, <1>5 DEF TagsInv, TagsOf, InTransaction
<1>8. LinksInv(w)'
  BY <1>3, <1>4, <1>5 DEF LinksInv, TagsOf
<1> QED BY <1>5, <1>6, <1>7, <1>8

LEMMA UnlinkStep == ASSUME IInv, NEW w \in Writers, Unlink(w) PROVE IInv'
<1> DEFINE x == [tx[w] EXCEPT !.unlinked = RowOf(w).links \ TagsOf(w)]
<1>1. WriterTypeOK /\ PlaceInv(w) /\ TagsInv(w) /\ LinksInv(w) /\ pc[w] = "unlink"
  BY DEF IInv, WriterInv, Unlink
<1>2. tx[w] \in Txs /\ todo[w] \in Seq(Tags) /\ RowOf(w).links \in SUBSET Tags
  BY <1>1, WriterTypes DEF Rows, NoRow
<1>3. /\ x \in Txs /\ x.row = tx[w].row /\ x.found = tx[w].found /\ x.made = tx[w].made
      /\ x.linked = tx[w].linked /\ x.unlinked = RowOf(w).links \ TagsOf(w)
  BY <1>2 DEF Txs
<1>4. /\ pc' = [pc EXCEPT ![w] = "commit"] /\ todo' = [todo EXCEPT ![w] = todo[w]]
      /\ tx' = [tx EXCEPT ![w] = x]
      /\ UNCHANGED <<call, articles, tags, answer, hit, written>>
  BY <1>1 DEF Unlink, Goto, tables, WriterTypeOK
<1> HIDE DEF x
<1>5. /\ pc'[w] = "commit" /\ todo'[w] = todo[w] /\ tx'[w] = x /\ answer'[w] = "none"
      /\ w \notin written'
      /\ PlaceInv(w)' /\ TagsInv(w)' /\ LinksInv(w)' => IInv'
  <2>1. Fit("commit", todo[w], x, "none") /\ Moves(w, "commit", todo[w], x, "none")
    BY <1>1, <1>2, <1>3, <1>4, NoAnswer DEF Fit, Moves, Places
  <2> QED BY <1>1, <1>3, <1>4, <2>1, OwnQuietStep
<1>6. PlaceInv(w)'
  BY <1>1, <1>3, <1>4, <1>5 DEF PlaceInv, InTransaction
<1>7. TagsInv(w)'
  BY <1>1, <1>3, <1>4, <1>5 DEF TagsInv, TagsOf, InTransaction
<1>8. LinksInv(w)'
  BY <1>1, <1>3, <1>4, <1>5 DEF LinksInv, TagsOf, RowOf
<1> QED BY <1>5, <1>6, <1>7, <1>8

\* A writer writes its row, alone at its slug: the step at which one writer's
\* transaction becomes what the others see.
LEMMA ApplyStep ==
  ASSUME IInv, NEW w \in Writers, pc[w] \in {"commit", "save"},
         pc[w] = "save" => RowOf(w) = NoRow /\ Ready(w),
         Apply(w), NEW result, Finish(w, result),
         (result = "ok" /\ UNCHANGED hit) \/ (result = "failed" /\ Fault(w))
  PROVE  IInv'
<1> DEFINE s == call[w].slug
           row == [by    |-> IF RowOf(w) = NoRow THEN w ELSE RowOf(w).by,
                   links |-> (RowOf(w).links \ tx[w].unlinked) \cup tx[w].linked]
<1>1. /\ WriterTypeOK /\ PlaceInv(w) /\ TagsInv(w) /\ LinksInv(w) /\ TablesInv /\ SlugInv
      /\ TagsOfOneRecord
  BY DEF IInv, WriterInv
<1>2. /\ tx[w] \in Txs /\ todo[w] = <<>> /\ todo[w] \in Seq(Tags) /\ RowOf(w) \in Rows
      /\ s \in Slugs /\ TagsOf(w) \in SUBSET Tags /\ ToSet(todo[w]) = {}
      /\ call[w].kind \in {"import", "create"}
  BY <1>1, WriterTypes, CallType, ListOfTags DEF PlaceInv
<1>3. row \in Rows /\ row # NoRow
  <2>1. RowOf(w) # NoRow => RowOf(w).by \in Writers \cup {Before}
    BY <1>2 DEF Rows
  <2>2. row.by \in Writers \cup {Before}
    BY <2>1
  <2>3. row.links \in SUBSET Tags
    BY <1>2 DEF Rows, NoRow, Txs
  <2>4. row.by # "none"
    BY <2>2, WriterAssumption
  <2> QED BY <2>2, <2>3, <2>4 DEF Rows, NoRow
<1>4. /\ articles' = [articles EXCEPT ![s] = row] /\ tags' = tags \cup tx[w].made
      /\ written' = written \cup {w} /\ call' = call
      /\ tx' = [tx EXCEPT ![w] = NoTx] /\ todo' = todo
  BY <1>1 DEF Apply, RowOf, WriterTypeOK
<1>5. /\ articles'[s] = row /\ \A z \in Slugs \ {s} : articles'[z] = articles[z]
      /\ articles' \in [Slugs -> Rows]
  BY <1>1, <1>2, <1>3, <1>4 DEF WriterTypeOK
<1>6. /\ hit' \subseteq hit \cup {w} /\ hit \subseteq hit' /\ (result = "failed" => w \in hit')
      /\ result \in {"ok", "failed"}
  BY DEF Fault
<1> HIDE DEF row
<1>7. /\ WriterTypeOK'
      /\ pc'[w] = "done" /\ todo'[w] = todo[w] /\ tx'[w] = NoTx /\ answer'[w] = result
      /\ \A v \in Writers \ {w} : /\ pc'[v] = pc[v] /\ todo'[v] = todo[v]
                                  /\ tx'[v] = tx[v] /\ answer'[v] = answer[v]
  <2>1. Fit("done", todo[w], NoTx, result)
    BY <1>2, <1>6, NoTxType DEF Fit, Places
  <2>2. Moves(w, "done", todo[w], NoTx, result)
    BY <1>1, <1>4 DEF Moves, Finish, Goto, WriterTypeOK
  <2>3. tags' \subseteq Tags
    BY <1>1, <1>2, <1>4 DEF WriterTypeOK, Txs
  <2> QED BY <1>1, <1>4, <1>5, <1>6, <2>1, <2>2, <2>3, TypeStep
<1>8. Grows /\ \A v \in Writers \ {w} : Still(v)
  BY <1>4, <1>6, <1>7 DEF Grows, Still
<1>9. \A v \in Writers : v # w /\ tx[v].row => call[v].slug # s
  <2>1. CASE pc[w] = "commit"
    BY <1>1, <2>1 DEF SlugInv, PlaceInv, InTransaction
  <2>2. CASE pc[w] = "save"
    BY <2>2 DEF Ready, WaitsFor, HoldersOfSlug
  <2> QED BY <2>1, <2>2
<1>10. ASSUME NEW v \in Writers \ {w} PROVE WriterInv(v)'
  <2>1. WriterInv(v) /\ Still(v) /\ call[v].slug \in Slugs
    BY <1>1, <1>8, CallType DEF IInv
  <2>2. CASE call[v].slug # s
    <3>1. RowOf(v)' = RowOf(v)
      BY <1>4, <1>5, <2>1, <2>2 DEF RowOf
    <3> QED BY <1>4, <1>8, <2>1, <3>1, RowPartsStay
  <2>3. CASE call[v].slug = s
    <3>1. PlaceInv(v)' /\ TagsInv(v)'
      BY <1>4, <1>8, <2>1, OwnPartsStay DEF WriterInv
    <3>2. LinksInv(v)'
      <4>1. pc[v] \notin {"unlink", "commit"}
        BY <1>9, <2>1, <2>3 DEF WriterInv, PlaceInv, InTransaction
      <4> QED BY <2>1, <4>1 DEF LinksInv, Still
    <3>3. RefusedInv(v)'
      BY <1>3, <1>4, <1>5, <2>1, <2>3 DEF WriterInv, RefusedInv, RowOf, TagsOf, Still
    <3>4. CreatedInv(v)'
      BY <1>4, <2>3 DEF CreatedInv
    <3> QED BY <3>1, <3>2, <3>3, <3>4 DEF WriterInv
  <2> QED BY <2>2, <2>3
<1>11. w \notin hit => (call[w].kind = "create" => /\ RowOf(w) = NoRow
                                                   /\ tx[w].linked \subseteq tags
                                                   /\ tx[w].linked = TagsOf(w))
  BY <1>1, <1>2 DEF PlaceInv, TagsInv, InTransaction
<1>12. WriterInv(w)'
  <2>1. PlaceInv(w)'
    BY <1>2, <1>4, <1>6, <1>7 DEF PlaceInv, NoTx, InTransaction
  <2>2. TagsInv(w)'
    <3>1. call[w].kind = "import" => TagsOf(w) \subseteq tags \cup tx[w].made
      BY <1>1, <1>2 DEF PlaceInv, TagsInv, InTransaction
    <3>2. w \notin hit => TagsOf(w) \subseteq tags \cup tx[w].made
      BY <1>2, <1>11, <3>1
    <3> QED BY <1>2, <1>4, <1>6, <1>7, <3>2 DEF TagsInv, TagsOf, NoTx, InTransaction
  <2>3. LinksInv(w)' /\ RefusedInv(w)'
    BY <1>6, <1>7 DEF LinksInv, RefusedInv
  <2>4. CreatedInv(w)'
    <3>1. SUFFICES ASSUME w \notin hit', call[w].kind = "create"
                   PROVE  row = [by |-> w, links |-> TagsOf(w)]
      BY <1>4, <1>5 DEF CreatedInv, RowOf, TagsOf
    <3>2. RowOf(w) = NoRow /\ tx[w].linked = TagsOf(w)
      BY <1>6, <1>11, <3>1
    <3>3. row.by = w /\ row.links = TagsOf(w)
      BY <3>2 DEF row, NoRow
    <3> QED BY <3>3 DEF row
  <2> QED BY <2>1, <2>2, <2>3, <2>4 DEF WriterInv
<1>13. SlugInv'
  BY <1>1, <1>4, <1>7 DEF SlugInv, NoTx
<1>14. TablesInv'
  <2>1. OldTags \subseteq tags'
    BY <1>1, <1>4 DEF TablesInv
  <2>2. ASSUME NEW z \in Slugs PROVE articles'[z].by \in written' \cup {Before, "none"}
    <3>1. CASE z = s
      <4>1. row.by \in {w, RowOf(w).by}
        BY DEF row
      <4>2. RowOf(w).by \in written \cup {Before, "none"}
        BY <1>1, <1>2 DEF TablesInv, RowOf
      <4> QED BY <1>4, <1>5, <3>1, <4>1, <4>2
    <3>2. CASE z # s
      BY <1>1, <1>4, <1>5, <3>2 DEF TablesInv
    <3> QED BY <3>1, <3>2
  <2>3. ASSUME NEW t \in tags' \ OldTags
        PROVE  \E v \in Writers : t \in TagsOf(v) /\ (v \in written' \/ call[v].kind = "create")
    <3>1. CASE t \in tags
      BY <1>1, <1>4, <3>1 DEF TablesInv
    <3>2. CASE t \in tx[w].made
      BY <1>1, <1>4, <3>2 DEF TagsInv
    <3> QED BY <1>4, <3>1, <3>2
  <2> QED BY <1>4, <2>1, <2>2, <2>3 DEF TablesInv, TagsOf
<1>15. TagsOfOneRecord'
  <2> SUFFICES ASSUME NEW z \in Slugs, articles'[z] # NoRow, articles'[z] # OldRow
               PROVE  \E v \in written' : /\ call[v].slug = z
                                          /\ articles'[z].links = TagsOf(v) \/ v \in hit'
    BY <1>4 DEF TagsOfOneRecord, TagsOf
  <2>1. CASE z # s \/ articles'[z] = articles[z]
    <3>1. articles[z] = articles'[z]
      BY <1>5, <2>1
    <3>2. PICK v \in written : /\ call[v].slug = z
                               /\ articles[z].links = TagsOf(v) \/ v \in hit
      BY <1>1, <3>1 DEF TagsOfOneRecord
    <3> QED BY <1>4, <1>6, <3>1, <3>2
  <2>2. CASE z = s /\ articles'[z] # articles[z]
    <3>1. row # RowOf(w)
      BY <1>5, <2>2 DEF RowOf
    <3>2. row.links = TagsOf(w) \/ w \in hit
      <4>1. CASE pc[w] = "save"
        <5>1. w \notin hit => tx[w].linked = TagsOf(w)
          BY <1>1, <1>2, <4>1 DEF TagsInv
        <5>2. row.links = tx[w].linked
          BY <4>1 DEF row, NoRow
        <5> QED BY <5>1, <5>2
      <4>2. CASE /\ pc[w] = "commit" /\ tx[w].linked = TagsOf(w)
                 /\ tx[w].unlinked = RowOf(w).links \ TagsOf(w)
        <5>1. row.links = (RowOf(w).links \ (RowOf(w).links \ TagsOf(w))) \cup TagsOf(w)
          BY <4>2 DEF row
        <5> QED BY <5>1
      <4>3. CASE TagsOf(w) = {} /\ tx[w].linked = {} /\ tx[w].unlinked = {}
        <5>1. row.links = RowOf(w).links
          BY <4>3 DEF row
        <5>2. CASE RowOf(w) = NoRow
          BY <4>3, <5>1, <5>2 DEF NoRow
        <5>3. CASE RowOf(w) # NoRow
          <6>1. row.by = RowOf(w).by
            BY <5>3 DEF row
          <6>2. RowOf(w) \in [by : Writers \cup {Before}, links : SUBSET Tags]
            BY <1>2, <5>3 DEF Rows
          <6>3. row \in [by : Writers \cup {Before}, links : SUBSET Tags]
            BY <1>3 DEF Rows
          <6>4. row = RowOf(w)
            BY <5>1, <6>1, <6>2, <6>3
          <6> QED BY <3>1, <6>4
        <5> QED BY <5>2, <5>3
      <4> QED BY <1>1, <4>1, <4>2, <4>3 DEF LinksInv
    <3> QED BY <1>4, <1>5, <1>6, <2>2, <3>2
  <2> QED BY <2>1, <2>2
<1> QED BY <1>7, <1>10, <1>12, <1>13, <1>14, <1>15 DEF IInv

LEMMA CommitStep == ASSUME IInv, NEW w \in Writers, Commit(w) PROVE IInv'
<1>1. CASE Apply(w) /\ Finish(w, "ok") /\ UNCHANGED hit
  BY <1>1, ApplyStep DEF Commit
<1>2. CASE Apply(w) /\ Finish(w, "failed") /\ Fault(w)
  BY <1>2, ApplyStep DEF Commit
<1>3. CASE Rollback(w) /\ Fault(w)
  BY <1>3, RollbackStep DEF Commit, Fault
<1> QED BY <1>1, <1>2, <1>3 DEF Commit
-----------------------------------------------------------------------------
(***************************************************************************)
(* ArticleCreate.                                                          *)
(***************************************************************************)
LEMMA FindTagsStep == ASSUME IInv, NEW w \in Writers, FindTags(w) PROVE IInv'
<1>1. WriterTypeOK /\ PlaceInv(w) /\ TagsInv(w) /\ pc[w] = "find"
  BY DEF IInv, WriterInv, FindTags
<1>2. /\ tx[w] = NoTx /\ todo[w] = call[w].tags /\ todo[w] \in Seq(Tags)
      /\ call[w].kind = "create" /\ TagsOf(w) \in SUBSET Tags
      /\ (todo[w] = <<>> => ToSet(todo[w]) = {}) /\ ToSet(todo[w]) = TagsOf(w)
  <2>1. call[w].kind \in {"import", "create"}
    BY <1>1, CallType
  <2> QED BY <1>1, <2>1, WriterTypes, CallType, ListOfTags
          DEF PlaceInv, InTransaction, TagsOf
<1>3. PICK found \in {tags, {}} :
        /\ IF found = tags THEN UNCHANGED hit ELSE Fault(w)
        /\ tx' = [tx EXCEPT ![w].found = TagsOf(w) \cap found]
  BY DEF FindTags
<1> DEFINE p == IF todo[w] = <<>> THEN "save" ELSE "make"
           f == TagsOf(w) \cap found
           x == [NoTx EXCEPT !.found = f]
<1>4. x = [row |-> FALSE, made |-> {}, linked |-> {}, unlinked |-> {}, found |-> f]
  <2>1. x = [NoTx EXCEPT !.found = f]
    OBVIOUS
  <2> HIDE DEF x, f
  <2> QED BY <2>1 DEF NoTx
<1>5. tx' = [tx EXCEPT ![w] = x]
  BY <1>2, <1>3
<1>6. x \in Txs /\ p \in Places /\ p \in {"save", "make"}
  BY <1>2, <1>4 DEF Txs, Places
<1>7. /\ Fit(p, todo[w], x, "none") /\ Moves(w, p, todo[w], x, "none") /\ x.row = tx[w].row
      /\ p # "done" /\ pc[w] # "done"
  <2>1. pc' = [pc EXCEPT ![w] = p] /\ todo' = [todo EXCEPT ![w] = todo[w]] /\ answer' = answer
    BY <1>1 DEF FindTags, Goto, WriterTypeOK
  <2>2. x.row = tx[w].row
    BY <1>2, <1>4 DEF NoTx
  <2> HIDE DEF x
  <2> QED BY <1>1, <1>2, <1>5, <1>6, <2>1, <2>2, NoAnswer DEF Fit, Moves
<1> HIDE DEF x, p
<1>8. /\ UNCHANGED <<call, articles, tags, written>> /\ (UNCHANGED hit \/ Fault(w))
      /\ hit \subseteq hit'
  BY <1>3 DEF FindTags, tables, Fault
<1>9. /\ pc'[w] = p /\ todo'[w] = todo[w] /\ tx'[w] = x /\ answer'[w] = "none"
      /\ w \notin written'
      /\ PlaceInv(w)' /\ TagsInv(w)' /\ LinksInv(w)' => IInv'
  <2>1. /\ tags \subseteq tags' /\ tags' \subseteq Tags
        /\ \A t \in tags' \ tags : t \in TagsOf(w) /\ call[w].kind = "create"
        /\ UNCHANGED <<call, articles, written>>
    BY <1>1, <1>8 DEF WriterTypeOK
  <2> QED BY <1>7, <1>8, <2>1, OwnStep
<1>10. PlaceInv(w)'
  BY <1>2, <1>4, <1>6, <1>8, <1>9 DEF PlaceInv, InTransaction, p
<1>11. TagsInv(w)'
  BY <1>2, <1>4, <1>6, <1>8, <1>9 DEF TagsInv, TagsOf, InTransaction
<1>12. LinksInv(w)'
  BY <1>6, <1>9 DEF LinksInv
<1> QED BY <1>9, <1>10, <1>11, <1>12

\* The tag at the head of the list is there: it is collected.
LEMMA CollectStep ==
  ASSUME IInv, NEW w \in Writers, pc[w] \in {"make", "fetch"}, Collect(w),
         tags \subseteq tags', tags' \subseteq tags \cup {Head(todo[w])},
         Head(todo[w]) \in tags', UNCHANGED <<call, articles, answer, hit, written>>
  PROVE  IInv'
<1> DEFINE p == IF Len(todo[w]) = 1 THEN "save" ELSE "make"
           l == Tail(todo[w])
           x == [tx[w] EXCEPT !.linked = @ \cup {Head(todo[w])}]
<1>1. WriterTypeOK /\ PlaceInv(w) /\ TagsInv(w)
  BY DEF IInv, WriterInv
<1>2. /\ tx[w] \in Txs /\ todo[w] \in Seq(Tags) /\ todo[w] # <<>> /\ l \in Seq(Tags)
      /\ Head(todo[w]) \in Tags /\ ToSet(todo[w]) = {Head(todo[w])} \cup ToSet(l)
      /\ Len(todo[w]) = 1 <=> l = <<>>
      /\ call[w].kind \in {"import", "create"}
  BY <1>1, WriterTypes, ListOfTags, CallType
<1>3. Head(todo[w]) \in TagsOf(w) /\ call[w].kind = "create"
  BY <1>1, <1>2 DEF PlaceInv, TagsInv, InTransaction
<1>4. /\ x \in Txs /\ x.row = tx[w].row /\ x.made = tx[w].made /\ x.found = tx[w].found
      /\ x.linked = tx[w].linked \cup {Head(todo[w])}
  BY <1>2 DEF Txs
<1>5. tx' = [tx EXCEPT ![w] = x]
  BY <1>1 DEF Collect
<1> HIDE DEF x
<1>6. /\ p \in Places /\ p \in {"save", "make"} /\ (p = "save" <=> l = <<>>)
      /\ pc' = [pc EXCEPT ![w] = p] /\ todo' = [todo EXCEPT ![w] = l]
  BY <1>2 DEF Collect, Goto, Places
<1> HIDE DEF p, l
<1>7. Fit(p, l, x, "none") /\ Moves(w, p, l, x, "none")
  BY <1>2, <1>4, <1>5, <1>6, NoAnswer DEF Fit, Moves
<1>8. /\ pc'[w] = p /\ todo'[w] = l /\ tx'[w] = x /\ answer'[w] = "none" /\ w \notin written'
      /\ PlaceInv(w)' /\ TagsInv(w)' /\ LinksInv(w)' => IInv'
  <2>1. /\ tags' \subseteq Tags /\ p # "done"
        /\ \A t \in tags' \ tags : t \in TagsOf(w) /\ call[w].kind = "create"
        /\ UNCHANGED <<call, articles, written>> /\ (UNCHANGED hit \/ Fault(w))
    BY <1>1, <1>2, <1>3, <1>6 DEF WriterTypeOK
  <2> QED BY <1>4, <1>7, <2>1, OwnStep
<1>9. PlaceInv(w)'
  BY <1>1, <1>3, <1>4, <1>6, <1>8 DEF PlaceInv, InTransaction
<1>10. TagsInv(w)'
  <2>1. x.linked \cup ToSet(l) = tx[w].linked \cup ToSet(todo[w])
    BY <1>2, <1>4
  <2>2. ToSet(l) \cup x.made \subseteq TagsOf(w)
    BY <1>1, <1>2, <1>4 DEF TagsInv
  <2>3. x.found \subseteq tags'
    BY <1>1, <1>4 DEF TagsInv
  <2>4. w \notin hit => x.linked \subseteq tags' /\ x.linked \cup ToSet(l) = TagsOf(w)
    BY <1>1, <1>4, <2>1 DEF TagsInv
  <2> QED BY <1>6, <1>8, <2>2, <2>3, <2>4 DEF TagsInv, TagsOf, InTransaction
<1>11. LinksInv(w)'
  BY <1>6, <1>8 DEF LinksInv
<1> QED BY <1>8, <1>9, <1>10, <1>11

LEMMA MakeTagStep == ASSUME IInv, NEW w \in Writers, MakeTag(w) PROVE IInv'
<1>1. WriterTypeOK /\ PlaceInv(w) /\ TagsInv(w) /\ pc[w] = "make"
  BY DEF IInv, WriterInv, MakeTag
<1>2. CASE Head(todo[w]) \in tx[w].found /\ Collect(w) /\ UNCHANGED <<tags, hit>>
  BY <1>1, <1>2, CollectStep DEF MakeTag, TagsInv
<1>3. CASE tags' = tags \cup {Head(todo[w])} /\ Collect(w) /\ UNCHANGED hit
  BY <1>1, <1>3, CollectStep DEF MakeTag
<1>4. CASE /\ IF Head(todo[w]) \in tags THEN UNCHANGED hit ELSE Fault(w)
           /\ Goto(w, "fetch")
           /\ UNCHANGED <<tags, todo, tx>>
  <2>1. tx[w] \in Txs /\ todo[w] \in Seq(Tags) /\ todo[w] # <<>>
    BY <1>1, WriterTypes
  <2>2. Fit("fetch", todo[w], tx[w], "none") /\ Moves(w, "fetch", todo[w], tx[w], "none")
    BY <1>1, <1>4, <2>1, NoAnswer DEF MakeTag, Fit, Moves, Goto, Places, WriterTypeOK
  <2>3. /\ UNCHANGED <<call, articles, tags, written>> /\ (UNCHANGED hit \/ Fault(w))
        /\ Head(todo[w]) \in tags \/ w \in hit'
        /\ hit \subseteq hit'
    BY <1>4 DEF MakeTag, Fault
  <2>4. /\ pc'[w] = "fetch" /\ todo'[w] = todo[w] /\ tx'[w] = tx[w] /\ answer'[w] = "none"
        /\ w \notin written'
        /\ PlaceInv(w)' /\ TagsInv(w)' /\ LinksInv(w)' => IInv'
    <3>1. /\ tags \subseteq tags' /\ tags' \subseteq Tags
          /\ \A t \in tags' \ tags : t \in TagsOf(w) /\ call[w].kind = "create"
          /\ UNCHANGED <<call, articles, written>>
      BY <1>1, <2>3 DEF WriterTypeOK
    <3> QED BY <1>1, <2>2, <2>3, <3>1, OwnStep
  <2>5. PlaceInv(w)'
    BY <1>1, <2>3, <2>4 DEF PlaceInv, InTransaction
  <2>6. TagsInv(w)'
    BY <1>1, <2>3, <2>4 DEF TagsInv, TagsOf, InTransaction
  <2>7. LinksInv(w)'
    BY <2>4 DEF LinksInv
  <2> QED BY <2>4, <2>5, <2>6, <2>7
<1> QED BY <1>2, <1>3, <1>4 DEF MakeTag

LEMMA FetchTagStep == ASSUME IInv, NEW w \in Writers, FetchTag(w) PROVE IInv'
<1>1. WriterTypeOK /\ PlaceInv(w) /\ TagsInv(w) /\ pc[w] = "fetch"
  BY DEF IInv, WriterInv, FetchTag
<1>2. CASE Head(todo[w]) \in tags /\ Collect(w) /\ UNCHANGED hit
  BY <1>1, <1>2, CollectStep DEF FetchTag, tables
<1>3. CASE /\ IF Head(todo[w]) \in tags THEN Fault(w) ELSE UNCHANGED hit
           /\ todo' = [todo EXCEPT ![w] = <<>>]
           /\ tx' = [tx EXCEPT ![w].linked = {}]
           /\ Goto(w, "save")
  <2> DEFINE x == [tx[w] EXCEPT !.linked = {}]
  <2>1. tx[w] \in Txs /\ <<>> \in Seq(Tags) /\ ToSet(<<>>) = {}
    BY <1>1, WriterTypes DEF ToSet
  <2>2. /\ x \in Txs /\ x.row = tx[w].row /\ x.made = tx[w].made /\ x.found = tx[w].found
    BY <2>1 DEF Txs
  <2>3. tx' = [tx EXCEPT ![w] = x]
    BY <1>1, <1>3
  <2> HIDE DEF x
  <2>4. Fit("save", <<>>, x, "none") /\ Moves(w, "save", <<>>, x, "none")
    BY <1>1, <1>3, <2>1, <2>2, <2>3, NoAnswer DEF FetchTag, Fit, Moves, Goto, Places
  <2>5. /\ UNCHANGED <<call, articles, tags, written>> /\ (UNCHANGED hit \/ Fault(w))
        /\ w \in hit'
    BY <1>1, <1>3 DEF FetchTag, tables, Fault, TagsInv
  <2>6. /\ pc'[w] = "save" /\ todo'[w] = <<>> /\ tx'[w] = x /\ answer'[w] = "none"
        /\ w \notin written'
        /\ PlaceInv(w)' /\ TagsInv(w)' /\ LinksInv(w)' => IInv'
    <3>1. /\ tags \subseteq tags' /\ tags' \subseteq Tags
          /\ \A t \in tags' \ tags : t \in TagsOf(w) /\ call[w].kind = "create"
          /\ UNCHANGED <<call, articles, written>>
      BY <1>1, <2>5 DEF WriterTypeOK
    <3> QED BY <1>1, <2>2, <2>4, <2>5, <3>1, OwnStep
  <2>7. PlaceInv(w)'
    <3>1. call[w].kind \in {"import", "create"}
      BY <1>1, CallType
    <3> QED BY <1>1, <2>2, <2>5, <2>6, <3>1 DEF PlaceInv, InTransaction
  <2>8. TagsInv(w)'
    BY <1>1, <2>1, <2>2, <2>5, <2>6 DEF TagsInv, TagsOf, InTransaction
  <2>9. LinksInv(w)'
    BY <2>6 DEF LinksInv
  <2> QED BY <2>6, <2>7, <2>8, <2>9
<1> QED BY <1>2, <1>3 DEF FetchTag

LEMMA SaveStep == ASSUME IInv, NEW w \in Writers, Save(w) PROVE IInv'
<1>1. WriterTypeOK /\ PlaceInv(w) /\ pc[w] = "save" /\ Ready(w)
  BY DEF IInv, WriterInv, Save
<1>2. call[w].kind = "create"
  BY <1>1, CallType DEF PlaceInv, InTransaction
<1>3. CASE RowOf(w) # NoRow /\ Rollback(w) /\ UNCHANGED hit
  BY <1>1, <1>2, <1>3, RollbackStep DEF Reason
<1>4. CASE RowOf(w) = NoRow /\ Apply(w) /\ Finish(w, "ok") /\ UNCHANGED hit
  BY <1>1, <1>4, ApplyStep
<1>5. CASE RowOf(w) = NoRow /\ Apply(w) /\ Finish(w, "failed") /\ Fault(w)
  BY <1>1, <1>5, ApplyStep
<1>6. CASE Rollback(w) /\ Fault(w)
  BY <1>1, <1>6, RollbackStep DEF Fault
<1> QED BY <1>3, <1>4, <1>5, <1>6 DEF Save

LEMMA NextIInv == IInv /\ [Next]_vars => IInv'
<1> SUFFICES ASSUME IInv, [Next]_vars PROVE IInv'
  OBVIOUS
<1>1. ASSUME NEW w \in Writers, ProcessOneArticle(w) PROVE IInv'
  BY <1>1, UpsertStep, SelectTagStep, InsertTagStep, LinkStep, UnlinkStep, CommitStep,
     FailStep DEF ProcessOneArticle
<1>2. ASSUME NEW w \in Writers, ArticleCreate(w) PROVE IInv'
  BY <1>2, FindTagsStep, MakeTagStep, FetchTagStep, SaveStep DEF ArticleCreate
<1>3. CASE UNCHANGED vars
  <2>1. UNCHANGED <<call, pc, todo, tx, articles, tags, answer, hit, written>>
    BY <1>3 DEF vars, tables
  <2>2. WriterTypeOK'
    BY <2>1 DEF IInv, WriterTypeOK
  <2>3. ASSUME NEW v \in Writers PROVE WriterInv(v)'
    BY <2>1, RowPartsStay DEF IInv, Still, Grows, RowOf
  <2>4. SlugInv' /\ TablesInv' /\ TagsOfOneRecord'
    BY <2>1 DEF IInv, SlugInv, TablesInv, TagsOfOneRecord, TagsOf
  <2> QED BY <2>2, <2>3, <2>4 DEF IInv
<1> QED BY <1>1, <1>2, <1>3 DEF Next

LEMMA Invariance == Spec => []IInv
<1>1. Init => IInv
  BY InitIInv
<1>2. IInv /\ [Next]_vars => IInv'
  BY NextIInv
<1> QED BY <1>1, <1>2, PTL DEF Spec
-----------------------------------------------------------------------------
(***************************************************************************)
(* Theorems.                                                               *)
(***************************************************************************)

\* Every variable keeps its type, a writer that looks for a tag has one left to
\* look for, and one that has ended has no transaction open.
THEOREM TypeCorrect == Spec => []WriterTypeOK
<1>1. IInv => WriterTypeOK
  BY DEF IInv
<1> QED BY <1>1, Invariance, PTL

\* However imports and creations interleave, the tags of an article are those of
\* one record (the upsert and Association Replace of processOneArticle).
THEOREM TagsAreOfOneRecord == Spec => []TagsOfOneRecord
<1>1. IInv => TagsOfOneRecord
  BY DEF IInv
<1> QED BY <1>1, Invariance, PTL

\* A record that is counted as an error has left neither an article nor a tag
\* behind, unless only the answer of its commit was lost (the rollbacks of
\* processOneArticle).
THEOREM ErrorsLeaveNothing == Spec => []ErrorLeavesNothing
<1>1. IInv => ErrorLeavesNothing
  BY DEF IInv, WriterInv, PlaceInv, TablesInv, ErrorLeavesNothing
<1> QED BY <1>1, Invariance, PTL

\* Without failures, whoever was refused has met a rival, for any number of
\* writers and tag lists of any length: deadlocks included.
THEOREM RefusalsHaveARival == Spec => []RefusedOverARival
<1>1. IInv => RefusedOverARival
  <2> SUFFICES ASSUME IInv, \A r \in Writers : pc[r] = "done", hit = {},
                      NEW w \in Writers, answer[w] = "failed"
               PROVE  IF call[w].kind = "create"
                      THEN RowOf(w) # NoRow
                      ELSE \E r \in Writers \ {w} :
                             \E t \in (TagsOf(w) \cap TagsOf(r)) \ OldTags :
                               t \in tags \/ answer[r] = "failed"
    BY DEF RefusedOverARival
  <2>1. RefusedInv(w)
    BY DEF IInv, WriterInv
  <2>2. CASE call[w].kind = "create"
    BY <2>1, <2>2 DEF RefusedInv
  <2>3. CASE call[w].kind # "create"
    <3>1. PICK r \in Writers \ {w} : (TagsOf(w) \cap TagsOf(r)) \ OldTags # {}
      BY <2>1, <2>3 DEF RefusedInv
    <3>2. PICK t \in (TagsOf(w) \cap TagsOf(r)) \ OldTags : TRUE
      BY <3>1
    <3>3. answer[r] \in {"ok", "failed"}
      BY WriterTypes DEF IInv, WriterInv, PlaceInv
    <3>4. answer[r] = "ok" => TagsOf(r) \subseteq tags
      BY DEF IInv, WriterInv, TagsInv
    <3> QED BY <2>3, <3>2, <3>3, <3>4
  <2> QED BY <2>2, <2>3
<1> QED BY <1>1, Invariance, PTL

\* A creation that was answered 201 has all its tags, whoever made them at the
\* same time (setTags and SaveOne).
THEOREM CreationsHaveTheirTags == Spec => []CreatedHasItsTags
<1>1. IInv => CreatedHasItsTags
  BY DEF IInv, WriterInv, CreatedInv, CreatedHasItsTags
<1> QED BY <1>1, Invariance, PTL
=============================================================================
