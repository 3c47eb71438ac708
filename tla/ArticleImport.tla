--------------------------- MODULE ArticleImport ----------------------------
(***************************************************************************)
(* An article with its tags, written a statement at a time: by the importer*)
(* (processOneArticle: one transaction for the row, its tags and the links)*)
(* and by the handler ArticleCreate (tags first, outside any transaction,  *)
(* then the row with its links).  Writers meet at the unique indexes on    *)
(* slug and tag: an insert waits for another transaction that has inserted *)
(* the same value and not ended.  PostgreSQL runs at READ COMMITTED.       *)
(*                                                                         *)
(* ImportJob takes the importer's transaction as one step.  Authors are in *)
(* Articles, where every request needs one.                                *)
(***************************************************************************)
EXTENDS Naturals, Sequences, SequencesExt, FiniteSets

CONSTANTS Writers,    \* imports and requests that write one article each
          Slugs, Tags,
          Calls,      \* what a writer may be asked: [kind, slug, tags]
          OldSlugs, OldTags,   \* slugs that may have a row at the start, and its tags
          Before,     \* stands for the writer of the rows that were there
          MaxFaults   \* bound on the writers whom a statement fails

ASSUME WriterAssumption ==
  /\ Calls \subseteq [kind : {"import", "create"}, slug : Slugs, tags : Seq(Tags)]
  /\ OldSlugs \subseteq Slugs /\ OldTags \subseteq Tags
  /\ Before \notin Writers /\ "none" \notin Writers \cup {Before}
  /\ MaxFaults \in Nat

VARIABLES
  call,       \* what each writer was asked
  pc,         \* its next statement
  todo,       \* tags it has still to find or make
  tx,         \* what its open transaction has written; what setTags has found
  articles,   \* the committed row of each slug: who made it, its links
  tags,       \* the committed tags
  answer,     \* processed or 201, counted as an error or 422
  hit,        \* writers with a statement that failed
  written     \* history: writers whose article was committed

tables == <<articles, tags>>
vars == <<call, pc, todo, tx, tables, answer, hit, written>>

NoRow  == [by |-> "none", links |-> {}]
OldRow == [by |-> Before, links |-> OldTags]
Rows   == {NoRow} \cup [by : Writers \cup {Before}, links : SUBSET Tags]
NoTx   == [row |-> FALSE, made |-> {}, linked |-> {}, unlinked |-> {}, found |-> {}]

WriterTypeOK ==
  /\ call \in [Writers -> Calls]
  /\ pc \in [Writers -> {"upsert", "select", "insert", "link", "unlink", "commit",
                         "find", "make", "fetch", "save", "done"}]
  /\ todo \in [Writers -> Seq(Tags)]
  /\ \A w \in Writers : /\ pc[w] \in {"select", "insert", "make", "fetch"} => todo[w] # <<>>
                        /\ pc[w] = "done" => tx[w] = NoTx
  /\ tx \in [Writers -> [row : BOOLEAN, made : SUBSET Tags, linked : SUBSET Tags,
                         unlinked : SUBSET Tags, found : SUBSET Tags]]
  /\ articles \in [Slugs -> Rows]
  /\ tags \subseteq Tags
  /\ answer \in [Writers -> {"none", "ok", "failed"}]
  /\ hit \subseteq Writers /\ written \subseteq Writers

Init ==
  /\ call \in [Writers -> Calls]
  /\ pc = [w \in Writers |-> IF call[w].kind = "import" THEN "upsert" ELSE "find"]
  /\ todo = [w \in Writers |-> call[w].tags]
  /\ tx = [w \in Writers |-> NoTx]
  /\ articles \in {[s \in Slugs |-> IF s \in old THEN OldRow ELSE NoRow] :
                      old \in SUBSET OldSlugs}
  /\ tags = OldTags
  /\ answer = [w \in Writers |-> "none"]
  /\ hit = {} /\ written = {}

TagsOf(w) == ToSet(call[w].tags)
RowOf(w)  == articles[call[w].slug]

Fault(w) == /\ w \in hit \/ Cardinality(hit) < MaxFaults
            /\ hit' = hit \cup {w}

Goto(w, next) == pc' = [pc EXCEPT ![w] = next]

Finish(w, result) == /\ Goto(w, "done")
                     /\ answer' = [answer EXCEPT ![w] = result]

(***************************************************************************)
(* PostgreSQL: who waits for whom.                                         *)
(***************************************************************************)
HoldersOfSlug(w) == {r \in Writers \ {w} : tx[r].row /\ call[r].slug = call[w].slug}
HoldersOfTag(w)  == {r \in Writers \ {w} : Head(todo[w]) \in tx[r].made}

WaitsFor(w) == CASE pc[w] \in {"upsert", "save"} -> HoldersOfSlug(w)
                 [] pc[w] \in {"insert", "make"} -> HoldersOfTag(w)
                 [] OTHER -> {}

Ready(w) == WaitsFor(w) = {}

\* A set of writers of whom each waits for one and is waited for by one.
Deadlocked(w) == \E C \in SUBSET Writers : /\ w \in C
                                           /\ C = UNION {WaitsFor(r) : r \in C}
                                           /\ \A r \in C : WaitsFor(r) # {}

\* A transaction sees what is committed and what it wrote.
Visible(w) == tags \cup tx[w].made
-----------------------------------------------------------------------------
(***************************************************************************)
(* The importer.                                                           *)
(***************************************************************************)

\* Mutant: an error leaves the transaction open.
RollbackForgotten(w) == /\ Finish(w, "failed")
                        /\ UNCHANGED <<call, todo, tx, tables, written>>

\* Every error ends with tx.Rollback and recordError.
Rollback(w) == /\ Finish(w, "failed")
               /\ tx' = [tx EXCEPT ![w] = NoTx]
               /\ UNCHANGED <<call, todo, tables, written>>

\* A statement fails, for a reason of its own or as the victim of a deadlock.
Fail(w) ==
  /\ pc[w] \in {"upsert", "select", "insert", "link", "unlink"}
  /\ \/ Fault(w)
     \/ Deadlocked(w) /\ UNCHANGED hit
  /\ Rollback(w)

\* Mutant: the loop over the tags does not look whether there are any.
UpsertTagged(w) ==
  /\ pc[w] = "upsert" /\ Ready(w)
  /\ Goto(w, "select")
  /\ tx' = [tx EXCEPT ![w].row = TRUE]
  /\ UNCHANGED <<call, todo, tables, answer, hit, written>>

\* INSERT ... ON CONFLICT (slug) DO UPDATE: the transaction has the slug from
\* here to its end, a new row or one it has locked.
Upsert(w) ==
  /\ pc[w] = "upsert" /\ Ready(w)
  /\ Goto(w, IF todo[w] = <<>> THEN "commit" ELSE "select")
  /\ tx' = [tx EXCEPT ![w].row = TRUE]
  /\ UNCHANGED <<call, todo, tables, answer, hit, written>>

NextTag(w) == /\ todo' = [todo EXCEPT ![w] = Tail(@)]
              /\ Goto(w, IF Len(todo[w]) = 1 THEN "link" ELSE "select")

\* Mutant: the tag is looked up outside the transaction.
SelectTagOutside(w) ==
  /\ pc[w] = "select"
  /\ IF Head(todo[w]) \in tags
     THEN NextTag(w)
     ELSE Goto(w, "insert") /\ UNCHANGED todo
  /\ UNCHANGED <<call, tx, tables, answer, hit, written>>

\* FirstOrCreate of a tag, in the transaction: a SELECT and, if need be, an
\* INSERT that fails when another transaction has committed the tag meanwhile.
SelectTag(w) ==
  /\ pc[w] = "select"
  /\ IF Head(todo[w]) \in Visible(w)
     THEN NextTag(w)
     ELSE Goto(w, "insert") /\ UNCHANGED todo
  /\ UNCHANGED <<call, tx, tables, answer, hit, written>>

\* Mutant: the tag is made outside the transaction.
InsertTagOutside(w) ==
  /\ pc[w] = "insert" /\ Ready(w)
  /\ IF Head(todo[w]) \in tags
     THEN Rollback(w)
     ELSE /\ tags' = tags \cup {Head(todo[w])}
          /\ NextTag(w)
          /\ UNCHANGED <<call, tx, articles, answer, written>>
  /\ UNCHANGED hit

InsertTag(w) ==
  /\ pc[w] = "insert" /\ Ready(w)
  /\ IF Head(todo[w]) \in Visible(w)
     THEN Rollback(w)
     ELSE /\ tx' = [tx EXCEPT ![w].made = @ \cup {Head(todo[w])}]
          /\ NextTag(w)
          /\ UNCHANGED <<call, tables, answer, written>>
  /\ UNCHANGED hit

\* Association("Tags").Replace: the links are inserted, then the others deleted.
Link(w) ==
  /\ pc[w] = "link"
  /\ Goto(w, "unlink")
  /\ tx' = [tx EXCEPT ![w].linked = TagsOf(w)]
  /\ UNCHANGED <<call, todo, tables, answer, hit, written>>

\* Mutant: the links are added to those that are there.
UnlinkNothing(w) ==
  /\ pc[w] = "unlink"
  /\ Goto(w, "commit")
  /\ UNCHANGED <<call, todo, tx, tables, answer, hit, written>>

Unlink(w) ==
  /\ pc[w] = "unlink"
  /\ Goto(w, "commit")
  /\ tx' = [tx EXCEPT ![w].unlinked = RowOf(w).links \ TagsOf(w)]
  /\ UNCHANGED <<call, todo, tables, answer, hit, written>>

Apply(w) ==
  /\ articles' = [articles EXCEPT ![call[w].slug] =
                    [by    |-> IF @ = NoRow THEN w ELSE @.by,
                     links |-> (@.links \ tx[w].unlinked) \cup tx[w].linked]]
  /\ tags' = tags \cup tx[w].made
  /\ tx' = [tx EXCEPT ![w] = NoTx]
  /\ written' = written \cup {w}
  /\ UNCHANGED <<call, todo>>

\* A commit may fail, and its answer may be lost: both count as COMMIT_ERROR.
Commit(w) ==
  /\ pc[w] = "commit"
  /\ \/ Apply(w) /\ Finish(w, "ok") /\ UNCHANGED hit
     \/ Apply(w) /\ Finish(w, "failed") /\ Fault(w)
     \/ Rollback(w) /\ Fault(w)

ProcessOneArticle(w) == \/ Upsert(w) \/ SelectTag(w) \/ InsertTag(w)
                        \/ Link(w) \/ Unlink(w) \/ Commit(w) \/ Fail(w)
-----------------------------------------------------------------------------
(***************************************************************************)
(* ArticleCreate: setTags, whose error Bind drops, and SaveOne.            *)
(***************************************************************************)

\* The tags that exist are looked up at once; if that fails, none is found.
FindTags(w) ==
  /\ pc[w] = "find"
  /\ \E found \in {tags, {}} :
       /\ IF found = tags THEN UNCHANGED hit ELSE Fault(w)
       /\ tx' = [tx EXCEPT ![w].found = TagsOf(w) \cap found]
  /\ Goto(w, IF todo[w] = <<>> THEN "save" ELSE "make")
  /\ UNCHANGED <<call, todo, tables, answer, written>>

Collect(w) ==
  /\ tx' = [tx EXCEPT ![w].linked = @ \cup {Head(todo[w])}]
  /\ todo' = [todo EXCEPT ![w] = Tail(@)]
  /\ Goto(w, IF Len(todo[w]) = 1 THEN "save" ELSE "make")

\* Mutant: a tag that cannot be made is left out.
MakeTagOnce(w) ==
  /\ pc[w] = "make" /\ Ready(w)
  /\ \/ /\ Head(todo[w]) \notin tags \/ Head(todo[w]) \in tx[w].found
        /\ tags' = tags \cup {Head(todo[w])}
        /\ Collect(w) /\ UNCHANGED hit
     \/ /\ Head(todo[w]) \notin tx[w].found
        /\ IF Head(todo[w]) \in tags THEN UNCHANGED hit ELSE Fault(w)
        /\ todo' = [todo EXCEPT ![w] = Tail(@)]
        /\ Goto(w, IF Len(todo[w]) = 1 THEN "save" ELSE "make")
        /\ UNCHANGED <<tags, tx>>
  /\ UNCHANGED <<call, articles, answer, written>>

\* A tag that was found is taken.  Another is made by db.Create(&newTag), which is
\* committed at once; if it is there by now, it is fetched.
MakeTag(w) ==
  /\ pc[w] = "make" /\ Ready(w)
  /\ \/ /\ Head(todo[w]) \in tx[w].found
        /\ Collect(w) /\ UNCHANGED <<tags, hit>>
     \/ /\ Head(todo[w]) \notin tx[w].found \cup tags
        /\ tags' = tags \cup {Head(todo[w])}
        /\ Collect(w) /\ UNCHANGED hit
     \/ /\ Head(todo[w]) \notin tx[w].found
        /\ IF Head(todo[w]) \in tags THEN UNCHANGED hit ELSE Fault(w)
        /\ Goto(w, "fetch")
        /\ UNCHANGED <<tags, todo, tx>>
  /\ UNCHANGED <<call, articles, answer, written>>

\* A tag that cannot be fetched either ends setTags before model.Tags is set,
\* and the article goes on without tags.
FetchTag(w) ==
  /\ pc[w] = "fetch"
  /\ \/ /\ Head(todo[w]) \in tags
        /\ Collect(w) /\ UNCHANGED hit
     \/ /\ IF Head(todo[w]) \in tags THEN Fault(w) ELSE UNCHANGED hit
        /\ todo' = [todo EXCEPT ![w] = <<>>]
        /\ tx' = [tx EXCEPT ![w].linked = {}]
        /\ Goto(w, "save")
  /\ UNCHANGED <<call, tables, answer, written>>

\* SaveOne: the row and its links in a transaction of their own, refused when
\* the slug is taken.
Save(w) ==
  /\ pc[w] = "save" /\ Ready(w)
  /\ \/ RowOf(w) # NoRow /\ Rollback(w) /\ UNCHANGED hit
     \/ RowOf(w) = NoRow /\ Apply(w) /\ Finish(w, "ok") /\ UNCHANGED hit
     \/ RowOf(w) = NoRow /\ Apply(w) /\ Finish(w, "failed") /\ Fault(w)
     \/ Rollback(w) /\ Fault(w)

ArticleCreate(w) == FindTags(w) \/ MakeTag(w) \/ FetchTag(w) \/ Save(w)
-----------------------------------------------------------------------------
Next == \E w \in Writers : ProcessOneArticle(w) \/ ArticleCreate(w)

\* A writer runs on; a statement that waits is answered once it can be, and the
\* server ends a deadlock by failing one of the statements in it.
Fairness == \A w \in Writers : WF_vars(ProcessOneArticle(w) \/ ArticleCreate(w))

Spec == Init /\ [][Next]_vars /\ Fairness
-----------------------------------------------------------------------------
(***************************************************************************)
(* Properties.                                                             *)
(***************************************************************************)

\* The tags of an article are those of one record that was written to it, or
\* the ones it had: writers of one slug never leave a mixture.
TagsOfOneRecord ==
  \A s \in Slugs : articles[s] # NoRow =>
    \/ articles[s] = OldRow
    \/ \E w \in written : /\ call[w].slug = s
                          /\ articles[s].links = TagsOf(w) \/ w \in hit

\* A record that is counted as an error leaves nothing behind, neither an
\* article nor a tag, unless its commit was done and only the answer lost.
ErrorLeavesNothing ==
  /\ \A s \in Slugs : articles[s].by \in written \cup {Before, "none"}
  /\ \A t \in tags \ OldTags :
       \E w \in Writers : t \in TagsOf(w) /\ (w \in written \/ call[w].kind = "create")
  /\ \A w \in Writers : answer[w] = "failed" /\ w \in written => w \in hit

\* Without failures a record is refused only over a rival: a creation over a slug
\* that has a row, an import over a tag that it would have made and a rival made
\* or, when both were stopped by deadlocks, wanted to make.
RefusedOverARival ==
  (\A w \in Writers : pc[w] = "done") /\ hit = {} =>
    \A w \in Writers : answer[w] = "failed" =>
      IF call[w].kind = "create"
      THEN RowOf(w) # NoRow
      ELSE \E r \in Writers \ {w} : \E t \in (TagsOf(w) \cap TagsOf(r)) \ OldTags :
             t \in tags \/ answer[r] = "failed"

\* A creation that was answered 201 and that no failure hit has all its tags,
\* whoever made them at the same time, until an import replaces them.
CreatedHasItsTags ==
  \A w \in Writers \ hit :
    /\ call[w].kind = "create" /\ answer[w] = "ok"
    /\ \A r \in written \ {w} : call[r].slug # call[w].slug
    => RowOf(w) = [by |-> w, links |-> TagsOf(w)]

\* Every writer gets an answer: nobody keeps a slug or a tag for ever.
WritersFinish == <>(\A w \in Writers : pc[w] = "done")
=============================================================================
