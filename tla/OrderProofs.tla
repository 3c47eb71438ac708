---------------------------- MODULE OrderProofs -----------------------------
(***************************************************************************)
(* Proofs of the properties of Articles that speak of the order of         *)
(* requests: what an answer says of a later state.                         *)
(***************************************************************************)
EXTENDS ArticlesProofs

(***************************************************************************)
(* Each handler has its statements; the requests that were answered before *)
(* another arrived are done; an answer is given once, and an               *)
(* ArticleUserModel is looked up once.                                     *)
(***************************************************************************)
Fits(place, kind) ==
  /\ place = "found" => kind \in {"follow", "unfollow"}
  /\ place = "author" => kind \in OnArticle \cup Lists \cup {"deleteComment"}
  /\ place = "createAuthor" =>
       kind \in OnArticle \cup Lists \cup {"deleteComment", "createArticle", "feed", "import"}
  /\ place = "create" => kind \in {"follow", "favorite"}
  /\ place = "write" => kind \in OnArticle \cup {"deleteComment", "createArticle", "import"}
  /\ place \in {"followings", "authors"} => kind = "feed"
  /\ place = "rows" => kind \in Lists
  /\ place = "list" => kind \in Lists \cup {"feed", "exportArticles", "exportComments"}
  /\ place = "serialize" => kind \in Lists \cup {"feed", "favorite", "unfavorite"}

OrderInv ==
  \A p, q \in Requests : /\ Fits(pc[p], Kind(p))
                         /\ pc[p] = "idle" => before[p] = {}
                         /\ q \in before[p] => pc[q] = "done"
                         /\ pc[p] # "done" => answer[p] = 0
                         /\ pc[p] \in {"begun", "author", "createAuthor"} => got[p].au = 0

OInv == IInv /\ OrderInv

\* What a step of the request p leaves of the requests.
Moved(p) ==
  /\ pc[p] # "done" /\ pc'[p] # "idle" /\ offered' = offered
  /\ \A q \in Requests \ {p} :
       /\ call'[q] = call[q] /\ pc'[q] = pc[q] /\ got'[q] = got[q] /\ answer'[q] = answer[q]
       /\ before'[q] = before[q] /\ (q \in hit' <=> q \in hit)
  /\ hit \subseteq hit'
  /\ pc'[p] # "done" => answer'[p] = answer[p]

\* It is at work on its call.
Handles(p) ==
  /\ pc[p] # "idle"
  /\ call'[p] = call[p] /\ before'[p] = before[p] /\ got'[p].me = got[p].me
  /\ pc[p] # "begun" => got'[p].found = got[p].found
  /\ pc[p] \notin {"begun", "author", "createAuthor"} => got'[p].au = got[p].au
  /\ pc'[p] # "begun" /\ Fits(pc'[p], Kind(p))
  /\ pc'[p] \in {"author", "createAuthor"} =>
       pc[p] \in {"begun", "author"} /\ got'[p].au = got[p].au

\* It arrives.
Arrives(p) ==
  /\ pc[p] = "idle" /\ AuthMiddleware(p)
  /\ pc'[p] = "begun" /\ before'[p] = {q \in Requests : pc[q] = "done"}
  /\ UNCHANGED <<accountVars, contentVars>>

Step(p) == (AccountStep(p) /\ UNCHANGED contentVars) \/ ArticleStep(p)

KeepsLocals(p, l) ==
  /\ l.me = got[p].me
  /\ pc[p] # "begun" => l.found = got[p].found
  /\ pc[p] \notin {"begun", "author", "createAuthor"} => l.au = got[p].au

GoesOn(p) == \E n \in Steps \ {"idle", "begun", "done"} : \E l :
               /\ Goto(p, n, l) /\ KeepsLocals(p, l) /\ Fits(n, Kind(p))
               /\ n \in {"author", "createAuthor"} =>
                    pc[p] \in {"begun", "author"} /\ l.au = got[p].au
IsAnswered(p) == \/ \E s : Reply(p, s)
                 \/ \E rows : List(p, rows)

LEMMA GoesOnMoves ==
  ASSUME TypeInv, NEW p \in Requests, pc[p] \notin {"idle", "done"}, GoesOn(p) \/ IsAnswered(p),
         Works \/ Fault(p)
  PROVE  Moved(p) /\ Handles(p)
<1>1. hit \subseteq hit' /\ hit' \subseteq hit \cup {p}
  BY DEF Works, Fault
<1>2. CASE GoesOn(p)
  BY <1>1, <1>2 DEF TypeInv, Moved, Handles, GoesOn, Goto, KeepsLocals
<1>3. CASE \E s : Reply(p, s)
  <2>1. got[p] \in Locals
    BY DEF TypeInv
  <2> QED BY <1>1, <1>3, <2>1 DEF TypeInv, Moved, Handles, Reply, Locals, Fits
<1>4. CASE \E rows : List(p, rows)
  <2>1. got[p] \in Locals
    BY DEF TypeInv
  <2> QED BY <1>1, <1>4, <2>1 DEF TypeInv, Moved, Handles, List, Locals, Fits
<1> QED BY <1>2, <1>3, <1>4 DEF IsAnswered

\* The steps of a handler.
LEMMA AccountHandles ==
  ASSUME OInv, NEW p \in Requests, AccountStep(p), ~AuthMiddleware(p)
  PROVE  pc[p] \notin {"idle", "done"} /\ (GoesOn(p) \/ IsAnswered(p)) /\ (Works \/ Fault(p))
<1>1. {"found", "create"} \subseteq Steps \ {"idle", "begun", "done"}
  BY DEF Steps
<1>2. got[p] \in Locals /\ Fits(pc[p], Kind(p))
  BY DEF OInv, OrderInv, IInv, TypeInv
<1>3. CASE FindProfile(p)
  <2> DEFINE named == {u \in DOMAIN users : users[u].username = call[p].name}
             l == [got[p] EXCEPT !.found = Min(named)]
  <2>1. l.me = got[p].me /\ l.au = got[p].au
    BY <1>2 DEF Locals
  <2>2. /\ At(p, "begun", {"follow", "unfollow"}) /\ (Works \/ Fault(p))
        /\ Goto(p, "found", l) \/ Reply(p, 404)
    BY <1>3 DEF FindProfile
  <2> HIDE DEF l
  <2> QED BY <1>1, <1>2, <2>1, <2>2 DEF GoesOn, KeepsLocals, IsAnswered, Fits, At, OnArticle, Lists
<1>4. CASE FirstFollow(p)
  <2>1. /\ At(p, "found", {"follow"}) /\ (Works \/ Fault(p))
        /\ Goto(p, "create", got[p]) \/ Reply(p, 200) \/ Reply(p, 422)
    BY <1>4 DEF FirstFollow
  <2> QED BY <1>1, <2>1 DEF GoesOn, KeepsLocals, IsAnswered, Fits, At, OnArticle, Lists
<1>5. CASE \/ UsersRegistration(p) \/ UsersLogin(p) \/ UserUpdate(p)
           \/ CreateFollow(p) \/ Unfollow(p)
  <2>1. /\ pc[p] \in {"begun", "found", "create"} /\ (Works \/ Fault(p))
        /\ \E s : Reply(p, s)
    BY <1>5 DEF UsersRegistration, UsersLogin, UserUpdate, CreateFollow, Unfollow, At
  <2> QED BY <2>1 DEF IsAnswered
<1> QED BY <1>3, <1>4, <1>5 DEF AccountStep

LEMMA AuthorHandles ==
  ASSUME OInv, NEW p \in Requests, NEW au, AsAuthor(p, au),
         \/ pc[p] \in {"author", "createAuthor"}
         \/ At(p, "begun", {"createArticle", "feed", "import"})
  PROVE  GoesOn(p) \/ IsAnswered(p)
<1>1. {"followings", "rows", "write"} \subseteq Steps \ {"idle", "begun", "done"}
  BY DEF Steps
<1>2. got[p] \in Locals /\ Fits(pc[p], Kind(p))
  BY DEF OInv, OrderInv, IInv, TypeInv
<1> DEFINE l == [got[p] EXCEPT !.au = au]
<1>3. l.me = got[p].me /\ l.found = got[p].found
  BY <1>2 DEF Locals
<1>4. \/ Kind(p) = "feed" /\ Goto(p, "followings", l)
      \/ Kind(p) \in Lists /\ Goto(p, "rows", l)
      \/ /\ Kind(p) \notin Lists \cup {"retrieve", "feed"}
         /\ Goto(p, "write", l)
      \/ \E s : Reply(p, s)
      \/ List(p, {})
  BY DEF AsAuthor, Going
<1> HIDE DEF l
<1> QED BY <1>1, <1>2, <1>3, <1>4 DEF GoesOn, KeepsLocals, IsAnswered, Fits, At, OnArticle, Lists

LEMMA SerializeHandles ==
  ASSUME OInv, NEW p \in Requests, NEW rows, Serialize(p, rows),
         \/ At(p, "write", {"favorite", "unfavorite"})
         \/ At(p, "list", Lists \cup {"feed"})
  PROVE  GoesOn(p) \/ IsAnswered(p)
<1>1. "serialize" \in Steps \ {"idle", "begun", "done"}
  BY DEF Steps
<1>2. got[p] \in Locals /\ Fits(pc[p], Kind(p))
  BY DEF OInv, OrderInv, IInv, TypeInv
<1> DEFINE l == [got[p] EXCEPT !.ids = rows]
<1>3. l.me = got[p].me /\ l.found = got[p].found /\ l.au = got[p].au
  BY <1>2 DEF Locals
<1>4. Goto(p, "serialize", l) \/ List(p, rows)
  BY DEF Serialize
<1> HIDE DEF l
<1> QED BY <1>1, <1>2, <1>3, <1>4 DEF GoesOn, KeepsLocals, IsAnswered, Fits, At, OnArticle, Lists

LEMMA ArticleHandles ==
  ASSUME OInv, NEW p \in Requests, ArticleStep(p)
  PROVE  pc[p] \notin {"idle", "done"} /\ (GoesOn(p) \/ IsAnswered(p)) /\ (Works \/ Fault(p))
<1>1. {"author", "createAuthor", "write", "create", "authors", "list"}
        \subseteq Steps \ {"idle", "begun", "done"}
  BY DEF Steps
<1>2. got[p] \in Locals /\ Fits(pc[p], Kind(p))
  BY DEF OInv, OrderInv, IInv, TypeInv
<1>3. CASE FindOneArticle(p)
  <2> DEFINE named == {a \in DOMAIN articles : articles[a].slug = call[p].slug /\ articles[a].live}
             l == [got[p] EXCEPT !.found = Min(named), !.article = articles[Min(named)]]
  <2>1. l.me = got[p].me /\ l.au = got[p].au
    BY <1>2 DEF Locals
  <2>2. /\ At(p, "begun", OnArticle) /\ (Works \/ Fault(p))
        /\ Goto(p, "author", l) \/ Goto(p, "write", got[p]) \/ Reply(p, 404)
    BY <1>3 DEF FindOneArticle
  <2> HIDE DEF l
  <2> QED BY <1>1, <1>2, <2>1, <2>2 DEF GoesOn, KeepsLocals, IsAnswered, Fits, At, OnArticle, Lists
<1>4. CASE FindOneComment(p)
  <2> DEFINE named == {c \in DOMAIN comments : comments[c].live /\ call[p].id \in {0, c}}
             l     == [got[p] EXCEPT !.found = Min(named)]
  <2>1. l.me = got[p].me /\ l.au = got[p].au
    BY <1>2 DEF Locals
  <2>2. /\ At(p, "begun", {"deleteComment"}) /\ (Works \/ Fault(p))
        /\ Goto(p, "author", l) \/ Goto(p, "write", got[p])
    BY <1>4 DEF FindOneComment
  <2> HIDE DEF l
  <2> QED BY <1>1, <1>2, <2>1, <2>2 DEF GoesOn, KeepsLocals, IsAnswered, Fits, At, OnArticle, Lists
<1>5. CASE FirstArticleUser(p)
  <2>1. /\ pc[p] = "author" \/ At(p, "begun", {"createArticle", "feed", "import"})
        /\ Works \/ Fault(p)
        /\ Goto(p, "createAuthor", got[p]) \/ \E au : AsAuthor(p, au)
    BY <1>5 DEF FirstArticleUser, AtAuthor, At
  <2> QED BY <1>1, <1>2, <2>1, AuthorHandles DEF GoesOn, KeepsLocals, Fits, At, OnArticle, Lists
<1>6. CASE CreateArticleUser(p)
  <2>1. pc[p] = "createAuthor" /\ (Works \/ Fault(p)) /\ \E au : AsAuthor(p, au)
    BY <1>6 DEF CreateArticleUser
  <2> QED BY <2>1, AuthorHandles
<1>7. CASE ArticleSerializer(p)
  BY <1>7 DEF ArticleSerializer, IsAnswered
<1>8. CASE \/ ArticleCreate(p) \/ ArticleUpdate(p) \/ ArticleDelete(p) \/ ImportArticle(p)
           \/ CreateFavorite(p) \/ ArticleCommentCreate(p) \/ ArticleCommentDelete(p)
           \/ FeedRefused(p)
  <2>1. /\ pc[p] \in {"begun", "write", "create"} /\ (Works \/ Fault(p))
        /\ \E s : Reply(p, s)
    BY <1>8 DEF ArticleCreate, ArticleUpdate, ArticleDelete, ImportArticle, CreateFavorite,
                ArticleCommentCreate, ArticleCommentDelete, FeedRefused, Write, At
  <2> QED BY <2>1 DEF IsAnswered
<1>9. CASE FirstFavorite(p) \/ Unfavorite(p)
  <2>1. /\ At(p, "write", {"favorite", "unfavorite"}) /\ (Works \/ Fault(p))
        /\ \/ Kind(p) = "favorite" /\ Goto(p, "create", got[p])
           \/ Reply(p, 422) \/ \E rows : Serialize(p, rows)
    BY <1>9 DEF FirstFavorite, Unfavorite, At
  <2> QED BY <1>1, <2>1, SerializeHandles DEF GoesOn, KeepsLocals, IsAnswered, Fits, At, OnArticle, Lists
<1>10. CASE FeedFollowings(p) \/ FeedAuthors(p)
  <2>1. /\ pc[p] \in {"followings", "authors"} /\ Kind(p) = "feed" /\ (Works \/ Fault(p))
        /\ \/ Reply(p, 200) \/ Reply(p, 404)
           \/ \E n \in {"authors", "list"} : \E rows : Goto(p, n, [got[p] EXCEPT !.ids = rows])
    BY <1>2, <1>10 DEF FeedFollowings, FeedAuthors, OInv, OrderInv, Fits
  <2>2. ASSUME NEW rows PROVE LET l == [got[p] EXCEPT !.ids = rows]
                              IN l.me = got[p].me /\ l.found = got[p].found /\ l.au = got[p].au
    BY <1>2 DEF Locals
  <2> QED BY <1>1, <1>2, <2>1, <2>2 DEF GoesOn, KeepsLocals, IsAnswered, Fits, At, OnArticle, Lists
<1>11. CASE FeedArticles(p) \/ FindManyArticle(p)
  <2>1. /\ At(p, "list", Lists \cup {"feed"}) /\ (Works \/ Fault(p))
        /\ Reply(p, 404) \/ \E rows : Serialize(p, rows)
    BY <1>11 DEF FeedArticles, FindManyArticle, At
  <2> QED BY <2>1, SerializeHandles DEF IsAnswered, At
<1>12. CASE FindListed(p) \/ FindFilter(p)
  <2>1. /\ pc[p] = "begun" /\ (Works \/ Fault(p))
        /\ \/ Reply(p, 404) \/ List(p, {})
           \/ /\ Kind(p) \in Lists
              /\ \E f : Goto(p, "author", [got[p] EXCEPT !.found = f])
           \/ /\ Kind(p) \in {"exportArticles", "exportComments"}
              /\ Goto(p, "list", got[p]) \/ \E f : Goto(p, "list", [got[p] EXCEPT !.found = f])
    BY <1>12 DEF FindListed, FindFilter, At
  <2>2. ASSUME NEW f PROVE LET l == [got[p] EXCEPT !.found = f]
                           IN l.me = got[p].me /\ l.au = got[p].au
    BY <1>2 DEF Locals
  <2> QED BY <1>1, <1>2, <2>1, <2>2 DEF GoesOn, KeepsLocals, IsAnswered, Fits, At, OnArticle, Lists
<1>13. CASE FindIds(p) \/ ExportRows(p)
  <2>1. /\ pc[p] \in {"rows", "list"} /\ (Works \/ Fault(p))
        /\ \/ Reply(p, 404) \/ \E rows : List(p, rows)
           \/ Kind(p) \in Lists /\ \E rows : Goto(p, "list", [got[p] EXCEPT !.ids = rows])
    BY <1>13 DEF FindIds, ExportRows, At
  <2>2. ASSUME NEW rows PROVE LET l == [got[p] EXCEPT !.ids = rows]
                              IN l.me = got[p].me /\ l.found = got[p].found /\ l.au = got[p].au
    BY <1>2 DEF Locals
  <2> QED BY <1>1, <1>2, <2>1, <2>2 DEF GoesOn, KeepsLocals, IsAnswered, Fits, At, OnArticle, Lists
<1> QED BY <1>3, <1>4, <1>5, <1>6, <1>7, <1>8, <1>9, <1>10, <1>11, <1>12, <1>13
        DEF ArticleStep

LEMMA ArrivalMoves ==
  ASSUME OInv, NEW p \in Requests, AuthMiddleware(p), UNCHANGED contentVars
  PROVE  Moved(p) /\ Arrives(p)
<1>1. PICK c \in offered :
        /\ Arrive(p, c) /\ (Works \/ Fault(p)) /\ UNCHANGED accountVars
        /\ UNCHANGED got \/ got' = [got EXCEPT ![p].me = c.me, ![p].user = users[c.me]]
  BY DEF AuthMiddleware
<1>2. \A q \in Requests \ {p} : got'[q] = got[q]
  BY <1>1 DEF OInv, IInv, TypeInv
<1>3. hit \subseteq hit' /\ hit' \subseteq hit \cup {p}
  BY <1>1 DEF Works, Fault
<1> QED BY <1>1, <1>2, <1>3 DEF Arrive, Arrives, Moved, OInv, IInv, TypeInv

LEMMA StepMoves ==
  ASSUME OInv, NEW p \in Requests, Step(p)
  PROVE  Moved(p) /\ (Arrives(p) \/ Handles(p))
<1>1. TypeInv
  BY DEF OInv, IInv
<1>2. CASE AuthMiddleware(p) /\ UNCHANGED contentVars
  BY <1>2, ArrivalMoves
<1>3. CASE AccountStep(p) /\ ~AuthMiddleware(p)
  BY <1>1, <1>3, AccountHandles, GoesOnMoves
<1>4. CASE ArticleStep(p)
  BY <1>1, <1>4, ArticleHandles, GoesOnMoves
<1> QED BY <1>2, <1>3, <1>4 DEF Step

LEMMA OrderKept ==
  ASSUME OInv, [Next]_vars
  PROVE  OInv'
<1>1. IInv'
  BY NextKeeps, StutterKeeps DEF OInv
<1>2. CASE UNCHANGED vars
  BY <1>1, <1>2 DEF OInv, OrderInv, vars, requestVars, Kind
<1>3. CASE Next
  <2>1. PICK p \in Requests : Step(p)
    BY <1>3 DEF Next, Step
  <2>2. Moved(p) /\ (Arrives(p) \/ Handles(p)) /\ OrderInv /\ TypeInv
    BY <2>1, StepMoves DEF OInv, IInv
  <2>3. ASSUME NEW r \in Requests
        PROVE  /\ pc'[r] = "idle" => before'[r] = {}
               /\ pc'[r] # "done" => answer'[r] = 0
               /\ Fits(pc'[r], Kind(r)')
               /\ pc'[r] \in {"begun", "author", "createAuthor"} => got'[r].au = 0
    <3>1. CASE r # p
      BY <2>2, <3>1 DEF Moved, OrderInv, Kind
    <3>2. CASE r = p
      <4>1. pc'[p] # "idle" /\ (pc'[p] # "done" => answer'[p] = 0)
        BY <2>2 DEF Moved, OrderInv
      <4>2. pc'[p] = "begun" => got'[p].au = 0
        BY <1>1 DEF IInv, RequestInv, CallerInv
      <4>3. ASSUME pc'[p] \in {"author", "createAuthor"} PROVE got'[p].au = 0
        <5>1. Handles(p)
          BY <2>2, <4>3 DEF Arrives
        <5> QED BY <2>2, <4>3, <5>1 DEF Handles, OrderInv
      <4>4. Fits(pc'[p], Kind(p)')
        BY <2>2 DEF Arrives, Handles, Fits, Kind
      <4> QED BY <3>2, <4>1, <4>2, <4>3, <4>4
    <3> QED BY <3>1, <3>2
  <2>4. ASSUME NEW r \in Requests, NEW q \in Requests, q \in before'[r] PROVE pc'[q] = "done"
    <3>1. pc[q] = "done"
      BY <2>2, <2>4 DEF Moved, OrderInv, Arrives, Handles
    <3> QED BY <2>2, <3>1 DEF Moved
  <2> QED BY <1>1, <2>3, <2>4 DEF OInv, OrderInv
<1> QED BY <1>2, <1>3

THEOREM OrderHolds == Spec => []OInv
<1>1. Init => OInv
  <2>1. Init => OrderInv
    BY DEF Init, OrderInv, Nothing, Fits
  <2> QED BY <2>1, InitIInv DEF OInv
<1>2. OInv /\ [Next]_vars => OInv'
  BY OrderKept
<1> QED BY <1>1, <1>2, PTL DEF Spec
-----------------------------------------------------------------------------
(***************************************************************************)
(* Requests that have started, and those that were answered before one.    *)
(***************************************************************************)

\* Who has started goes on with the same call, and what it came after stays.
LEMMA StartedStays ==
  ASSUME OInv, NEW p \in Requests, Step(p), NEW q \in Started
  PROVE  /\ q \in Started' /\ call'[q] = call[q] /\ before'[q] = before[q]
         /\ got'[q].me = got[q].me /\ Kind(q)' = Kind(q)
         /\ (q \in hit => q \in hit') /\ (pc[q] # "idle") /\ q \in Requests
<1>1. Moved(p) /\ (Arrives(p) \/ Handles(p))
  BY StepMoves DEF OInv
<1>2. q \in Requests /\ pc[q] # "idle"
  BY DEF Started
<1>3. CASE q = p
  BY <1>1, <1>2, <1>3 DEF Started, Moved, Arrives, Handles, Kind
<1>4. CASE q # p
  BY <1>1, <1>2, <1>4 DEF Started, Moved, Kind
<1> QED BY <1>3, <1>4

\* Who has answered stays as it is.
LEMMA DoneStays ==
  ASSUME OInv, NEW p \in Requests, Step(p), NEW q \in Requests, pc[q] = "done"
  PROVE  /\ pc'[q] = "done" /\ got'[q] = got[q] /\ answer'[q] = answer[q] /\ q # p
         /\ call'[q] = call[q] /\ before'[q] = before[q] /\ (q \in hit' <=> q \in hit)
         /\ Kind(q)' = Kind(q)
  BY StepMoves DEF OInv, Moved, Kind

\* When all calls of a kind were answered before e came, none of them moves.
LEMMA Quiet ==
  ASSUME OInv, NEW p \in Requests, Step(p), NEW kinds, NEW e \in Started,
         Calling(kinds)' \subseteq before'[e]
  PROVE  /\ Calling(kinds) \subseteq before[e]
         /\ Arrives(p) \/ Kind(p) \notin kinds
<1>1. before'[e] = before[e] /\ e \in Requests
  BY StartedStays
<1>2. Calling(kinds) \subseteq Calling(kinds)'
  BY StartedStays DEF Calling
<1>3. Calling(kinds) \subseteq before[e]
  BY <1>1, <1>2
<1>4. ASSUME ~Arrives(p), Kind(p) \in kinds PROVE FALSE
  <2>1. Moved(p) /\ Handles(p)
    BY <1>4, StepMoves DEF OInv
  <2>2. p \in before[e]
    BY <1>3, <1>4, <2>1 DEF Calling, Started, Handles
  <2> QED BY <1>1, <2>1, <2>2 DEF Moved, OInv, OrderInv
<1> QED BY <1>3, <1>4
-----------------------------------------------------------------------------
(***************************************************************************)
(* What the steps write: each table has few that do, and what they delete  *)
(* is marked, so that no row goes away or comes back.                      *)
(***************************************************************************)
LEMMA WhoWrites ==
  ASSUME NEW p \in Requests, Step(p)
  PROVE  /\ users' = users \/ UsersRegistration(p) \/ UserUpdate(p)
         /\ follows' = follows \/ CreateFollow(p) \/ Unfollow(p)
         /\ \/ articleUsers' = articleUsers
            \/ CreateArticleUser(p) \/ ArticleSerializer(p)
            \/ ArticleCreate(p) \/ ArticleCommentCreate(p)
         /\ \/ articles' = articles
            \/ ArticleCreate(p) \/ ArticleUpdate(p) \/ ArticleDelete(p) \/ ImportArticle(p)
         /\ favorites' = favorites \/ CreateFavorite(p) \/ Unfavorite(p)
         /\ comments' = comments \/ ArticleCommentCreate(p) \/ ArticleCommentDelete(p)
<1>1. CASE AccountStep(p) /\ UNCHANGED contentVars
  BY <1>1 DEF AccountStep, contentVars, accountVars, AuthMiddleware, UsersRegistration, UsersLogin,
              UserUpdate, FindProfile, FirstFollow, CreateFollow, Unfollow
<1>2. CASE ArticleStep(p)
  BY <1>2 DEF ArticleStep, contentVars, accountVars, FindOneArticle, FindOneComment,
         FirstArticleUser, CreateArticleUser, ArticleSerializer, ArticleCreate, ArticleUpdate,
         ArticleDelete, ImportArticle, FirstFavorite, CreateFavorite, Unfavorite,
         ArticleCommentCreate, ArticleCommentDelete, FeedRefused, FeedFollowings, FeedAuthors,
         FeedArticles, FindListed, FindIds, FindManyArticle, FindFilter, ExportRows
<1> QED BY <1>1, <1>2 DEF Step

LEMMA Appended ==
  ASSUME NEW S, NEW s \in Seq(S), NEW r, NEW t, t = Append(s, r)
  PROVE  /\ DOMAIN t = DOMAIN s \cup {Len(s) + 1} /\ Len(s) + 1 \notin DOMAIN s
         /\ \A i \in DOMAIN s : t[i] = s[i]
         /\ t[Len(s) + 1] = r
  OBVIOUS

LEMMA FollowsFrame ==
  ASSUME OInv, NEW p \in Requests, Step(p)
  PROVE  /\ DOMAIN follows \subseteq DOMAIN follows'
         /\ CreateFollow(p) \/ DOMAIN follows' = DOMAIN follows
         /\ \A f \in DOMAIN follows :
              /\ follows'[f].by = follows[f].by /\ follows'[f].of = follows[f].of
              /\ follows'[f].live => follows[f].live
              /\ follows[f].live /\ ~follows'[f].live =>
                   Unfollow(p) /\ follows[f].by = got[p].me /\ follows[f].of = got[p].found
<1>1. follows \in Seq(FollowRecords)
  BY DEF OInv, IInv, TypeInv, Consistent
<1>2. CASE follows' = follows
  BY <1>2
<1>3. CASE CreateFollow(p)
  <2>1. CASE follows' = follows
    BY <2>1
  <2>2. CASE follows' = Append(follows, [by |-> got[p].me, of |-> got[p].found, live |-> TRUE])
    BY <1>1, <1>3, <2>2, Appended
  <2> QED BY <1>3, <2>1, <2>2 DEF CreateFollow
<1>4. CASE Unfollow(p) /\ follows' # follows
  <2>1. follows' = [f \in DOMAIN follows |->
                      IF follows[f].by = got[p].me /\ follows[f].of = got[p].found
                      THEN [follows[f] EXCEPT !.live = FALSE] ELSE follows[f]]
    BY <1>4 DEF Unfollow
  <2>2. ASSUME NEW f \in DOMAIN follows
        PROVE  /\ follows'[f].by = follows[f].by /\ follows'[f].of = follows[f].of
               /\ follows'[f].live => follows[f].live
               /\ follows[f].live /\ ~follows'[f].live =>
                    follows[f].by = got[p].me /\ follows[f].of = got[p].found
    <3>1. follows[f] \in FollowRecords
      BY <1>1
    <3>2. \/ follows'[f] = follows[f]
          \/ /\ follows'[f] = [follows[f] EXCEPT !.live = FALSE]
             /\ follows[f].by = got[p].me /\ follows[f].of = got[p].found
      BY <2>1
    <3> QED BY <3>1, <3>2 DEF FollowRecords
  <2> QED BY <1>4, <2>1, <2>2
<1> QED BY <1>2, <1>3, <1>4, WhoWrites

LEMMA FavoritesFrame ==
  ASSUME OInv, NEW p \in Requests, Step(p)
  PROVE  /\ DOMAIN favorites \subseteq DOMAIN favorites'
         /\ CreateFavorite(p) \/ DOMAIN favorites' = DOMAIN favorites
         /\ \A f \in DOMAIN favorites :
              /\ favorites'[f].by = favorites[f].by /\ favorites'[f].article = favorites[f].article
              /\ favorites'[f].live => favorites[f].live
              /\ favorites[f].live /\ ~favorites'[f].live =>
                   /\ Unfavorite(p)
                   /\ favorites[f].by = got[p].au /\ favorites[f].article = got[p].found
<1>1. favorites \in Seq(FavoriteRecords)
  BY DEF OInv, IInv, TypeInv, Consistent
<1>2. CASE favorites' = favorites
  BY <1>2
<1>3. CASE CreateFavorite(p)
  <2>1. CASE favorites' = favorites
    BY <2>1
  <2>2. CASE \E r : favorites' = Append(favorites, r)
    BY <1>1, <1>3, <2>2, Appended
  <2> QED BY <1>3, <2>1, <2>2 DEF CreateFavorite
<1>4. CASE Unfavorite(p) /\ favorites' # favorites
  <2>1. favorites' = [f \in DOMAIN favorites |->
                        IF favorites[f].by = got[p].au /\ favorites[f].article = got[p].found
                        THEN [favorites[f] EXCEPT !.live = FALSE] ELSE favorites[f]]
    BY <1>4 DEF Unfavorite
  <2>2. ASSUME NEW f \in DOMAIN favorites
        PROVE  /\ favorites'[f].by = favorites[f].by
               /\ favorites'[f].article = favorites[f].article
               /\ favorites'[f].live => favorites[f].live
               /\ favorites[f].live /\ ~favorites'[f].live =>
                    favorites[f].by = got[p].au /\ favorites[f].article = got[p].found
    <3>1. favorites[f] \in FavoriteRecords
      BY <1>1
    <3>2. \/ favorites'[f] = favorites[f]
          \/ /\ favorites'[f] = [favorites[f] EXCEPT !.live = FALSE]
             /\ favorites[f].by = got[p].au /\ favorites[f].article = got[p].found
      BY <2>1
    <3> QED BY <3>1, <3>2 DEF FavoriteRecords
  <2> QED BY <1>4, <2>1, <2>2
<1> QED BY <1>2, <1>3, <1>4, WhoWrites

LEMMA CommentsFrame ==
  ASSUME OInv, NEW p \in Requests, Step(p)
  PROVE  /\ DOMAIN comments \subseteq DOMAIN comments'
         /\ ArticleCommentCreate(p) \/ DOMAIN comments' = DOMAIN comments
         /\ \A c \in DOMAIN comments : /\ comments'[c].article = comments[c].article
                                       /\ comments'[c].live => comments[c].live
<1>1. comments \in Seq(CommentRows)
  BY DEF OInv, IInv, TypeInv, Consistent
<1>2. CASE comments' = comments
  BY <1>2
<1>3. CASE ArticleCommentCreate(p)
  <2>1. CASE comments' = comments
    BY <2>1
  <2>2. CASE \E r : comments' = Append(comments, r)
    BY <1>1, <1>3, <2>2, Appended
  <2> QED BY <1>3, <2>1, <2>2 DEF ArticleCommentCreate
<1>4. CASE ArticleCommentDelete(p)
  <2>1. DOMAIN comments' = DOMAIN comments
    BY <1>4 DEF ArticleCommentDelete
  <2>2. ASSUME NEW c \in DOMAIN comments
        PROVE  comments'[c].article = comments[c].article /\ (comments'[c].live => comments[c].live)
    <3>1. comments[c] \in CommentRows
      BY <1>1
    <3>2. comments'[c] = comments[c] \/ comments'[c] = [comments[c] EXCEPT !.live = FALSE]
      BY <1>4 DEF ArticleCommentDelete
    <3> QED BY <3>1, <3>2 DEF CommentRows
  <2> QED BY <2>1, <2>2
<1> QED BY <1>2, <1>3, <1>4, WhoWrites

LEMMA AuthorsFrame ==
  ASSUME OInv, NEW p \in Requests, Step(p)
  PROVE  /\ DOMAIN articleUsers \subseteq DOMAIN articleUsers'
         /\ \A r \in DOMAIN articleUsers : articleUsers'[r] = articleUsers[r]
<1>1. articleUsers \in Seq(Nat)
  BY DEF OInv, IInv, TypeInv, Consistent
<1>2. articleUsers' = articleUsers \/ \E u : articleUsers' = Append(articleUsers, u)
  BY WhoWrites DEF CreateArticleUser, ArticleSerializer, ArticleCreate, ArticleCommentCreate,
                   SaveAuthor
<1> QED BY <1>1, <1>2, Appended

LEMMA ArticlesFrame ==
  ASSUME OInv, NEW p \in Requests, Step(p)
  PROVE  /\ DOMAIN articles \subseteq DOMAIN articles'
         /\ ArticleCreate(p) \/ ImportArticle(p) \/ DOMAIN articles' = DOMAIN articles
         /\ \A a \in DOMAIN articles :
              /\ articles'[a].author = articles[a].author
              /\ articles'[a].live => articles[a].live
              /\ \/ ArticleUpdate(p) /\ got[p].found = a
                 \/ /\ articles'[a].slug = articles[a].slug
                    /\ articles'[a].title = articles[a].title
                    /\ articles'[a].body = articles[a].body
<1>1. articles \in Seq(ArticleRows)
  BY DEF OInv, IInv, TypeInv, Consistent
<1>2. CASE articles' = articles
  BY <1>2
<1>3. CASE ArticleCreate(p) \/ ImportArticle(p)
  <2>1. CASE articles' = articles
    BY <2>1
  <2>2. CASE \E r : articles' = Append(articles, r)
    BY <1>1, <1>3, <2>2, Appended
  <2> QED BY <1>3, <2>1, <2>2 DEF ArticleCreate, ImportArticle
<1>4. CASE ArticleDelete(p)
  <2>1. DOMAIN articles' = DOMAIN articles
    BY <1>4 DEF ArticleDelete
  <2>2. ASSUME NEW a \in DOMAIN articles
        PROVE  /\ articles'[a].author = articles[a].author
               /\ articles'[a].live => articles[a].live
               /\ articles'[a].slug = articles[a].slug
               /\ articles'[a].title = articles[a].title
               /\ articles'[a].body = articles[a].body
    <3>1. articles[a] \in ArticleRows
      BY <1>1
    <3>2. articles'[a] = articles[a] \/ articles'[a] = [articles[a] EXCEPT !.live = FALSE]
      BY <1>4 DEF ArticleDelete
    <3> QED BY <3>1, <3>2 DEF ArticleRows
  <2> QED BY <2>1, <2>2
<1>5. CASE ArticleUpdate(p)
  <2>1. DOMAIN articles' = DOMAIN articles
    BY <1>5 DEF ArticleUpdate
  <2>2. ASSUME NEW a \in DOMAIN articles
        PROVE  /\ articles'[a].author = articles[a].author
               /\ articles'[a].live => articles[a].live
               /\ got[p].found = a \/ articles'[a] = articles[a]
    <3>1. articles[a] \in ArticleRows
      BY <1>1
    <3>2. \/ articles'[a] = articles[a]
          \/ /\ got[p].found = a
             /\ \E s, t, b : articles'[a] = [articles[a] EXCEPT !.slug = s, !.title = t, !.body = b]
      BY <1>5 DEF ArticleUpdate
    <3> QED BY <3>1, <3>2 DEF ArticleRows
  <2> QED BY <1>5, <2>1, <2>2
<1> QED BY <1>2, <1>3, <1>4, <1>5, WhoWrites
-----------------------------------------------------------------------------
(***************************************************************************)
(* The comments of an article: what an export has written stays complete   *)
(* as long as nobody adds to it.                                           *)
(***************************************************************************)
ExportInv(e) ==
  e \in Calling({"exportComments"}) \ hit /\ pc[e] = "done" /\ got[e].found # 0 =>
    /\ \A c \in got[e].ids : c \in DOMAIN comments /\ comments[c].article = got[e].found
    /\ Calling({"comment"}) \subseteq before[e] =>
         \A c \in DOMAIN comments :
           comments[c].live /\ comments[c].article = got[e].found => c \in got[e].ids

\* A request that no failure has hit had no failure at this step.
LEMMA NotHit ==
  ASSUME NEW p \in Requests, Fault(p)
  PROVE  p \in hit'
  BY DEF Fault

LEMMA ExportSteps ==
  ASSUME OInv, NEW e \in Requests, Step(e), Kind(e) = "exportComments", pc[e] # "idle"
  PROVE  FindFilter(e) \/ ExportRows(e)
<1>1. Fits(pc[e], Kind(e))
  BY DEF OInv, OrderInv
<1>2. pc[e] \notin {"author", "createAuthor", "serialize", "followings", "authors"}
  BY <1>1 DEF Fits, OnArticle, Lists
<1>3. ~AccountStep(e)
  BY DEF AccountStep, AuthMiddleware, Arrive, UsersRegistration, UsersLogin, UserUpdate,
         FindProfile, FirstFollow, CreateFollow, Unfollow, At
<1> QED BY <1>2, <1>3 DEF Step, ArticleStep, At, AtAuthor, OnArticle, Lists, FindOneArticle,
        FindOneComment, FirstArticleUser, CreateArticleUser, ArticleSerializer, ArticleCreate,
        ArticleUpdate, ArticleDelete, ImportArticle, FirstFavorite, CreateFavorite, Unfavorite,
        ArticleCommentCreate, ArticleCommentDelete, FeedRefused, FeedFollowings, FeedAuthors,
        FeedArticles, FindListed, FindIds, FindManyArticle

LEMMA ExportMoves ==
  ASSUME OInv, OInv', NEW e \in Requests, Step(e), ExportInv(e)
  PROVE  ExportInv(e)'
<1> SUFFICES ASSUME (e \in Calling({"exportComments"}) \ hit /\ pc[e] = "done")'
             PROVE  ExportInv(e)'
  BY DEF ExportInv
<1>1. Moved(e) /\ Handles(e) /\ Kind(e) = "exportComments" /\ e \notin hit' /\ e \in Started
  <2>1. Moved(e) /\ (Arrives(e) \/ Handles(e))
    BY StepMoves
  <2>2. Handles(e)
    BY <2>1 DEF Arrives
  <2> QED BY <2>1, <2>2 DEF Calling, Started, Handles, Kind
<1>2. TypeInv /\ RequestInv(e) /\ got[e] \in Locals /\ call'[e] = call[e] /\ e \notin hit
  BY <1>1, Asked DEF OInv, Moved, Handles
<1>3. CASE FindFilter(e)
  <2>1. \E l : Goto(e, "list", l)
    BY <1>3 DEF FindFilter
  <2>2. pc'[e] = "list"
    BY <1>2, <2>1 DEF Goto, TypeInv
  <2> QED BY <2>2 DEF ExportInv
<1>4. CASE ExportRows(e)
  <2>1. /\ pc[e] = "list" /\ List(e, Filtered(e))
        /\ articles' = articles /\ comments' = comments
    BY <1>1, <1>4, NotHit DEF ExportRows, At, contentVars
  <2>2. got'[e].found = got[e].found /\ got'[e].ids = Filtered(e)
    BY <1>2, <2>1 DEF List, TypeInv, Locals
  <2>3. e \in Calling({"exportComments"}) \ hit
    BY <1>1, <1>2 DEF Calling
  <2>4. CASE got[e].found = 0
    BY <2>2, <2>4 DEF ExportInv
  <2>5. CASE got[e].found # 0
    <3>1. Filtered(e) = {c \in DOMAIN comments : comments[c].live /\ comments[c].article = got[e].found}
      BY <1>1, <2>5 DEF Filtered
    <3> QED BY <2>1, <2>2, <2>5, <3>1 DEF ExportInv
  <2> QED BY <2>4, <2>5
<1> QED BY <1>1, <1>3, <1>4, ExportSteps DEF Started

LEMMA ExportStays ==
  ASSUME OInv, NEW p \in Requests, Step(p), NEW e \in Requests \ {p}, ExportInv(e)
  PROVE  ExportInv(e)'
<1> SUFFICES ASSUME (e \in Calling({"exportComments"}) \ hit /\ pc[e] = "done")'
             PROVE  ExportInv(e)'
  BY DEF ExportInv
<1>1. /\ call'[e] = call[e] /\ pc'[e] = pc[e] /\ got'[e] = got[e] /\ before'[e] = before[e]
      /\ e \in Calling({"exportComments"}) \ hit /\ pc[e] = "done" /\ e \in Started
  BY StepMoves DEF OInv, Moved, Calling, Started, Kind
<1>2. ASSUME got[e].found # 0, NEW c \in got[e].ids
      PROVE  c \in DOMAIN comments' /\ comments'[c].article = got[e].found
  BY <1>1, <1>2, CommentsFrame DEF ExportInv
<1>3. ASSUME got[e].found # 0, Calling({"comment"})' \subseteq before'[e],
             NEW c \in DOMAIN comments', comments'[c].live, comments'[c].article = got[e].found
      PROVE  c \in got[e].ids
  <2>1. Calling({"comment"}) \subseteq before[e] /\ (Arrives(p) \/ Kind(p) # "comment")
    BY <1>1, <1>3, Quiet
  <2>2. CASE comments' = comments
    BY <1>1, <1>3, <2>1, <2>2 DEF ExportInv
  <2>3. CASE comments' # comments
    <3>1. ~ArticleCommentCreate(p)
      BY <2>1, <2>3 DEF Arrives, contentVars, ArticleCommentCreate, At
    <3>2. c \in DOMAIN comments /\ comments[c].live /\ comments[c].article = got[e].found
      BY <1>3, <3>1, CommentsFrame
    <3> QED BY <1>1, <1>3, <2>1, <3>2 DEF ExportInv
  <2> QED BY <2>2, <2>3
<1> QED BY <1>1, <1>2, <1>3 DEF ExportInv

\* An export that has found its article has the comments of that article and no
\* other, and all of them that were there all the time (ExportOfFound).
THEOREM ExportsOfFound == Spec => []ExportOfFound
<1> DEFINE Inv == \A e \in Requests : ExportInv(e)
<1>1. Init => Inv
  BY DEF Init, ExportInv
<1>2. OInv /\ OInv' /\ Inv /\ [Next]_vars => Inv'
  <2> SUFFICES ASSUME OInv, OInv', Inv, [Next]_vars, NEW e \in Requests PROVE ExportInv(e)'
    OBVIOUS
  <2>1. CASE UNCHANGED vars
    BY <2>1 DEF vars, requestVars, contentVars, ExportInv, Calling, Started, Kind
  <2>2. CASE Next
    <3>1. PICK p \in Requests : Step(p)
      BY <2>2 DEF Next, Step
    <3> QED BY <3>1, ExportMoves, ExportStays
  <2> QED BY <2>1, <2>2
<1>3. OInv /\ Inv => ExportOfFound
  <2> SUFFICES ASSUME Inv, NEW e \in Calling({"exportComments"}) \ hit, pc[e] = "done"
               PROVE  ExportInv(e) /\ e \in Requests
    BY DEF ExportOfFound, ExportInv
  <2> QED BY DEF Calling, Started
<1> HIDE DEF Inv
<1> QED BY <1>1, <1>2, <1>3, OrderHolds, PTL DEF Spec
-----------------------------------------------------------------------------
(***************************************************************************)
(* Updates of an account.  A rival of an update that has been answered is  *)
(* either answered too, or came later and has a copy with the new value.   *)
(***************************************************************************)
LEMMA UpdateSteps ==
  ASSUME OInv, NEW p \in Requests, Step(p), Kind(p) = "updateUser", pc[p] # "idle"
  PROVE  UserUpdate(p) /\ pc[p] = "begun"
<1>1. Fits(pc[p], Kind(p))
  BY DEF OInv, OrderInv
<1>2. pc[p] \notin {"author", "createAuthor", "serialize", "followings", "authors"}
  BY <1>1 DEF Fits, OnArticle, Lists
<1>3. ~ArticleStep(p)
  BY <1>2 DEF ArticleStep, At, AtAuthor, OnArticle, Lists, FindOneArticle,
        FindOneComment, FirstArticleUser, CreateArticleUser, ArticleSerializer, ArticleCreate,
        ArticleUpdate, ArticleDelete, ImportArticle, FirstFavorite, CreateFavorite, Unfavorite,
        ArticleCommentCreate, ArticleCommentDelete, FeedRefused, FeedFollowings, FeedAuthors,
        FeedArticles, FindListed, FindIds, FindManyArticle, FindFilter, ExportRows
<1>4. UserUpdate(p)
  BY <1>3 DEF Step, AccountStep, AuthMiddleware, Arrive, UsersRegistration, UsersLogin,
         FindProfile, FirstFollow, CreateFollow, Unfollow, At
<1> QED BY <1>4 DEF UserUpdate, At

\* Whose row an update writes.
Update(p) == users' = [users EXCEPT ![got[p].me] =
                         WrittenUser(users[got[p].me], got[p].user, call[p].given)]

LEMMA UpdateSays ==
  ASSUME OInv, NEW p \in Requests, UserUpdate(p)
  PROVE  /\ pc[p] = "begun" /\ Kind(p) = "updateUser" /\ pc'[p] = "done"
         /\ \/ /\ Update(p) /\ answer'[p] = 200 /\ Works
               /\ got[p].me # 0 /\ got[p].me = call[p].me /\ got[p].me \in DOMAIN users
               /\ got[p].user \in UserRows
               /\ ~EmailTaken(WrittenUser(users[got[p].me], got[p].user, call[p].given).email,
                              got[p].me)
            \/ users' = users /\ answer'[p] = 422
<1>1. pc[p] = "begun" /\ Kind(p) = "updateUser"
  BY DEF UserUpdate, At
<1>2. TypeInv /\ RequestInv(p) /\ got[p] \in Locals
  BY <1>1, Asked DEF OInv
<1>3. got[p].me # 0 => /\ got[p].me = call[p].me /\ got[p].me \in DOMAIN users
                       /\ got[p].user \in UserRows
  BY <1>1, <1>2, TableIds DEF RequestInv, CallerInv, Locals
<1>4. pc'[p] = "done" /\ (Reply(p, 200) => answer'[p] = 200) /\ (Reply(p, 422) => answer'[p] = 422)
  BY <1>2 DEF UserUpdate, Reply, TypeInv
<1> QED BY <1>1, <1>3, <1>4 DEF UserUpdate, Update

LEMMA UsersFrame ==
  ASSUME OInv, NEW p \in Requests, Step(p)
  PROVE  /\ DOMAIN users \subseteq DOMAIN users'
         /\ \A u \in DOMAIN users :
              \/ users'[u] = users[u]
              \/ /\ UserUpdate(p) /\ u = got[p].me /\ answer'[p] = 200
                 /\ users'[u] = WrittenUser(users[u], got[p].user, call[p].given)
<1>1. users \in Seq(UserRows)
  BY DEF OInv, IInv, TypeInv, Consistent
<1>2. CASE users' = users
  BY <1>2
<1>3. CASE UsersRegistration(p) /\ users' # users
  <2>1. users' = Append(users, Hashed(call[p].user))
    BY <1>3 DEF UsersRegistration
  <2> QED BY <1>1, <2>1, Appended
<1>4. CASE UserUpdate(p) /\ users' # users
  <2>1. Update(p) /\ answer'[p] = 200
    BY <1>4, UpdateSays
  <2> QED BY <1>1, <1>4, <2>1 DEF Update
<1> QED BY <1>2, <1>3, <1>4, WhoWrites

Updated(p) == UserUpdate(p) /\ answer'[p] = 200

LEMMA RowChanges ==
  ASSUME OInv, NEW p \in Requests, Step(p), NEW u \in DOMAIN users
  PROVE  users'[u] = users[u] \/ (Updated(p) /\ u = got[p].me)
  BY UsersFrame DEF Updated

LEMMA UpdateWorks ==
  ASSUME OInv, NEW r \in Requests, Updated(r)
  PROVE  /\ pc[r] = "begun" /\ Kind(r) = "updateUser"
         /\ got[r].me # 0 /\ got[r].me = call[r].me /\ got[r].me \in DOMAIN users
         /\ users'[got[r].me] = WrittenUser(users[got[r].me], got[r].user, call[r].given)
<1>1. UserUpdate(r) /\ answer'[r] # 422
  BY DEF Updated
<1>2. pc[r] = "begun" /\ Kind(r) = "updateUser"
  BY <1>1, UpdateSays
<1>3. Update(r) /\ got[r].me # 0 /\ got[r].me = call[r].me /\ got[r].me \in DOMAIN users
  BY <1>1, UpdateSays
<1> QED BY <1>2, <1>3 DEF Update, OInv, IInv, TypeInv, Consistent

UserRivals(p) == {q \in Calling({"updateUser"}) : call[q].me = call[p].me}

AccountInv ==
  \A p \in Calling({"updateUser"}), field \in {"username", "email", "bio"} :
    LastToGive(p, field, UserRivals(p)) /\ ~(field = "bio" /\ call[p].given[field] = "") =>
      /\ users[call[p].me][field] = call[p].given[field]
      /\ \A q \in UserRivals(p) : pc[q] = "begun" /\ p \in before[q] /\ got[q].me # 0 =>
           got[q].user[field] = call[p].given[field]

\* An answer that is the last of its rivals was so before.
LEMMA LastBefore ==
  ASSUME OInv, NEW r \in Requests, Step(r), NEW p \in Started, pc[p] = "done", NEW field,
         NEW R, R \subseteq Started, NEW S, R \subseteq S,
         Succeeded(p)', field \in DOMAIN call'[p].given,
         \A q \in S \ {p} : ~Overlap(p, q)' /\ (field \in DOMAIN call'[q].given => q \in before'[p])
  PROVE  LastToGive(p, field, R)
<1>1. p \in Requests
  BY DEF Started
<1>2. Succeeded(p) /\ call'[p] = call[p] /\ before'[p] = before[p]
  BY <1>1, DoneStays DEF Succeeded
<1>3. ASSUME NEW q \in R \ {p}
      PROVE  ~Overlap(p, q) /\ (field \in DOMAIN call[q].given => q \in before[p])
  <2>1. call'[q] = call[q] /\ before'[q] = before[q]
    BY <1>3, StartedStays
  <2> QED BY <1>2, <2>1 DEF Overlap
<1> QED BY <1>2, <1>3 DEF LastToGive

\* What the middleware leaves in the context.
LEMMA ArrivalCopies ==
  ASSUME OInv, NEW r \in Requests, Arrives(r)
  PROVE  got'[r].me # 0 => got'[r].me = call'[r].me /\ got'[r].user = users[call'[r].me]
<1>1. PICK c \in offered :
        /\ Arrive(r, c)
        /\ UNCHANGED got \/ got' = [got EXCEPT ![r].me = c.me, ![r].user = users[c.me]]
  BY DEF Arrives, AuthMiddleware
<1>2. TypeInv /\ pc[r] = "idle" /\ got[r] = Nothing
  BY DEF OInv, IInv, RequestInv, CallerInv, Arrives
<1>3. call'[r] = c
  BY <1>1, <1>2 DEF Arrive, TypeInv
<1>4. CASE UNCHANGED got
  BY <1>2, <1>4 DEF Nothing
<1>5. CASE got' = [got EXCEPT ![r].me = c.me, ![r].user = users[c.me]]
  BY <1>2, <1>3, <1>5 DEF TypeInv, Nothing
<1> QED BY <1>1, <1>4, <1>5

\* Who has succeeded is done.
LEMMA AnswerGiven ==
  ASSUME OInv', NEW p \in Requests, Succeeded(p)'
  PROVE  answer'[p] # 422 /\ pc'[p] = "done" /\ p \notin hit'
<1>1. answer'[p] \in {200, 201} /\ p \notin hit'
  BY DEF Succeeded
<1>2. answer'[p] # 0 /\ answer'[p] # 422
  BY <1>1
<1>3. pc'[p] # "done" => answer'[p] = 0
  BY DEF OInv, OrderInv
<1> QED BY <1>1, <1>2, <1>3

\* Who asks for an update has a row.
LEMMA UpdateHasRow ==
  ASSUME OInv, NEW p \in Requests, pc[p] # "idle", Kind(p) = "updateUser"
  PROVE  call[p].me \in DOMAIN users /\ call[p].me # 0
<1>1. CallOK(call[p], users) /\ TypeInv
  BY Asked DEF OInv
<1>2. call[p].me \in Nat /\ call[p].me <= Len(users) /\ call[p].me # 0
  BY <1>1 DEF CallOK, SignedIn, Kind
<1> QED BY <1>1, <1>2, TableIds

\* What an update leaves in a field of its row.
LEMMA UpdateField ==
  ASSUME OInv, NEW r \in Requests, Updated(r), NEW field \in {"username", "email", "bio"}
  PROVE  /\ field \in DOMAIN call[r].given /\ ~(field = "bio" /\ call[r].given[field] = "") =>
              users'[got[r].me][field] = call[r].given[field]
         /\ field \notin DOMAIN call[r].given /\ ~(field = "bio" /\ got[r].user[field] = "") =>
              users'[got[r].me][field] = got[r].user[field]
<1> DEFINE written == users'[got[r].me]
           row == users[got[r].me]
           copy == got[r].user
           given == call[r].given
<1>1. written = WrittenUser(row, copy, given)
  BY UpdateWorks
<1> HIDE DEF written, row, copy, given
<1>2. ASSUME field \in DOMAIN given, ~(field = "bio" /\ given[field] = "")
      PROVE  written[field] = given[field]
  <2>1. CASE field = "username"
    BY <1>1, <1>2, <2>1 DEF WrittenUser, Filled
  <2>2. CASE field = "email"
    BY <1>1, <1>2, <2>2 DEF WrittenUser, Filled
  <2>3. CASE field = "bio"
    BY <1>1, <1>2, <2>3 DEF WrittenUser, Filled
  <2> QED BY <2>1, <2>2, <2>3
<1>3. ASSUME field \notin DOMAIN given, ~(field = "bio" /\ copy[field] = "")
      PROVE  written[field] = copy[field]
  <2>1. CASE field = "username"
    BY <1>1, <1>3, <2>1 DEF WrittenUser, Filled
  <2>2. CASE field = "email"
    BY <1>1, <1>3, <2>2 DEF WrittenUser, Filled
  <2>3. CASE field = "bio"
    BY <1>1, <1>3, <2>3 DEF WrittenUser, Filled
  <2> QED BY <2>1, <2>2, <2>3
<1> QED BY <1>2, <1>3 DEF written, row, copy, given

\* The update is answered by this step.
LEMMA AccountAnswered ==
  ASSUME OInv, OInv', NEW p \in Requests, Step(p), (p \in Calling({"updateUser"}) /\ Succeeded(p))',
         NEW field \in {"username", "email", "bio"}, field \in DOMAIN call'[p].given,
         ~(field = "bio" /\ call'[p].given[field] = "")
  PROVE  /\ users'[call'[p].me][field] = call'[p].given[field]
         /\ \A q \in Requests : ~(pc'[q] = "begun" /\ p \in before'[q])
<1>1. Moved(p) /\ (Arrives(p) \/ Handles(p))
  BY StepMoves
<1>2. Kind(p)' = "updateUser"
  BY DEF Calling
<1>3. pc'[p] = "done" /\ answer'[p] # 422
  BY AnswerGiven
<1>4. Handles(p) /\ Kind(p) = "updateUser" /\ call'[p] = call[p]
  BY <1>1, <1>2, <1>3 DEF Arrives, Handles, Kind
<1>5. UserUpdate(p)
  BY <1>4, UpdateSteps DEF Handles
<1>6. Updated(p) /\ got[p].me = call[p].me
  BY <1>3, <1>5, UpdateSays DEF Updated
<1>7. field \in DOMAIN call[p].given /\ ~(field = "bio" /\ call[p].given[field] = "")
  BY <1>4
<1>8. users'[call[p].me][field] = call[p].given[field]
  <2>1. users'[got[p].me][field] = call[p].given[field]
    BY <1>6, <1>7, UpdateField
  <2> QED BY <1>6, <2>1
<1>9. ASSUME NEW q \in Requests, pc'[q] = "begun", p \in before'[q] PROVE FALSE
  <2>1. q # p
    BY <1>3, <1>9
  <2>2. p \in before[q]
    BY <1>1, <1>9, <2>1 DEF Moved
  <2> QED BY <1>1, <2>2 DEF OInv, OrderInv, Moved
<1> QED BY <1>4, <1>8, <1>9

LEMMA AccountKept ==
  ASSUME OInv, OInv', NEW r \in Requests, Step(r), AccountInv
  PROVE  AccountInv'
<1> SUFFICES ASSUME NEW p \in Calling({"updateUser"})', NEW field \in {"username", "email", "bio"},
                    LastToGive(p, field, UserRivals(p))',
                    ~(field = "bio" /\ call'[p].given[field] = "")
             PROVE  /\ users'[call'[p].me][field] = call'[p].given[field]
                    /\ \A q \in UserRivals(p)' :
                         pc'[q] = "begun" /\ p \in before'[q] /\ got'[q].me # 0 =>
                           got'[q].user[field] = call'[p].given[field]
  BY DEF AccountInv
<1>1. /\ p \in Requests /\ Succeeded(p)' /\ field \in DOMAIN call'[p].given
      /\ \A q \in UserRivals(p)' \ {p} :
           ~Overlap(p, q)' /\ (field \in DOMAIN call'[q].given => q \in before'[p])
      /\ UserRivals(p)' \subseteq Requests
  BY DEF LastToGive, Calling, Started, UserRivals
<1>2. Moved(r) /\ (Arrives(r) \/ Handles(r))
  BY StepMoves
<1>3. CASE pc[p] # "done"
  <2>1. pc'[p] = "done"
    BY <1>1, AnswerGiven
  <2>2. p = r
    BY <1>1, <1>2, <1>3, <2>1 DEF Moved
  <2> QED BY <1>1, <2>2, AccountAnswered
<1>4. CASE pc[p] = "done"
  <2>1. /\ p \in Started /\ p # r /\ call'[p] = call[p] /\ before'[p] = before[p]
        /\ p \in Calling({"updateUser"}) /\ Succeeded(p)
    BY <1>1, <1>4, DoneStays DEF Started, Calling, Succeeded
  <2>2. /\ UserRivals(p) \subseteq UserRivals(p)' /\ UserRivals(p) \subseteq Started
        /\ UserRivals(p)' \ {r} \subseteq UserRivals(p)
        /\ Handles(r) /\ r \in UserRivals(p)' => r \in UserRivals(p)
    <3>1. UserRivals(p) \subseteq UserRivals(p)'
      BY <2>1, StartedStays DEF UserRivals, Calling
    <3>2. ASSUME NEW q \in UserRivals(p)', q # r \/ Handles(r) PROVE q \in UserRivals(p)
      <4>1. /\ q \in Requests /\ pc'[q] # "idle" /\ call'[q].kind = "updateUser"
            /\ call'[q].me = call'[p].me
        BY DEF UserRivals, Calling, Started, Kind
      <4>2. call'[q] = call[q] /\ pc[q] # "idle"
        BY <1>2, <3>2, <4>1 DEF Moved, Handles
      <4> QED BY <2>1, <4>1, <4>2 DEF UserRivals, Calling, Started, Kind
    <3> QED BY <3>1, <3>2 DEF UserRivals, Calling
  <2>3. LastToGive(p, field, UserRivals(p))
    BY <1>1, <1>4, <2>1, <2>2, LastBefore
  <2>4. /\ users[call[p].me][field] = call[p].given[field]
        /\ \A q \in UserRivals(p) : pc[q] = "begun" /\ p \in before[q] /\ got[q].me # 0 =>
             got[q].user[field] = call[p].given[field]
    BY <2>1, <2>3 DEF AccountInv
  <2>5. call[p].me \in DOMAIN users
    <3>1. pc[p] # "idle" /\ Kind(p) = "updateUser"
      BY <1>4, <2>1 DEF Calling
    <3> QED BY <1>1, <3>1, UpdateHasRow
  <2>6. users'[call[p].me][field] = call[p].given[field]
    <3>1. CASE users'[call[p].me] = users[call[p].me]
      BY <2>4, <3>1
    <3>2. CASE Updated(r) /\ call[p].me = got[r].me
      <4>1. pc[r] = "begun" /\ Kind(r) = "updateUser"
        BY <3>2, UpdateWorks
      <4>2. got[r].me = call[r].me /\ got[r].me # 0
        BY <3>2, UpdateWorks
      <4>3. r \in UserRivals(p)
        BY <3>2, <4>1, <4>2 DEF UserRivals, Calling, Started
      <4>4. ~Overlap(p, r) /\ (field \in DOMAIN call[r].given => r \in before[p])
        BY <2>1, <2>3, <4>3 DEF LastToGive
      <4>5. r \notin before[p]
        BY <1>1, <4>1 DEF OInv, OrderInv
      <4>6. p \in before[r] /\ field \notin DOMAIN call[r].given
        BY <2>1, <4>4, <4>5 DEF Overlap
      <4>7. got[r].user[field] = call[p].given[field]
        BY <2>4, <4>1, <4>2, <4>3, <4>6
      <4>8. ~(field = "bio" /\ got[r].user[field] = "")
        BY <2>1, <4>7
      <4>9. users'[got[r].me][field] = got[r].user[field]
        BY <3>2, <4>6, <4>8, UpdateField
      <4> QED BY <3>2, <4>7, <4>9
    <3>3. users'[call[p].me] = users[call[p].me] \/ (Updated(r) /\ call[p].me = got[r].me)
      BY <2>5, RowChanges
    <3> QED BY <3>1, <3>2, <3>3
  <2>7. ASSUME NEW q \in UserRivals(p)', pc'[q] = "begun", p \in before'[q], got'[q].me # 0
        PROVE  got'[q].user[field] = call[p].given[field]
    <3>1. CASE q # r
      <4>1. q \in UserRivals(p) /\ pc[q] = "begun" /\ p \in before[q] /\ got'[q] = got[q]
        BY <1>1, <1>2, <2>2, <2>7, <3>1 DEF Moved
      <4> QED BY <2>4, <2>7, <4>1
    <3>2. CASE q = r
      <4>1. Arrives(r) /\ users' = users
        BY <1>2, <2>7, <3>2 DEF Handles, Arrives, accountVars
      <4>2. call'[r].me = call[p].me /\ Kind(r)' = "updateUser"
        BY <2>1, <2>7, <3>2 DEF UserRivals, Calling
      <4>3. got'[r].user = users[call[p].me]
        BY <4>1, <4>2, <2>7, <3>2, ArrivalCopies
      <4> QED BY <2>4, <3>2, <4>3
    <3> QED BY <3>1, <3>2
  <2> QED BY <2>1, <2>6, <2>7
<1> QED BY <1>3, <1>4
-----------------------------------------------------------------------------
(***************************************************************************)
(* Updates of an article, in the same way: the copy is made by             *)
(* FindOneArticle, and a row that was deleted is written no more.          *)
(***************************************************************************)
LEMMA ArticleUpdateSteps ==
  ASSUME OInv, NEW p \in Requests, Step(p), Kind(p) = "updateArticle", pc[p] # "idle"
  PROVE  \/ FindOneArticle(p) /\ pc[p] = "begun"
         \/ FirstArticleUser(p) /\ pc[p] = "author"
         \/ CreateArticleUser(p) /\ pc[p] = "createAuthor"
         \/ ArticleUpdate(p) /\ pc[p] = "write"
<1>1. Fits(pc[p], Kind(p))
  BY DEF OInv, OrderInv
<1>2. pc[p] \notin {"serialize", "followings", "authors"}
  BY <1>1 DEF Fits, OnArticle, Lists
<1>3. ~AccountStep(p)
  BY DEF AccountStep, AuthMiddleware, Arrive, UsersRegistration, UsersLogin, UserUpdate,
         FindProfile, FirstFollow, CreateFollow, Unfollow, At
<1>4. FindOneArticle(p) \/ FirstArticleUser(p) \/ CreateArticleUser(p) \/ ArticleUpdate(p)
  BY <1>2, <1>3 DEF Step, ArticleStep, At, Lists,
        FindOneComment, ArticleSerializer, ArticleCreate,
        ArticleDelete, ImportArticle, FirstFavorite, CreateFavorite, Unfavorite,
        ArticleCommentCreate, ArticleCommentDelete, FeedRefused, FeedFollowings, FeedAuthors,
        FeedArticles, FindListed, FindIds, FindManyArticle, FindFilter, ExportRows
<1> QED BY <1>4 DEF FindOneArticle, FirstArticleUser, CreateArticleUser, ArticleUpdate, At, AtAuthor

\* The author is looked up with the copy in hand.
LEMMA AuthorCopies ==
  ASSUME OInv, NEW p \in Requests, Kind(p) = "updateArticle",
         FirstArticleUser(p) \/ CreateArticleUser(p)
  PROVE  /\ UNCHANGED articles
         /\ \/ answer'[p] = 403 /\ pc'[p] = "done"
            \/ got'[p].article = got[p].article
<1>1. got[p] \in Locals /\ TypeInv
  BY DEF OInv, IInv, TypeInv
<1>2. UNCHANGED articles /\ (Goto(p, "createAuthor", got[p]) \/ \E au : AsAuthor(p, au))
  BY DEF FirstArticleUser, CreateArticleUser, contentVars
<1>3. ASSUME NEW au, AsAuthor(p, au)
      PROVE  Reply(p, 403) \/ Goto(p, "write", [got[p] EXCEPT !.au = au])
  BY <1>3 DEF AsAuthor, Going, Lists
<1>4. Reply(p, 403) => answer'[p] = 403 /\ pc'[p] = "done"
  BY <1>1 DEF Reply, TypeInv
<1>5. ASSUME NEW n, NEW au, Goto(p, n, [got[p] EXCEPT !.au = au])
      PROVE  got'[p].article = got[p].article
  BY <1>1, <1>5 DEF Goto, TypeInv, Locals
<1>6. Goto(p, "createAuthor", got[p]) => got'[p].article = got[p].article
  BY <1>1 DEF Goto, TypeInv
<1> QED BY <1>2, <1>3, <1>4, <1>5, <1>6

\* The copy is made of a row that is there.
LEMMA ArticleCopies ==
  ASSUME OInv, NEW p \in Requests, Kind(p) = "updateArticle", FindOneArticle(p)
  PROVE  /\ UNCHANGED articles
         /\ \/ answer'[p] = 404 /\ pc'[p] = "done"
            \/ /\ got'[p].found \in DOMAIN articles /\ articles[got'[p].found].live
               /\ got'[p].article = articles[got'[p].found]
<1> DEFINE named == {a \in DOMAIN articles : articles[a].slug = call[p].slug /\ articles[a].live}
           l == [got[p] EXCEPT !.found = Min(named), !.article = articles[Min(named)]]
<1>1. got[p] \in Locals /\ TypeInv
  BY DEF OInv, IInv, TypeInv
<1>2. UNCHANGED articles /\ (Reply(p, 404) \/ (named # {} /\ Goto(p, "author", l)))
  BY DEF FindOneArticle, contentVars
<1>3. Reply(p, 404) => answer'[p] = 404 /\ pc'[p] = "done"
  BY <1>1 DEF Reply, TypeInv
<1>4. ASSUME named # {}, Goto(p, "author", l)
      PROVE  /\ got'[p].found \in named
             /\ got'[p].article = articles[got'[p].found]
  <2>1. Min(named) \in named
    BY <1>1, <1>4, FirstRow, TableIds
  <2>2. l.found = Min(named) /\ l.article = articles[Min(named)]
    BY <1>1 DEF Locals
  <2>3. got'[p] = l
    BY <1>1, <1>4 DEF Goto, TypeInv
  <2> QED BY <2>1, <2>2, <2>3
<1> QED BY <1>2, <1>3, <1>4

Saved(p) == ArticleUpdate(p) /\ answer'[p] = 200

LEMMA UpdateSaved ==
  ASSUME OInv, NEW p \in Requests, Saved(p), NEW field \in {"title", "body"}
  PROVE  /\ got[p].found # 0 /\ got[p].found \in DOMAIN articles
         /\ articles'[got[p].found].live = articles[got[p].found].live
         /\ articles[got[p].found].live =>
              articles'[got[p].found][field] = Filled(call[p].given, got[p].article, field)
<1> DEFINE a == got[p].found
           t == Filled(call[p].given, got[p].article, "title")
           b == Filled(call[p].given, got[p].article, "body")
<1>1. TypeInv /\ ArticleInv(p) /\ At(p, "write", {"updateArticle"})
  BY DEF Saved, ArticleUpdate, OInv, IInv, RequestInv
<1>2. a # 0 /\ a <= Len(articles) /\ a \in Nat
  BY <1>1 DEF ArticleInv, At, OnArticle, TypeInv, Locals
<1>3. a \in DOMAIN articles /\ articles \in Seq(ArticleRows)
  BY <1>1, <1>2, TableIds DEF TypeInv, Consistent
<1>4. Written(p)
  BY DEF Saved, Written
<1>5. articles' = IF articles[a].live
                  THEN [articles EXCEPT ![a].slug = SlugOf[t], ![a].title = t, ![a].body = b]
                  ELSE articles
  BY <1>4 DEF Saved, ArticleUpdate
<1> HIDE DEF a, t, b
<1>6. articles[a] \in ArticleRows
  BY <1>3
<1>7. articles[a].live =>
        articles'[a] = [articles[a] EXCEPT !.slug = SlugOf[t], !.title = t, !.body = b]
  BY <1>3, <1>5
<1>8. /\ articles'[a].live = articles[a].live
      /\ articles[a].live => articles'[a].title = t /\ articles'[a].body = b
  <2>1. CASE articles[a].live
    BY <1>6, <1>7, <2>1 DEF ArticleRows
  <2>2. CASE ~articles[a].live
    BY <1>5, <2>2
  <2> QED BY <2>1, <2>2
<1>9. articles[a].live =>
        articles'[a][field] = Filled(call[p].given, got[p].article, field)
  <2>1. CASE field = "title"
    BY <1>8, <2>1 DEF t
  <2>2. CASE field = "body"
    BY <1>8, <2>2 DEF b
  <2> QED BY <2>1, <2>2
<1> QED BY <1>2, <1>3, <1>8, <1>9 DEF a

\* What is not saved stays.
LEMMA FieldChanges ==
  ASSUME OInv, NEW p \in Requests, Step(p), NEW a \in DOMAIN articles,
         NEW field \in {"title", "body"}
  PROVE  /\ a \in DOMAIN articles' /\ (articles'[a].live => articles[a].live)
         /\ articles'[a][field] = articles[a][field] \/ (Saved(p) /\ got[p].found = a)
<1>1. CASE ArticleUpdate(p) /\ ~Saved(p)
  <2>1. ~Written(p)
    <3>1. Write(p, articles[got[p].found].live
                   /\ SlugTaken(SlugOf[Filled(call[p].given, got[p].article, "title")],
                                got[p].found), 200)
      BY <1>1 DEF ArticleUpdate
    <3>2. Reply(p, 422)
      <4>1. Reply(p, 200) => answer'[p] = 200
        BY DEF Reply, OInv, IInv, TypeInv
      <4> QED BY <1>1, <3>1, <4>1 DEF Write, Saved
    <3>3. answer'[p] = 422
      BY <3>2 DEF Reply, OInv, IInv, TypeInv
    <3> QED BY <3>3 DEF Written
  <2> QED BY <1>1, <2>1 DEF ArticleUpdate
<1>2. CASE ~ArticleUpdate(p) \/ Saved(p)
  <2>1. CASE field = "title"
    BY <1>2, <2>1, ArticlesFrame
  <2>2. CASE field = "body"
    BY <1>2, <2>2, ArticlesFrame
  <2> QED BY <2>1, <2>2
<1> QED BY <1>1, <1>2

ArticleRivals(p) == {q \in Calling({"updateArticle"}) : got[q].found = got[p].found}

EditInv ==
  \A p \in Calling({"updateArticle"}) : Succeeded(p) =>
    /\ got[p].found # 0 /\ got[p].found \in DOMAIN articles
    /\ articles[got[p].found].live =>
         \A field \in {"title", "body"} : LastToGive(p, field, ArticleRivals(p)) =>
           /\ articles[got[p].found][field] = call[p].given[field]
           /\ \A q \in ArticleRivals(p) :
                p \in before[q] /\ pc[q] \in {"author", "createAuthor", "write"} =>
                  got[q].article[field] = call[p].given[field]

\* The update is answered by this step.
LEMMA EditAnswered ==
  ASSUME OInv, OInv', NEW p \in Requests, Step(p),
         (p \in Calling({"updateArticle"}) /\ Succeeded(p))', pc[p] # "done"
  PROVE  /\ Saved(p) /\ Moved(p) /\ Handles(p) /\ pc[p] = "write" /\ pc'[p] = "done"
         /\ \A q \in Requests : p \notin before'[q]
<1>1. Moved(p) /\ (Arrives(p) \/ Handles(p)) /\ pc'[p] = "done"
  BY StepMoves, AnswerGiven
<1>2. Handles(p) /\ Kind(p) = "updateArticle" /\ pc[p] # "idle"
  BY <1>1 DEF Arrives, Handles, Calling, Kind
<1>3. answer'[p] \notin {403, 404, 422}
  BY DEF Succeeded
<1>4. ~FindOneArticle(p)
  <2> SUFFICES ASSUME FindOneArticle(p) PROVE FALSE
    OBVIOUS
  <2>1. (\E l : Goto(p, "author", l)) \/ Reply(p, 404)
    BY <1>2 DEF FindOneArticle
  <2>2. ~Reply(p, 404)
    BY <1>3 DEF Reply, OInv, IInv, TypeInv
  <2> QED BY <1>1, <2>1, <2>2 DEF Goto, OInv, IInv, TypeInv
<1>5. ~FirstArticleUser(p) /\ ~CreateArticleUser(p)
  <2> SUFFICES ASSUME FirstArticleUser(p) \/ CreateArticleUser(p) PROVE FALSE
    OBVIOUS
  <2>1. Goto(p, "createAuthor", got[p]) \/ \E au : AsAuthor(p, au)
    BY DEF FirstArticleUser, CreateArticleUser
  <2>2. ASSUME NEW au, AsAuthor(p, au)
        PROVE  Reply(p, 403) \/ Goto(p, "write", [got[p] EXCEPT !.au = au])
    BY <1>2, <2>2 DEF AsAuthor, Going, Lists
  <2>3. ~Reply(p, 403)
    BY <1>3 DEF Reply, OInv, IInv, TypeInv
  <2>4. ASSUME NEW n \in {"createAuthor", "write"}, NEW l, Goto(p, n, l) PROVE FALSE
    BY <1>1, <2>4 DEF Goto, OInv, IInv, TypeInv
  <2> QED BY <2>1, <2>2, <2>3, <2>4
<1>6. ArticleUpdate(p) /\ pc[p] = "write"
  BY <1>2, <1>4, <1>5, ArticleUpdateSteps
<1>7. Saved(p)
  <2>1. Reply(p, 200) \/ Reply(p, 422)
    BY <1>6 DEF ArticleUpdate, Write
  <2> QED BY <1>3, <1>6, <2>1 DEF Reply, OInv, IInv, TypeInv, Saved
<1>8. ASSUME NEW q \in Requests, p \in before'[q] PROVE FALSE
  <2>1. before'[q] = before[q]
    BY <1>1, <1>2 DEF Moved, Handles
  <2> QED BY <1>1, <1>8, <2>1 DEF Moved, OInv, OrderInv
<1> QED BY <1>1, <1>2, <1>6, <1>7, <1>8

\* Rivals of an update that found its article stay rivals.
LEMMA RivalsStay ==
  ASSUME OInv, NEW r \in Requests, Step(r), NEW p \in Requests, pc[p] = "done",
         got[p].found # 0, Kind(p) = "updateArticle"
  PROVE  /\ ArticleRivals(p) \subseteq ArticleRivals(p)' /\ ArticleRivals(p) \subseteq Started
         /\ ArticleRivals(p)' \ {r} \subseteq ArticleRivals(p)
         /\ r \in ArticleRivals(p)' /\ pc[r] \notin {"idle", "begun"} => r \in ArticleRivals(p)
<1>1. Moved(r) /\ (Arrives(r) \/ Handles(r))
  BY StepMoves
<1>2. got'[p] = got[p]
  BY DoneStays
<1>3. ASSUME NEW q \in ArticleRivals(p) PROVE q \in ArticleRivals(p)' /\ q \in Started
  <2>1. q \in Started /\ q \in Requests /\ Kind(q) = "updateArticle" /\ got[q].found = got[p].found
    BY DEF ArticleRivals, Calling, Started
  <2>2. q \in Started' /\ Kind(q)' = Kind(q)
    BY <2>1, StartedStays
  <2>3. pc[q] # "begun"
    BY <2>1 DEF OInv, IInv, RequestInv, CallerInv
  <2>4. got'[q].found = got[q].found
    BY <1>1, <2>1, <2>3 DEF Moved, Handles, Arrives, Started
  <2> QED BY <1>2, <2>1, <2>2, <2>4 DEF ArticleRivals, Calling
<1>4. ASSUME NEW q \in ArticleRivals(p)', q # r \/ pc[r] \notin {"idle", "begun"}
      PROVE  q \in ArticleRivals(p)
  <2>1. /\ q \in Requests /\ pc'[q] # "idle" /\ call'[q].kind = "updateArticle"
        /\ got'[q].found = got'[p].found
    BY DEF ArticleRivals, Calling, Started, Kind
  <2>2. call'[q] = call[q] /\ pc[q] # "idle" /\ got'[q].found = got[q].found
    BY <1>1, <1>4, <2>1 DEF Moved, Handles, Arrives
  <2> QED BY <1>2, <2>1, <2>2 DEF ArticleRivals, Calling, Started, Kind
<1> QED BY <1>3, <1>4

LEMMA EditKept ==
  ASSUME OInv, OInv', NEW r \in Requests, Step(r), EditInv
  PROVE  EditInv'
<1> SUFFICES ASSUME NEW p \in Calling({"updateArticle"})', Succeeded(p)'
             PROVE  /\ got'[p].found # 0 /\ got'[p].found \in DOMAIN articles'
                    /\ articles'[got'[p].found].live =>
                         \A field \in {"title", "body"} :
                           LastToGive(p, field, ArticleRivals(p))' =>
                             /\ articles'[got'[p].found][field] = call'[p].given[field]
                             /\ \A q \in ArticleRivals(p)' :
                                  /\ p \in before'[q]
                                  /\ pc'[q] \in {"author", "createAuthor", "write"}
                                  => got'[q].article[field] = call'[p].given[field]
  BY DEF EditInv
<1>1. p \in Requests /\ pc'[p] = "done"
  BY AnswerGiven DEF Calling, Started
<1>2. Moved(r) /\ (Arrives(r) \/ Handles(r))
  BY StepMoves
<1>3. CASE pc[p] # "done"
  <2>1. p = r
    BY <1>1, <1>2, <1>3 DEF Moved
  <2>2. /\ Saved(p) /\ Handles(p) /\ pc[p] = "write"
        /\ \A q \in Requests : p \notin before'[q]
    BY <1>1, <1>3, <2>1, EditAnswered
  <2>3. got'[p].found = got[p].found /\ call'[p] = call[p]
    BY <2>2 DEF Handles
  <2>4. got[p].found # 0 /\ got[p].found \in DOMAIN articles
        /\ articles'[got[p].found].live = articles[got[p].found].live
    BY <1>1, <2>2, UpdateSaved
  <2>5. got[p].found \in DOMAIN articles'
    BY <1>1, <2>1, <2>4, ArticlesFrame
  <2>6. ASSUME NEW field \in {"title", "body"}, LastToGive(p, field, ArticleRivals(p))',
               articles[got[p].found].live
        PROVE  articles'[got[p].found][field] = call[p].given[field]
    <3>1. articles'[got[p].found][field] = Filled(call[p].given, got[p].article, field)
      BY <1>1, <2>2, <2>6, UpdateSaved
    <3>2. field \in DOMAIN call[p].given
      BY <2>3, <2>6 DEF LastToGive
    <3> QED BY <3>1, <3>2 DEF Filled
  <2>7. ArticleRivals(p)' \subseteq Requests
    BY DEF ArticleRivals, Calling, Started
  <2> QED BY <2>2, <2>3, <2>4, <2>5, <2>6, <2>7
<1>4. CASE pc[p] = "done"
  <2> DEFINE a == got[p].found
  <2>1. /\ p \in Started /\ p # r /\ call'[p] = call[p] /\ before'[p] = before[p]
        /\ got'[p] = got[p] /\ p \in Calling({"updateArticle"}) /\ Succeeded(p)
        /\ Kind(p) = "updateArticle"
    BY <1>1, <1>4, DoneStays DEF Started, Calling, Succeeded
  <2>2. a # 0 /\ a \in DOMAIN articles
    BY <2>1 DEF EditInv
  <2>3. /\ ArticleRivals(p) \subseteq ArticleRivals(p)' /\ ArticleRivals(p) \subseteq Started
        /\ ArticleRivals(p)' \ {r} \subseteq ArticleRivals(p)
        /\ r \in ArticleRivals(p)' /\ pc[r] \notin {"idle", "begun"} => r \in ArticleRivals(p)
        /\ ArticleRivals(p)' \subseteq Requests
    <3>1. ArticleRivals(p)' \subseteq Requests
      BY DEF ArticleRivals, Calling, Started
    <3> QED BY <1>1, <1>4, <2>1, <2>2, <3>1, RivalsStay
  <2>4. a \in DOMAIN articles' /\ (articles'[a].live => articles[a].live)
    BY <2>2, FieldChanges
  <2>5. ASSUME NEW field \in {"title", "body"}, LastToGive(p, field, ArticleRivals(p))',
               articles'[a].live
        PROVE  /\ articles'[a][field] = call[p].given[field]
               /\ \A q \in ArticleRivals(p)' :
                    p \in before'[q] /\ pc'[q] \in {"author", "createAuthor", "write"} =>
                      got'[q].article[field] = call[p].given[field]
    <3>1. LastToGive(p, field, ArticleRivals(p))
      <4>1. /\ field \in DOMAIN call'[p].given
            /\ \A q \in ArticleRivals(p)' \ {p} :
                 ~Overlap(p, q)' /\ (field \in DOMAIN call'[q].given => q \in before'[p])
        BY <2>5 DEF LastToGive
      <4> QED BY <1>4, <2>1, <2>3, <4>1, LastBefore
    <3>2. /\ articles[a].live /\ articles[a][field] = call[p].given[field]
          /\ \A q \in ArticleRivals(p) :
               p \in before[q] /\ pc[q] \in {"author", "createAuthor", "write"} =>
                 got[q].article[field] = call[p].given[field]
      BY <2>1, <2>4, <2>5, <3>1 DEF EditInv
    <3>3. articles'[a][field] = call[p].given[field]
      <4>1. CASE articles'[a][field] = articles[a][field]
        BY <3>2, <4>1
      <4>2. CASE Saved(r) /\ got[r].found = a
        <5>1. pc[r] = "write" /\ Kind(r) = "updateArticle"
          BY <4>2 DEF Saved, ArticleUpdate, At
        <5>2. r \in ArticleRivals(p)
          BY <4>2, <5>1 DEF ArticleRivals, Calling, Started
        <5>3. ~Overlap(p, r) /\ (field \in DOMAIN call[r].given => r \in before[p])
          BY <2>1, <3>1, <5>2 DEF LastToGive
        <5>4. r \notin before[p]
          BY <1>1, <5>1 DEF OInv, OrderInv
        <5>5. p \in before[r] /\ field \notin DOMAIN call[r].given
          BY <2>1, <5>3, <5>4 DEF Overlap
        <5>6. got[r].article[field] = call[p].given[field]
          BY <3>2, <5>1, <5>2, <5>5
        <5>7. articles'[a][field] = Filled(call[r].given, got[r].article, field)
          BY <3>2, <4>2, UpdateSaved
        <5> QED BY <5>5, <5>6, <5>7 DEF Filled
      <4> QED BY <2>2, <4>1, <4>2, FieldChanges
    <3>4. ASSUME NEW q \in ArticleRivals(p)', p \in before'[q],
                 pc'[q] \in {"author", "createAuthor", "write"}
          PROVE  got'[q].article[field] = call[p].given[field]
      <4>1. CASE q # r
        <5>1. q \in ArticleRivals(p) /\ pc'[q] = pc[q] /\ before'[q] = before[q] /\ got'[q] = got[q]
          BY <1>2, <2>3, <4>1 DEF Moved
        <5> QED BY <3>2, <3>4, <5>1
      <4>2. CASE q = r
        <5>1. Handles(r)
          BY <1>2, <3>4, <4>2 DEF Arrives
        <5>2. /\ pc[r] # "idle" /\ Kind(r) = "updateArticle" /\ got'[r].found = a
              /\ p \in before[r]
          BY <2>1, <3>4, <4>2, <5>1 DEF Handles, ArticleRivals, Calling, Kind
        <5>3. CASE FindOneArticle(r)
          BY <3>2, <3>4, <4>2, <5>2, <5>3, ArticleCopies
        <5>4. CASE (FirstArticleUser(r) \/ CreateArticleUser(r)) /\ pc[r] \in {"author", "createAuthor"}
          <6>1. r \in ArticleRivals(p)
            BY <2>3, <3>4, <4>2, <5>4
          <6>2. got'[r].article = got[r].article
            BY <3>4, <4>2, <5>2, <5>4, AuthorCopies
          <6> QED BY <3>2, <4>2, <5>2, <5>4, <6>1, <6>2
        <5>5. ~ArticleUpdate(r)
          BY <3>4, <4>2 DEF ArticleUpdate, Write, Reply, OInv, IInv, TypeInv
        <5> QED BY <5>2, <5>3, <5>4, <5>5, ArticleUpdateSteps
      <4> QED BY <4>1, <4>2
    <3> QED BY <3>3, <3>4
  <2> QED BY <2>1, <2>2, <2>4, <2>5
<1> QED BY <1>3, <1>4

\* What follows each other adds up (UpdatesAddUp).
THEOREM UpdatesFollow == Spec => []UpdatesAddUp
<1> DEFINE Inv == AccountInv /\ EditInv
<1>1. Init => Inv
  BY DEF Init, AccountInv, EditInv, Calling, Started
<1>2. OInv /\ OInv' /\ Inv /\ [Next]_vars => Inv'
  <2> SUFFICES ASSUME OInv, OInv', Inv, [Next]_vars PROVE Inv'
    OBVIOUS
  <2>1. CASE UNCHANGED vars
    <3>1. /\ call' = call /\ pc' = pc /\ got' = got /\ answer' = answer /\ hit' = hit
          /\ before' = before /\ users' = users /\ articles' = articles
      BY <2>1 DEF vars, requestVars, accountVars, contentVars
    <3>2. AccountInv'
      <4>1. Calling({"updateUser"})' = Calling({"updateUser"})
        BY ONLY <3>1 DEF Calling, Started, Kind
      <4>2. ASSUME NEW p, NEW field
            PROVE  /\ UserRivals(p)' = UserRivals(p)
                   /\ LastToGive(p, field, UserRivals(p))' = LastToGive(p, field, UserRivals(p))
        BY ONLY <3>1 DEF Calling, Started, Kind, LastToGive, Succeeded, Overlap, UserRivals
      <4>3. ASSUME NEW p \in Calling({"updateUser"}), NEW field \in {"username", "email", "bio"},
                   LastToGive(p, field, UserRivals(p)),
                   ~(field = "bio" /\ call[p].given[field] = "")
            PROVE  /\ users[call[p].me][field] = call[p].given[field]
                   /\ \A q \in UserRivals(p) :
                        pc[q] = "begun" /\ p \in before[q] /\ got[q].me # 0 =>
                          got[q].user[field] = call[p].given[field]
        BY <4>3 DEF AccountInv
      <4>4. ASSUME NEW p \in Calling({"updateUser"})', NEW field \in {"username", "email", "bio"},
                   LastToGive(p, field, UserRivals(p))',
                   ~(field = "bio" /\ call'[p].given[field] = "")
            PROVE  /\ users'[call'[p].me][field] = call'[p].given[field]
                   /\ \A q \in UserRivals(p)' :
                        pc'[q] = "begun" /\ p \in before'[q] /\ got'[q].me # 0 =>
                          got'[q].user[field] = call'[p].given[field]
        <5>1. p \in Calling({"updateUser"}) /\ LastToGive(p, field, UserRivals(p))
          BY <4>1, <4>2, <4>4
        <5>2. ~(field = "bio" /\ call[p].given[field] = "")
          BY <3>1, <4>4
        <5>3. users'[call'[p].me][field] = call'[p].given[field]
          BY <3>1, <4>3, <5>1, <5>2
        <5>4. ASSUME NEW q \in UserRivals(p)', pc'[q] = "begun", p \in before'[q], got'[q].me # 0
              PROVE  got'[q].user[field] = call'[p].given[field]
          <6>1. q \in UserRivals(p) /\ pc[q] = "begun" /\ p \in before[q] /\ got[q].me # 0
            BY <3>1, <4>2, <5>4
          <6> QED BY <3>1, <4>3, <5>1, <5>2, <6>1
        <5> QED BY <5>3, <5>4
      <4> QED BY ONLY <4>4 DEF AccountInv
    <3>3. EditInv'
      BY ONLY <3>1, EditInv DEF EditInv, Calling, Started, Kind, LastToGive, Succeeded,
                                Overlap, ArticleRivals
    <3> QED BY <3>2, <3>3
  <2>2. CASE Next
    <3>1. PICK r \in Requests : Step(r)
      BY <2>2 DEF Next, Step
    <3> QED BY <3>1, AccountKept, EditKept
  <2> QED BY <2>1, <2>2
<1>3. Inv => UpdatesAddUp
  <2> SUFFICES ASSUME Inv PROVE UpdatesAddUp
    OBVIOUS
  <2>1. ASSUME NEW p \in Calling({"updateUser"}), NEW field \in {"username", "email", "bio"},
               LastToGive(p, field, UserRivals(p))
        PROVE  users[call[p].me][field] = call[p].given[field]
                 \/ (field = "bio" /\ call[p].given[field] = "")
    BY <2>1 DEF AccountInv
  <2>2. ASSUME NEW p \in Calling({"updateArticle"}), NEW field \in {"title", "body"},
               LastToGive(p, field, ArticleRivals(p))
        PROVE  articles[got[p].found][field] = call[p].given[field]
                 \/ ~articles[got[p].found].live
    <3>1. Succeeded(p)
      BY <2>2 DEF LastToGive
    <3> QED BY <2>2, <3>1 DEF EditInv
  <2> QED BY <2>1, <2>2 DEF UpdatesAddUp, UserRivals, ArticleRivals
<1> HIDE DEF Inv
<1> QED BY <1>1, <1>2, <1>3, OrderHolds, PTL DEF Spec
-----------------------------------------------------------------------------
(***************************************************************************)
(* Follows and favourites.  A row that an answer spoke of goes away or     *)
(* comes back only by a request for the contrary of the same user, and     *)
(* those were all done before the answered one arrived.                    *)
(***************************************************************************)
LEMMA KnowsCaller ==
  ASSUME OInv, NEW p \in Requests, pc[p] # "idle"
  PROVE  /\ got[p].me \in {0, call[p].me}
         /\ Kind(p) \in SignedIn => call[p].me # 0
         /\ p \notin hit => got[p].me = call[p].me
<1>1. CallOK(call[p], users) /\ CallerInv(p)
  BY Asked DEF OInv, IInv, RequestInv
<1> QED BY <1>1 DEF CallOK, CallerInv, Kind

\* Requests for the contrary that are done stay away.
LEMMA ContrariesStay ==
  ASSUME OInv, NEW r \in Requests, Step(r), NEW p \in Started, NEW kind,
         \A q \in SamePair(p, kind)' : q \in before'[p]
  PROVE  /\ \A q \in SamePair(p, kind) : q \in before[p]
         /\ pc[r] # "idle" /\ Kind(r) = kind => got[r].me # call[p].me \/ call[p].me = 0
<1>1. call'[p] = call[p] /\ before'[p] = before[p] /\ p \in Requests
  BY StartedStays
<1>2. ASSUME NEW q \in SamePair(p, kind) PROVE q \in before[p]
  <2>1. q \in Started /\ Kind(q) = kind /\ call[q].me = call[p].me
    BY DEF SamePair, Calling
  <2>2. q \in Started' /\ call'[q] = call[q] /\ Kind(q)' = Kind(q)
    BY <2>1, StartedStays
  <2>3. q \in SamePair(p, kind)'
    BY <1>1, <2>1, <2>2 DEF SamePair, Calling
  <2> QED BY <1>1, <2>3
<1>3. ASSUME pc[r] # "idle", Kind(r) = kind, got[r].me = call[p].me, call[p].me # 0 PROVE FALSE
  <2>1. call[r].me = call[p].me
    BY <1>3, KnowsCaller
  <2>2. r \in SamePair(p, kind)
    BY <1>3, <2>1 DEF SamePair, Calling, Started
  <2>3. pc[r] = "done"
    BY <1>1, <1>2, <2>2 DEF OInv, OrderInv
  <2> QED BY <2>3, StepMoves DEF Moved
<1> QED BY <1>2, <1>3

LEMMA FollowSteps ==
  ASSUME OInv, NEW p \in Requests, Step(p), Kind(p) \in {"follow", "unfollow"}, pc[p] # "idle"
  PROVE  /\ UNCHANGED contentVars
         /\ \/ FindProfile(p)
            \/ FirstFollow(p) /\ Kind(p) = "follow"
            \/ CreateFollow(p) /\ Kind(p) = "follow"
            \/ Unfollow(p) /\ Kind(p) = "unfollow"
<1>1. Fits(pc[p], Kind(p))
  BY DEF OInv, OrderInv
<1>2. pc[p] \notin {"author", "createAuthor", "serialize", "followings", "authors"}
  BY <1>1 DEF Fits, OnArticle, Lists
<1>3. ~ArticleStep(p)
  BY <1>2 DEF ArticleStep, At, AtAuthor, OnArticle, Lists, FindOneArticle,
        FindOneComment, FirstArticleUser, CreateArticleUser, ArticleSerializer, ArticleCreate,
        ArticleUpdate, ArticleDelete, ImportArticle, FirstFavorite, CreateFavorite, Unfavorite,
        ArticleCommentCreate, ArticleCommentDelete, FeedRefused, FeedFollowings, FeedAuthors,
        FeedArticles, FindListed, FindIds, FindManyArticle, FindFilter, ExportRows
<1>4. ~AuthMiddleware(p) /\ AccountStep(p) /\ UNCHANGED contentVars
  BY <1>3 DEF Step, AuthMiddleware, Arrive
<1> QED BY <1>4 DEF AccountStep, UsersRegistration, UsersLogin, UserUpdate, FirstFollow,
                    CreateFollow, Unfollow, At

FollowInv(p) ==
  p \in Calling({"follow", "unfollow"}) /\ Succeeded(p) =>
    /\ Kind(p) = "follow" /\ (\A q \in SamePair(p, "unfollow") : q \in before[p]) =>
         FollowRows(call[p].me, got[p].found) # {}
    /\ Kind(p) = "unfollow" /\ (\A q \in SamePair(p, "follow") : q \in before[p]) =>
         FollowRows(call[p].me, got[p].found) = {}

\* What stands after the answer that this step gives.
LEMMA FollowAnswered ==
  ASSUME OInv, OInv', NEW p \in Requests, Step(p), pc[p] # "done",
         (p \in Calling({"follow", "unfollow"}) /\ Succeeded(p))'
  PROVE  /\ Kind(p)' = "follow" => FollowRows(call[p].me, got[p].found)' # {}
         /\ Kind(p)' = "unfollow" => FollowRows(call[p].me, got[p].found)' = {}
<1>1. Moved(p) /\ (Arrives(p) \/ Handles(p)) /\ pc'[p] = "done" /\ p \notin hit'
  BY StepMoves, AnswerGiven
<1>2. /\ Handles(p) /\ Kind(p) \in {"follow", "unfollow"} /\ pc[p] # "idle" /\ call'[p] = call[p]
      /\ p \notin hit /\ Kind(p)' = Kind(p)
  BY <1>1 DEF Arrives, Handles, Calling, Kind, Moved
<1>3. got[p].me = call[p].me /\ call[p].me # 0
  BY <1>2, KnowsCaller DEF SignedIn
<1>4. follows \in Seq(FollowRecords) /\ TypeInv
  BY DEF OInv, IInv, TypeInv, Consistent
<1>5. answer'[p] \notin {404, 422}
  BY DEF Succeeded
<1>6. ~FindProfile(p)
  <2> SUFFICES ASSUME FindProfile(p) PROVE FALSE
    OBVIOUS
  <2>1. (\E l : Goto(p, "found", l)) \/ Reply(p, 404)
    BY DEF FindProfile
  <2>2. ~Reply(p, 404)
    BY <1>4, <1>5 DEF Reply, TypeInv
  <2> QED BY <1>1, <1>4, <2>1, <2>2 DEF Goto, TypeInv
<1>7. ~Reply(p, 422)
  BY <1>4, <1>5 DEF Reply, TypeInv
<1>8. CASE FirstFollow(p) /\ Kind(p) = "follow"
  <2>1. follows' = follows /\ pc[p] = "found"
    BY <1>8 DEF FirstFollow, At, accountVars
  <2>2. ~Goto(p, "create", got[p])
    BY <1>1, <1>4 DEF Goto, TypeInv
  <2>3. FollowRows(got[p].me, got[p].found) # {}
    BY <1>7, <1>8, <2>2 DEF FirstFollow
  <2>4. got'[p].found = got[p].found
    BY <1>2, <2>1 DEF Handles
  <2> QED BY <1>2, <1>3, <1>8, <2>1, <2>3, <2>4 DEF FollowRows
<1>9. CASE CreateFollow(p) /\ Kind(p) = "follow"
  <2>1. /\ follows' = Append(follows, [by |-> got[p].me, of |-> got[p].found, live |-> TRUE])
        /\ pc[p] = "create"
    BY <1>7, <1>9 DEF CreateFollow, At
  <2>2. got'[p].found = got[p].found
    BY <1>2, <2>1 DEF Handles
  <2> DEFINE n == Len(follows) + 1
  <2>3. n \in DOMAIN follows'
        /\ follows'[n] = [by |-> got[p].me, of |-> got[p].found, live |-> TRUE]
    BY <1>4, <2>1, Appended
  <2>4. n \in FollowRows(call[p].me, got[p].found)'
    BY <1>2, <1>3, <2>2, <2>3 DEF FollowRows
  <2> QED BY <1>2, <1>9, <2>4
<1>10. CASE Unfollow(p) /\ Kind(p) = "unfollow"
  <2>1. /\ follows' = [f \in DOMAIN follows |->
                         IF follows[f].by = got[p].me /\ follows[f].of = got[p].found
                         THEN [follows[f] EXCEPT !.live = FALSE] ELSE follows[f]]
        /\ pc[p] = "found"
    BY <1>7, <1>10 DEF Unfollow, At
  <2>2. got'[p].found = got[p].found
    BY <1>2, <2>1 DEF Handles
  <2>3. ASSUME NEW f \in DOMAIN follows', follows'[f].live, follows'[f].of = got[p].found,
               follows'[f].by = got[p].me
        PROVE  FALSE
    <3>1. follows[f] \in FollowRecords /\ f \in DOMAIN follows
      BY <1>4, <2>1
    <3>2. CASE follows[f].by = got[p].me /\ follows[f].of = got[p].found
      <4>1. follows'[f] = [follows[f] EXCEPT !.live = FALSE]
        BY <2>1, <3>1, <3>2
      <4>2. follows'[f].live = FALSE
        BY <3>1, <4>1 DEF FollowRecords
      <4> QED BY <2>3, <4>2
    <3>3. CASE ~(follows[f].by = got[p].me /\ follows[f].of = got[p].found)
      BY <2>1, <2>3, <3>1, <3>3
    <3> QED BY <3>2, <3>3
  <2>4. FollowRows(call[p].me, got[p].found)' = {}
    BY <1>2, <1>3, <2>2, <2>3 DEF FollowRows
  <2> QED BY <1>2, <1>10, <2>4
<1> QED BY <1>2, <1>6, <1>8, <1>9, <1>10, FollowSteps

LEMMA FollowKept ==
  ASSUME OInv, OInv', NEW r \in Requests, Step(r), NEW p \in Requests, FollowInv(p)
  PROVE  FollowInv(p)'
<1> SUFFICES ASSUME (p \in Calling({"follow", "unfollow"}) /\ Succeeded(p))'
             PROVE  FollowInv(p)'
  BY DEF FollowInv
<1>1. Moved(r) /\ (Arrives(r) \/ Handles(r)) /\ pc'[p] = "done"
  BY StepMoves, AnswerGiven
<1>2. CASE pc[p] # "done"
  <2>1. p = r
    BY <1>1, <1>2 DEF Moved
  <2> QED BY <1>2, <2>1, FollowAnswered DEF FollowInv
<1>3. CASE pc[p] = "done"
  <2>1. /\ p \in Started /\ call'[p] = call[p] /\ before'[p] = before[p] /\ got'[p] = got[p]
        /\ p \in Calling({"follow", "unfollow"}) /\ Succeeded(p) /\ Kind(p)' = Kind(p)
    BY <1>3, DoneStays DEF Started, Calling, Succeeded
  <2>2. call[p].me # 0
    BY <2>1, KnowsCaller DEF SignedIn, Calling, Started
  <2>3. follows \in Seq(FollowRecords)
    BY DEF OInv, IInv, TypeInv, Consistent
  <2>4. ASSUME Kind(p) = "follow", \A q \in SamePair(p, "unfollow")' : q \in before'[p]
        PROVE  FollowRows(call[p].me, got[p].found)' # {}
    <3>1. /\ \A q \in SamePair(p, "unfollow") : q \in before[p]
          /\ pc[r] # "idle" /\ Kind(r) = "unfollow" => got[r].me # call[p].me
      BY <2>1, <2>2, <2>4, ContrariesStay
    <3>2. PICK f \in FollowRows(call[p].me, got[p].found) : TRUE
      BY <2>1, <2>4, <3>1 DEF FollowInv
    <3>3. /\ f \in DOMAIN follows /\ follows[f].live /\ follows[f].of = got[p].found
          /\ follows[f].by = call[p].me
      BY <2>2 DEF FollowRows
    <3>4. ~(Unfollow(r) /\ follows[f].by = got[r].me)
      BY <3>1, <3>3 DEF Unfollow, At
    <3>5. /\ f \in DOMAIN follows' /\ follows'[f].live /\ follows'[f].of = got[p].found
          /\ follows'[f].by = call[p].me
      BY <3>3, <3>4, FollowsFrame
    <3> QED BY <2>1, <3>5 DEF FollowRows
  <2>5. ASSUME Kind(p) = "unfollow", \A q \in SamePair(p, "follow")' : q \in before'[p]
        PROVE  FollowRows(call[p].me, got[p].found)' = {}
    <3>1. /\ \A q \in SamePair(p, "follow") : q \in before[p]
          /\ pc[r] # "idle" /\ Kind(r) = "follow" => got[r].me # call[p].me
      BY <2>1, <2>2, <2>5, ContrariesStay
    <3>2. FollowRows(call[p].me, got[p].found) = {}
      BY <2>1, <2>5, <3>1 DEF FollowInv
    <3> SUFFICES ASSUME NEW f \in DOMAIN follows', follows'[f].live,
                        follows'[f].of = got[p].found, follows'[f].by = call[p].me
                 PROVE  FALSE
      BY <2>1, <2>2 DEF FollowRows
    <3>3. f \notin DOMAIN follows
      BY <3>2, FollowsFrame DEF FollowRows
    <3>4. CreateFollow(r) /\ got[r].me # call[p].me
      <4>1. CreateFollow(r)
        BY <3>3, FollowsFrame
      <4> QED BY <3>1, <4>1 DEF CreateFollow, At
    <3>5. follows' = Append(follows, [by |-> got[r].me, of |-> got[r].found, live |-> TRUE])
      BY <3>3, <3>4 DEF CreateFollow
    <3>6. f = Len(follows) + 1
      BY <2>3, <3>3, <3>5, Appended
    <3>7. follows'[f].by = got[r].me
      BY <2>3, <3>5, <3>6, Appended
    <3> QED BY <3>4, <3>7
  <2> QED BY <2>1, <2>4, <2>5 DEF FollowInv
<1> QED BY <1>2, <1>3

LEMMA FavoriteSteps ==
  ASSUME OInv, NEW p \in Requests, Step(p), Kind(p) \in {"favorite", "unfavorite"}, pc[p] # "idle"
  PROVE  \/ FindOneArticle(p) /\ pc[p] = "begun"
         \/ FirstArticleUser(p) /\ pc[p] = "author"
         \/ CreateArticleUser(p) /\ pc[p] = "createAuthor"
         \/ FirstFavorite(p) /\ Kind(p) = "favorite" /\ pc[p] = "write"
         \/ CreateFavorite(p) /\ Kind(p) = "favorite" /\ pc[p] = "create"
         \/ Unfavorite(p) /\ Kind(p) = "unfavorite" /\ pc[p] = "write"
         \/ ArticleSerializer(p) /\ pc[p] = "serialize"
<1>1. Fits(pc[p], Kind(p))
  BY DEF OInv, OrderInv
<1>2. pc[p] \notin {"found", "followings", "authors"}
  BY <1>1 DEF Fits, OnArticle, Lists
<1>3. ~AccountStep(p)
  BY DEF AccountStep, AuthMiddleware, Arrive, UsersRegistration, UsersLogin, UserUpdate,
         FindProfile, FirstFollow, CreateFollow, Unfollow, At
<1>4. \/ FindOneArticle(p) \/ FirstArticleUser(p) \/ CreateArticleUser(p)
      \/ FirstFavorite(p) \/ CreateFavorite(p) \/ Unfavorite(p) \/ ArticleSerializer(p)
  BY <1>2, <1>3 DEF Step, ArticleStep, At, Lists,
        FindOneComment, ArticleCreate, ArticleUpdate,
        ArticleDelete, ImportArticle,
        ArticleCommentCreate, ArticleCommentDelete, FeedRefused, FeedFollowings, FeedAuthors,
        FeedArticles, FindListed, FindIds, FindManyArticle, FindFilter, ExportRows
<1> QED BY <1>4 DEF FindOneArticle, FirstArticleUser, CreateArticleUser, FirstFavorite,
                    CreateFavorite, Unfavorite, ArticleSerializer, At, AtAuthor

\* The ArticleUserModel of a user who is there has an id, unless a statement failed.
LEMMA AuthorGiven ==
  ASSUME OInv, NEW p \in Requests, FirstArticleUser(p) \/ CreateArticleUser(p),
         Whose(p) # 0, p \notin hit'
  PROVE  Goto(p, "createAuthor", got[p]) \/ \E au \in Nat \ {0} : AsAuthor(p, au)
<1>1. TypeInv
  BY DEF OInv, IInv
<1>2. CASE FirstArticleUser(p)
  <2>1. \/ Goto(p, "createAuthor", got[p])
        \/ AuthorRows(Whose(p)) # {} /\ AsAuthor(p, Min(AuthorRows(Whose(p))))
    BY <1>2, NotHit DEF FirstArticleUser
  <2>2. AuthorRows(Whose(p)) # {} => Min(AuthorRows(Whose(p))) \in Nat \ {0}
    <3>1. Len(articleUsers) \in Nat /\ AuthorRows(Whose(p)) \subseteq 1..Len(articleUsers)
      BY <1>1, TableIds DEF AuthorRows
    <3> QED BY <3>1, FirstRow
  <2> QED BY <2>1, <2>2
<1>3. CASE CreateArticleUser(p)
  <2>1. AsAuthor(p, Len(articleUsers) + 1)
    BY <1>3, NotHit DEF CreateArticleUser
  <2>2. Len(articleUsers) + 1 \in Nat \ {0}
    BY <1>1, TableIds
  <2> QED BY <2>1, <2>2
<1> QED BY <1>2, <1>3

LEMMA AuthorNumbered ==
  ASSUME OInv, NEW p \in Requests, FirstArticleUser(p) \/ CreateArticleUser(p),
         Kind(p) \in {"favorite", "unfavorite"}, Whose(p) # 0, p \notin hit'
  PROVE  pc'[p] = "createAuthor" \/ (pc'[p] = "write" /\ got'[p].au # 0)
<1>1. got[p] \in Locals /\ TypeInv
  BY DEF OInv, IInv, TypeInv
<1>2. Goto(p, "createAuthor", got[p]) \/ \E au \in Nat \ {0} : AsAuthor(p, au)
  BY AuthorGiven
<1>3. Goto(p, "createAuthor", got[p]) => pc'[p] = "createAuthor"
  BY <1>1 DEF Goto, TypeInv
<1>4. ASSUME NEW au \in Nat \ {0}, AsAuthor(p, au) PROVE pc'[p] = "write" /\ got'[p].au # 0
  <2>1. Goto(p, "write", [got[p] EXCEPT !.au = au])
    BY <1>4 DEF AsAuthor, Going, Owned, Lists
  <2> QED BY <1>1, <1>4, <2>1 DEF Goto, TypeInv, Locals
<1> QED BY <1>2, <1>3, <1>4

\* It is decided what the answer says of the row.
Decided(p) == pc[p] = "serialize" \/ answer[p] \in {200, 201}

FavoriteInv(p) ==
  p \in Calling({"favorite", "unfavorite"}) \ hit =>
    /\ pc[p] \in {"write", "create"} \/ Decided(p) => got[p].au # 0
    /\ Decided(p) =>
         /\ Kind(p) = "favorite" /\ (\A q \in SamePair(p, "unfavorite") : q \in before[p]) =>
              FavoriteRows(got[p].au, got[p].found) # {}
         /\ Kind(p) = "unfavorite" /\ (\A q \in SamePair(p, "favorite") : q \in before[p]) =>
              FavoriteRows(got[p].au, got[p].found) = {}

LEMMA SerializeKeepsPlace ==
  ASSUME OInv, NEW p \in Requests, NEW rows, Serialize(p, rows)
  PROVE  pc'[p] \in {"serialize", "done"}
  BY DEF Serialize, Goto, List, OInv, IInv, TypeInv

LEMMA ReplyIsNotDecided ==
  ASSUME OInv, NEW p \in Requests, NEW s \in {403, 404, 422}, Reply(p, s)
  PROVE  ~Decided(p)' /\ pc'[p] = "done"
<1>1. answer'[p] = s /\ pc'[p] = "done"
  BY DEF Reply, OInv, IInv, TypeInv
<1>2. answer'[p] \notin {200, 201}
  BY <1>1
<1> QED BY <1>1, <1>2 DEF Decided

LEMMA GotoIsNotDecided ==
  ASSUME OInv, NEW p \in Requests, pc[p] # "done", NEW n \in Steps \ {"serialize", "done"}, NEW l,
         Goto(p, n, l)
  PROVE  ~Decided(p)' /\ pc'[p] = n /\ got'[p] = l
<1>1. answer'[p] = answer[p] /\ pc'[p] = n /\ got'[p] = l
  BY DEF Goto, OInv, IInv, TypeInv
<1>2. answer[p] = 0
  BY DEF OInv, OrderInv
<1>3. answer'[p] \notin {200, 201}
  BY <1>1, <1>2
<1> QED BY <1>1, <1>3 DEF Decided

\* The row is there, or not, after the step that decides it.
LEMMA FavoriteDecided ==
  ASSUME OInv, OInv', NEW p \in Requests, Step(p), FavoriteInv(p), ~Decided(p),
         p \in (Calling({"favorite", "unfavorite"}) \ hit)'
  PROVE  /\ pc'[p] \in {"write", "create"} \/ Decided(p)' => got'[p].au # 0
         /\ Decided(p)' =>
              /\ Kind(p)' = "favorite" => FavoriteRows(got[p].au, got[p].found)' # {}
              /\ Kind(p)' = "unfavorite" => FavoriteRows(got[p].au, got[p].found)' = {}
<1>1. Moved(p) /\ (Arrives(p) \/ Handles(p)) /\ p \notin hit'
  BY StepMoves
<1>2. CASE Arrives(p)
  <2>1. pc'[p] = "begun" /\ answer'[p] = answer[p] /\ answer[p] = 0
    BY <1>1, <1>2 DEF Arrives, Moved, OInv, OrderInv
  <2>2. answer'[p] \notin {200, 201}
    BY <2>1
  <2> QED BY <2>1, <2>2 DEF Decided
<1>3. CASE Handles(p)
  <2>1. /\ Kind(p) \in {"favorite", "unfavorite"} /\ pc[p] \notin {"idle", "done"}
        /\ p \notin hit /\ Kind(p)' = Kind(p) /\ p \in Calling({"favorite", "unfavorite"}) \ hit
    BY <1>1, <1>3 DEF Handles, Calling, Started, Kind, Moved
  <2>2. got[p].me = call[p].me /\ call[p].me # 0 /\ Whose(p) = got[p].me
    BY <2>1, KnowsCaller DEF SignedIn, Whose, Lists
  <2>3. favorites \in Seq(FavoriteRecords) /\ TypeInv
    BY DEF OInv, IInv, TypeInv, Consistent
  <2>4. CASE FindOneArticle(p) \/ FirstArticleUser(p) \/ CreateArticleUser(p)
    <3>1. (\E s \in {403, 404} : Reply(p, s))
            \/ \E n \in {"author", "createAuthor", "write"} : \E l : Goto(p, n, l)
      BY <2>1, <2>4 DEF FindOneArticle, FirstArticleUser, CreateArticleUser, AsAuthor, Going, Lists
    <3>2. {"author", "createAuthor", "write"} \subseteq Steps \ {"serialize", "done"}
      BY DEF Steps
    <3>3. ~Decided(p)' /\ pc'[p] \in {"author", "createAuthor", "write", "done"}
      BY <2>1, <3>1, <3>2, ReplyIsNotDecided, GotoIsNotDecided
    <3>4. pc'[p] = "write" => got'[p].au # 0
      <4>1. CASE FindOneArticle(p)
        <5>1. (\E l : Goto(p, "author", l)) \/ Reply(p, 404)
          BY <2>1, <4>1 DEF FindOneArticle
        <5> QED BY <2>3, <5>1 DEF Goto, Reply, TypeInv
      <4>2. CASE FirstArticleUser(p) \/ CreateArticleUser(p)
        BY <1>1, <2>1, <2>2, <4>2, AuthorNumbered
      <4> QED BY <2>4, <4>1, <4>2
    <3> QED BY <3>3, <3>4
  <2>5. CASE FirstFavorite(p) /\ Kind(p) = "favorite" /\ pc[p] = "write"
    <3>1. got'[p].au = got[p].au /\ got'[p].found = got[p].found /\ got[p].au # 0
      BY <1>3, <2>1, <2>5 DEF Handles, FavoriteInv
    <3>2. favorites' = favorites
      BY <2>5 DEF FirstFavorite, contentVars
    <3>3. CASE FavoriteRows(got[p].au, got[p].found) # {}
      BY <2>1, <2>5, <3>1, <3>2, <3>3 DEF FavoriteRows
    <3>4. CASE FavoriteRows(got[p].au, got[p].found) = {}
      <4>1. Goto(p, "create", got[p]) \/ Reply(p, 422)
        BY <2>5, <3>4 DEF FirstFavorite
      <4>2. "create" \in Steps \ {"serialize", "done"}
        BY DEF Steps
      <4>3. ~Decided(p)'
        BY <2>1, <4>1, <4>2, ReplyIsNotDecided, GotoIsNotDecided
      <4> QED BY <3>1, <4>3
    <3> QED BY <3>3, <3>4
  <2>6. CASE CreateFavorite(p) /\ Kind(p) = "favorite" /\ pc[p] = "create"
    <3>1. got'[p].au = got[p].au /\ got'[p].found = got[p].found /\ got[p].au # 0
      BY <1>3, <2>1, <2>6 DEF Handles, FavoriteInv
    <3>2. CASE ~Written(p)
      <4>1. Reply(p, 422)
        <5>1. Reply(p, 200) \/ Reply(p, 422)
          BY <2>6 DEF CreateFavorite, Write
        <5> QED BY <2>3, <3>2, <5>1 DEF Reply, TypeInv, Written
      <4>2. ~Decided(p)'
        BY <4>1, ReplyIsNotDecided
      <4> QED BY <3>1, <4>2
    <3>3. CASE Written(p)
      <4> DEFINE n == Len(favorites) + 1
      <4>1. favorites' = Append(favorites, [by |-> got[p].au, article |-> got[p].found, live |-> TRUE])
        BY <2>6, <3>3 DEF CreateFavorite
      <4>2. n \in DOMAIN favorites'
            /\ favorites'[n] = [by |-> got[p].au, article |-> got[p].found, live |-> TRUE]
        BY <2>3, <4>1, Appended
      <4>3. n \in FavoriteRows(got[p].au, got[p].found)'
        BY <3>1, <4>2 DEF FavoriteRows
      <4> QED BY <2>1, <2>6, <3>1, <4>3
    <3> QED BY <3>2, <3>3
  <2>7. CASE Unfavorite(p) /\ Kind(p) = "unfavorite" /\ pc[p] = "write"
    <3>1. got'[p].au = got[p].au /\ got'[p].found = got[p].found /\ got[p].au # 0
      BY <1>3, <2>1, <2>7 DEF Handles, FavoriteInv
    <3>2. CASE Reply(p, 422)
      <4>1. ~Decided(p)'
        BY <3>2, ReplyIsNotDecided
      <4> QED BY <3>1, <4>1
    <3>3. CASE favorites' = [f \in DOMAIN favorites |->
                 IF favorites[f].by = got[p].au /\ favorites[f].article = got[p].found
                 THEN [favorites[f] EXCEPT !.live = FALSE] ELSE favorites[f]]
      <4>1. ASSUME NEW f \in DOMAIN favorites', favorites'[f].live,
                   favorites'[f].article = got[p].found, favorites'[f].by = got[p].au
            PROVE  FALSE
        <5>1. favorites[f] \in FavoriteRecords /\ f \in DOMAIN favorites
          BY <2>3, <3>3, <4>1
        <5>2. CASE favorites[f].by = got[p].au /\ favorites[f].article = got[p].found
          <6>1. favorites'[f] = [favorites[f] EXCEPT !.live = FALSE]
            BY <3>3, <5>1, <5>2
          <6>2. favorites'[f].live = FALSE
            BY <5>1, <6>1 DEF FavoriteRecords
          <6> QED BY <4>1, <6>2
        <5>3. CASE ~(favorites[f].by = got[p].au /\ favorites[f].article = got[p].found)
          BY <3>3, <4>1, <5>1, <5>3
        <5> QED BY <5>2, <5>3
      <4>2. FavoriteRows(got[p].au, got[p].found)' = {}
        BY <3>1, <4>1 DEF FavoriteRows
      <4> QED BY <2>1, <2>7, <3>1, <4>2
    <3> QED BY <2>7, <3>2, <3>3 DEF Unfavorite
  <2>8. pc[p] # "serialize"
    BY DEF Decided
  <2> QED BY <2>1, <2>4, <2>5, <2>6, <2>7, <2>8, FavoriteSteps
<1> QED BY <1>1, <1>2, <1>3

LEMMA FavoriteKept ==
  ASSUME OInv, OInv', NEW r \in Requests, Step(r), NEW p \in Requests, FavoriteInv(p)
  PROVE  FavoriteInv(p)'
<1> SUFFICES ASSUME p \in (Calling({"favorite", "unfavorite"}) \ hit)'
             PROVE  FavoriteInv(p)'
  BY DEF FavoriteInv
<1>1. Moved(r) /\ (Arrives(r) \/ Handles(r))
  BY StepMoves
<1>2. CASE p = r /\ ~Decided(p)
  BY <1>2, FavoriteDecided DEF FavoriteInv
<1>3. CASE p # r \/ Decided(p)
  <2>1. /\ p \in Calling({"favorite", "unfavorite"}) \ hit /\ Kind(p)' = Kind(p)
        /\ call'[p] = call[p] /\ before'[p] = before[p] /\ p \in Started
    BY <1>1, <1>3 DEF Moved, Calling, Started, Kind, Handles, Arrives, Decided, OInv, OrderInv
  <2>2. call[p].me # 0
    BY <2>1, KnowsCaller DEF SignedIn, Calling, Started
  <2>3. /\ got'[p].au = got[p].au /\ got'[p].found = got[p].found
        /\ Decided(p)' => Decided(p)
        /\ pc'[p] \in {"write", "create"} => pc[p] \in {"write", "create"}
    <3>1. CASE p # r
      BY <1>1, <3>1 DEF Moved, Decided
    <3>2. CASE p = r /\ Decided(p)
      <4>1. pc[p] # "done" /\ (pc[p] # "done" => answer[p] = 0)
        BY <1>1, <3>2 DEF Moved, OInv, OrderInv
      <4>2. answer[p] \notin {200, 201}
        BY <4>1
      <4>3. pc[p] = "serialize"
        BY <3>2, <4>2 DEF Decided
      <4>4. Kind(p) \in {"favorite", "unfavorite"} /\ pc[p] # "idle" /\ Handles(p)
        BY <1>1, <2>1, <3>2, <4>3 DEF Calling, Arrives
      <4>5. ArticleSerializer(p)
        BY <3>2, <4>3, <4>4, FavoriteSteps
      <4>6. pc'[p] = "done"
        BY <4>5 DEF ArticleSerializer, List, OInv, IInv, TypeInv
      <4> QED BY <3>2, <4>3, <4>4, <4>6 DEF Handles
    <3> QED BY <1>3, <3>1, <3>2
  <2>4. pc'[p] \in {"write", "create"} \/ Decided(p)' => got'[p].au # 0
    BY <2>1, <2>3 DEF FavoriteInv
  <2>5. ASSUME Decided(p)' PROVE articleUsers[got[p].au] = call[p].me /\ got[p].au # 0
    <3>1. got[p].au # 0 /\ Kind(p) \in {"favorite", "unfavorite"} /\ p \notin hit /\ pc[p] # "idle"
      BY <2>1, <2>3, <2>5 DEF FavoriteInv, Calling, Started
    <3>2. articleUsers[got[p].au] = got[p].me
      BY <3>1 DEF OInv, IInv, RequestInv, AuthorInv, Whose, Lists
    <3> QED BY <3>1, <3>2, KnowsCaller
  <2>6. ASSUME Decided(p)', Kind(p) = "favorite",
               \A q \in SamePair(p, "unfavorite")' : q \in before'[p]
        PROVE  FavoriteRows(got[p].au, got[p].found)' # {}
    <3>1. /\ \A q \in SamePair(p, "unfavorite") : q \in before[p]
          /\ pc[r] # "idle" /\ Kind(r) = "unfavorite" => got[r].me # call[p].me
      BY <2>1, <2>2, <2>6, ContrariesStay
    <3>2. PICK f \in FavoriteRows(got[p].au, got[p].found) : TRUE
      BY <2>1, <2>3, <2>6, <3>1 DEF FavoriteInv
    <3>3. /\ f \in DOMAIN favorites /\ favorites[f].live /\ favorites[f].article = got[p].found
          /\ favorites[f].by = got[p].au
      BY <2>5, <2>6 DEF FavoriteRows
    <3>4. ~(Unfavorite(r) /\ favorites[f].by = got[r].au)
      <4> SUFFICES ASSUME Unfavorite(r), favorites[f].by = got[r].au PROVE FALSE
        OBVIOUS
      <4>1. pc[r] # "idle" /\ Kind(r) = "unfavorite" /\ got[r].au # 0 /\ got[r].au = got[p].au
        BY <2>5, <2>6, <3>3 DEF Unfavorite, At
      <4>2. articleUsers[got[r].au] = got[r].me
        BY <4>1 DEF OInv, IInv, RequestInv, AuthorInv, Whose, Lists
      <4> QED BY <2>5, <2>6, <3>1, <4>1, <4>2
    <3>5. /\ f \in DOMAIN favorites' /\ favorites'[f].live /\ favorites'[f].article = got[p].found
          /\ favorites'[f].by = got[p].au
      BY <3>3, <3>4, FavoritesFrame
    <3> QED BY <2>3, <3>5 DEF FavoriteRows
  <2>7. ASSUME Decided(p)', Kind(p) = "unfavorite",
               \A q \in SamePair(p, "favorite")' : q \in before'[p]
        PROVE  FavoriteRows(got[p].au, got[p].found)' = {}
    <3>1. /\ \A q \in SamePair(p, "favorite") : q \in before[p]
          /\ pc[r] # "idle" /\ Kind(r) = "favorite" => got[r].me # call[p].me
      BY <2>1, <2>2, <2>7, ContrariesStay
    <3>2. FavoriteRows(got[p].au, got[p].found) = {}
      BY <2>1, <2>3, <2>7, <3>1 DEF FavoriteInv
    <3> SUFFICES ASSUME NEW f \in DOMAIN favorites', favorites'[f].live,
                        favorites'[f].article = got[p].found, favorites'[f].by = got[p].au
                 PROVE  FALSE
      BY <2>3, <2>5, <2>7 DEF FavoriteRows
    <3>3. f \notin DOMAIN favorites
      BY <3>2, FavoritesFrame DEF FavoriteRows
    <3>4. CreateFavorite(r) /\ got[r].me # call[p].me
      <4>1. CreateFavorite(r)
        BY <3>3, FavoritesFrame
      <4> QED BY <3>1, <4>1 DEF CreateFavorite, At
    <3>5. favorites' = Append(favorites, [by |-> got[r].au, article |-> got[r].found, live |-> TRUE])
      BY <3>3, <3>4 DEF CreateFavorite
    <3>6. favorites \in Seq(FavoriteRecords)
      BY DEF OInv, IInv, TypeInv, Consistent
    <3>7. f = Len(favorites) + 1
      BY <3>3, <3>5, <3>6, Appended
    <3>8. favorites'[f].by = got[r].au
      BY <3>5, <3>6, <3>7, Appended
    <3>9. articleUsers[got[r].au] = got[r].me
      <4>1. got[r].au # 0 /\ Kind(r) = "favorite"
        BY <2>5, <2>7, <3>4, <3>8 DEF CreateFavorite, At
      <4> QED BY <4>1 DEF OInv, IInv, RequestInv, AuthorInv, Whose, Lists
    <3> QED BY <2>5, <2>7, <3>4, <3>8, <3>9
  <2> QED BY <2>1, <2>3, <2>4, <2>6, <2>7 DEF FavoriteInv
<1> QED BY <1>2, <1>3

\* What was answered last is so (RelationSettles).
THEOREM RelationsSettle == Spec => []RelationSettles
<1> DEFINE Inv == \A p \in Requests : FollowInv(p) /\ FavoriteInv(p)
<1>1. Init => Inv
  BY DEF Init, FollowInv, FavoriteInv, Calling, Started
<1>2. OInv /\ OInv' /\ Inv /\ [Next]_vars => Inv'
  <2> SUFFICES ASSUME OInv, OInv', Inv, [Next]_vars, NEW p \in Requests
               PROVE  (FollowInv(p) /\ FavoriteInv(p))'
    OBVIOUS
  <2>1. CASE UNCHANGED vars
    <3>1. /\ call' = call /\ pc' = pc /\ got' = got /\ answer' = answer /\ hit' = hit
          /\ before' = before /\ follows' = follows /\ favorites' = favorites
      BY <2>1 DEF vars, requestVars, accountVars, contentVars
    <3>2. FollowInv(p) /\ FavoriteInv(p)
      OBVIOUS
    <3>3. FollowInv(p)'
      BY ONLY <3>1, <3>2 DEF FollowInv, Calling, Started, Kind, Succeeded, SamePair, FollowRows
    <3>4. FavoriteInv(p)'
      BY ONLY <3>1, <3>2 DEF FavoriteInv, Calling, Started, Kind, Decided, SamePair, FavoriteRows
    <3> QED BY <3>3, <3>4
  <2>2. CASE Next
    <3>1. PICK r \in Requests : Step(r)
      BY <2>2 DEF Next, Step
    <3> QED BY <3>1, FollowKept, FavoriteKept
  <2> QED BY <2>1, <2>2
<1>3. Inv => RelationSettles
  <2> SUFFICES ASSUME Inv PROVE RelationSettles
    OBVIOUS
  <2>1. ASSUME NEW p \in Calling({"follow"}), Stands(p, SamePair(p, "unfollow"))
        PROVE  FollowRows(call[p].me, got[p].found) # {}
    BY <2>1 DEF FollowInv, Stands, Calling, Started
  <2>2. ASSUME NEW p \in Calling({"unfollow"}), Stands(p, SamePair(p, "follow"))
        PROVE  FollowRows(call[p].me, got[p].found) = {}
    BY <2>2 DEF FollowInv, Stands, Calling, Started
  <2>3. ASSUME NEW p \in Calling({"favorite", "unfavorite"}), Succeeded(p)
        PROVE  FavoriteInv(p) /\ Decided(p) /\ p \in Calling({"favorite", "unfavorite"}) \ hit
    BY <2>3 DEF Succeeded, Decided, Calling, Started
  <2> QED BY <2>1, <2>2, <2>3 DEF RelationSettles, FavoriteInv, Stands
<1> HIDE DEF Inv
<1> QED BY <1>1, <1>2, <1>3, OrderHolds, PTL DEF Spec
=============================================================================
