----------------------------- MODULE FeedProofs -----------------------------
(***************************************************************************)
(* Proof that feeds and lists have what they should (FeedComplete): each   *)
(* query hands the next one a set of ids that is still complete when the   *)
(* next is made, as long as nobody adds to the tables.                     *)
(***************************************************************************)
EXTENDS OrderProofs

\* No article is added, and none comes back.
LEMMA ArticlesStay ==
  ASSUME OInv, NEW p \in Requests, Step(p),
         Arrives(p) \/ Kind(p) \notin {"createArticle", "import"}, NEW a \in DOMAIN articles'
  PROVE  a \in DOMAIN articles /\ (articles'[a].live => articles[a].live)
         /\ articles'[a].author = articles[a].author
<1>1. ~ArticleCreate(p) /\ ~ImportArticle(p)
  BY DEF Arrives, ArticleCreate, ImportArticle, At, AuthMiddleware, Arrive
<1> QED BY <1>1, ArticlesFrame

LEMMA AuthorIsThere ==
  ASSUME OInv, NEW a \in DOMAIN articles
  PROVE  articles[a].author \in DOMAIN articleUsers
  BY DEF OInv, IInv, TypeInv, Consistent

Answered(p) == answer[p] = 200
-----------------------------------------------------------------------------
(***************************************************************************)
(* The feed.                                                               *)
(***************************************************************************)

\* Nobody adds an article, nor a follow of the user, since the feed was asked for.
FeedIsAlone(f) == /\ \A q \in SamePair(f, "follow") : q \in before[f]
                  /\ Calling({"createArticle", "import"}) \subseteq before[f]

Followed(f, u) == FollowRows(call[f].me, u) # {}

FeedInv(f) ==
  f \in Calling({"feed"}) \ hit =>
    /\ pc[f] \in {"begun", "createAuthor", "followings"} => got[f].ids = {}
    /\ pc[f] = "authors" =>
         /\ got[f].ids \subseteq Followings(call[f].me)
         /\ FeedIsAlone(f) => \A u : Followed(f, u) => u \in got[f].ids
    /\ pc[f] = "list" =>
         /\ \A r \in got[f].ids : r \in DOMAIN articleUsers
                                  /\ articleUsers[r] \in Followings(call[f].me)
         /\ FeedIsAlone(f) => \A a \in DOMAIN articles :
              Followed(f, AuthorOf(a)) => articles[a].author \in got[f].ids
    /\ pc[f] = "serialize" \/ Answered(f) =>
         /\ \A a \in got[f].ids : a \in DOMAIN articles /\ AuthorOf(a) \in Followings(call[f].me)
         /\ FeedIsAlone(f) => \A a \in DOMAIN articles :
              articles[a].live /\ Followed(f, AuthorOf(a)) => a \in got[f].ids

\* What the feed has seen of the tables.
LEMMA FollowersFrame ==
  ASSUME OInv, NEW r \in Requests, Step(r), NEW f \in Started, Kind(f) = "feed"
  PROVE  /\ Followings(call[f].me) \subseteq Followings(call[f].me)'
         /\ FeedIsAlone(f)' =>
              /\ FeedIsAlone(f)
              /\ Arrives(r) \/ Kind(r) \notin {"createArticle", "import"}
              /\ \A u : Followed(f, u)' => Followed(f, u)
<1>1. f \in Requests /\ pc[f] # "idle" /\ call'[f] = call[f]
  BY StartedStays DEF Started
<1>2. call[f].me # 0
  BY <1>1, KnowsCaller DEF SignedIn
<1>3. ASSUME NEW u \in Followings(call[f].me) PROVE u \in Followings(call[f].me)'
  <2>1. PICK g \in DOMAIN follows : follows[g].by = call[f].me /\ u = follows[g].of
    BY <1>3 DEF Followings
  <2>2. g \in DOMAIN follows' /\ follows'[g].by = follows[g].by /\ follows'[g].of = follows[g].of
    BY <2>1, FollowsFrame
  <2> QED BY <1>1, <2>1, <2>2 DEF Followings
<1>4. ASSUME FeedIsAlone(f)'
      PROVE  /\ FeedIsAlone(f)
             /\ Arrives(r) \/ Kind(r) \notin {"createArticle", "import"}
             /\ pc[r] # "idle" /\ Kind(r) = "follow" => got[r].me # call[f].me
  <2>1. \A q \in SamePair(f, "follow")' : q \in before'[f]
    BY <1>4 DEF FeedIsAlone
  <2>2. Calling({"createArticle", "import"})' \subseteq before'[f]
    BY <1>4 DEF FeedIsAlone
  <2> QED BY <1>2, <2>1, <2>2, ContrariesStay, Quiet DEF FeedIsAlone
<1>5. ASSUME FeedIsAlone(f)', NEW u, Followed(f, u)' PROVE Followed(f, u)
  <2>1. PICK g \in DOMAIN follows' : /\ follows'[g].live /\ follows'[g].of = u
                                     /\ follows'[g].by = call[f].me
    BY <1>1, <1>2, <1>5 DEF Followed, FollowRows
  <2>2. CASE g \in DOMAIN follows
    <3>1. follows[g].live /\ follows[g].of = u /\ follows[g].by = call[f].me
      BY <2>1, <2>2, FollowsFrame
    <3> QED BY <2>2, <3>1 DEF Followed, FollowRows
  <2>3. CASE g \notin DOMAIN follows
    <3>1. CreateFollow(r)
      BY <2>1, <2>3, FollowsFrame
    <3>2. follows' = Append(follows, [by |-> got[r].me, of |-> got[r].found, live |-> TRUE])
      BY <2>1, <2>3, <3>1 DEF CreateFollow
    <3>3. follows \in Seq(FollowRecords)
      BY DEF OInv, IInv, TypeInv, Consistent
    <3>4. g = Len(follows) + 1
      BY <2>1, <2>3, <3>2, <3>3, Appended
    <3>5. follows'[g].by = got[r].me
      BY <3>2, <3>3, <3>4, Appended
    <3> QED BY <1>4, <1>5, <2>1, <3>1, <3>5 DEF CreateFollow, At
  <2> QED BY <2>2, <2>3
<1> QED BY <1>3, <1>4, <1>5

\* Another request moves, or this one has its rows already.
LEMMA FeedStays ==
  ASSUME OInv, OInv', NEW r \in Requests, Step(r), NEW f \in Calling({"feed"}) \ hit, FeedInv(f),
         got'[f].ids = got[f].ids, f \notin hit',
         \/ pc'[f] = pc[f] /\ (Answered(f)' <=> Answered(f))
         \/ pc[f] = "serialize" /\ pc'[f] = "done"
  PROVE  FeedInv(f)'
<1>1. f \in Started /\ f \in Requests /\ Kind(f) = "feed" /\ f \notin hit
  BY DEF Calling, Started
<1>2. call'[f] = call[f]
  BY <1>1, StartedStays
<1>3. Followings(call[f].me) \subseteq Followings(call[f].me)'
  BY <1>1, FollowersFrame
<1>4. FeedIsAlone(f)' => /\ FeedIsAlone(f)
                         /\ Arrives(r) \/ Kind(r) \notin {"createArticle", "import"}
                         /\ \A u : Followed(f, u)' => Followed(f, u)
  BY <1>1, FollowersFrame
<1>5. ASSUME FeedIsAlone(f)', NEW a \in DOMAIN articles'
      PROVE  /\ a \in DOMAIN articles /\ (articles'[a].live => articles[a].live)
             /\ articles'[a].author = articles[a].author /\ AuthorOf(a)' = AuthorOf(a)
             /\ Followed(f, AuthorOf(a))' => Followed(f, AuthorOf(a))
  <2>1. /\ a \in DOMAIN articles /\ (articles'[a].live => articles[a].live)
        /\ articles'[a].author = articles[a].author
    BY <1>4, <1>5, ArticlesStay
  <2>2. AuthorOf(a)' = AuthorOf(a)
    BY <2>1, AuthorsFrame, AuthorIsThere DEF AuthorOf
  <2> QED BY <1>4, <1>5, <2>1, <2>2
<1>6. ASSUME NEW a \in DOMAIN articles
      PROVE  a \in DOMAIN articles' /\ AuthorOf(a)' = AuthorOf(a)
  BY ArticlesFrame, AuthorsFrame, AuthorIsThere DEF AuthorOf
<1>7. pc'[f] \in {"begun", "createAuthor", "followings"} => got'[f].ids = {}
  BY <1>1 DEF FeedInv
<1>8. pc'[f] = "authors" =>
        /\ got'[f].ids \subseteq Followings(call[f].me)'
        /\ FeedIsAlone(f)' => \A u : Followed(f, u)' => u \in got'[f].ids
  BY <1>1, <1>2, <1>3, <1>4 DEF FeedInv
<1>9. pc'[f] = "list" =>
        /\ \A n \in got'[f].ids : n \in DOMAIN articleUsers'
                                  /\ articleUsers'[n] \in Followings(call[f].me)'
        /\ FeedIsAlone(f)' => \A a \in DOMAIN articles' :
             Followed(f, AuthorOf(a))' => articles'[a].author \in got'[f].ids
  <2> SUFFICES ASSUME pc'[f] = "list"
               PROVE  /\ \A n \in got'[f].ids : n \in DOMAIN articleUsers'
                                  /\ articleUsers'[n] \in Followings(call[f].me)'
                      /\ FeedIsAlone(f)' => \A a \in DOMAIN articles' :
                           Followed(f, AuthorOf(a))' => articles'[a].author \in got'[f].ids
    OBVIOUS
  <2>1. \A n \in got[f].ids : n \in DOMAIN articleUsers
                              /\ articleUsers[n] \in Followings(call[f].me)
    BY <1>1 DEF FeedInv
  <2>2. FeedIsAlone(f) => \A a \in DOMAIN articles :
          Followed(f, AuthorOf(a)) => articles[a].author \in got[f].ids
    BY <1>1 DEF FeedInv
  <2> QED BY <1>2, <1>3, <1>4, <1>5, <2>1, <2>2, AuthorsFrame
<1>10. pc'[f] = "serialize" \/ Answered(f)' =>
        /\ \A a \in got'[f].ids : a \in DOMAIN articles' /\ AuthorOf(a)' \in Followings(call[f].me)'
        /\ FeedIsAlone(f)' => \A a \in DOMAIN articles' :
             articles'[a].live /\ Followed(f, AuthorOf(a))' => a \in got'[f].ids
  <2> SUFFICES ASSUME pc'[f] = "serialize" \/ Answered(f)'
               PROVE  /\ \A a \in got'[f].ids : /\ a \in DOMAIN articles'
                                                /\ AuthorOf(a)' \in Followings(call[f].me)'
                      /\ FeedIsAlone(f)' => \A a \in DOMAIN articles' :
                           articles'[a].live /\ Followed(f, AuthorOf(a))' => a \in got'[f].ids
    OBVIOUS
  <2>1. /\ \A a \in got[f].ids : a \in DOMAIN articles /\ AuthorOf(a) \in Followings(call[f].me)
        /\ FeedIsAlone(f) => \A a \in DOMAIN articles :
             articles[a].live /\ Followed(f, AuthorOf(a)) => a \in got[f].ids
    BY <1>1 DEF FeedInv
  <2> QED BY <1>2, <1>3, <1>4, <1>5, <1>6, <2>1
<1> QED BY <1>1, <1>2, <1>7, <1>8, <1>9, <1>10 DEF FeedInv

LEMMA FeedSteps ==
  ASSUME OInv, NEW p \in Requests, Step(p), Kind(p) = "feed", pc[p] # "idle"
  PROVE  \/ FeedRefused(p)
         \/ FirstArticleUser(p) /\ pc[p] = "begun"
         \/ CreateArticleUser(p) /\ pc[p] = "createAuthor"
         \/ FeedFollowings(p) /\ pc[p] = "followings"
         \/ FeedAuthors(p) /\ pc[p] = "authors"
         \/ FeedArticles(p) /\ pc[p] = "list"
         \/ ArticleSerializer(p) /\ pc[p] = "serialize"
<1>1. Fits(pc[p], Kind(p))
  BY DEF OInv, OrderInv
<1>2. pc[p] \notin {"found", "author", "create", "write", "rows"}
  BY <1>1 DEF Fits, OnArticle, Lists
<1>3. ~AccountStep(p)
  BY DEF AccountStep, AuthMiddleware, Arrive, UsersRegistration, UsersLogin, UserUpdate,
         FindProfile, FirstFollow, CreateFollow, Unfollow, At
<1>4. \/ FirstArticleUser(p) \/ CreateArticleUser(p) \/ ArticleSerializer(p)
      \/ FeedRefused(p) \/ FeedFollowings(p) \/ FeedAuthors(p) \/ FeedArticles(p)
  BY <1>2, <1>3 DEF Step, ArticleStep, At, Lists, OnArticle, FindOneArticle,
        FindOneComment, ArticleCreate, ArticleUpdate, ArticleDelete, ImportArticle,
        FirstFavorite, CreateFavorite, Unfavorite, ArticleCommentCreate, ArticleCommentDelete,
        FindListed, FindIds, FindManyArticle, FindFilter, ExportRows
<1> QED BY <1>2, <1>4 DEF FirstArticleUser, CreateArticleUser, ArticleSerializer, FeedFollowings,
                          FeedAuthors, FeedArticles, At, AtAuthor

\* Who is at work has not answered.
LEMMA NotAnswered ==
  ASSUME OInv, NEW p \in Requests, pc[p] # "done", answer'[p] = answer[p]
  PROVE  ~Answered(p)'
<1>1. answer'[p] = 0
  BY DEF OInv, OrderInv
<1> QED BY <1>1 DEF Answered

LEMMA SerializeGives ==
  ASSUME OInv, NEW p \in Requests, NEW rows \in SUBSET Nat, Serialize(p, rows)
  PROVE  got'[p].ids = rows /\ pc'[p] \in {"serialize", "done"}
<1>1. got[p] \in Locals /\ TypeInv
  BY DEF OInv, IInv, TypeInv
<1>2. CASE List(p, rows)
  BY <1>1, <1>2 DEF List, TypeInv, Locals
<1>3. CASE Goto(p, "serialize", [got[p] EXCEPT !.ids = rows])
  BY <1>1, <1>3 DEF Goto, TypeInv, Locals
<1> QED BY <1>2, <1>3 DEF Serialize

LEMMA FeedMoves ==
  ASSUME OInv, OInv', NEW f \in Requests, Step(f), FeedInv(f)
  PROVE  FeedInv(f)'
<1> SUFFICES ASSUME f \in (Calling({"feed"}) \ hit)' PROVE FeedInv(f)'
  BY DEF FeedInv
<1>1. Moved(f) /\ (Arrives(f) \/ Handles(f)) /\ f \notin hit'
  BY StepMoves
<1>2. got[f] \in Locals /\ TypeInv
  BY DEF OInv, IInv, TypeInv
<1>3. CASE Arrives(f)
  <2>1. pc'[f] = "begun" /\ answer'[f] = answer[f] /\ pc[f] # "done"
    BY <1>1, <1>3 DEF Arrives, Moved
  <2>2. ~Answered(f)'
    BY <2>1, NotAnswered
  <2>3. got'[f].ids = {}
    <3>1. got[f] = Nothing
      BY <1>3 DEF Arrives, OInv, IInv, RequestInv, CallerInv
    <3>2. UNCHANGED got \/ \E u, v : got' = [got EXCEPT ![f].me = u, ![f].user = v]
      BY <1>3 DEF Arrives, AuthMiddleware
    <3>3. ASSUME NEW u, NEW v, got' = [got EXCEPT ![f].me = u, ![f].user = v]
          PROVE  got'[f].ids = {}
      BY <1>2, <3>1, <3>3 DEF TypeInv, Nothing
    <3>4. Nothing.ids = {}
      BY DEF Nothing
    <3>5. ASSUME UNCHANGED got PROVE got'[f].ids = {}
      BY <3>1, <3>4, <3>5
    <3> QED BY <3>2, <3>3, <3>5
  <2> QED BY <2>1, <2>2, <2>3 DEF FeedInv
<1>4. CASE Handles(f)
  <2>1. /\ Kind(f) = "feed" /\ pc[f] \notin {"idle", "done"} /\ f \notin hit /\ call'[f] = call[f]
        /\ f \in Calling({"feed"}) \ hit /\ f \in Started
    BY <1>1, <1>4 DEF Handles, Calling, Started, Kind, Moved
  <2>2. got[f].me = call[f].me /\ call[f].me # 0
    BY <2>1, KnowsCaller DEF SignedIn
  <2>3. \A u : Followed(f, u) => u \in Followings(call[f].me)
    BY <2>2 DEF Followed, FollowRows, Followings
  <2>4. FeedIsAlone(f)' => FeedIsAlone(f) /\ \A u : Followed(f, u)' => Followed(f, u)
    BY <2>1, FollowersFrame
  <2>5. CASE \/ FirstArticleUser(f) /\ pc[f] = "begun"
             \/ CreateArticleUser(f) /\ pc[f] = "createAuthor"
    <3>1. \/ Goto(f, "createAuthor", got[f])
          \/ \E au : Goto(f, "followings", [got[f] EXCEPT !.au = au])
      <4>1. ASSUME NEW au, AsAuthor(f, au)
            PROVE  Goto(f, "followings", [got[f] EXCEPT !.au = au])
        BY <2>1, <4>1 DEF AsAuthor, Going, Owned, Lists
      <4>2. Goto(f, "createAuthor", got[f]) \/ \E au : AsAuthor(f, au)
        BY <2>5 DEF FirstArticleUser, CreateArticleUser
      <4> QED BY <4>1, <4>2
    <3>2. /\ pc'[f] \in {"createAuthor", "followings"} /\ got'[f].ids = got[f].ids
          /\ answer'[f] = answer[f]
      BY <1>2, <3>1 DEF Goto, TypeInv, Locals
    <3>3. got[f].ids = {}
      BY <2>1, <2>5 DEF FeedInv
    <3>4. ~Answered(f)'
      BY <2>1, <3>2, NotAnswered
    <3> QED BY <3>2, <3>3, <3>4 DEF FeedInv
  <2>6. CASE FeedFollowings(f) /\ pc[f] = "followings"
    <3>1. /\ UNCHANGED <<users, follows, articles, articleUsers>>
          /\ \/ Followings(call[f].me) = {} /\ Reply(f, 200)
             \/ Goto(f, "authors", [got[f] EXCEPT !.ids = Followings(call[f].me)])
      BY <1>1, <2>2, <2>6, NotHit DEF FeedFollowings, accountVars, contentVars
    <3>2. CASE Followings(call[f].me) = {} /\ Reply(f, 200)
      <4>1. pc'[f] = "done" /\ got'[f].ids = got[f].ids
        BY <1>2, <3>2 DEF Reply, TypeInv, Locals
      <4>2. got'[f].ids = {}
        BY <2>1, <2>6, <4>1 DEF FeedInv
      <4>3. FeedIsAlone(f)' => \A u : ~Followed(f, u)'
        BY <2>3, <2>4, <3>2
      <4> QED BY <4>1, <4>2, <4>3 DEF FeedInv
    <3>3. CASE Goto(f, "authors", [got[f] EXCEPT !.ids = Followings(call[f].me)])
      <4>1. pc'[f] = "authors" /\ got'[f].ids = Followings(call[f].me) /\ answer'[f] = answer[f]
        BY <1>2, <3>3 DEF Goto, TypeInv, Locals
      <4>2. ~Answered(f)'
        BY <2>1, <4>1, NotAnswered
      <4>3. Followings(call[f].me)' = Followings(call[f].me)
        BY <2>1, <3>1 DEF Followings
      <4>4. FeedIsAlone(f)' => \A u : Followed(f, u)' => u \in got'[f].ids
        BY <2>3, <2>4, <4>1
      <4> QED BY <4>1, <4>2, <4>3, <4>4 DEF FeedInv
    <3> QED BY <3>1, <3>2, <3>3
  <2>7. CASE FeedAuthors(f) /\ pc[f] = "authors"
    <3> DEFINE rows == UNION {AuthorRows(u) : u \in got[f].ids}
    <3>1. /\ UNCHANGED <<users, follows, articles, articleUsers>>
          /\ Goto(f, "list", [got[f] EXCEPT !.ids = rows])
      BY <1>1, <2>7, NotHit DEF FeedAuthors, accountVars, contentVars
    <3>2. pc'[f] = "list" /\ got'[f].ids = rows /\ answer'[f] = answer[f]
      BY <1>2, <3>1 DEF Goto, TypeInv, Locals
    <3>3. ~Answered(f)'
      BY <2>1, <3>2, NotAnswered
    <3>4. /\ got[f].ids \subseteq Followings(call[f].me)
          /\ FeedIsAlone(f) => \A u : Followed(f, u) => u \in got[f].ids
      BY <2>1, <2>7 DEF FeedInv
    <3>5. \A n \in rows : n \in DOMAIN articleUsers /\ articleUsers[n] \in Followings(call[f].me)
      BY <3>4 DEF AuthorRows
    <3>6. Followings(call[f].me)' = Followings(call[f].me)
      BY <2>1, <3>1 DEF Followings
    <3>7. ASSUME FeedIsAlone(f)', NEW a \in DOMAIN articles', Followed(f, AuthorOf(a))'
          PROVE  articles'[a].author \in rows
      <4>1. AuthorOf(a)' = AuthorOf(a) /\ articles' = articles
        BY <3>1 DEF AuthorOf
      <4>2. AuthorOf(a) \in got[f].ids
        BY <2>4, <3>4, <3>7, <4>1
      <4>3. articles[a].author \in AuthorRows(AuthorOf(a))
        BY <3>7, <4>1, AuthorIsThere DEF AuthorRows, AuthorOf
      <4> QED BY <4>1, <4>2, <4>3
    <3> QED BY <3>1, <3>2, <3>3, <3>5, <3>6, <3>7 DEF FeedInv
  <2>8. CASE FeedArticles(f) /\ pc[f] = "list"
    <3> DEFINE shown == {a \in DOMAIN articles : articles[a].live /\ articles[a].author \in got[f].ids}
    <3>1. UNCHANGED <<users, follows, articles, articleUsers>> /\ Serialize(f, shown)
      BY <1>1, <2>8, NotHit DEF FeedArticles, accountVars, contentVars
    <3>2. shown \in SUBSET Nat
      BY <1>2, TableIds
    <3>3. got'[f].ids = shown /\ pc'[f] \in {"serialize", "done"}
      BY <3>1, <3>2, SerializeGives
    <3>4. /\ \A n \in got[f].ids : n \in DOMAIN articleUsers
                                   /\ articleUsers[n] \in Followings(call[f].me)
          /\ FeedIsAlone(f) => \A a \in DOMAIN articles :
               Followed(f, AuthorOf(a)) => articles[a].author \in got[f].ids
      BY <2>1, <2>8 DEF FeedInv
    <3>5. Followings(call[f].me)' = Followings(call[f].me)
      BY <2>1, <3>1 DEF Followings
    <3>6. \A a : AuthorOf(a)' = AuthorOf(a)
      BY <3>1 DEF AuthorOf
    <3>7. \A a \in shown : a \in DOMAIN articles' /\ AuthorOf(a)' \in Followings(call[f].me)'
      BY <3>1, <3>4, <3>5, <3>6 DEF AuthorOf
    <3>8. ASSUME FeedIsAlone(f)', NEW a \in DOMAIN articles', articles'[a].live,
                 Followed(f, AuthorOf(a))'
          PROVE  a \in shown
      BY <2>4, <3>1, <3>4, <3>6, <3>8
    <3> QED BY <3>3, <3>7, <3>8 DEF FeedInv
  <2>9. CASE ArticleSerializer(f) /\ pc[f] = "serialize"
    <3>1. pc'[f] = "done" /\ got'[f].ids = got[f].ids
      BY <1>2, <2>9 DEF ArticleSerializer, List, TypeInv, Locals
    <3> QED BY <1>1, <2>1, <2>9, <3>1, FeedStays
  <2>10. ~FeedRefused(f)
    BY <2>2 DEF FeedRefused
  <2> QED BY <2>1, <2>5, <2>6, <2>7, <2>8, <2>9, <2>10, FeedSteps
<1> QED BY <1>1, <1>3, <1>4

LEMMA FeedKept ==
  ASSUME OInv, OInv', NEW r \in Requests, Step(r), NEW f \in Requests, FeedInv(f)
  PROVE  FeedInv(f)'
<1>1. CASE f = r
  BY <1>1, FeedMoves
<1>2. CASE f # r
  <2>1. Moved(r)
    BY StepMoves
  <2>2. CASE f \in (Calling({"feed"}) \ hit)'
    <3>1. f \in Calling({"feed"}) \ hit
      BY <1>2, <2>1, <2>2 DEF Moved, Calling, Started, Kind
    <3> QED BY <1>2, <2>1, <2>2, <3>1, FeedStays DEF Moved, Answered
  <2>3. CASE f \notin (Calling({"feed"}) \ hit)'
    BY <2>3 DEF FeedInv
  <2> QED BY <2>2, <2>3
<1> QED BY <1>1, <1>2
-----------------------------------------------------------------------------
(***************************************************************************)
(* The lists, by author or by who favourited.                              *)
(***************************************************************************)
Adders == {"createArticle", "import", "favorite"}

\* What the list should have by the ArticleUserModel that it found.
Wanted(l, a) ==
  IF Kind(l) = "byAuthor"
  THEN articles[a].author = got[l].au
  ELSE \E g \in DOMAIN favorites : /\ favorites[g].live /\ favorites[g].article = a
                                   /\ favorites[g].by = got[l].au

Complete(l) == Calling(Adders) \subseteq before[l] =>
                 \A a \in DOMAIN articles : articles[a].live /\ Wanted(l, a) => a \in got[l].ids

ListInv(l) ==
  l \in Calling(Lists) \ hit =>
    /\ pc[l] = "rows" => got[l].au # 0
    /\ pc[l] \in {"list", "serialize"} \/ (Answered(l) /\ got[l].found # 0) =>
         got[l].au # 0 /\ Complete(l)

LEMMA ListSteps ==
  ASSUME OInv, NEW p \in Requests, Step(p), Kind(p) \in Lists, pc[p] # "idle"
  PROVE  \/ FindListed(p) /\ pc[p] = "begun"
         \/ FirstArticleUser(p) /\ pc[p] = "author"
         \/ CreateArticleUser(p) /\ pc[p] = "createAuthor"
         \/ FindIds(p) /\ pc[p] = "rows"
         \/ FindManyArticle(p) /\ pc[p] = "list"
         \/ ArticleSerializer(p) /\ pc[p] = "serialize"
<1>1. Fits(pc[p], Kind(p))
  BY DEF OInv, OrderInv
<1>2. pc[p] \notin {"found", "create", "write", "followings", "authors"}
  BY <1>1 DEF Fits, OnArticle, Lists
<1>3. ~AccountStep(p)
  BY DEF Lists, AccountStep, AuthMiddleware, Arrive, UsersRegistration, UsersLogin, UserUpdate,
         FindProfile, FirstFollow, CreateFollow, Unfollow, At
<1>4. \/ FirstArticleUser(p) \/ CreateArticleUser(p) \/ ArticleSerializer(p)
      \/ FindListed(p) \/ FindIds(p) \/ FindManyArticle(p)
  BY <1>2, <1>3 DEF Step, ArticleStep, At, Lists, OnArticle, FindOneArticle,
        FindOneComment, ArticleCreate, ArticleUpdate, ArticleDelete, ImportArticle,
        FirstFavorite, CreateFavorite, Unfavorite, ArticleCommentCreate, ArticleCommentDelete,
        FeedRefused, FeedFollowings, FeedAuthors, FeedArticles, FindFilter, ExportRows
<1> QED BY <1>4 DEF FirstArticleUser, CreateArticleUser, ArticleSerializer, FindListed,
                    FindIds, FindManyArticle, At, AtAuthor, Lists

\* What is wanted of the tables is not more than it was.
LEMMA WantedFrame ==
  ASSUME OInv, NEW r \in Requests, Step(r), NEW l \in Started, got'[l].au = got[l].au,
         Calling(Adders)' \subseteq before'[l]
  PROVE  /\ Calling(Adders) \subseteq before[l]
         /\ \A a \in DOMAIN articles' : articles'[a].live /\ Wanted(l, a)' =>
              a \in DOMAIN articles /\ articles[a].live /\ Wanted(l, a)
<1>1. Calling(Adders) \subseteq before[l] /\ (Arrives(r) \/ Kind(r) \notin Adders)
  BY Quiet
<1>2. Kind(l)' = Kind(l)
  BY StartedStays
<1>3. ASSUME NEW a \in DOMAIN articles', articles'[a].live, Wanted(l, a)'
      PROVE  a \in DOMAIN articles /\ articles[a].live /\ Wanted(l, a)
  <2>1. /\ a \in DOMAIN articles /\ articles[a].live
        /\ articles'[a].author = articles[a].author
    BY <1>1, <1>3, ArticlesStay DEF Adders
  <2>2. CASE Kind(l) = "byAuthor"
    BY <1>2, <1>3, <2>1, <2>2 DEF Wanted
  <2>3. CASE Kind(l) # "byAuthor"
    <3>1. PICK g \in DOMAIN favorites' : /\ favorites'[g].live /\ favorites'[g].article = a
                                         /\ favorites'[g].by = got[l].au
      BY <1>2, <1>3, <2>3 DEF Wanted
    <3>2. ~CreateFavorite(r)
      BY <1>1 DEF Arrives, CreateFavorite, At, AuthMiddleware, Arrive, Adders
    <3>3. /\ g \in DOMAIN favorites /\ favorites[g].live /\ favorites[g].article = a
          /\ favorites[g].by = got[l].au
      BY <3>1, <3>2, FavoritesFrame
    <3> QED BY <2>1, <2>3, <3>3 DEF Wanted
  <2> QED BY <2>2, <2>3
<1> QED BY <1>1, <1>3

LEMMA ListStays ==
  ASSUME OInv, OInv', NEW r \in Requests, Step(r), NEW l \in Calling(Lists) \ hit, ListInv(l),
         got'[l].ids = got[l].ids, got'[l].au = got[l].au, got'[l].found = got[l].found,
         \/ pc'[l] = pc[l] /\ (Answered(l)' <=> Answered(l))
         \/ pc[l] = "serialize" /\ pc'[l] = "done"
  PROVE  ListInv(l)'
<1>1. l \in Started
  BY DEF Calling
<1>2. Complete(l) => Complete(l)'
  BY <1>1, WantedFrame DEF Complete
<1> QED BY <1>2 DEF ListInv

LEMMA ListMoves ==
  ASSUME OInv, OInv', NEW l \in Requests, Step(l), ListInv(l)
  PROVE  ListInv(l)'
<1> SUFFICES ASSUME l \in (Calling(Lists) \ hit)' PROVE ListInv(l)'
  BY DEF ListInv
<1>1. Moved(l) /\ (Arrives(l) \/ Handles(l)) /\ l \notin hit'
  BY StepMoves
<1>2. got[l] \in Locals /\ TypeInv /\ RequestInv(l)
  BY DEF OInv, IInv, TypeInv
<1>3. CASE Arrives(l)
  <2>1. pc'[l] = "begun" /\ answer'[l] = answer[l] /\ pc[l] # "done"
    BY <1>1, <1>3 DEF Arrives, Moved
  <2>2. ~Answered(l)'
    BY <2>1, NotAnswered
  <2> QED BY <2>1, <2>2 DEF ListInv
<1>4. CASE Handles(l)
  <2>1. /\ Kind(l) \in Lists /\ pc[l] \notin {"idle", "done"} /\ l \notin hit /\ call'[l] = call[l]
        /\ l \in Calling(Lists) \ hit /\ l \in Started /\ Kind(l)' = Kind(l)
    BY <1>1, <1>4 DEF Handles, Calling, Started, Kind, Moved
  <2>2. Calling(Adders)' \subseteq before'[l] => Calling(Adders) \subseteq before[l]
    BY <2>1, Quiet
  <2>3. CASE FindListed(l) /\ pc[l] = "begun"
    <3>1. (\E f : Goto(l, "author", [got[l] EXCEPT !.found = f])) \/ List(l, {})
      BY <1>1, <2>3, NotHit DEF FindListed
    <3>2. CASE List(l, {})
      <4>1. pc'[l] = "done" /\ got'[l].found = got[l].found
        BY <1>2, <3>2 DEF List, TypeInv, Locals
      <4>2. got[l].found = 0
        BY <1>2, <2>3 DEF RequestInv, CallerInv
      <4> QED BY <4>1, <4>2 DEF ListInv
    <3>3. CASE \E f : Goto(l, "author", [got[l] EXCEPT !.found = f])
      <4>1. pc'[l] = "author" /\ answer'[l] = answer[l]
        BY <1>2, <3>3 DEF Goto, TypeInv
      <4>2. ~Answered(l)'
        BY <2>1, <4>1, NotAnswered
      <4> QED BY <4>1, <4>2 DEF ListInv
    <3> QED BY <3>1, <3>2, <3>3
  <2>4. CASE \/ FirstArticleUser(l) /\ pc[l] = "author"
             \/ CreateArticleUser(l) /\ pc[l] = "createAuthor"
    <3>1. Whose(l) # 0
      BY <1>2, <2>1, <2>4 DEF Whose, RequestInv, ProfileInv
    <3>2. Goto(l, "createAuthor", got[l]) \/ \E au \in Nat \ {0} : AsAuthor(l, au)
      BY <1>1, <2>4, <3>1, AuthorGiven
    <3>3. ASSUME NEW au \in Nat \ {0}, AsAuthor(l, au)
          PROVE  Goto(l, "rows", [got[l] EXCEPT !.au = au])
      BY <2>1, <3>3 DEF AsAuthor, Going, Owned, Lists
    <3>4. pc'[l] \in {"createAuthor", "rows"} /\ answer'[l] = answer[l]
      BY <1>2, <3>2, <3>3 DEF Goto, TypeInv
    <3>5. ~Answered(l)'
      BY <2>1, <3>4, NotAnswered
    <3>6. pc'[l] = "rows" => got'[l].au # 0
      <4>1. ASSUME NEW au \in Nat \ {0}, Goto(l, "rows", [got[l] EXCEPT !.au = au])
            PROVE  got'[l].au # 0
        BY <1>2, <4>1 DEF Goto, TypeInv, Locals
      <4>2. Goto(l, "createAuthor", got[l]) => pc'[l] # "rows"
        BY <1>2 DEF Goto, TypeInv
      <4> QED BY <3>2, <3>3, <4>1, <4>2
    <3> QED BY <3>4, <3>5, <3>6 DEF ListInv
  <2>5. CASE FindIds(l) /\ pc[l] = "rows"
    <3>1. /\ UNCHANGED <<articles, favorites>>
          /\ \/ Goto(l, "list", [got[l] EXCEPT !.ids = ListedIds(l)])
             \/ ListedIds(l) = {} /\ List(l, {})
      BY <1>1, <2>5, NotHit DEF FindIds, contentVars
    <3>2. got'[l].ids = ListedIds(l)
      <4>1. Goto(l, "list", [got[l] EXCEPT !.ids = ListedIds(l)]) => got'[l].ids = ListedIds(l)
        BY <1>2 DEF Goto, TypeInv, Locals
      <4>2. List(l, {}) => got'[l].ids = {}
        BY <1>2 DEF List, TypeInv, Locals
      <4> QED BY <3>1, <4>1, <4>2
    <3>3. pc'[l] \in {"list", "done"} /\ got'[l].au = got[l].au /\ got[l].au # 0
      <4>1. got'[l].au = got[l].au /\ got[l].au # 0
        BY <1>4, <2>1, <2>5 DEF Handles, ListInv
      <4> QED BY <1>2, <3>1, <4>1 DEF Goto, List, TypeInv
    <3>4. ASSUME NEW a \in DOMAIN articles', articles'[a].live, Wanted(l, a)'
          PROVE  a \in ListedIds(l)
      <4>1. a \in DOMAIN articles /\ articles[a].live /\ Wanted(l, a)
        BY <2>1, <3>1, <3>3, <3>4 DEF Wanted
      <4> QED BY <4>1 DEF Wanted, ListedIds
    <3>5. Complete(l)'
      BY <3>2, <3>4 DEF Complete
    <3> QED BY <3>3, <3>5 DEF ListInv
  <2>6. CASE FindManyArticle(l) /\ pc[l] = "list"
    <3> DEFINE shown == {a \in got[l].ids : articles[a].live}
    <3>1. UNCHANGED <<articles, favorites>> /\ Serialize(l, shown)
      BY <1>1, <2>6, NotHit DEF FindManyArticle, contentVars
    <3>2. shown \in SUBSET Nat
      BY <1>2 DEF Locals
    <3>3. got'[l].ids = shown /\ pc'[l] \in {"serialize", "done"}
      BY <3>1, <3>2, SerializeGives
    <3>4. got'[l].au = got[l].au /\ got[l].au # 0 /\ Complete(l)
      BY <1>4, <2>1, <2>6 DEF Handles, ListInv
    <3>5. ASSUME Calling(Adders)' \subseteq before'[l], NEW a \in DOMAIN articles',
                 articles'[a].live, Wanted(l, a)'
          PROVE  a \in shown
      <4>1. a \in DOMAIN articles /\ articles[a].live /\ Wanted(l, a)
        BY <2>1, <3>1, <3>4, <3>5 DEF Wanted
      <4> QED BY <2>2, <3>4, <3>5, <4>1 DEF Complete
    <3>6. Complete(l)'
      BY <3>3, <3>5 DEF Complete
    <3> QED BY <3>3, <3>4, <3>6 DEF ListInv
  <2>7. CASE ArticleSerializer(l) /\ pc[l] = "serialize"
    <3>1. /\ pc'[l] = "done" /\ got'[l].ids = got[l].ids
          /\ got'[l].au = got[l].au /\ got'[l].found = got[l].found
      BY <1>2, <2>7 DEF ArticleSerializer, List, TypeInv, Locals
    <3> QED BY <2>1, <2>7, <3>1, ListStays
  <2> QED BY <2>1, <2>3, <2>4, <2>5, <2>6, <2>7, ListSteps
<1> QED BY <1>1, <1>3, <1>4

LEMMA ListKept ==
  ASSUME OInv, OInv', NEW r \in Requests, Step(r), NEW l \in Requests, ListInv(l)
  PROVE  ListInv(l)'
<1>1. CASE l = r
  BY <1>1, ListMoves
<1>2. CASE l # r
  <2>1. Moved(r)
    BY StepMoves
  <2>2. CASE l \in (Calling(Lists) \ hit)'
    <3>1. l \in Calling(Lists) \ hit
      BY <1>2, <2>1, <2>2 DEF Moved, Calling, Started, Kind
    <3> QED BY <1>2, <2>1, <2>2, <3>1, ListStays DEF Moved, Answered
  <2>3. CASE l \notin (Calling(Lists) \ hit)'
    BY <2>3 DEF ListInv
  <2> QED BY <2>2, <2>3
<1> QED BY <1>1, <1>2
-----------------------------------------------------------------------------
LEMMA OneRow ==
  ASSUME TypeInv, NEW u, Cardinality(AuthorRows(u)) = 1, NEW r \in AuthorRows(u),
         NEW s \in AuthorRows(u)
  PROVE  r = s
<1> SUFFICES ASSUME r # s PROVE FALSE
  OBVIOUS
<1>1. Cardinality(AuthorRows(u)) > 1
  BY TwoRows
<1> QED BY <1>1

\* Feeds and lists have what was there all the time, and a feed nothing of a user
\* who was never followed (FeedComplete).
THEOREM FeedsAreComplete == Spec => []FeedComplete
<1> DEFINE Inv == \A p \in Requests : FeedInv(p) /\ ListInv(p)
<1>1. Init => Inv
  BY DEF Init, FeedInv, ListInv, Calling, Started
<1>2. OInv /\ OInv' /\ Inv /\ [Next]_vars => Inv'
  <2> SUFFICES ASSUME OInv, OInv', Inv, [Next]_vars, NEW p \in Requests
               PROVE  (FeedInv(p) /\ ListInv(p))'
    OBVIOUS
  <2>1. CASE UNCHANGED vars
    <3>1. /\ call' = call /\ pc' = pc /\ got' = got /\ answer' = answer /\ hit' = hit
          /\ before' = before /\ follows' = follows /\ favorites' = favorites
          /\ articles' = articles /\ articleUsers' = articleUsers
      BY <2>1 DEF vars, requestVars, accountVars, contentVars
    <3>2. FeedInv(p) /\ ListInv(p)
      OBVIOUS
    <3>3. FeedInv(p)'
      BY ONLY <3>1, <3>2 DEF FeedInv, Calling, Started, Kind, FeedIsAlone, SamePair, Followed,
                             FollowRows, Followings, Answered, AuthorOf
    <3>4. ListInv(p)'
      BY ONLY <3>1, <3>2 DEF ListInv, Calling, Started, Kind, Complete, Wanted, Answered
    <3> QED BY <3>3, <3>4
  <2>2. CASE Next
    <3>1. PICK r \in Requests : Step(r)
      BY <2>2 DEF Next, Step
    <3> QED BY <3>1, FeedKept, ListKept
  <2> QED BY <2>1, <2>2
<1>3. OInv /\ Inv => FeedComplete
  <2> SUFFICES ASSUME OInv, Inv PROVE FeedComplete
    OBVIOUS
  <2>1. ASSUME NEW f \in Calling({"feed"}) \ hit, answer[f] = 200
        PROVE  /\ (/\ \A q \in Calling({"follow"}) : call[q].me = call[f].me => q \in before[f]
                   /\ Calling({"createArticle", "import"}) \subseteq before[f]) =>
                     \A a \in DOMAIN articles :
                       articles[a].live /\ FollowRows(call[f].me, AuthorOf(a)) # {} => a \in got[f].ids
               /\ \A a \in got[f].ids : AuthorOf(a) \in Followings(call[f].me)
    BY <2>1 DEF FeedInv, FeedIsAlone, SamePair, Followed, Answered, Calling, Started
  <2>2. ASSUME NEW l \in Calling(Lists) \ hit, answer[l] = 200, got[l].found # 0,
               Cardinality(AuthorRows(got[l].found)) = 1,
               Calling({"createArticle", "import", "favorite"}) \subseteq before[l],
               NEW a \in DOMAIN articles, articles[a].live,
               IF Kind(l) = "byAuthor"
               THEN AuthorOf(a) = got[l].found
               ELSE \E f \in DOMAIN favorites : /\ favorites[f].live /\ favorites[f].article = a
                                                /\ articleUsers[favorites[f].by] = got[l].found
        PROVE  a \in got[l].ids
    <3>1. got[l].au # 0 /\ Complete(l) /\ l \in Requests /\ Kind(l) \in Lists
      BY <2>2 DEF ListInv, Answered, Calling, Started
    <3>2. got[l].au \in AuthorRows(got[l].found)
      <4>1. TypeInv /\ AuthorInv(l) /\ got[l] \in Locals
        BY <3>1 DEF OInv, IInv, TypeInv, RequestInv
      <4>2. got[l].au <= Len(articleUsers) /\ articleUsers[got[l].au] = got[l].found
        BY <3>1, <4>1 DEF AuthorInv, Whose
      <4> QED BY <3>1, <4>1, <4>2, TableIds DEF AuthorRows, Locals
    <3>3. ASSUME NEW r \in DOMAIN articleUsers, articleUsers[r] = got[l].found
          PROVE  r = got[l].au
      <4>1. r \in AuthorRows(got[l].found) /\ TypeInv
        BY <3>3 DEF AuthorRows, OInv, IInv
      <4> QED BY <2>2, <3>2, <4>1, OneRow
    <3>4. Wanted(l, a)
      <4>1. CASE Kind(l) = "byAuthor"
        BY <2>2, <3>3, <4>1, AuthorIsThere DEF Wanted, AuthorOf
      <4>2. CASE Kind(l) # "byAuthor"
        <5>1. PICK g \in DOMAIN favorites : /\ favorites[g].live /\ favorites[g].article = a
                                            /\ articleUsers[favorites[g].by] = got[l].found
          BY <2>2, <4>2
        <5>2. favorites[g].by \in DOMAIN articleUsers
          BY DEF OInv, IInv, TypeInv, Consistent
        <5> QED BY <3>3, <4>2, <5>1, <5>2 DEF Wanted
      <4> QED BY <4>1, <4>2
    <3> QED BY <2>2, <3>1, <3>4 DEF Complete, Adders
  <2> QED BY <2>1, <2>2 DEF FeedComplete
<1> HIDE DEF Inv
<1> QED BY <1>1, <1>2, <1>3, OrderHolds, PTL DEF Spec
=============================================================================
