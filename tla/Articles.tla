------------------------------ MODULE Articles ------------------------------
(***************************************************************************)
(* The handlers of the articles package over the accounts of Accounts, and *)
(* the importer as another client of their tables.  Everything that writes *)
(* an article, a comment or a favourite does it in the name of the         *)
(* caller's ArticleUserModel, which is made at the first need of it.       *)
(*                                                                         *)
(* Tags are in ArticleImport.                                              *)
(***************************************************************************)
EXTENDS Accounts

CONSTANTS Scenarios,  \* starts: the tables, and the calls that clients make
          SlugOf      \* slug.Make of each title

VARIABLES
  articleUsers,   \* article_user_models: the user of each row
  articles,       \* article_models
  favorites,      \* favorite_models
  comments        \* comment_models

contentVars == <<articleUsers, articles, favorites, comments>>
vars == <<requestVars, accountVars, contentVars>>

Titles == DOMAIN SlugOf

\* The columns of the tables, and what the form of a registration gives for a row:
\* its password is not yet a hash.
UserRows      == [username : STRING, email : STRING, bio : STRING, password : Hashes]
UserModels    == [username : STRING, email : STRING, bio : STRING, password : Passwords]
FollowRecords == [by : Nat, of : Nat, live : BOOLEAN]
ArticleRows   == [slug : STRING, title : Titles, body : STRING, author : Nat, live : BOOLEAN]
FavoriteRecords == [by : Nat, article : Nat, live : BOOLEAN]
CommentRows   == [author : Nat, article : Nat, live : BOOLEAN]

\* Foreign keys: every row refers to rows that are there.
Consistent(us, fs, aus, as, favs, cs) ==
  /\ us \in Seq(UserRows) /\ fs \in Seq(FollowRecords) /\ aus \in Seq(Nat)
  /\ as \in Seq(ArticleRows) /\ favs \in Seq(FavoriteRecords) /\ cs \in Seq(CommentRows)
  /\ \A f \in DOMAIN fs : fs[f].by \in DOMAIN us /\ fs[f].of \in DOMAIN us
  /\ \A r \in DOMAIN aus : aus[r] \in DOMAIN us
  /\ \A a \in DOMAIN as : as[a].author \in DOMAIN aus
  /\ \A f \in DOMAIN favs : favs[f].by \in DOMAIN aus /\ favs[f].article \in DOMAIN as
  /\ \A c \in DOMAIN cs : cs[c].author \in DOMAIN aus /\ cs[c].article \in DOMAIN as

\* The unique index on email.
UniqueEmails(us) == \A u, v \in DOMAIN us : us[u].email = us[v].email => u = v

\* The routes behind AuthMiddleware(true), which sends a call without a token away
\* with 401: no such call gets to a handler.
SignedIn == {"updateUser", "follow", "unfollow", "feed", "createArticle", "updateArticle",
             "deleteArticle", "favorite", "unfavorite", "comment", "deleteComment"}

\* A call is made by a user that is there, or by none; registration and login are
\* not behind the middleware.
CallOK(c, us) ==
  /\ c.me \in Nat /\ c.me <= Len(us)
  /\ c.kind \in SignedIn => c.me # 0
  /\ c.kind \in {"register", "login"} => c.me = 0
  /\ c.kind = "register" => c.user \in UserModels
  /\ c.kind = "login" => c.password \in Passwords
  /\ c.kind = "updateUser" =>
       /\ \A f \in DOMAIN c.given : c.given[f] \in STRING
       /\ "password" \in DOMAIN c.given => c.given.password \in Passwords
  /\ c.kind = "updateArticle" =>
       /\ "title" \in DOMAIN c.given => c.given.title \in Titles
       /\ "body" \in DOMAIN c.given => c.given.body \in STRING
  /\ c.kind \in {"createArticle", "import"} => c.title \in Titles /\ c.body \in STRING
  /\ c.kind = "import" => c.slug \in STRING

ASSUME ScenarioAssumption ==
  /\ \A t \in Titles : SlugOf[t] \in STRING
  /\ \A s \in Scenarios :
       /\ Consistent(s.users, s.follows, s.articleUsers, s.articles, s.favorites, s.comments)
       /\ UniqueEmails(s.users)
       /\ \A c \in s.calls : CallOK(c, s.users)

Steps == {"idle", "begun", "found", "author", "createAuthor", "create", "write",
          "followings", "authors", "rows", "list", "serialize", "done"}
Statuses == {0, 200, 201, 401, 403, 404, 422}

\* No request leaves an article, a favourite or a comment with somebody or
\* something that does not exist.
ApiTypeOK ==
  /\ \A p \in Requests : call[p] \in offered \/ call[p] = NoCall
  /\ pc \in [Requests -> Steps]
  /\ \A p \in Requests : got[p].me \in 0..Len(users) /\ got[p].au \in 0..Len(articleUsers)
  /\ answer \in [Requests -> Statuses]
  /\ hit \subseteq Requests
  /\ before \in [Requests -> SUBSET Requests]
  /\ Consistent(users, follows, articleUsers, articles, favorites, comments)

Init ==
  /\ \E s \in Scenarios :
       /\ offered = s.calls
       /\ users = s.users /\ follows = s.follows
       /\ articleUsers = s.articleUsers /\ articles = s.articles
       /\ favorites = s.favorites /\ comments = s.comments
  /\ call = [p \in Requests |-> NoCall]
  /\ pc = [p \in Requests |-> "idle"]
  /\ got = [p \in Requests |-> Nothing]
  /\ answer = [p \in Requests |-> 0]
  /\ hit = {}
  /\ before = [p \in Requests |-> {}]

\* Rows of article_user_models that a user has.
AuthorRows(u) == {r \in DOMAIN articleUsers : articleUsers[r] = u}
-----------------------------------------------------------------------------
(***************************************************************************)
(* What most handlers do first.                                            *)
(***************************************************************************)
OnArticle == {"retrieve", "updateArticle", "deleteArticle", "favorite", "unfavorite", "comment"}
Owned     == {"updateArticle", "deleteArticle", "deleteComment"}
Lists     == {"byAuthor", "byFavorited"}

\* The user whose ArticleUserModel a handler needs: for a list, the one it names.
Whose(p) == IF Kind(p) \in Lists THEN got[p].found ELSE got[p].me

\* FindOneArticle by slug.  ArticleDelete alone goes on without an article.
FindOneArticle(p) ==
  /\ At(p, "begun", OnArticle)
  /\ LET named == {a \in DOMAIN articles : articles[a].slug = call[p].slug /\ articles[a].live}
     IN \/ /\ named # {} /\ Works
           /\ Goto(p, "author", [got[p] EXCEPT !.found = Min(named),
                                               !.article = articles[Min(named)]])
        \/ /\ IF named = {} THEN Works ELSE Fault(p)
           /\ IF Kind(p) = "deleteArticle" THEN Goto(p, "write", got[p]) ELSE Reply(p, 404)
  /\ UNCHANGED <<accountVars, contentVars>>

\* FindOneComment by id, a condition that is left out of the query when it is 0.
\* ArticleCommentDelete goes on without a comment too.
FindOneComment(p) ==
  /\ At(p, "begun", {"deleteComment"})
  /\ LET named == {c \in DOMAIN comments : comments[c].live /\ call[p].id \in {0, c}}
     IN \/ /\ named # {} /\ Works
           /\ Goto(p, "author", [got[p] EXCEPT !.found = Min(named)])
        \/ /\ IF named = {} THEN Works ELSE Fault(p)
           /\ Goto(p, "write", got[p])
  /\ UNCHANGED <<accountVars, contentVars>>

\* The answer is a list of rows.
List(p, rows) == /\ pc' = [pc EXCEPT ![p] = "done"]
                 /\ answer' = [answer EXCEPT ![p] = 200]
                 /\ got' = [got EXCEPT ![p].user = <<>>, ![p].article = <<>>, ![p].ids = rows]
                 /\ UNCHANGED <<offered, call, before>>

\* The answer has articles, and each says whether the caller has favourited it: for
\* that GetArticleUserModel is called once more, and finds nothing when it failed
\* before or was asked for another user.
Serialize(p, shown) ==
  IF shown = {} \/ got[p].me = 0 \/ AuthorRows(got[p].me) # {}
  THEN List(p, shown)
  ELSE Goto(p, "serialize", [got[p] EXCEPT !.ids = shown])

\* It makes one, unless its SELECT came after another request had made one.
ArticleSerializer(p) ==
  /\ pc[p] = "serialize" /\ List(p, got[p].ids)
  /\ \/ articleUsers' = Append(articleUsers, got[p].me) /\ Works
     \/ /\ IF AuthorRows(got[p].me) # {} THEN Works ELSE Fault(p)
        /\ UNCHANGED articleUsers
  /\ UNCHANGED <<accountVars, articles, favorites, comments>>

\* What a handler does with an ArticleUserModel: update and delete compare it
\* with the author of what they found.
AuthorOfFound(p) == IF Kind(p) = "deleteComment" THEN comments[got[p].found].author
                                                 ELSE got[p].article.author

Going(p, au) ==
  CASE Kind(p) = "retrieve"           -> Reply(p, 200)
    [] Kind(p) = "feed"               -> Goto(p, "followings", [got[p] EXCEPT !.au = au])
    [] Kind(p) \in Lists /\ au = 0    -> List(p, {})
    [] Kind(p) \in Lists /\ au # 0    -> Goto(p, "rows", [got[p] EXCEPT !.au = au])
    [] OTHER                          -> Goto(p, "write", [got[p] EXCEPT !.au = au])

\* Mutant: the id of the user is compared.
AsAuthorUser(p, au) == IF Kind(p) \in Owned /\ AuthorOfFound(p) # got[p].me
                       THEN Reply(p, 403) ELSE Going(p, au)

AsAuthor(p, au) == IF Kind(p) \in Owned /\ AuthorOfFound(p) # au
                   THEN Reply(p, 403) ELSE Going(p, au)

\* The feed and the import want a user; the others go on with the zero user.
AtAuthor(p) == \/ pc[p] = "author"
               \/ At(p, "begun", {"createArticle"})
               \/ At(p, "begun", {"feed", "import"}) /\ got[p].me # 0

\* Mutant: the zero user is not sent away, and a query without condition finds
\* the first row of all.
FirstArticleUserUnguarded(p) ==
  /\ AtAuthor(p) /\ Works
  /\ LET mine == IF Whose(p) = 0 THEN DOMAIN articleUsers ELSE AuthorRows(Whose(p))
     IN IF mine # {} THEN AsAuthor(p, Min(mine)) ELSE Goto(p, "createAuthor", got[p])
  /\ UNCHANGED <<accountVars, contentVars>>

\* GetArticleUserModel: nothing for the zero user, else a FirstOrCreate, whose
\* error is dropped and leaves the id 0.
FirstArticleUser(p) ==
  /\ AtAuthor(p)
  /\ LET mine == AuthorRows(Whose(p))
     IN \/ Whose(p) = 0 /\ Works /\ AsAuthor(p, 0)
        \/ Whose(p) # 0 /\ mine # {} /\ Works /\ AsAuthor(p, Min(mine))
        \/ Whose(p) # 0 /\ mine = {} /\ Works /\ Goto(p, "createAuthor", got[p])
        \/ Whose(p) # 0 /\ Fault(p) /\ AsAuthor(p, 0)
  /\ UNCHANGED <<accountVars, contentVars>>

CreateArticleUser(p) ==
  /\ pc[p] = "createAuthor"
  /\ \/ /\ articleUsers' = Append(articleUsers, Whose(p))
        /\ AsAuthor(p, Len(articleUsers) + 1) /\ Works
     \/ AsAuthor(p, 0) /\ Fault(p) /\ UNCHANGED articleUsers
  /\ UNCHANGED <<accountVars, articles, favorites, comments>>

\* The end of a handler: its one statement works, or is refused or fails.
Write(p, refused, status) ==
  \/ ~refused /\ Works /\ Reply(p, status)
  \/ (IF refused THEN Works ELSE Fault(p)) /\ Reply(p, 422)

Written(p) == answer'[p] \in {200, 201}

\* Save writes the author of a new article or comment too when it has no id, with
\* the user that is in it; the zero user is nothing to write.
Nobody(p)    == got[p].au = 0 /\ got[p].me = 0
SavedAs(p)   == IF got[p].au = 0 THEN Len(articleUsers) + 1 ELSE got[p].au
SaveAuthor(p) == articleUsers' = IF Written(p) /\ got[p].au = 0
                                 THEN Append(articleUsers, got[p].me) ELSE articleUsers
-----------------------------------------------------------------------------
(***************************************************************************)
(* Articles.                                                               *)
(***************************************************************************)

\* The unique index on slug counts rows that were deleted softly.
SlugTaken(slug, but) == \E a \in DOMAIN articles \ {but} : articles[a].slug = slug

\* The zero author breaks the foreign key.
ArticleCreate(p) ==
  /\ At(p, "write", {"createArticle"})
  /\ LET slug == SlugOf[call[p].title]
     IN /\ Write(p, Nobody(p) \/ SlugTaken(slug, 0), 201)
        /\ articles' = IF Written(p)
                       THEN Append(articles, [slug |-> slug, title |-> call[p].title,
                                              body |-> call[p].body, author |-> SavedAs(p),
                                              live |-> TRUE])
                       ELSE articles
  /\ SaveAuthor(p)
  /\ UNCHANGED <<accountVars, favorites, comments>>

\* Mutant: the article is saved whole, and so comes back when it was deleted.
ArticleUpdateSaving(p) ==
  /\ At(p, "write", {"updateArticle"})
  /\ LET title == Filled(call[p].given, got[p].article, "title")
     IN /\ Write(p, SlugTaken(SlugOf[title], got[p].found), 200)
        /\ articles' = IF Written(p)
                       THEN [articles EXCEPT ![got[p].found] =
                               [got[p].article EXCEPT !.slug = SlugOf[title], !.title = title,
                                !.body = Filled(call[p].given, got[p].article, "body")]]
                       ELSE articles
  /\ UNCHANGED <<accountVars, articleUsers, favorites, comments>>

\* The form is filled with the copy that FindOneArticle made; the slug is made
\* anew of whatever title is in it.  Updates changes the row of that id if it has
\* not been deleted, and is content with none.
ArticleUpdate(p) ==
  /\ At(p, "write", {"updateArticle"})
  /\ LET title == Filled(call[p].given, got[p].article, "title")
         live  == articles[got[p].found].live
     IN /\ Write(p, live /\ SlugTaken(SlugOf[title], got[p].found), 200)
        /\ articles' = IF Written(p) /\ live
                       THEN [articles EXCEPT ![got[p].found].slug = SlugOf[title],
                                             ![got[p].found].title = title,
                                             ![got[p].found].body =
                                                Filled(call[p].given, got[p].article, "body")]
                       ELSE articles
  /\ UNCHANGED <<accountVars, articleUsers, favorites, comments>>

\* What has the slug now is deleted, softly: no author is looked at any more.
ArticleDelete(p) ==
  /\ At(p, "write", {"deleteArticle"})
  /\ Write(p, FALSE, 200)
  /\ articles' = [a \in DOMAIN articles |->
                    IF Written(p) /\ articles[a].slug = call[p].slug
                    THEN [articles[a] EXCEPT !.live = FALSE] ELSE articles[a]]
  /\ UNCHANGED <<accountVars, articleUsers, favorites, comments>>

\* The importer writes the article under the slug of its record; a row that has
\* it, deleted or not, keeps all but its uuid, which nothing here reads.  An
\* author whose lookup fails is taken for one who is not there.
ImportArticle(p) ==
  /\ Kind(p) = "import"
  /\ \/ /\ (pc[p] = "begun" /\ got[p].me = 0) \/ (pc[p] = "write" /\ got[p].au = 0)
        /\ Works /\ Reply(p, 404) /\ UNCHANGED articles
     \/ /\ pc[p] = "write" /\ got[p].au # 0
        /\ Write(p, FALSE, 200)
        /\ articles' = IF Written(p) /\ ~SlugTaken(call[p].slug, 0)
                       THEN Append(articles, [slug |-> call[p].slug, title |-> call[p].title,
                                              body |-> call[p].body, author |-> got[p].au,
                                              live |-> TRUE])
                       ELSE articles
  /\ UNCHANGED <<accountVars, articleUsers, favorites, comments>>
-----------------------------------------------------------------------------
(***************************************************************************)
(* Favourites and comments.                                                *)
(***************************************************************************)
FavoriteRows(by, of) ==
  {f \in DOMAIN favorites : /\ favorites[f].live /\ favorites[f].article = of
                            /\ by = 0 \/ favorites[f].by = by}

\* Mutant: the row is made without a look whether there is one.
FirstFavoriteNone(p) ==
  /\ At(p, "write", {"favorite"}) /\ Works
  /\ Goto(p, "create", got[p])
  /\ UNCHANGED <<accountVars, contentVars>>

\* favoriteBy is a FirstOrCreate, as following is.
FirstFavorite(p) ==
  /\ At(p, "write", {"favorite"})
  /\ \/ /\ Works
        /\ IF FavoriteRows(got[p].au, got[p].found) # {}
           THEN Serialize(p, {got[p].found})
           ELSE Goto(p, "create", got[p])
     \/ Fault(p) /\ Reply(p, 422)
  /\ UNCHANGED <<accountVars, contentVars>>

\* Mutant: the row has the id of the user, not of its ArticleUserModel.
CreateFavoriteByUser(p) ==
  /\ At(p, "create", {"favorite"})
  /\ Write(p, got[p].au = 0, 200)
  /\ favorites' = IF Written(p)
                  THEN Append(favorites, [by |-> got[p].me, article |-> got[p].found,
                                          live |-> TRUE])
                  ELSE favorites
  /\ UNCHANGED <<accountVars, articleUsers, articles, comments>>

CreateFavorite(p) ==
  /\ At(p, "create", {"favorite"})
  /\ Write(p, got[p].au = 0, 200)
  /\ favorites' = IF Written(p)
                  THEN Append(favorites, [by |-> got[p].au, article |-> got[p].found,
                                          live |-> TRUE])
                  ELSE favorites
  /\ UNCHANGED <<accountVars, articleUsers, articles, comments>>

Unfavorite(p) ==
  /\ At(p, "write", {"unfavorite"})
  /\ \/ /\ favorites' = [f \in DOMAIN favorites |->
                           IF favorites[f].by = got[p].au /\ favorites[f].article = got[p].found
                           THEN [favorites[f] EXCEPT !.live = FALSE] ELSE favorites[f]]
        /\ Serialize(p, {got[p].found}) /\ Works
     \/ Fault(p) /\ Reply(p, 422) /\ UNCHANGED favorites
  /\ UNCHANGED <<accountVars, articleUsers, articles, comments>>

\* The article may have been deleted since it was found; its row is still there.
ArticleCommentCreate(p) ==
  /\ At(p, "write", {"comment"})
  /\ Write(p, Nobody(p), 201)
  /\ comments' = IF Written(p)
                 THEN Append(comments, [author |-> SavedAs(p), article |-> got[p].found,
                                        live |-> TRUE])
                 ELSE comments
  /\ SaveAuthor(p)
  /\ UNCHANGED <<accountVars, articles, favorites>>

ArticleCommentDelete(p) ==
  /\ At(p, "write", {"deleteComment"})
  /\ Write(p, FALSE, 200)
  /\ comments' = [c \in DOMAIN comments |->
                    IF Written(p) /\ c = call[p].id
                    THEN [comments[c] EXCEPT !.live = FALSE] ELSE comments[c]]
  /\ UNCHANGED <<accountVars, articleUsers, articles, favorites>>
-----------------------------------------------------------------------------
(***************************************************************************)
(* GetArticleFeed, in three queries.  The first runs outside the           *)
(* transaction and its error is dropped: it looks as if nobody was         *)
(* followed.  An error of the others comes out at the commit.              *)
(***************************************************************************)
FeedRefused(p) ==
  /\ At(p, "begun", {"feed"}) /\ got[p].me = 0
  /\ Works /\ Reply(p, 401)
  /\ UNCHANGED <<accountVars, contentVars>>

FeedFollowings(p) ==
  /\ pc[p] = "followings"
  /\ \E found \in {Followings(got[p].me), {}} :
       /\ IF found = Followings(got[p].me) THEN Works ELSE Fault(p)
       /\ IF found = {} THEN Reply(p, 200)
                        ELSE Goto(p, "authors", [got[p] EXCEPT !.ids = found])
  /\ UNCHANGED <<accountVars, contentVars>>

FeedAuthors(p) ==
  /\ pc[p] = "authors"
  /\ \/ Works /\ Goto(p, "list", [got[p] EXCEPT !.ids = UNION {AuthorRows(u) : u \in @}])
     \/ Fault(p) /\ Reply(p, 404)
  /\ UNCHANGED <<accountVars, contentVars>>

FeedArticles(p) ==
  /\ At(p, "list", {"feed"})
  /\ \/ Works /\ Serialize(p, {a \in DOMAIN articles : /\ articles[a].live
                                                       /\ articles[a].author \in got[p].ids})
     \/ Fault(p) /\ Reply(p, 404)
  /\ UNCHANGED <<accountVars, contentVars>>
-----------------------------------------------------------------------------
(***************************************************************************)
(* FindManyArticle by author or by who favourited: the user of that name,  *)
(* its ArticleUserModel (made here too, outside the transaction), the ids  *)
(* of the rows, and the rows.  A failed query fails the commit.            *)
(***************************************************************************)
FindListed(p) ==
  /\ At(p, "begun", Lists)
  /\ LET named == {u \in DOMAIN users : users[u].username = call[p].name}
     IN \/ named # {} /\ Works /\ Goto(p, "author", [got[p] EXCEPT !.found = Min(named)])
        \/ named = {} /\ Works /\ List(p, {})
        \/ Fault(p) /\ Reply(p, 404)
  /\ UNCHANGED <<accountVars, contentVars>>

ListedIds(p) ==
  IF Kind(p) = "byAuthor"
  THEN {a \in DOMAIN articles : articles[a].live /\ articles[a].author = got[p].au}
  ELSE {favorites[f].article : f \in {g \in DOMAIN favorites :
                                        favorites[g].live /\ favorites[g].by = got[p].au}}

FindIds(p) ==
  /\ At(p, "rows", Lists)
  /\ \/ ListedIds(p) # {} /\ Works /\ Goto(p, "list", [got[p] EXCEPT !.ids = ListedIds(p)])
     \/ ListedIds(p) = {} /\ Works /\ List(p, {})
     \/ Fault(p) /\ Reply(p, 404)
  /\ UNCHANGED <<accountVars, contentVars>>

FindManyArticle(p) ==
  /\ At(p, "list", Lists)
  /\ \/ Works /\ Serialize(p, {a \in got[p].ids : articles[a].live})
     \/ Fault(p) /\ Reply(p, 404)
  /\ UNCHANGED <<accountVars, contentVars>>
-----------------------------------------------------------------------------
(***************************************************************************)
(* StreamExport with a filter that names a user or an article: a lookup,   *)
(* then the query of ExportJob.  A lookup that finds nothing, or fails,    *)
(* leaves the filter out.                                                  *)
(***************************************************************************)
FindFilter(p) ==
  /\ At(p, "begun", {"exportArticles", "exportComments"})
  /\ LET named == IF Kind(p) = "exportArticles"
                  THEN {u \in DOMAIN users : users[u].username = call[p].name}
                  ELSE {a \in DOMAIN articles : articles[a].live /\ articles[a].slug = call[p].slug}
     IN \/ /\ named # {} /\ Works
           /\ Goto(p, "list", [got[p] EXCEPT !.found = Min(named)])
        \/ /\ IF named = {} THEN Works ELSE Fault(p)
           /\ Goto(p, "list", got[p])
  /\ UNCHANGED <<accountVars, contentVars>>

\* Mutant: the query with the filter is made and not used.
FilteredAll(p) ==
  IF Kind(p) = "exportArticles" THEN {a \in DOMAIN articles : articles[a].live}
                                ELSE {c \in DOMAIN comments : comments[c].live}

\* The rows of the query.  The id of the user is compared with author_id, which
\* is one of article_user_models.
Filtered(p) ==
  LET all == got[p].found = 0
  IN IF Kind(p) = "exportArticles"
     THEN {a \in DOMAIN articles : articles[a].live /\ (all \/ articles[a].author = got[p].found)}
     ELSE {c \in DOMAIN comments : comments[c].live /\ (all \/ comments[c].article = got[p].found)}

\* The status is sent before the query, and whatever comes of it.
ExportRows(p) ==
  /\ At(p, "list", {"exportArticles", "exportComments"})
  /\ \/ Works /\ List(p, Filtered(p))
     \/ Fault(p) /\ List(p, {})
  /\ UNCHANGED <<accountVars, contentVars>>
-----------------------------------------------------------------------------
ArticleStep(p) ==
  \/ FindOneArticle(p) \/ FindOneComment(p) \/ FirstArticleUser(p) \/ CreateArticleUser(p)
  \/ ArticleSerializer(p)
  \/ ArticleCreate(p) \/ ArticleUpdate(p) \/ ArticleDelete(p) \/ ImportArticle(p)
  \/ FirstFavorite(p) \/ CreateFavorite(p) \/ Unfavorite(p)
  \/ ArticleCommentCreate(p) \/ ArticleCommentDelete(p)
  \/ FeedRefused(p) \/ FeedFollowings(p) \/ FeedAuthors(p) \/ FeedArticles(p)
  \/ FindListed(p) \/ FindIds(p) \/ FindManyArticle(p)
  \/ FindFilter(p) \/ ExportRows(p)

Next == \E p \in Requests : \/ AccountStep(p) /\ UNCHANGED contentVars
                            \/ ArticleStep(p)

Spec == Init /\ [][Next]_vars
-----------------------------------------------------------------------------
(***************************************************************************)
(* Properties.                                                             *)
(***************************************************************************)
Started  == {p \in Requests : pc[p] # "idle"}
Overlap(p, q) == p # q /\ p \notin before[q] /\ q \notin before[p]
Calling(kinds) == {p \in Started : Kind(p) \in kinds}
Succeeded(p) == answer[p] \in {200, 201} /\ p \notin hit

AuthorOf(a) == articleUsers[articles[a].author]

\* FirstOrCreate without a unique index: a user has two ArticleUserModels, and a
\* pair two live follows or favourites, only when two requests that make such a
\* row were on their way at the same time, or when the lookup of the first failed
\* and what was written brought another with it.
DuplicatesNeedARace ==
  /\ \A u \in DOMAIN users : Cardinality(AuthorRows(u)) > 1 =>
       \/ \E p, q \in Started : /\ u \in {Whose(p), got[p].me} \cap {Whose(q), got[q].me}
                                /\ Overlap(p, q)
       \/ \E p \in Calling({"createArticle", "comment"}) : p \in hit /\ got[p].me = u
  /\ \A u, v \in DOMAIN users : Cardinality(FollowRows(u, v)) > 1 =>
       \E p, q \in Calling({"follow"}) : got[p].me = u /\ got[q].me = u /\ Overlap(p, q)
  /\ \A r \in DOMAIN articleUsers, a \in DOMAIN articles :
       Cardinality(FavoriteRows(r, a)) > 1 =>
         \E p, q \in Calling({"favorite"}) : got[p].au = r /\ got[q].au = r /\ Overlap(p, q)

\* Requests of one pair, from the one that made the relation on: an answer stands
\* when every request for the contrary was answered before it arrived.
Stands(p, contraries) == Succeeded(p) /\ \A q \in contraries : q \in before[p]
SamePair(p, kind)     == {q \in Calling({kind}) : call[q].me = call[p].me}

\* What was answered last is so, however many rows a race has made: a follow that
\* stands is followed, an unfollow that stands leaves nothing, and the same for the
\* favourites of an ArticleUserModel.
RelationSettles ==
  /\ \A p \in Calling({"follow"}) : Stands(p, SamePair(p, "unfollow")) =>
       FollowRows(call[p].me, got[p].found) # {}
  /\ \A p \in Calling({"unfollow"}) : Stands(p, SamePair(p, "follow")) =>
       FollowRows(call[p].me, got[p].found) = {}
  /\ \A p \in Calling({"favorite", "unfavorite"}) :
       LET rows == FavoriteRows(got[p].au, got[p].found)
       IN /\ Kind(p) = "favorite" /\ Stands(p, SamePair(p, "unfavorite")) => rows # {}
          /\ Kind(p) = "unfavorite" /\ Stands(p, SamePair(p, "favorite")) => rows = {}

\* "You are not the author" is true: the author of an article or a comment gets
\* this answer only when its row could not be read, or when it has two
\* ArticleUserModels and what it wrote belongs to the second.
RefusedOnlyOutsiders ==
  \A p \in Calling({"updateArticle", "deleteArticle", "deleteComment"}) \ hit :
    answer[p] = 403 =>
      LET author == IF Kind(p) = "deleteComment" THEN comments[got[p].found].author
                                                 ELSE articles[got[p].found].author
      IN articleUsers[author] = call[p].me => Cardinality(AuthorRows(call[p].me)) > 1

Moves(p) == pc'[p] # pc[p]

\* What is deleted stays as it is.  What is there is changed or deleted by its
\* author alone, but for a delete that had found something else, or nothing, by
\* that slug or id, and so had no author to compare with the caller.
OwnersDecide ==
  [][\E p \in Requests : Moves(p) /\
       /\ \A a \in DOMAIN articles : articles'[a] # articles[a] =>
            /\ articles[a].live
            /\ AuthorOf(a) = got[p].me \/ (Kind(p) = "deleteArticle" /\ got[p].found # a)
       /\ \A c \in DOMAIN comments : comments'[c] # comments[c] =>
            /\ comments[c].live
            /\ articleUsers[comments[c].author] = got[p].me \/ got[p].found # c]_vars

\* A request whose user could not be read, or that has none, writes nothing in
\* anybody's name: no row is added (a list gives the user it names an
\* ArticleUserModel, though it only reads), and none is changed but by a delete
\* that found nothing to compare its user with.
NobodyWrites ==
  [][\A p \in Requests : Moves(p) /\ got[p].me = 0 /\ pc[p] # "idle"
                         /\ Kind(p) \notin {"register", "login"} =>
       /\ UNCHANGED <<users, follows, favorites>>
       /\ UNCHANGED articleUsers \/ Kind(p) \in Lists
       /\ UNCHANGED <<articles, comments>> \/ (got[p].found = 0 /\
            Len(articles') = Len(articles) /\ Len(comments') = Len(comments))]_vars

\* The last of the requests to give this field, and no other update came between.
LastToGive(p, field, rivals) ==
  /\ Succeeded(p) /\ field \in DOMAIN call[p].given
  /\ \A q \in rivals \ {p} : /\ ~Overlap(p, q)
                             /\ field \in DOMAIN call[q].given => q \in before[p]

\* Updates of one record that follow each other add up: each field has the value
\* that was given last, and an update that did not give it has not put an older
\* one back.  Only overlapping updates may (both write the whole of their copy).
\* A bio is never emptied.
UpdatesAddUp ==
  /\ \A p \in Calling({"updateUser"}) :
       LET rivals == {q \in Calling({"updateUser"}) : call[q].me = call[p].me}
       IN \A field \in {"username", "email", "bio"} : LastToGive(p, field, rivals) =>
            users[call[p].me][field] = call[p].given[field]
              \/ (field = "bio" /\ call[p].given[field] = "")
  /\ \A p \in Calling({"updateArticle"}) :
       LET rivals == {q \in Calling({"updateArticle"}) : got[q].found = got[p].found}
       IN \A field \in {"title", "body"} : LastToGive(p, field, rivals) =>
            articles[got[p].found][field] = call[p].given[field]
              \/ ~articles[got[p].found].live

\* The body gave a password that can be hashed.
SetsPassword(q) == GivenHash(call[q].given) # ""

\* The last password that could be hashed holds from the answer on, whatever other
\* updates of the account are on their way, those among them that were answered 200
\* for a password over 72 bytes: a login that arrives later gets in with a password
\* of that key and with no other, as long as nobody changes the address.  So does
\* the password of a registration; one that could not be hashed lets nobody in.
PasswordHolds ==
  \A l \in Calling({"login"}) \ hit : pc[l] = "done" =>
    /\ \A p \in Calling({"updateUser"}) \cap before[l] :
         LET mine == {q \in Calling({"updateUser"}) : call[q].me = call[p].me}
         IN /\ Succeeded(p) /\ SetsPassword(p)
            /\ \A q \in mine \ {p} : SetsPassword(q) => q \in before[p]
            /\ \A q \in mine : "email" \notin DOMAIN call[q].given
            /\ call[l].email = users[call[p].me].email
            => (answer[l] = 200 <=> BcryptKey[call[l].password] = GivenHash(call[p].given))
    /\ \A p \in Calling({"register"}) \cap before[l] :
         /\ Succeeded(p) /\ call[l].email = call[p].user.email
         /\ \A q \in Calling({"updateUser"}) :
              /\ "email" \notin DOMAIN call[q].given
              /\ users[call[q].me].email = call[l].email => ~SetsPassword(q)
         => (answer[l] = 200 <=> BcryptKey[call[l].password] = Hash(call[p].user.password))

\* A feed has every article that was there all the time, of every author followed
\* all the time, and none of an author whom the user never followed.  A list has
\* what its user wrote, or favourited, with the ArticleUserModel it has alone.
FeedComplete ==
  /\ \A f \in Calling({"feed"}) \ hit : answer[f] = 200 =>
       /\ (/\ \A q \in Calling({"follow"}) : call[q].me = call[f].me => q \in before[f]
           /\ Calling({"createArticle", "import"}) \subseteq before[f]) =>
            \A a \in DOMAIN articles :
              articles[a].live /\ FollowRows(call[f].me, AuthorOf(a)) # {} => a \in got[f].ids
       /\ \A a \in got[f].ids : AuthorOf(a) \in Followings(call[f].me)
  /\ \A l \in Calling(Lists) \ hit :
       /\ answer[l] = 200 /\ got[l].found # 0
       /\ Cardinality(AuthorRows(got[l].found)) = 1
       /\ Calling({"createArticle", "import", "favorite"}) \subseteq before[l]
       => \A a \in DOMAIN articles :
            /\ articles[a].live
            /\ IF Kind(l) = "byAuthor"
               THEN AuthorOf(a) = got[l].found
               ELSE \E f \in DOMAIN favorites : /\ favorites[f].live /\ favorites[f].article = a
                                                /\ articleUsers[favorites[f].by] = got[l].found
            => a \in got[l].ids

\* An export that found the article it is to filter by has the comments of that one
\* alone, and of those all that were there all the time, though the article is
\* renamed or deleted, or its slug given to another, before the query.  (What an
\* export has that found none is in ExportOfArticle.)
ExportOfFound ==
  \A e \in Calling({"exportComments"}) \ hit : pc[e] = "done" /\ got[e].found # 0 =>
    /\ \A c \in got[e].ids : comments[c].article = got[e].found
    /\ Calling({"comment"}) \subseteq before[e] =>
         \A c \in DOMAIN comments :
           comments[c].live /\ comments[c].article = got[e].found => c \in got[e].ids

-----------------------------------------------------------------------------
(* What a document says and the code does not do.                          *)

\* API.md: the filter author is to "Filter articles by author username".  An export
\* with it has articles by the user of that name only.
ExportOfAuthor ==
  \A e \in Calling({"exportArticles"}) : got[e].found # 0 =>
    \A a \in got[e].ids : AuthorOf(a) = got[e].found

\* API.md: the filter article is to "Filter comments by article slug".  An export
\* with it has comments of the article of that slug only, and none when there is
\* no such article.
ExportOfArticle ==
  \A e \in Calling({"exportComments"}) :
    \A c \in got[e].ids : comments[c].article = got[e].found

\* Of the two filters one at least is as documented.  (A disjunction, so that what
\* refutes it refutes both sentences of API.md at once.)
SomeFilterApplies == ExportOfAuthor \/ ExportOfArticle
=============================================================================
