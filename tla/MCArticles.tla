----------------------------- MODULE MCArticles -----------------------------
(* Starts for Articles: small tables that requests have made before, and the  *)
(* calls that meet there.  Anna has the id 1 and bobby the id 2.               *)
EXTENDS Articles, TLC

AnyOrder == Permutations(Requests)

MCSlugOf == [Hello |-> "hello", World |-> "world"]

\* A password of 72 bytes, and one that goes on after the same 72.
MCBcryptKey == [old |-> "old", his |-> "his", edge |-> "edge", long |-> "edge", random |-> "random"]

Anna  == [username |-> "anna", email |-> "a@x", bio |-> "hi", password |-> "old"]
Bobby == [username |-> "bobby", email |-> "b@x", bio |-> "", password |-> "his"]

Hello(author) == [slug |-> "hello", title |-> "Hello", body |-> "first",
                  author |-> author, live |-> TRUE]

\* The calls.
Update(me, given)  == [kind |-> "updateUser", me |-> me, given |-> given]
Login(email, password) == [kind |-> "login", me |-> 0, email |-> email, password |-> password]
Register(password) == [kind |-> "register", me |-> 0,
                       user |-> [Anna EXCEPT !.email = "c@x", !.password = password]]
Profile(kind, me)  == [kind |-> kind, me |-> me, name |-> "bobby"]
On(kind, me, slug) == [kind |-> kind, me |-> me, slug |-> slug]
Edit(me, slug, given) == [kind |-> "updateArticle", me |-> me, slug |-> slug, given |-> given]
Export(kind, name, slug) == [kind |-> kind, me |-> 0, name |-> name, slug |-> slug]
ListOf(kind, me, name) == [kind |-> kind, me |-> me, name |-> name]
Uncomment(me, id)  == [kind |-> "deleteComment", me |-> me, id |-> id]
Post(kind, me, slug, title) ==
  [kind |-> kind, me |-> me, slug |-> slug, title |-> title, body |-> "new"]

\* Two users; nobody has written anything.
Accounts0 ==
  [users |-> <<Anna, Bobby>>, follows |-> <<>>, articleUsers |-> <<>>,
   articles |-> <<>>, favorites |-> <<>>, comments |-> <<>>,
   calls |-> {Update(1, [bio |-> "b"]), Update(1, [bio |-> ""]),
              Update(1, [password |-> "edge"]), Update(1, [password |-> "long"]),
              Update(1, [email |-> "c@x"]), Update(2, [email |-> "c@x"]),
              Register("edge"), Register("long"), Register("random"),
              Login("a@x", "old"), Login("a@x", "edge"), Login("a@x", "long"),
              Login("c@x", "edge"), Login("c@x", "random")}]

\* Bobby has an article, which is in the feed of whoever follows him.
Feeds == [Accounts0 EXCEPT !.articleUsers = <<2>>, !.articles = <<Hello(1)>>, !.calls =
  {Profile("follow", 1), Profile("unfollow", 1), Profile("follow", 2),
   [kind |-> "feed", me |-> 1], Update(2, [username |-> "robert"]),
   Post("createArticle", 2, "world", "World"), On("deleteArticle", 2, "hello")}]

\* Both have written before: bobby the article, anna a comment on it.
Texts == [Accounts0 EXCEPT !.articleUsers = <<2, 1>>, !.articles = <<Hello(1)>>,
  !.comments = <<[author |-> 2, article |-> 1, live |-> TRUE]>>, !.calls =
  {Edit(2, "hello", [title |-> "World"]), Edit(2, "hello", [body |-> "second"]),
   Edit(1, "hello", [body |-> "mine"]),
   On("deleteArticle", 2, "hello"),
   Post("createArticle", 1, "hello", "Hello"), Post("import", 1, "hello", "World"),
   On("comment", 1, "hello"), Uncomment(1, 1), Uncomment(2, 2),
   Uncomment(2, 0), Export("exportComments", "", "hello")}]

\* The same tables, and exports with a filter: anna's articles (she has written
\* none), and the comments of an article that is not there.
Exports == [Texts EXCEPT !.calls = {Export("exportArticles", "anna", ""),
                                    Export("exportComments", "", "world")}]

\* Anna has no ArticleUserModel yet.
FirstWrites == [Accounts0 EXCEPT !.articleUsers = <<2>>, !.articles = <<Hello(1)>>, !.calls =
  {On("favorite", 1, "hello"), On("unfavorite", 1, "hello"), On("favorite", 2, "hello"),
   On("retrieve", 1, "hello"), On("deleteArticle", 2, "hello"),
   Post("createArticle", 1, "world", "World"), Edit(1, "world", [body |-> "mine"]),
   ListOf("byFavorited", 0, "anna"), ListOf("byAuthor", 1, "bobby"),
   Export("exportArticles", "bobby", "")}]

MCScenarios == {Accounts0, Feeds, Texts, FirstWrites}
ExportScenarios == {Exports}
=============================================================================
