--------------------------- MODULE ArticlesProofs ---------------------------
(***************************************************************************)
(* Proofs about Articles, for any tables and calls to start from, any      *)
(* number of requests and any number of failures.                          *)
(***************************************************************************)
EXTENDS Articles, TLAPS, SequenceTheorems, FiniteSetTheorems, WellFoundedInduction

(***************************************************************************)
(* The inductive invariant: what the locals of a request say of the tables *)
(* while other requests change them.                                       *)
(***************************************************************************)
Locals == [me : Nat, user : UserRows \cup {<<>>}, found : Nat,
           article : ArticleRows \cup {<<>>}, au : Nat, ids : SUBSET Nat]

TypeInv ==
  /\ \A c \in offered : CallOK(c, users)
  /\ Consistent(users, follows, articleUsers, articles, favorites, comments)
  /\ call \in [Requests -> offered \cup {NoCall}]
  /\ pc \in [Requests -> Steps]
  /\ got \in [Requests -> Locals]
  /\ answer \in [Requests -> Statuses]
  /\ hit \subseteq Requests
  /\ before \in [Requests -> SUBSET Requests]

\* Who asks: a request that no failure has hit knows its user.
CallerInv(p) ==
  /\ pc[p] = "idle" => got[p] = Nothing /\ answer[p] = 0
  /\ pc[p] # "idle" => call[p] \in offered /\ (p \notin hit => got[p].me = call[p].me)
  /\ got[p].me \in {0, call[p].me}
  /\ got[p].me <= Len(users)
  /\ pc[p] = "begun" => /\ got[p].found = 0 /\ got[p].au = 0
                        /\ got[p].me # 0 => got[p].user \in UserRows

\* An ArticleUserModel that was found is the user's.
AuthorInv(p) ==
  /\ got[p].au # 0 => /\ got[p].au <= Len(articleUsers)
                      /\ articleUsers[got[p].au] = Whose(p)
  /\ pc[p] = "author" => Kind(p) \in OnArticle \cup Lists \cup {"deleteComment"}
  /\ pc[p] = "createAuthor" => Whose(p) # 0
  /\ pc[p] = "serialize" => got[p].me # 0

\* A profile, or the user a list names.
ProfileInv(p) ==
  Kind(p) \in {"follow", "unfollow"} \cup Lists =>
    /\ got[p].found <= Len(users)
    /\ pc[p] \in {"found", "create", "author", "createAuthor"} => got[p].found # 0

\* An article: the copy still has the author of its row, and who has come to the
\* write is that author or has found nothing.
ArticleInv(p) ==
  /\ Kind(p) \in OnArticle =>
       /\ got[p].found <= Len(articles)
       /\ pc[p] \in {"author", "createAuthor"} => got[p].found # 0
       /\ pc[p] \in {"write", "create"} /\ Kind(p) # "deleteArticle" => got[p].found # 0
  /\ Kind(p) \in {"updateArticle", "deleteArticle"} /\ got[p].found # 0 /\ pc[p] # "done" =>
       /\ got[p].article \in ArticleRows
       /\ got[p].article.author = articles[got[p].found].author
       /\ pc[p] = "write" => got[p].article.author = got[p].au

CommentInv(p) ==
  Kind(p) = "deleteComment" =>
    /\ got[p].found <= Len(comments)
    /\ got[p].found # 0 => call[p].id \in {0, got[p].found}
    /\ pc[p] \in {"author", "createAuthor"} => got[p].found # 0
    /\ got[p].found # 0 /\ pc[p] = "write" => comments[got[p].found].author = got[p].au

\* Who was refused as an outsider is one, or has a second ArticleUserModel.
RefusedInv(p) ==
  answer[p] = 403 /\ p \notin hit =>
    /\ pc[p] = "done" /\ Kind(p) \in Owned /\ got[p].found # 0
    /\ LET author == IF Kind(p) = "deleteComment" THEN comments[got[p].found].author
                                                  ELSE articles[got[p].found].author
       IN articleUsers[author] = call[p].me =>
            \E r \in DOMAIN articleUsers : r # author /\ articleUsers[r] = call[p].me

RequestInv(p) == CallerInv(p) /\ AuthorInv(p) /\ ProfileInv(p) /\ ArticleInv(p)
                 /\ CommentInv(p) /\ RefusedInv(p)

IInv == TypeInv /\ \A p \in Requests : RequestInv(p)
-----------------------------------------------------------------------------
(***************************************************************************)
(* Sequences and minima.                                                   *)
(***************************************************************************)

\* First takes a row of those that match.
LEMMA MinIn == ASSUME NEW S \in SUBSET Nat, S # {} PROVE Min(S) \in S
<1> DEFINE R == {ss \in Nat \X Nat : ss[1] < ss[2]}
<1>1. IsWellFoundedOn(R, Nat)
  BY NatLessThanWellFounded DEF OpToRel
<1>2. PICK x \in S : \A y \in S : ~(<<y, x>> \in R)
  BY <1>1, WFMin
<1>3. ASSUME NEW y \in S PROVE x =< y
  <2>1. <<y, x>> \in Nat \X Nat /\ ~(<<y, x>> \in R)
    BY <1>2
  <2>2. ~(y < x)
    BY <2>1
  <2> QED BY <2>2
<1> QED BY <1>3 DEF Min

\* A table has the ids from 1 to its length.
LEMMA Ids == ASSUME NEW S, NEW s \in Seq(S)
             PROVE  /\ Len(s) \in Nat /\ DOMAIN s = 1..Len(s)
                    /\ \A i \in DOMAIN s : s[i] \in S
  OBVIOUS

\* An INSERT adds one row and leaves the others.
LEMMA AppendRow ==
  ASSUME NEW S, NEW s \in Seq(S), NEW r \in S
  PROVE  LET t == Append(s, r)
         IN /\ t \in Seq(S) /\ Len(t) = Len(s) + 1
            /\ \A i \in 1..Len(s) : t[i] = s[i]
            /\ t[Len(s) + 1] = r
  BY AppendProperties

\* An UPDATE writes every row anew.
LEMMA MapRows ==
  ASSUME NEW S, NEW s \in Seq(S), NEW t, t \in [DOMAIN s -> S]
  PROVE  t \in Seq(S) /\ Len(t) = Len(s) /\ DOMAIN t = DOMAIN s
<1>1. DOMAIN s = 1..Len(s) /\ Len(s) \in Nat
  OBVIOUS
<1>2. t \in [1..Len(s) -> S]
  BY <1>1
<1>3. t \in Seq(S)
  BY <1>1, <1>2, SeqDef
<1>4. DOMAIN t = 1..Len(t) /\ DOMAIN t = 1..Len(s) /\ Len(t) \in Nat
  BY <1>2, <1>3
<1>5. Len(t) = Len(s)
  BY <1>1, <1>4
<1> QED BY <1>3, <1>4, <1>5, <1>1
-----------------------------------------------------------------------------
(***************************************************************************)
(* What one step may do to the tables and to the other requests.           *)
(***************************************************************************)
Tables == <<users, follows, articleUsers, articles, favorites, comments>>

\* Rows are added, and no row changes who it belongs to.
Grown ==
  /\ offered' = offered
  /\ Consistent(users, follows, articleUsers, articles, favorites, comments)'
  /\ Len(users) <= Len(users')
  /\ Len(articleUsers) <= Len(articleUsers')
  /\ \A r \in DOMAIN articleUsers : articleUsers'[r] = articleUsers[r]
  /\ Len(articles) <= Len(articles')
  /\ \A a \in DOMAIN articles : articles'[a].author = articles[a].author
  /\ Len(comments) <= Len(comments')
  /\ \A c \in DOMAIN comments : comments'[c].author = comments[c].author

OnlyAt(p) ==
  /\ call' \in [Requests -> offered \cup {NoCall}]
  /\ pc' \in [Requests -> Steps]
  /\ got' \in [Requests -> Locals]
  /\ answer' \in [Requests -> Statuses]
  /\ hit \subseteq hit' /\ hit' \subseteq Requests
  /\ before' \in [Requests -> SUBSET Requests]
  /\ \A q \in Requests \ {p} : /\ call'[q] = call[q] /\ pc'[q] = pc[q]
                               /\ got'[q] = got[q] /\ answer'[q] = answer[q]

\* The ids in every table, now and after a step.
LEMMA TableIds ==
  ASSUME TypeInv
  PROVE  /\ Len(users) \in Nat /\ DOMAIN users = 1..Len(users)
         /\ Len(follows) \in Nat /\ DOMAIN follows = 1..Len(follows)
         /\ Len(articleUsers) \in Nat /\ DOMAIN articleUsers = 1..Len(articleUsers)
         /\ Len(articles) \in Nat /\ DOMAIN articles = 1..Len(articles)
         /\ Len(favorites) \in Nat /\ DOMAIN favorites = 1..Len(favorites)
         /\ Len(comments) \in Nat /\ DOMAIN comments = 1..Len(comments)
  BY DEF TypeInv, Consistent

LEMMA TableIdsNext ==
  ASSUME Grown
  PROVE  /\ Len(users') \in Nat /\ DOMAIN users' = 1..Len(users')
         /\ Len(articleUsers') \in Nat /\ DOMAIN articleUsers' = 1..Len(articleUsers')
         /\ Len(articles') \in Nat /\ DOMAIN articles' = 1..Len(articles')
         /\ Len(comments') \in Nat /\ DOMAIN comments' = 1..Len(comments')
  BY DEF Grown, Consistent

\* What a request knows stays true while another moves.
LEMMA OthersKeep ==
  ASSUME IInv, NEW p \in Requests, Grown, OnlyAt(p), NEW q \in Requests \ {p}
  PROVE  RequestInv(q)'
<1>1. RequestInv(q) /\ got[q] \in Locals /\ TypeInv
  BY DEF IInv, TypeInv
<1>2. /\ call'[q] = call[q] /\ pc'[q] = pc[q] /\ got'[q] = got[q] /\ answer'[q] = answer[q]
      /\ offered' = offered /\ (q \notin hit' => q \notin hit)
  BY DEF OnlyAt, Grown
<1> USE TableIds, TableIdsNext
<1>3. CallerInv(q)'
  BY <1>1, <1>2 DEF RequestInv, CallerInv, Grown, Locals
<1>4. AuthorInv(q)'
  BY <1>1, <1>2 DEF RequestInv, AuthorInv, Grown, Locals, Whose, Kind
<1>5. ProfileInv(q)'
  BY <1>1, <1>2 DEF RequestInv, ProfileInv, Grown, Locals, Kind
<1>6. ArticleInv(q)'
  BY <1>1, <1>2 DEF RequestInv, ArticleInv, Grown, Locals, Kind, OnArticle
<1>7. CommentInv(q)'
  BY <1>1, <1>2 DEF RequestInv, CommentInv, Grown, Locals, Kind
<1>8. RefusedInv(q)'
  <2> SUFFICES ASSUME answer[q] = 403, q \notin hit
               PROVE  RefusedInv(q)'
    BY <1>2 DEF RefusedInv
  <2> DEFINE author == IF Kind(q) = "deleteComment" THEN comments[got[q].found].author
                                                    ELSE articles[got[q].found].author
  <2>1. /\ pc[q] = "done" /\ Kind(q) \in Owned /\ got[q].found # 0
        /\ articleUsers[author] = call[q].me =>
             \E r \in DOMAIN articleUsers : r # author /\ articleUsers[r] = call[q].me
    BY <1>1 DEF RequestInv, RefusedInv
  <2>2. /\ Kind(q) = "deleteComment" => got[q].found \in DOMAIN comments
        /\ Kind(q) # "deleteComment" => got[q].found \in DOMAIN articles
    BY <1>1, <2>1 DEF RequestInv, CommentInv, ArticleInv, Owned, OnArticle, Locals
  <2>3. author \in DOMAIN articleUsers
    BY <1>1, <2>2 DEF TypeInv, Consistent
  <2>4. author' = author
    BY <1>2, <2>2 DEF Grown, Kind
  <2>5. DOMAIN articleUsers \subseteq DOMAIN articleUsers'
    BY <1>1 DEF Grown
  <2> HIDE DEF author
  <2>6. articleUsers'[author] = call[q].me =>
          \E r \in DOMAIN articleUsers' : r # author /\ articleUsers'[r] = call[q].me
    BY <2>1, <2>3, <2>5 DEF Grown
  <2> QED BY <1>2, <2>1, <2>4, <2>6 DEF RefusedInv, author, Kind
<1> QED BY <1>3, <1>4, <1>5, <1>6, <1>7, <1>8 DEF RequestInv

LEMMA StepKeeps ==
  ASSUME IInv, NEW p \in Requests, Grown, OnlyAt(p), RequestInv(p)'
  PROVE  IInv'
<1>1. TypeInv'
  <2>1. \A c \in offered' : CallOK(c, users')
    <3> SUFFICES ASSUME NEW c \in offered PROVE CallOK(c, users')
      BY DEF Grown
    <3>1. CallOK(c, users) /\ Len(users) \in Nat /\ Len(users') \in Nat
      BY TableIds, TableIdsNext DEF IInv, TypeInv
    <3> QED BY <3>1 DEF CallOK, Grown
  <2> QED BY <2>1 DEF TypeInv, Grown, OnlyAt
<1>2. ASSUME NEW q \in Requests PROVE RequestInv(q)'
  BY OthersKeep
<1> QED BY <1>1, <1>2 DEF IInv
-----------------------------------------------------------------------------
(***************************************************************************)
(* The four ways in which a request moves.                                 *)
(***************************************************************************)
LEMMA HitGrows ==
  ASSUME TypeInv, NEW p \in Requests, Works \/ Fault(p)
  PROVE  hit \subseteq hit' /\ hit' \subseteq Requests
  BY DEF TypeInv, Works, Fault

LEMMA SameTables ==
  ASSUME TypeInv, offered' = offered, UNCHANGED Tables
  PROVE  Grown
  BY TableIds DEF TypeInv, Grown, Tables, Consistent

\* A handler goes on.
Goes(p, next, locals) ==
  /\ OnlyAt(p) /\ offered' = offered
  /\ pc'[p] = next /\ got'[p] = locals /\ call'[p] = call[p] /\ answer'[p] = answer[p]

LEMMA GotoAt ==
  ASSUME TypeInv, NEW p \in Requests, NEW n \in Steps, NEW l \in Locals,
         Goto(p, n, l), Works \/ Fault(p)
  PROVE  Goes(p, n, l)
  BY HitGrows DEF TypeInv, Goto, Goes, OnlyAt

\* A handler answers.
Ends(p, status) ==
  /\ OnlyAt(p) /\ offered' = offered
  /\ pc'[p] = "done" /\ call'[p] = call[p] /\ answer'[p] = status
  /\ got'[p].me = got[p].me /\ got'[p].found = got[p].found /\ got'[p].au = got[p].au

LEMMA ReplyAt ==
  ASSUME TypeInv, NEW p \in Requests, NEW status \in Statuses,
         Reply(p, status), Works \/ Fault(p)
  PROVE  Ends(p, status)
<1> DEFINE l == [got[p] EXCEPT !.user = <<>>, !.article = <<>>]
<1>1. got[p] \in Locals
  BY DEF TypeInv
<1>2. l \in Locals /\ l.me = got[p].me /\ l.found = got[p].found /\ l.au = got[p].au
  BY <1>1 DEF Locals
<1>3. got' = [got EXCEPT ![p] = l]
  BY DEF Reply, TypeInv
<1> HIDE DEF l
<1> QED BY <1>2, <1>3, HitGrows DEF TypeInv, Reply, Ends, OnlyAt, Steps

LEMMA ListAt ==
  ASSUME TypeInv, NEW p \in Requests, NEW rows \in SUBSET Nat,
         List(p, rows), Works \/ Fault(p)
  PROVE  Ends(p, 200)
<1> DEFINE l == [got[p] EXCEPT !.user = <<>>, !.article = <<>>, !.ids = rows]
<1>1. got[p] \in Locals
  BY DEF TypeInv
<1>2. l \in Locals /\ l.me = got[p].me /\ l.found = got[p].found /\ l.au = got[p].au
  BY <1>1 DEF Locals
<1>3. got' = [got EXCEPT ![p] = l]
  BY DEF List, TypeInv
<1> HIDE DEF l
<1>4. /\ call' = call /\ offered' = offered /\ before' = before
      /\ pc' = [pc EXCEPT ![p] = "done"] /\ answer' = [answer EXCEPT ![p] = 200]
  BY DEF List
<1>5. "done" \in Steps /\ 200 \in Statuses
  BY DEF Steps, Statuses
<1>6. OnlyAt(p)
  BY <1>2, <1>3, <1>4, <1>5, HitGrows DEF TypeInv, OnlyAt
<1> QED BY <1>2, <1>3, <1>4, <1>5, <1>6 DEF TypeInv, Ends

\* What a handler that answers leaves behind.
LEMMA EndKeepsRefusal ==
  ASSUME IInv, NEW p \in Requests, pc[p] # "idle", Grown,
         NEW status \in Statuses, Ends(p, status), RefusedInv(p)'
  PROVE  IInv'
<1>1. RequestInv(p) /\ got[p] \in Locals /\ got'[p] \in Locals /\ (p \notin hit' => p \notin hit)
  BY DEF IInv, TypeInv, Ends, OnlyAt
<1> USE TableIds, TableIdsNext
<1>2. CallerInv(p)'
  BY <1>1 DEF RequestInv, CallerInv, Grown, Locals, Ends, IInv
<1>3. AuthorInv(p)'
  BY <1>1 DEF RequestInv, AuthorInv, Grown, Locals, Whose, Kind, Ends, IInv
<1>4. ProfileInv(p)'
  BY <1>1 DEF RequestInv, ProfileInv, Grown, Locals, Kind, Ends, IInv
<1>5. ArticleInv(p)'
  BY <1>1 DEF RequestInv, ArticleInv, Grown, Locals, Kind, Ends, IInv
<1>6. CommentInv(p)'
  BY <1>1 DEF RequestInv, CommentInv, Grown, Locals, Kind, Ends, IInv
<1>7. RequestInv(p)'
  BY <1>2, <1>3, <1>4, <1>5, <1>6 DEF RequestInv
<1> QED BY <1>7, StepKeeps DEF Ends

LEMMA EndKeeps ==
  ASSUME IInv, NEW p \in Requests, pc[p] # "idle", Grown,
         NEW status \in Statuses \ {403}, Ends(p, status)
  PROVE  IInv'
<1>1. RefusedInv(p)'
  BY DEF RefusedInv, Ends
<1> QED BY <1>1, EndKeepsRefusal
-----------------------------------------------------------------------------
(***************************************************************************)
(* Accounts.                                                               *)
(***************************************************************************)
LEMMA UsersGrow ==
  ASSUME TypeInv, offered' = offered, UNCHANGED <<follows, contentVars>>,
         users' \in Seq(UserRows), Len(users) <= Len(users')
  PROVE  Grown
<1>1. DOMAIN users \subseteq DOMAIN users'
  BY TableIds
<1> QED BY <1>1, TableIds DEF TypeInv, Grown, Consistent, contentVars

LEMMA FollowsGrow ==
  ASSUME TypeInv, offered' = offered, UNCHANGED <<users, contentVars>>,
         follows' \in Seq(FollowRecords),
         \A f \in DOMAIN follows' : follows'[f].by \in DOMAIN users /\ follows'[f].of \in DOMAIN users
  PROVE  Grown
  BY TableIds DEF TypeInv, Grown, Consistent, contentVars

LEMMA MiddlewareKeeps ==
  ASSUME IInv, NEW p \in Requests, AuthMiddleware(p), UNCHANGED contentVars
  PROVE  IInv'
<1>1. PICK c \in offered :
        /\ Arrive(p, c)
        /\ \/ Anonymous(c) /\ Works /\ UNCHANGED got
           \/ /\ ~Anonymous(c) /\ Works
              /\ got' = [got EXCEPT ![p].me = c.me, ![p].user = users[c.me]]
           \/ ~Anonymous(c) /\ Fault(p) /\ UNCHANGED got
        /\ UNCHANGED accountVars
  BY DEF AuthMiddleware
<1>2. TypeInv /\ RequestInv(p) /\ CallOK(c, users)
  BY DEF IInv, TypeInv
<1>3. pc[p] = "idle" /\ got[p] = Nothing /\ answer[p] = 0
  BY <1>1, <1>2 DEF Arrive, RequestInv, CallerInv
<1>4. Grown
  BY <1>1, <1>2, SameTables DEF Arrive, Tables, accountVars, contentVars
<1>5. hit \subseteq hit' /\ hit' \subseteq Requests
  BY <1>1, <1>2, HitGrows
<1>6. /\ got' \in [Requests -> Locals]
      /\ \A q \in Requests \ {p} : got'[q] = got[q]
      /\ got'[p].found = 0 /\ got'[p].au = 0
      /\ got'[p].me \in {0, c.me} /\ (p \notin hit' => got'[p].me = c.me)
      /\ got'[p].me # 0 => got'[p].user \in UserRows
  <2>1. CASE UNCHANGED got
    BY <1>1, <1>2, <1>3, <2>1 DEF TypeInv, Nothing, Anonymous, Fault
  <2>2. CASE /\ ~Anonymous(c)
             /\ got' = [got EXCEPT ![p].me = c.me, ![p].user = users[c.me]]
    <3> DEFINE l == [got[p] EXCEPT !.me = c.me, !.user = users[c.me]]
    <3>1. got[p] \in Locals /\ c.me \in Nat /\ c.me \in DOMAIN users
      BY <1>2, <2>2, TableIds DEF TypeInv, CallOK, Anonymous
    <3>2. users[c.me] \in UserRows
      BY <1>2, <3>1 DEF TypeInv, Consistent
    <3>3. /\ l \in Locals /\ l.me = c.me /\ l.user = users[c.me]
          /\ l.found = got[p].found /\ l.au = got[p].au
      BY <3>1, <3>2 DEF Locals
    <3> HIDE DEF l
    <3>4. got[p].found = 0 /\ got[p].au = 0
      BY <1>3 DEF Nothing
    <3>5. got' = [got EXCEPT ![p] = l]
      BY <2>2, <1>2 DEF TypeInv, l
    <3> QED BY <1>2, <3>2, <3>3, <3>4, <3>5 DEF TypeInv
  <2> QED BY <1>1, <2>1, <2>2
<1>7. /\ call' = [call EXCEPT ![p] = c] /\ pc' = [pc EXCEPT ![p] = "begun"]
      /\ answer' = answer
      /\ before' = [before EXCEPT ![p] = {q \in Requests : pc[q] = "done"}]
  BY <1>1 DEF Arrive
<1>8. OnlyAt(p)
  BY <1>2, <1>5, <1>6, <1>7 DEF TypeInv, OnlyAt, Steps
<1>9. RequestInv(p)'
  <2>1. call'[p] = c /\ pc'[p] = "begun" /\ answer'[p] = 0 /\ c \in offered'
    BY <1>2, <1>3, <1>4, <1>7 DEF TypeInv, Grown
  <2>2. got'[p].me <= Len(users')
    BY <1>2, <1>4, <1>6, TableIds, TableIdsNext DEF CallOK, Grown
  <2>3. CallerInv(p)'
    BY <1>6, <2>1, <2>2 DEF CallerInv
  <2>4. AuthorInv(p)' /\ ProfileInv(p)' /\ CommentInv(p)' /\ RefusedInv(p)'
    BY <1>4, <1>6, <2>1, TableIdsNext DEF AuthorInv, ProfileInv, CommentInv, RefusedInv
  <2>5. ArticleInv(p)'
    BY <1>4, <1>6, <2>1, TableIdsNext DEF ArticleInv
  <2> QED BY <2>3, <2>4, <2>5 DEF RequestInv
<1> QED BY <1>4, <1>8, <1>9, StepKeeps

LEMMA ReplyKeeps ==
  ASSUME IInv, NEW p \in Requests, pc[p] # "idle", Grown,
         NEW status \in Statuses \ {403}, Reply(p, status), Works \/ Fault(p)
  PROVE  IInv'
<1>1. Ends(p, status)
  BY ReplyAt DEF IInv
<1> QED BY <1>1, EndKeeps

LEMMA ListKeeps ==
  ASSUME IInv, NEW p \in Requests, pc[p] # "idle", Grown,
         NEW rows \in SUBSET Nat, List(p, rows), Works \/ Fault(p)
  PROVE  IInv'
<1>1. Ends(p, 200) /\ 200 \in Statuses \ {403}
  BY ListAt DEF IInv, Statuses
<1> QED BY <1>1, EndKeeps

\* The answers that a handler gives.
LEMMA Answers == {200, 201, 401, 404, 422} \subseteq Statuses \ {403}
  BY DEF Statuses

\* A request at work was asked something, and answers or goes on.
LEMMA Asked ==
  ASSUME IInv, NEW p \in Requests, pc[p] # "idle"
  PROVE  /\ TypeInv /\ RequestInv(p) /\ got[p] \in Locals
         /\ call[p] \in offered /\ CallOK(call[p], users)
  BY DEF IInv, TypeInv, RequestInv, CallerInv

LEMMA HashType ==
  ASSUME NEW pw, pw \in Passwords \/ pw = RandomPassword
  PROVE  Hash(pw) \in Hashes
  BY DEF Hash, Hashes

LEMMA RegistrationKeeps ==
  ASSUME IInv, NEW p \in Requests, UsersRegistration(p), UNCHANGED contentVars
  PROVE  IInv'
<1>1. pc[p] # "idle" /\ Kind(p) = "register"
  BY DEF UsersRegistration, At
<1> DEFINE row == Hashed(call[p].user)
<1>2. /\ TypeInv /\ users \in Seq(UserRows)
      /\ call[p].user \in UserModels
  BY <1>1, Asked DEF CallOK, Kind, TypeInv, Consistent
<1>a. row \in UserRows
  BY <1>2, HashType DEF UserRows, UserModels, Hashed
<1> HIDE DEF row
<1>3. CASE users' = Append(users, row) /\ Reply(p, 201) /\ Works
  <2>1. users' \in Seq(UserRows) /\ Len(users') = Len(users) + 1
    BY <1>2, <1>a, <1>3, AppendRow
  <2>2. offered' = offered /\ follows' = follows
    BY <1>3 DEF UsersRegistration, Reply
  <2>3. Len(users) <= Len(users')
    BY <1>2, <2>1, TableIds
  <2>4. Grown
    BY <1>2, <2>1, <2>2, <2>3, UsersGrow
  <2> QED BY <1>1, <1>3, <2>4, ReplyKeeps, Answers
<1>4. CASE UNCHANGED users /\ Reply(p, 422) /\ (Works \/ Fault(p))
  <2>1. Grown
    BY <1>2, <1>4, SameTables DEF UsersRegistration, Reply, Tables, contentVars
  <2> QED BY <1>1, <1>4, <2>1, ReplyKeeps, Answers
<1> QED BY <1>3, <1>4 DEF UsersRegistration, row

LEMMA LoginKeeps ==
  ASSUME IInv, NEW p \in Requests, UsersLogin(p), UNCHANGED contentVars
  PROVE  IInv'
<1>1. pc[p] # "idle" /\ TypeInv
  BY DEF UsersLogin, At, IInv
<1>2. (Reply(p, 200) \/ Reply(p, 401)) /\ (Works \/ Fault(p))
  BY DEF UsersLogin
<1>3. Grown
  BY <1>1, <1>2, SameTables DEF UsersLogin, Reply, Tables, contentVars, accountVars
<1> QED BY <1>1, <1>2, <1>3, ReplyKeeps, Answers

\* UserUpdate writes a whole row.
LEMMA WrittenUserType ==
  ASSUME NEW row \in UserRows, NEW copy \in UserRows,
         NEW given, \A f \in DOMAIN given : given[f] \in STRING,
         "password" \in DOMAIN given => given.password \in Passwords
  PROVE  WrittenUser(row, copy, given) \in UserRows
<1>1. ASSUME NEW f \in {"username", "email", "bio"} PROVE Filled(given, copy, f) \in STRING
  BY DEF Filled, UserRows
<1>2. /\ Filled(given, copy, "username") \in STRING
      /\ Filled(given, copy, "email") \in STRING
      /\ Filled(given, copy, "bio") \in STRING
  BY <1>1
<1>3. GivenHash(given) \in Hashes /\ row.password \in Hashes
  BY HashType DEF GivenHash, Filled, UserRows
<1>4. row.bio \in STRING
  BY DEF UserRows
<1> QED BY <1>2, <1>3, <1>4 DEF WrittenUser, UserRows

LEMMA UserUpdateKeeps ==
  ASSUME IInv, NEW p \in Requests, UserUpdate(p), UNCHANGED contentVars
  PROVE  IInv'
<1> DEFINE me  == got[p].me
           row == WrittenUser(users[me], got[p].user, call[p].given)
<1>1. pc[p] = "begun" /\ Kind(p) = "updateUser"
  BY DEF UserUpdate, At
<1>2. TypeInv /\ RequestInv(p) /\ got[p] \in Locals /\ users \in Seq(UserRows)
      /\ \A f \in DOMAIN call[p].given : call[p].given[f] \in STRING
      /\ ("password" \in DOMAIN call[p].given => call[p].given.password \in Passwords)
  BY <1>1, Asked DEF CallOK, Kind, TypeInv, Consistent
<1>3. CASE me # 0 /\ users' = [users EXCEPT ![me] = row] /\ Reply(p, 200) /\ Works
  <2>1. me \in DOMAIN users /\ got[p].user \in UserRows
    BY <1>1, <1>2, <1>3, TableIds DEF RequestInv, CallerInv, Locals
  <2>2. users[me] \in UserRows
    BY <1>2, <2>1
  <2>3. row \in UserRows
    BY ONLY <2>1, <2>2, <1>2, WrittenUserType
  <2> HIDE DEF row, me
  <2>4. users' \in [DOMAIN users -> UserRows]
    BY <1>2, <1>3, <2>1, <2>3
  <2>5. users' \in Seq(UserRows) /\ Len(users') = Len(users)
    BY <1>2, <2>4, MapRows
  <2>6. Grown
    BY <1>2, <1>3, <2>5, UsersGrow, TableIds DEF UserUpdate, Reply
  <2> QED BY <1>1, <1>3, <2>6, ReplyKeeps, Answers
<1>4. CASE UNCHANGED users /\ Reply(p, 422) /\ (Works \/ Fault(p))
  <2>1. Grown
    BY <1>2, <1>4, SameTables DEF UserUpdate, Reply, Tables, contentVars
  <2> QED BY <1>1, <1>4, <2>1, ReplyKeeps, Answers
<1> QED BY <1>3, <1>4 DEF UserUpdate

\* What has to be shown when a handler goes on.
LEMMA GotoKeeps ==
  ASSUME IInv, NEW p \in Requests, pc[p] \notin {"idle", "done"}, Grown,
         NEW n \in Steps \ {"idle", "begun"}, NEW l \in Locals, l.me = got[p].me,
         Goto(p, n, l), Works \/ Fault(p),
         AuthorInv(p)', ProfileInv(p)', ArticleInv(p)', CommentInv(p)'
  PROVE  IInv'
<1>1. TypeInv /\ RequestInv(p) /\ got[p] \in Locals /\ call[p] \in offered
  BY Asked
<1>2. Goes(p, n, l)
  BY <1>1, GotoAt
<1>3. CallerInv(p)'
  BY <1>1, <1>2, TableIds, TableIdsNext DEF RequestInv, CallerInv, Goes, OnlyAt, Grown, Locals
<1>4. RefusedInv(p)'
  BY <1>1, <1>2 DEF RequestInv, RefusedInv, Goes, OnlyAt
<1>5. RequestInv(p)'
  BY <1>3, <1>4 DEF RequestInv
<1> QED BY <1>2, <1>5, StepKeeps DEF Goes

\* First takes a row of the table.
LEMMA FirstRow ==
  ASSUME NEW n \in Nat, NEW S \in SUBSET (1..n), S # {}
  PROVE  Min(S) \in S /\ Min(S) \in Nat /\ Min(S) # 0 /\ Min(S) <= n
<1>1. S \in SUBSET Nat
  OBVIOUS
<1>2. Min(S) \in S
  BY <1>1, MinIn
<1>3. \A m \in S : m \in Nat /\ m # 0 /\ m <= n
  OBVIOUS
<1> QED BY <1>2, <1>3

LEMMA FindProfileKeeps ==
  ASSUME IInv, NEW p \in Requests, FindProfile(p), UNCHANGED contentVars
  PROVE  IInv'
<1> DEFINE named == {u \in DOMAIN users : users[u].username = call[p].name}
           l     == [got[p] EXCEPT !.found = Min(named)]
<1>1. pc[p] = "begun" /\ Kind(p) \in {"follow", "unfollow"} /\ (Works \/ Fault(p))
  BY DEF FindProfile, At
<1>2. TypeInv /\ RequestInv(p) /\ got[p] \in Locals
  BY <1>1, Asked
<1>3. offered' = offered
  BY DEF FindProfile, Goto, Reply
<1>4. Grown
  BY <1>2, <1>3, SameTables DEF FindProfile, Tables, contentVars, accountVars
<1>5. CASE named # {} /\ Goto(p, "found", l)
  <2>1. Min(named) \in Nat /\ Min(named) # 0 /\ Min(named) <= Len(users)
    BY <1>2, <1>5, TableIds, FirstRow
  <2>2. l \in Locals /\ l.me = got[p].me /\ l.au = got[p].au /\ l.found = Min(named)
    BY <1>2, <2>1 DEF Locals
  <2> HIDE DEF named, l
  <2>3. Goes(p, "found", l)
    BY <1>1, <1>2, <1>5, <2>2, GotoAt DEF Steps
  <2>4. AuthorInv(p)'
    BY <1>1, <1>2, <2>2, <2>3 DEF RequestInv, CallerInv, AuthorInv, Goes
  <2>5. ProfileInv(p)'
    BY <1>4, <2>1, <2>2, <2>3, TableIds, TableIdsNext, <1>2 DEF ProfileInv, Goes, Grown
  <2>6. ArticleInv(p)' /\ CommentInv(p)'
    BY <1>1, <2>3 DEF ArticleInv, CommentInv, Goes, Kind, OnArticle
  <2>7. "found" \in Steps \ {"idle", "begun"}
    BY DEF Steps
  <2> QED BY <1>1, <1>4, <1>5, <2>2, <2>4, <2>5, <2>6, <2>7, GotoKeeps
<1>6. CASE Reply(p, 404)
  BY <1>1, <1>4, <1>6, ReplyKeeps, Answers
<1> QED BY <1>5, <1>6 DEF FindProfile

LEMMA FirstFollowKeeps ==
  ASSUME IInv, NEW p \in Requests, FirstFollow(p), UNCHANGED contentVars
  PROVE  IInv'
<1>1. pc[p] = "found" /\ Kind(p) \in {"follow"} /\ (Works \/ Fault(p))
  BY DEF FirstFollow, At
<1>2. TypeInv /\ RequestInv(p) /\ got[p] \in Locals
  BY <1>1, Asked
<1>3. offered' = offered
  BY DEF FirstFollow, Goto, Reply
<1>4. Grown
  BY <1>2, <1>3, SameTables DEF FirstFollow, Tables, contentVars, accountVars
<1>5. CASE Goto(p, "create", got[p])
  <2>1. Goes(p, "create", got[p])
    BY <1>1, <1>2, <1>5, GotoAt DEF Steps
  <2>2. AuthorInv(p)'
    BY <1>1, <1>2, <1>4, <2>1, TableIds, TableIdsNext
       DEF RequestInv, AuthorInv, Goes, Grown, Whose, Kind, Locals
  <2>3. ProfileInv(p)'
    BY <1>1, <1>2, <1>4, <2>1, TableIds, TableIdsNext
       DEF RequestInv, ProfileInv, Goes, Grown, Kind, Locals
  <2>4. ArticleInv(p)' /\ CommentInv(p)'
    BY <1>1, <2>1 DEF ArticleInv, CommentInv, Goes, Kind, OnArticle
  <2>5. "create" \in Steps \ {"idle", "begun"}
    BY DEF Steps
  <2> QED BY <1>1, <1>2, <1>4, <1>5, <2>2, <2>3, <2>4, <2>5, GotoKeeps
<1>6. CASE Reply(p, 200) \/ Reply(p, 422)
  BY <1>1, <1>4, <1>6, ReplyKeeps, Answers
<1> QED BY <1>5, <1>6 DEF FirstFollow

LEMMA CreateFollowKeeps ==
  ASSUME IInv, NEW p \in Requests, CreateFollow(p), UNCHANGED contentVars
  PROVE  IInv'
<1> DEFINE row == [by |-> got[p].me, of |-> got[p].found, live |-> TRUE]
<1>1. pc[p] = "create" /\ Kind(p) \in {"follow"} /\ (Works \/ Fault(p))
  BY DEF CreateFollow, At
<1>2. TypeInv /\ RequestInv(p) /\ got[p] \in Locals /\ follows \in Seq(FollowRecords)
  BY <1>1, Asked DEF TypeInv, Consistent
<1>3. offered' = offered /\ users' = users
  BY DEF CreateFollow, Reply
<1>4. CASE got[p].me # 0 /\ follows' = Append(follows, row) /\ Reply(p, 200)
  <2>1. row.by \in DOMAIN users /\ row.of \in DOMAIN users /\ row \in FollowRecords
    BY <1>1, <1>2, <1>4, TableIds
       DEF RequestInv, CallerInv, ProfileInv, Locals, FollowRecords
  <2> HIDE DEF row
  <2>2. /\ follows' \in Seq(FollowRecords)
        /\ DOMAIN follows' = 1..(Len(follows) + 1)
        /\ \A f \in 1..Len(follows) : follows'[f] = follows[f]
        /\ follows'[Len(follows) + 1] = row
    BY <1>2, <1>4, <2>1, AppendRow, Ids
  <2>3. \A f \in DOMAIN follows' : follows'[f].by \in DOMAIN users /\ follows'[f].of \in DOMAIN users
    <3>1. \A f \in 1..Len(follows) : follows[f].by \in DOMAIN users /\ follows[f].of \in DOMAIN users
      BY <1>2, TableIds DEF TypeInv, Consistent
    <3>2. 1..(Len(follows) + 1) = 1..Len(follows) \cup {Len(follows) + 1}
      BY <1>2, TableIds
    <3> QED BY <2>1, <2>2, <3>1, <3>2
  <2>4. Grown
    BY <1>2, <1>3, <2>2, <2>3, FollowsGrow
  <2> QED BY <1>1, <1>4, <2>4, ReplyKeeps, Answers
<1>5. CASE Reply(p, 422) /\ UNCHANGED follows
  <2>1. Grown
    BY <1>2, <1>3, <1>5, SameTables DEF Tables, contentVars
  <2> QED BY <1>1, <1>5, <2>1, ReplyKeeps, Answers
<1> QED BY <1>4, <1>5 DEF CreateFollow

LEMMA UnfollowKeeps ==
  ASSUME IInv, NEW p \in Requests, Unfollow(p), UNCHANGED contentVars
  PROVE  IInv'
<1>1. pc[p] = "found" /\ (Works \/ Fault(p)) /\ (Reply(p, 200) \/ Reply(p, 422))
  BY DEF Unfollow, At
<1>2. TypeInv /\ follows \in Seq(FollowRecords)
  BY <1>1, Asked DEF TypeInv, Consistent
<1>3. offered' = offered /\ users' = users
  BY <1>1 DEF Unfollow, Reply
<1>4. CASE UNCHANGED follows
  <2>1. Grown
    BY <1>2, <1>3, <1>4, SameTables DEF Tables, contentVars
  <2> QED BY <1>1, <2>1, ReplyKeeps, Answers
<1>5. CASE follows' = [f \in DOMAIN follows |->
                         IF follows[f].by = got[p].me /\ follows[f].of = got[p].found
                         THEN [follows[f] EXCEPT !.live = FALSE] ELSE follows[f]]
  <2>1. \A f \in DOMAIN follows : /\ follows'[f] \in FollowRecords
                                  /\ follows'[f].by = follows[f].by
                                  /\ follows'[f].of = follows[f].of
    <3> SUFFICES ASSUME NEW f \in DOMAIN follows
                 PROVE  /\ follows'[f] \in FollowRecords
                        /\ follows'[f].by = follows[f].by
                        /\ follows'[f].of = follows[f].of
      OBVIOUS
    <3>1. follows[f] \in FollowRecords
      BY <1>2, Ids
    <3>2. follows'[f] = follows[f] \/ follows'[f] = [follows[f] EXCEPT !.live = FALSE]
      BY <1>5
    <3> QED BY <3>1, <3>2 DEF FollowRecords
  <2>2. follows' \in [DOMAIN follows -> FollowRecords]
    BY <1>5, <2>1
  <2>3. follows' \in Seq(FollowRecords) /\ DOMAIN follows' = DOMAIN follows
    BY <1>2, <2>2, MapRows
  <2>4. \A f \in DOMAIN follows' : follows'[f].by \in DOMAIN users /\ follows'[f].of \in DOMAIN users
    BY <1>2, <2>1, <2>3 DEF TypeInv, Consistent
  <2>5. Grown
    BY <1>2, <1>3, <2>3, <2>4, FollowsGrow
  <2> QED BY <1>1, <2>5, ReplyKeeps, Answers
<1> QED BY <1>4, <1>5 DEF Unfollow
-----------------------------------------------------------------------------
(***************************************************************************)
(* What a step may do to the tables of the articles package.               *)
(***************************************************************************)
AuthorsGrown ==
  /\ articleUsers' \in Seq(Nat) /\ Len(articleUsers) <= Len(articleUsers')
  /\ \A r \in DOMAIN articleUsers' : articleUsers'[r] \in DOMAIN users
  /\ \A r \in DOMAIN articleUsers : articleUsers'[r] = articleUsers[r]

ArticlesGrown ==
  /\ articles' \in Seq(ArticleRows) /\ Len(articles) <= Len(articles')
  /\ \A a \in DOMAIN articles' : articles'[a].author \in DOMAIN articleUsers'
  /\ \A a \in DOMAIN articles : articles'[a].author = articles[a].author

FavoritesGrown ==
  /\ favorites' \in Seq(FavoriteRecords)
  /\ \A f \in DOMAIN favorites' : /\ favorites'[f].by \in DOMAIN articleUsers'
                                  /\ favorites'[f].article \in DOMAIN articles'

CommentsGrown ==
  /\ comments' \in Seq(CommentRows) /\ Len(comments) <= Len(comments')
  /\ \A c \in DOMAIN comments' : /\ comments'[c].author \in DOMAIN articleUsers'
                                 /\ comments'[c].article \in DOMAIN articles'
  /\ \A c \in DOMAIN comments : comments'[c].author = comments[c].author

LEMMA ContentGrows ==
  ASSUME TypeInv, offered' = offered, UNCHANGED accountVars,
         AuthorsGrown, ArticlesGrown, FavoritesGrown, CommentsGrown
  PROVE  Grown
<1>1. users' = users /\ follows' = follows
  BY DEF accountVars
<1>2. /\ users \in Seq(UserRows) /\ follows \in Seq(FollowRecords) /\ Len(users) \in Nat
      /\ \A f \in DOMAIN follows : follows[f].by \in DOMAIN users /\ follows[f].of \in DOMAIN users
  BY DEF TypeInv, Consistent
<1> QED BY <1>1, <1>2
        DEF Grown, Consistent, AuthorsGrown, ArticlesGrown, FavoritesGrown, CommentsGrown

\* A longer table has the ids of the shorter one.
LEMMA IdsGrow ==
  ASSUME NEW S, NEW s \in Seq(S), NEW t \in Seq(S), Len(s) <= Len(t)
  PROVE  DOMAIN s \subseteq DOMAIN t
  OBVIOUS

LEMMA AuthorsSame ==
  ASSUME TypeInv, UNCHANGED articleUsers
  PROVE  AuthorsGrown
  BY TableIds DEF TypeInv, Consistent, AuthorsGrown

LEMMA ArticlesSame ==
  ASSUME TypeInv, AuthorsGrown, UNCHANGED articles
  PROVE  ArticlesGrown
<1>1. DOMAIN articleUsers \subseteq DOMAIN articleUsers'
  BY IdsGrow DEF TypeInv, Consistent, AuthorsGrown
<1> QED BY <1>1, TableIds DEF TypeInv, Consistent, ArticlesGrown

LEMMA FavoritesSame ==
  ASSUME TypeInv, AuthorsGrown, ArticlesGrown, UNCHANGED favorites
  PROVE  FavoritesGrown
<1>1. DOMAIN articleUsers \subseteq DOMAIN articleUsers'
  BY IdsGrow DEF TypeInv, Consistent, AuthorsGrown
<1>2. DOMAIN articles \subseteq DOMAIN articles'
  BY IdsGrow DEF TypeInv, Consistent, ArticlesGrown
<1> QED BY <1>1, <1>2 DEF TypeInv, Consistent, FavoritesGrown

LEMMA CommentsSame ==
  ASSUME TypeInv, AuthorsGrown, ArticlesGrown, UNCHANGED comments
  PROVE  CommentsGrown
<1>1. DOMAIN articleUsers \subseteq DOMAIN articleUsers'
  BY IdsGrow DEF TypeInv, Consistent, AuthorsGrown
<1>2. DOMAIN articles \subseteq DOMAIN articles'
  BY IdsGrow DEF TypeInv, Consistent, ArticlesGrown
<1> QED BY <1>1, <1>2, TableIds DEF TypeInv, Consistent, CommentsGrown

\* The ids of a table with one row more.
LEMMA IdsAppend ==
  ASSUME NEW S, NEW s \in Seq(S), NEW r \in S
  PROVE  DOMAIN Append(s, r) = DOMAIN s \cup {Len(s) + 1}
  BY AppendProperties

LEMMA NewAuthor ==
  ASSUME TypeInv, NEW u \in DOMAIN users, articleUsers' = Append(articleUsers, u)
  PROVE  AuthorsGrown /\ Len(articleUsers) + 1 \in DOMAIN articleUsers'
                      /\ articleUsers'[Len(articleUsers) + 1] = u
<1>1. articleUsers \in Seq(Nat) /\ u \in Nat
      /\ \A r \in DOMAIN articleUsers : articleUsers[r] \in DOMAIN users
  BY TableIds DEF TypeInv, Consistent
<1>2. /\ articleUsers' \in Seq(Nat) /\ Len(articleUsers') = Len(articleUsers) + 1
      /\ \A i \in 1..Len(articleUsers) : articleUsers'[i] = articleUsers[i]
      /\ articleUsers'[Len(articleUsers) + 1] = u
  BY <1>1, AppendRow
<1>3. DOMAIN articleUsers' = DOMAIN articleUsers \cup {Len(articleUsers) + 1}
  BY <1>1, IdsAppend
<1> QED BY <1>1, <1>2, <1>3, TableIds DEF AuthorsGrown

LEMMA NewArticle ==
  ASSUME TypeInv, AuthorsGrown, NEW row \in ArticleRows, row.author \in DOMAIN articleUsers',
         articles' = Append(articles, row)
  PROVE  ArticlesGrown
<1>1. articles \in Seq(ArticleRows)
      /\ \A a \in DOMAIN articles : articles[a].author \in DOMAIN articleUsers'
  BY IdsGrow DEF TypeInv, Consistent, AuthorsGrown
<1>2. /\ articles' \in Seq(ArticleRows) /\ Len(articles') = Len(articles) + 1
      /\ \A i \in 1..Len(articles) : articles'[i] = articles[i]
      /\ articles'[Len(articles) + 1] = row
  BY <1>1, AppendRow
<1>3. DOMAIN articles' = DOMAIN articles \cup {Len(articles) + 1}
  BY <1>1, IdsAppend
<1> QED BY <1>1, <1>2, <1>3, TableIds DEF ArticlesGrown

LEMMA ChangedArticles ==
  ASSUME TypeInv, AuthorsGrown, articles' \in [DOMAIN articles -> ArticleRows],
         \A a \in DOMAIN articles : articles'[a].author = articles[a].author
  PROVE  ArticlesGrown
<1>1. articles \in Seq(ArticleRows)
      /\ \A a \in DOMAIN articles : articles[a].author \in DOMAIN articleUsers'
  BY IdsGrow DEF TypeInv, Consistent, AuthorsGrown
<1>2. articles' \in Seq(ArticleRows) /\ Len(articles') = Len(articles)
      /\ DOMAIN articles' = DOMAIN articles
  BY <1>1, MapRows
<1> QED BY <1>1, <1>2, TableIds DEF ArticlesGrown

LEMMA NewFavorite ==
  ASSUME TypeInv, AuthorsGrown, ArticlesGrown, NEW row \in FavoriteRecords,
         row.by \in DOMAIN articleUsers', row.article \in DOMAIN articles',
         favorites' = Append(favorites, row)
  PROVE  FavoritesGrown
<1>1. /\ favorites \in Seq(FavoriteRecords)
      /\ \A f \in DOMAIN favorites : /\ favorites[f].by \in DOMAIN articleUsers'
                                     /\ favorites[f].article \in DOMAIN articles'
  BY IdsGrow DEF TypeInv, Consistent, AuthorsGrown, ArticlesGrown
<1>2. /\ favorites' \in Seq(FavoriteRecords)
      /\ \A i \in 1..Len(favorites) : favorites'[i] = favorites[i]
      /\ favorites'[Len(favorites) + 1] = row
  BY <1>1, AppendRow
<1>3. DOMAIN favorites' = DOMAIN favorites \cup {Len(favorites) + 1}
  BY <1>1, IdsAppend
<1> QED BY <1>1, <1>2, <1>3, TableIds DEF FavoritesGrown

LEMMA NewComment ==
  ASSUME TypeInv, AuthorsGrown, ArticlesGrown, NEW row \in CommentRows,
         row.author \in DOMAIN articleUsers', row.article \in DOMAIN articles',
         comments' = Append(comments, row)
  PROVE  CommentsGrown
<1>1. /\ comments \in Seq(CommentRows)
      /\ \A c \in DOMAIN comments : /\ comments[c].author \in DOMAIN articleUsers'
                                    /\ comments[c].article \in DOMAIN articles'
  BY IdsGrow DEF TypeInv, Consistent, AuthorsGrown, ArticlesGrown
<1>2. /\ comments' \in Seq(CommentRows) /\ Len(comments') = Len(comments) + 1
      /\ \A i \in 1..Len(comments) : comments'[i] = comments[i]
      /\ comments'[Len(comments) + 1] = row
  BY <1>1, AppendRow
<1>3. DOMAIN comments' = DOMAIN comments \cup {Len(comments) + 1}
  BY <1>1, IdsAppend
<1> QED BY <1>1, <1>2, <1>3, TableIds DEF CommentsGrown
-----------------------------------------------------------------------------
(***************************************************************************)
(* What most handlers do first.                                            *)
(***************************************************************************)
Unchanged == UNCHANGED <<accountVars, contentVars>>

LEMMA UnchangedGrown ==
  ASSUME TypeInv, offered' = offered, Unchanged
  PROVE  Grown
  BY SameTables DEF Unchanged, Tables, accountVars, contentVars

LEMMA FindOneArticleKeeps ==
  ASSUME IInv, NEW p \in Requests, FindOneArticle(p)
  PROVE  IInv'
<1> DEFINE named == {a \in DOMAIN articles : articles[a].slug = call[p].slug /\ articles[a].live}
           l     == [got[p] EXCEPT !.found = Min(named), !.article = articles[Min(named)]]
<1>1. pc[p] = "begun" /\ Kind(p) \in OnArticle /\ (Works \/ Fault(p)) /\ Unchanged
  BY DEF FindOneArticle, At, Unchanged
<1>2. TypeInv /\ RequestInv(p) /\ got[p] \in Locals
  BY <1>1, Asked
<1>3. offered' = offered
  BY DEF FindOneArticle, Goto, Reply
<1>4. Grown
  BY <1>1, <1>2, <1>3, UnchangedGrown
<1>5. {"author", "write"} \subseteq Steps \ {"idle", "begun"}
  BY DEF Steps
<1>6. CASE named # {} /\ Goto(p, "author", l)
  <2>1. Min(named) \in Nat /\ Min(named) # 0 /\ Min(named) <= Len(articles)
    BY <1>2, <1>6, TableIds, FirstRow
  <2> DEFINE a == Min(named)
  <2> HIDE DEF a, named
  <2>2. a \in Nat /\ a # 0 /\ a <= Len(articles) /\ articles[a] \in ArticleRows
    BY <1>2, <2>1, TableIds DEF a, TypeInv, Consistent
  <2>3. /\ l \in Locals /\ l.me = got[p].me /\ l.au = got[p].au
        /\ l.found = a /\ l.article = articles[a]
    BY <1>2, <2>2 DEF Locals, a
  <2> HIDE DEF l
  <2>4. Goes(p, "author", l)
    BY <1>1, <1>2, <1>5, <1>6, <2>3, GotoAt
  <2>5. AuthorInv(p)'
    BY <1>1, <1>2, <2>3, <2>4 DEF RequestInv, CallerInv, AuthorInv, Goes, Kind
  <2>6. ArticleInv(p)'
    BY <1>2, <1>4, <2>2, <2>3, <2>4, TableIds, TableIdsNext DEF ArticleInv, Goes, Grown
  <2>7. ProfileInv(p)' /\ CommentInv(p)'
    BY <1>1, <2>4 DEF ProfileInv, CommentInv, Goes, Kind, OnArticle, Lists
  <2> QED BY <1>1, <1>4, <1>5, <1>6, <2>3, <2>5, <2>6, <2>7, GotoKeeps
<1>7. CASE Kind(p) = "deleteArticle" /\ Goto(p, "write", got[p])
  <2>1. Goes(p, "write", got[p])
    BY <1>1, <1>2, <1>5, <1>7, GotoAt
  <2>2. AuthorInv(p)' /\ ArticleInv(p)'
    BY <1>1, <1>2, <1>4, <1>7, <2>1, TableIdsNext
       DEF RequestInv, CallerInv, AuthorInv, ArticleInv, Goes, Kind
  <2>3. ProfileInv(p)' /\ CommentInv(p)'
    BY <1>7, <2>1 DEF ProfileInv, CommentInv, Goes, Kind, Lists
  <2> QED BY <1>1, <1>2, <1>4, <1>5, <1>7, <2>2, <2>3, GotoKeeps
<1>8. CASE Reply(p, 404)
  BY <1>1, <1>4, <1>8, ReplyKeeps, Answers
<1> QED BY <1>6, <1>7, <1>8 DEF FindOneArticle

LEMMA FindOneCommentKeeps ==
  ASSUME IInv, NEW p \in Requests, FindOneComment(p)
  PROVE  IInv'
<1> DEFINE named == {c \in DOMAIN comments : comments[c].live /\ call[p].id \in {0, c}}
           first == Min(named)
           l     == [got[p] EXCEPT !.found = first]
<1>1. pc[p] = "begun" /\ Kind(p) = "deleteComment" /\ (Works \/ Fault(p)) /\ Unchanged
  BY DEF FindOneComment, At, Unchanged
<1>2. TypeInv /\ RequestInv(p) /\ got[p] \in Locals
  BY <1>1, Asked
<1>3. offered' = offered
  BY DEF FindOneComment, Goto
<1>4. Grown
  BY <1>1, <1>2, <1>3, UnchangedGrown
<1>5. {"author", "write"} \subseteq Steps \ {"idle", "begun"}
  BY DEF Steps
<1>6. CASE named # {} /\ Goto(p, "author", l)
  <2>a. first \in named
    <3>1. named \in SUBSET Nat
      BY <1>2, TableIds
    <3>2. named # {}
      BY <1>6
    <3> HIDE DEF named
    <3> QED BY <3>1, <3>2, MinIn
  <2>b. first \in DOMAIN comments /\ call[p].id \in {0, first}
    BY <2>a
  <2> HIDE DEF named, first
  <2>0. first \in Nat /\ first # 0 /\ first <= Len(comments)
    <3>1. first \in 1..Len(comments) /\ Len(comments) \in Nat
      BY <1>2, <2>b, TableIds
    <3> QED BY <3>1
  <2>1. l \in Locals /\ l.me = got[p].me /\ l.au = got[p].au /\ l.found = first
    BY <1>2, <2>0 DEF Locals
  <2> HIDE DEF l
  <2>2. Goes(p, "author", l)
    BY <1>1, <1>2, <1>5, <1>6, <2>1, GotoAt
  <2>3. AuthorInv(p)'
    BY <1>1, <1>2, <2>1, <2>2 DEF RequestInv, CallerInv, AuthorInv, Goes, Kind
  <2>4. CommentInv(p)'
    BY <1>2, <1>4, <2>0, <2>b, <2>1, <2>2, TableIds, TableIdsNext DEF CommentInv, Goes, Grown
  <2>5. ProfileInv(p)' /\ ArticleInv(p)'
    BY <1>1, <2>2 DEF ProfileInv, ArticleInv, Goes, Kind, OnArticle, Lists
  <2> QED BY <1>1, <1>4, <1>5, <1>6, <2>1, <2>3, <2>4, <2>5, GotoKeeps
<1>7. CASE Goto(p, "write", got[p])
  <2>1. Goes(p, "write", got[p])
    BY <1>1, <1>2, <1>5, <1>7, GotoAt
  <2>2. AuthorInv(p)' /\ CommentInv(p)'
    BY <1>1, <1>2, <1>4, <2>1, TableIdsNext
       DEF RequestInv, CallerInv, AuthorInv, CommentInv, Goes, Kind
  <2>3. ProfileInv(p)' /\ ArticleInv(p)'
    BY <1>1, <2>1 DEF ProfileInv, ArticleInv, Goes, Kind, OnArticle, Lists
  <2> QED BY <1>1, <1>2, <1>4, <1>5, <1>7, <2>2, <2>3, GotoKeeps
<1> QED BY <1>6, <1>7 DEF FindOneComment

\* The handler goes on with an ArticleUserModel, or with none.
LEMMA AsAuthorKeeps ==
  ASSUME IInv, NEW p \in Requests, Grown, NEW au \in Nat, AsAuthor(p, au), Works \/ Fault(p),
         \/ pc[p] \in {"author", "createAuthor"}
         \/ pc[p] = "begun" /\ Kind(p) \in {"createArticle", "feed", "import"},
         au # 0 => au <= Len(articleUsers') /\ articleUsers'[au] = Whose(p),
         p \notin hit' => au # 0 \/ Whose(p) = 0
  PROVE  IInv'
<1>1. /\ TypeInv /\ RequestInv(p) /\ got[p] \in Locals
      /\ call[p] \in offered /\ CallOK(call[p], users)
  BY Asked
<1>2. {"followings", "rows", "write"} \subseteq Steps \ {"idle", "begun"}
  BY DEF Steps
<1>3. CASE Kind(p) \in Owned /\ AuthorOfFound(p) # au
  <2>1. Reply(p, 403)
    BY <1>3 DEF AsAuthor
  <2>2. Ends(p, 403) /\ 403 \in Statuses
    BY <1>1, <2>1, ReplyAt DEF Statuses
  <2> DEFINE author == IF Kind(p) = "deleteComment" THEN comments[got[p].found].author
                                                    ELSE articles[got[p].found].author
  <2>3. /\ got[p].found # 0 /\ AuthorOfFound(p) = author
        /\ Kind(p) = "deleteComment" => got[p].found \in DOMAIN comments
        /\ Kind(p) # "deleteComment" => got[p].found \in DOMAIN articles
    BY <1>1, <1>3, TableIds
       DEF RequestInv, ArticleInv, CommentInv, Owned, OnArticle, AuthorOfFound, Locals
  <2>4. author \in DOMAIN articleUsers /\ articleUsers[author] \in DOMAIN users
    BY <1>1, <2>3 DEF TypeInv, Consistent
  <2>5. author' = author /\ Whose(p) = got[p].me
    BY <1>3, <2>2, <2>3 DEF Grown, Kind, Ends, Whose, Owned, Lists
  <2>6. author # au
    BY <1>3, <2>3
  <2> HIDE DEF author
  <2>7. articleUsers'[author] = articleUsers[author] /\ author \in DOMAIN articleUsers'
    BY <1>1, <2>4, TableIds, TableIdsNext DEF Grown
  <2>8. ASSUME p \notin hit', articleUsers'[author] = call[p].me
        PROVE  \E r \in DOMAIN articleUsers' : r # author /\ articleUsers'[r] = call[p].me
    <3>1. got[p].me = call[p].me
      BY <1>1, <2>2, <2>8 DEF RequestInv, CallerInv, Ends, OnlyAt
    <3>2. got[p].me # 0
      BY <1>1, <2>4, <2>7, <2>8, <3>1, TableIds
    <3>3. au # 0 /\ articleUsers'[au] = call[p].me /\ au \in DOMAIN articleUsers'
      BY <2>5, <2>8, <3>1, <3>2, TableIdsNext
    <3> QED BY <2>6, <3>3
  <2>9. RefusedInv(p)'
    BY <1>3, <2>2, <2>3, <2>5, <2>8 DEF RefusedInv, Ends, Kind, author
  <2> QED BY <1>1, <2>2, <2>9, EndKeepsRefusal
<1>4. CASE Going(p, au) /\ (Kind(p) \in Owned => AuthorOfFound(p) = au)
  <2> DEFINE l == [got[p] EXCEPT !.au = au]
  <2>1. /\ l \in Locals /\ l.me = got[p].me /\ l.found = got[p].found
        /\ l.article = got[p].article /\ l.au = au
    BY <1>1 DEF Locals
  <2> HIDE DEF l
  <2>2. CASE Reply(p, 200)
    BY <2>2, ReplyKeeps, Answers
  <2>3. CASE List(p, {})
    BY <2>3, ListKeeps
  <2>4. ASSUME NEW n \in {"followings", "rows", "write"}, Goto(p, n, l),
               n = "rows" => Kind(p) \in Lists, n = "followings" => Kind(p) = "feed"
        PROVE  IInv'
    <3>1. Goes(p, n, l) /\ n \in Steps \ {"idle", "begun"}
      BY <1>1, <1>2, <2>1, <2>4, GotoAt
    <3>2. AuthorInv(p)'
      BY <2>1, <2>4, <3>1 DEF AuthorInv, Goes, Whose, Kind
    <3> DEFINE found == got[p].found
    <3>a. /\ got'[p].found = found /\ got'[p].au = au /\ call'[p] = call[p]
          /\ got'[p].article = got[p].article /\ pc'[p] = n /\ found \in Nat
      BY <1>1, <2>1, <3>1 DEF Goes, Locals
    <3> HIDE DEF found
    <3>b. /\ found <= Len(users) => found <= Len(users')
          /\ found <= Len(articles) => found <= Len(articles')
          /\ found <= Len(comments) => found <= Len(comments')
      BY <1>1, <3>a, TableIds, TableIdsNext DEF Grown
    <3>3. ProfileInv(p)'
      BY <1>1, <2>4, <3>a, <3>b DEF RequestInv, ProfileInv, Kind, found
    <3>4. ArticleInv(p)'
      <4>1. Kind(p) \in OnArticle => got[p].found # 0 /\ got[p].found <= Len(articles)
        BY <1>1 DEF RequestInv, ArticleInv, OnArticle
      <4>2. Kind(p) \in {"updateArticle", "deleteArticle"} =>
              /\ got[p].article \in ArticleRows
              /\ got[p].article.author = articles[got[p].found].author
              /\ got[p].article.author = au
        BY <1>1, <1>4, <4>1 DEF RequestInv, ArticleInv, OnArticle, Owned, AuthorOfFound
      <4>3. Kind(p) \in {"updateArticle", "deleteArticle"} =>
              articles'[got[p].found].author = articles[got[p].found].author
        BY <1>1, <4>1, TableIds DEF Grown, OnArticle, Locals
      <4> QED BY <2>4, <3>a, <3>b, <4>1, <4>2, <4>3 DEF ArticleInv, Kind, found
    <3>5. CommentInv(p)'
      <4>1. Kind(p) = "deleteComment" =>
              /\ got[p].found # 0 /\ got[p].found <= Len(comments)
              /\ call[p].id \in {0, got[p].found}
              /\ comments[got[p].found].author = au
        BY <1>1, <1>4 DEF RequestInv, CommentInv, Owned, AuthorOfFound
      <4>2. Kind(p) = "deleteComment" =>
              comments'[got[p].found].author = comments[got[p].found].author
        BY <1>1, <4>1, TableIds DEF Grown, Locals
      <4> QED BY <2>4, <3>a, <3>b, <4>1, <4>2 DEF CommentInv, Kind, found
    <3> QED BY <2>1, <2>4, <3>1, <3>2, <3>3, <3>4, <3>5, GotoKeeps
  <2>5. \/ Reply(p, 200) \/ List(p, {})
        \/ Goto(p, "followings", l) /\ Kind(p) = "feed"
        \/ Goto(p, "rows", l) /\ Kind(p) \in Lists
        \/ Goto(p, "write", l)
    BY <1>4 DEF Going, l
  <2> QED BY <2>2, <2>3, <2>4, <2>5
<1> QED BY <1>3, <1>4 DEF AsAuthor

LEMMA AsAuthorOffered ==
  ASSUME NEW p \in Requests, NEW au, AsAuthor(p, au)
  PROVE  offered' = offered
  BY DEF AsAuthor, Going, Reply, List, Goto

LEMMA FirstArticleUserKeeps ==
  ASSUME IInv, NEW p \in Requests, FirstArticleUser(p)
  PROVE  IInv'
<1> DEFINE mine == AuthorRows(Whose(p))
<1>1. /\ \/ pc[p] = "author"
         \/ pc[p] = "begun" /\ Kind(p) \in {"createArticle", "feed", "import"}
      /\ (Works \/ Fault(p)) /\ Unchanged
  BY DEF FirstArticleUser, AtAuthor, At, Unchanged
<1>2. TypeInv /\ RequestInv(p) /\ got[p] \in Locals
  BY <1>1, Asked
<1>3. offered' = offered
  BY AsAuthorOffered DEF FirstArticleUser, Goto
<1>4. Grown /\ articleUsers' = articleUsers
  BY <1>1, <1>2, <1>3, UnchangedGrown DEF Unchanged, contentVars
<1>5. CASE AsAuthor(p, 0) /\ (Whose(p) = 0 \/ Fault(p))
  <2>1. p \notin hit' => Whose(p) = 0
    BY <1>5 DEF Fault
  <2> QED BY <1>1, <1>4, <1>5, <2>1, AsAuthorKeeps
<1>6. CASE mine # {} /\ AsAuthor(p, Min(mine))
  <2>1. mine \in SUBSET (1..Len(articleUsers)) /\ Len(articleUsers) \in Nat
    BY <1>2, TableIds DEF AuthorRows
  <2>2. Min(mine) \in mine
    BY <1>6, <2>1, FirstRow
  <2> DEFINE au == Min(mine)
  <2>3. /\ au \in Nat /\ au # 0 /\ au <= Len(articleUsers') /\ articleUsers'[au] = Whose(p)
    <3>1. \A r \in mine : /\ r \in Nat /\ r # 0 /\ r <= Len(articleUsers)
                          /\ articleUsers[r] = Whose(p)
      BY <2>1 DEF AuthorRows
    <3> QED BY <1>4, <2>2, <3>1
  <2> HIDE DEF au
  <2>4. AsAuthor(p, au)
    BY <1>6 DEF au
  <2> QED BY <1>1, <1>4, <2>3, <2>4, AsAuthorKeeps
<1>7. CASE Whose(p) # 0 /\ Goto(p, "createAuthor", got[p])
  <2>1. "createAuthor" \in Steps \ {"idle", "begun"}
    BY DEF Steps
  <2>2. Goes(p, "createAuthor", got[p])
    BY <1>1, <1>2, <1>7, <2>1, GotoAt
  <2>3. AuthorInv(p)'
    BY <1>2, <1>4, <1>7, <2>2 DEF RequestInv, AuthorInv, Goes, Whose, Kind
  <2>4. users' = users /\ articles' = articles /\ comments' = comments
    BY <1>1 DEF Unchanged, accountVars, contentVars
  <2>5. ProfileInv(p)'
    BY <1>1, <1>2, <2>2, <2>4 DEF RequestInv, ProfileInv, Goes, Kind, Lists
  <2>6. ArticleInv(p)'
    BY <1>1, <1>2, <2>2, <2>4 DEF RequestInv, ArticleInv, Goes, Kind, OnArticle
  <2>7. CommentInv(p)'
    BY <1>1, <1>2, <2>2, <2>4 DEF RequestInv, CommentInv, Goes, Kind
  <2> QED BY <1>1, <1>2, <1>4, <1>7, <2>1, <2>3, <2>5, <2>6, <2>7, GotoKeeps
<1> QED BY <1>5, <1>6, <1>7 DEF FirstArticleUser

LEMMA CreateArticleUserKeeps ==
  ASSUME IInv, NEW p \in Requests, CreateArticleUser(p)
  PROVE  IInv'
<1>1. /\ pc[p] = "createAuthor" /\ (Works \/ Fault(p))
      /\ UNCHANGED <<accountVars, articles, favorites, comments>>
  BY DEF CreateArticleUser
<1>2. TypeInv /\ RequestInv(p) /\ got[p] \in Locals
  BY <1>1, Asked
<1>3. offered' = offered
  BY AsAuthorOffered DEF CreateArticleUser
<1>4. CASE /\ articleUsers' = Append(articleUsers, Whose(p))
           /\ AsAuthor(p, Len(articleUsers) + 1)
  <2>1. Whose(p) \in DOMAIN users
    BY <1>1, <1>2, TableIds
       DEF RequestInv, CallerInv, AuthorInv, ProfileInv, Whose, Locals
  <2>2. /\ AuthorsGrown
        /\ Len(articleUsers) + 1 \in DOMAIN articleUsers'
        /\ articleUsers'[Len(articleUsers) + 1] = Whose(p)
    BY <1>2, <1>4, <2>1, NewAuthor
  <2>3. ArticlesGrown
    BY <1>1, <1>2, <2>2, ArticlesSame
  <2>4. FavoritesGrown /\ CommentsGrown
    BY <1>1, <1>2, <2>2, <2>3, FavoritesSame, CommentsSame
  <2>5. Grown
    BY <1>1, <1>2, <1>3, <2>2, <2>3, <2>4, ContentGrows
  <2> DEFINE au == Len(articleUsers) + 1
  <2>6. au \in Nat /\ au # 0 /\ au <= Len(articleUsers')
    BY <1>2, <2>2, <2>5, TableIds, TableIdsNext
  <2> HIDE DEF au
  <2>7. AsAuthor(p, au) /\ articleUsers'[au] = Whose(p)
    BY <1>4, <2>2 DEF au
  <2> QED BY <1>1, <2>5, <2>6, <2>7, AsAuthorKeeps
<1>5. CASE AsAuthor(p, 0) /\ Fault(p) /\ UNCHANGED articleUsers
  <2>1. Grown
    BY <1>1, <1>2, <1>3, <1>5, UnchangedGrown DEF Unchanged, contentVars
  <2>2. p \in hit'
    BY <1>5 DEF Fault
  <2> QED BY <1>1, <1>5, <2>1, <2>2, AsAuthorKeeps
<1> QED BY <1>4, <1>5 DEF CreateArticleUser

\* The handler serializes what it has found, or has to look for its user first.
LEMMA SerializeKeeps ==
  ASSUME IInv, NEW p \in Requests, pc[p] \in {"write", "list"}, Grown,
         NEW rows \in SUBSET Nat, Serialize(p, rows), Works \/ Fault(p)
  PROVE  IInv'
<1> DEFINE l == [got[p] EXCEPT !.ids = rows]
<1>1. TypeInv /\ RequestInv(p) /\ got[p] \in Locals
  BY Asked
<1>2. CASE List(p, rows)
  BY <1>2, ListKeeps
<1>3. CASE got[p].me # 0 /\ Goto(p, "serialize", l)
  <2>1. /\ l \in Locals /\ l.me = got[p].me /\ l.found = got[p].found
        /\ l.au = got[p].au /\ l.article = got[p].article
    BY <1>1 DEF Locals
  <2> HIDE DEF l
  <2>2. "serialize" \in Steps \ {"idle", "begun"}
    BY DEF Steps
  <2>3. Goes(p, "serialize", l)
    BY <1>1, <1>3, <2>1, <2>2, GotoAt
  <2> USE TableIds, TableIdsNext
  <2>4. AuthorInv(p)'
    BY <1>1, <1>3, <2>1, <2>3 DEF RequestInv, AuthorInv, Goes, Grown, Whose, Kind, Locals
  <2>5. ProfileInv(p)'
    BY <1>1, <2>1, <2>3 DEF RequestInv, ProfileInv, Goes, Grown, Kind, Locals
  <2>6. ArticleInv(p)'
    <3>1. /\ got'[p].found = got[p].found /\ got'[p].article = got[p].article
          /\ Kind(p)' = Kind(p) /\ pc'[p] = "serialize"
      BY <2>1, <2>3 DEF Goes, Kind
    <3>2. ArticleInv(p) /\ got[p].found \in Nat /\ pc[p] # "done"
      BY <1>1 DEF RequestInv, Locals
    <3>3. Kind(p) \in OnArticle => got[p].found <= Len(articles')
      BY <1>1, <3>2 DEF ArticleInv, Grown
    <3>4. Kind(p) \in {"updateArticle", "deleteArticle"} /\ got[p].found # 0 =>
            /\ got[p].article \in ArticleRows
            /\ got[p].article.author = articles'[got[p].found].author
      BY <1>1, <3>2 DEF ArticleInv, Grown, OnArticle
    <3> QED BY <3>1, <3>3, <3>4 DEF ArticleInv
  <2>7. CommentInv(p)'
    BY <1>1, <2>1, <2>3 DEF RequestInv, CommentInv, Goes, Grown, Kind, Locals
  <2> QED BY <1>3, <2>1, <2>2, <2>4, <2>5, <2>6, <2>7, GotoKeeps
<1> QED BY <1>2, <1>3 DEF Serialize

LEMMA ArticleSerializerKeeps ==
  ASSUME IInv, NEW p \in Requests, ArticleSerializer(p)
  PROVE  IInv'
<1>1. /\ pc[p] = "serialize" /\ List(p, got[p].ids) /\ (Works \/ Fault(p))
      /\ UNCHANGED <<accountVars, articles, favorites, comments>>
  BY DEF ArticleSerializer
<1>2. TypeInv /\ RequestInv(p) /\ got[p] \in Locals /\ got[p].ids \in SUBSET Nat
  BY <1>1, Asked DEF Locals
<1>3. offered' = offered
  BY <1>1 DEF List
<1>4. CASE articleUsers' = Append(articleUsers, got[p].me)
  <2>1. got[p].me \in DOMAIN users
    BY <1>1, <1>2, TableIds DEF RequestInv, CallerInv, AuthorInv, Locals
  <2>2. AuthorsGrown
    BY <1>2, <1>4, <2>1, NewAuthor
  <2>3. ArticlesGrown
    BY <1>1, <1>2, <2>2, ArticlesSame
  <2>4. FavoritesGrown /\ CommentsGrown
    BY <1>1, <1>2, <2>2, <2>3, FavoritesSame, CommentsSame
  <2>5. Grown
    BY <1>1, <1>2, <1>3, <2>2, <2>3, <2>4, ContentGrows
  <2> QED BY <1>1, <1>2, <2>5, ListKeeps
<1>5. CASE UNCHANGED articleUsers
  <2>1. Grown
    BY <1>1, <1>2, <1>3, <1>5, UnchangedGrown DEF Unchanged, contentVars
  <2> QED BY <1>1, <1>2, <2>1, ListKeeps
<1> QED BY <1>4, <1>5 DEF ArticleSerializer
-----------------------------------------------------------------------------
(***************************************************************************)
(* The writes of the articles package.                                     *)
(***************************************************************************)

\* What a write says of its answer, and what is left to show of it.
LEMMA WriteSays ==
  ASSUME TypeInv, NEW p \in Requests, NEW refused, NEW status \in {200, 201},
         Write(p, refused, status)
  PROVE  offered' = offered /\ (Written(p) => ~refused)
<1>1. answer'[p] = 422 \/ ~refused
  BY DEF Write, Reply, TypeInv
<1> QED BY <1>1 DEF Write, Reply, Written

LEMMA WriteKeeps ==
  ASSUME IInv, NEW p \in Requests, pc[p] # "idle", Grown,
         NEW refused, NEW status \in {200, 201}, Write(p, refused, status)
  PROVE  IInv'
<1>1. (Reply(p, status) \/ Reply(p, 422)) /\ (Works \/ Fault(p))
  BY DEF Write
<1> QED BY <1>1, ReplyKeeps, Answers

\* Whoever is saved as the author has a row.
LEMMA SaveAuthorGrows ==
  ASSUME IInv, NEW p \in Requests, pc[p] # "idle", SaveAuthor(p), Whose(p) = got[p].me,
         Written(p) => ~Nobody(p)
  PROVE  /\ AuthorsGrown
         /\ Written(p) => SavedAs(p) \in Nat /\ SavedAs(p) \in DOMAIN articleUsers'
<1>1. TypeInv /\ RequestInv(p) /\ got[p] \in Locals
  BY Asked
<1>2. CASE Written(p) /\ got[p].au = 0
  <2>1. got[p].me \in DOMAIN users
    BY <1>1, <1>2, TableIds DEF RequestInv, CallerInv, Locals, Nobody
  <2>2. articleUsers' = Append(articleUsers, got[p].me)
    BY <1>2 DEF SaveAuthor
  <2> QED BY <1>1, <1>2, <2>1, <2>2, NewAuthor, TableIds DEF SavedAs
<1>3. CASE ~(Written(p) /\ got[p].au = 0)
  <2>1. articleUsers' = articleUsers
    BY <1>3 DEF SaveAuthor
  <2>2. got[p].au # 0 => got[p].au \in DOMAIN articleUsers
    BY <1>1, TableIds DEF RequestInv, AuthorInv, Locals
  <2> QED BY <1>1, <1>3, <2>1, <2>2, AuthorsSame DEF SavedAs, Locals
<1> QED BY <1>2, <1>3

LEMMA ArticleCreateKeeps ==
  ASSUME IInv, NEW p \in Requests, ArticleCreate(p)
  PROVE  IInv'
<1> DEFINE slug    == SlugOf[call[p].title]
           refused == Nobody(p) \/ SlugTaken(slug, 0)
           row     == [slug |-> slug, title |-> call[p].title, body |-> call[p].body,
                       author |-> SavedAs(p), live |-> TRUE]
<1>1. /\ pc[p] = "write" /\ Kind(p) = "createArticle" /\ Write(p, refused, 201)
      /\ articles' = (IF Written(p) THEN Append(articles, row) ELSE articles)
      /\ SaveAuthor(p) /\ UNCHANGED <<accountVars, favorites, comments>>
  BY DEF ArticleCreate, At
<1>2. TypeInv /\ call[p].title \in Titles /\ call[p].body \in STRING
  BY <1>1, Asked DEF CallOK, Kind
<1> HIDE DEF refused
<1>3. offered' = offered /\ (Written(p) => ~refused)
  BY <1>1, <1>2, WriteSays
<1>4. Whose(p) = got[p].me /\ (Written(p) => ~Nobody(p))
  BY <1>1, <1>3 DEF Whose, Lists, refused
<1>5. /\ AuthorsGrown
      /\ Written(p) => SavedAs(p) \in Nat /\ SavedAs(p) \in DOMAIN articleUsers'
  BY <1>1, <1>4, SaveAuthorGrows
<1>6. ArticlesGrown
  <2>1. CASE Written(p)
    <3>1. slug \in STRING
      BY <1>2, ScenarioAssumption
    <3>2. row \in ArticleRows /\ row.author \in DOMAIN articleUsers'
      BY <1>2, <1>5, <2>1, <3>1 DEF ArticleRows
    <3> HIDE DEF row
    <3>3. articles' = Append(articles, row)
      BY <1>1, <2>1
    <3> QED BY <1>2, <1>5, <3>2, <3>3, NewArticle
  <2>2. CASE ~Written(p)
    BY <1>1, <1>2, <1>5, <2>2, ArticlesSame
  <2> QED BY <2>1, <2>2
<1>7. FavoritesGrown /\ CommentsGrown
  BY <1>1, <1>2, <1>5, <1>6, FavoritesSame, CommentsSame
<1>8. Grown
  BY <1>1, <1>2, <1>3, <1>5, <1>6, <1>7, ContentGrows
<1> QED BY <1>1, <1>8, WriteKeeps

\* A handler that writes articles only, and gives none away.
LEMMA ArticlesWritten ==
  ASSUME TypeInv, offered' = offered,
         UNCHANGED <<accountVars, articleUsers, favorites, comments>>,
         \/ UNCHANGED articles
         \/ /\ articles' \in [DOMAIN articles -> ArticleRows]
            /\ \A a \in DOMAIN articles : articles'[a].author = articles[a].author
         \/ \E row \in ArticleRows : /\ row.author \in DOMAIN articleUsers
                                     /\ articles' = Append(articles, row)
  PROVE  Grown
<1>1. AuthorsGrown /\ articleUsers' = articleUsers
  BY AuthorsSame
<1>2. ArticlesGrown
  BY <1>1, ArticlesSame, ChangedArticles, NewArticle
<1>3. FavoritesGrown /\ CommentsGrown
  BY <1>1, <1>2, FavoritesSame, CommentsSame
<1> QED BY <1>1, <1>2, <1>3, ContentGrows

LEMMA ArticleUpdateKeeps ==
  ASSUME IInv, NEW p \in Requests, ArticleUpdate(p)
  PROVE  IInv'
<1> DEFINE a     == got[p].found
           title == Filled(call[p].given, got[p].article, "title")
           body  == Filled(call[p].given, got[p].article, "body")
           live  == articles[a].live
           refused == live /\ SlugTaken(SlugOf[title], a)
<1>1. /\ pc[p] = "write" /\ Kind(p) = "updateArticle" /\ Write(p, refused, 200)
      /\ UNCHANGED <<accountVars, articleUsers, favorites, comments>>
      /\ articles' = IF Written(p) /\ live
                     THEN [articles EXCEPT ![a].slug = SlugOf[title], ![a].title = title,
                                           ![a].body = body]
                     ELSE articles
  BY DEF ArticleUpdate, At
<1>2. TypeInv /\ RequestInv(p) /\ got[p] \in Locals /\ CallOK(call[p], users)
  BY <1>1, Asked
<1>3. offered' = offered
  BY <1>1, <1>2, WriteSays
<1>4. got[p].article \in ArticleRows
  BY <1>1, <1>2 DEF RequestInv, ArticleInv, OnArticle
<1>5. title \in Titles /\ body \in STRING
  <2>1. got[p].article.title \in Titles /\ got[p].article.body \in STRING
    BY <1>4 DEF ArticleRows
  <2>2. /\ "title" \in DOMAIN call[p].given => call[p].given["title"] \in Titles
        /\ "body" \in DOMAIN call[p].given => call[p].given["body"] \in STRING
    BY <1>1, <1>2 DEF CallOK, Kind
  <2> QED BY <2>1, <2>2 DEF Filled
<1>6. SlugOf[title] \in STRING
  BY <1>5, ScenarioAssumption
<1> HIDE DEF title, body, live, refused, a
<1>7. CASE articles' = [articles EXCEPT ![a].slug = SlugOf[title], ![a].title = title,
                                        ![a].body = body]
  <2>1. ASSUME NEW b \in DOMAIN articles
        PROVE  articles'[b] \in ArticleRows /\ articles'[b].author = articles[b].author
    <3>1. articles[b] \in ArticleRows
      BY <1>2 DEF TypeInv, Consistent
    <3>2. \/ articles'[b] = articles[b]
          \/ articles'[b] = [articles[b] EXCEPT !.slug = SlugOf[title], !.title = title,
                                                !.body = body]
      BY <1>7
    <3> QED BY <1>5, <1>6, <3>1, <3>2 DEF ArticleRows
  <2>2. articles' \in [DOMAIN articles -> ArticleRows]
    BY <1>7, <2>1
  <2>3. Grown
    BY <1>1, <1>2, <1>3, <2>1, <2>2, ArticlesWritten
  <2> QED BY <1>1, <2>3, WriteKeeps
<1>8. CASE UNCHANGED articles
  <2>1. Grown
    BY <1>1, <1>2, <1>3, <1>8, ArticlesWritten
  <2> QED BY <1>1, <2>1, WriteKeeps
<1> QED BY <1>1, <1>7, <1>8

LEMMA ArticleDeleteKeeps ==
  ASSUME IInv, NEW p \in Requests, ArticleDelete(p)
  PROVE  IInv'
<1>1. /\ pc[p] = "write" /\ Write(p, FALSE, 200)
      /\ UNCHANGED <<accountVars, articleUsers, favorites, comments>>
      /\ articles' = [a \in DOMAIN articles |->
                        IF Written(p) /\ articles[a].slug = call[p].slug
                        THEN [articles[a] EXCEPT !.live = FALSE] ELSE articles[a]]
  BY DEF ArticleDelete, At
<1>2. TypeInv
  BY <1>1, Asked
<1>3. offered' = offered
  BY <1>1, <1>2, WriteSays
<1>4. ASSUME NEW a \in DOMAIN articles
      PROVE  articles'[a] \in ArticleRows /\ articles'[a].author = articles[a].author
  <2>1. articles[a] \in ArticleRows
    BY <1>2 DEF TypeInv, Consistent
  <2>2. articles'[a] = articles[a] \/ articles'[a] = [articles[a] EXCEPT !.live = FALSE]
    BY <1>1
  <2> QED BY <2>1, <2>2 DEF ArticleRows
<1>5. articles' \in [DOMAIN articles -> ArticleRows]
  BY <1>1, <1>4
<1>6. Grown
  BY <1>1, <1>2, <1>3, <1>4, <1>5, ArticlesWritten
<1> QED BY <1>1, <1>6, WriteKeeps

LEMMA ImportArticleKeeps ==
  ASSUME IInv, NEW p \in Requests, ImportArticle(p)
  PROVE  IInv'
<1> DEFINE row == [slug |-> call[p].slug, title |-> call[p].title, body |-> call[p].body,
                   author |-> got[p].au, live |-> TRUE]
<1>1. /\ pc[p] \in {"begun", "write"} /\ Kind(p) = "import"
      /\ UNCHANGED <<accountVars, articleUsers, favorites, comments>>
  BY DEF ImportArticle
<1>2. /\ TypeInv /\ RequestInv(p) /\ got[p] \in Locals
      /\ call[p].title \in Titles /\ call[p].body \in STRING /\ call[p].slug \in STRING
  BY <1>1, Asked DEF CallOK, Kind
<1>3. CASE Works /\ Reply(p, 404) /\ UNCHANGED articles
  <2>1. Grown
    BY <1>1, <1>2, <1>3, ArticlesWritten DEF Reply
  <2> QED BY <1>1, <1>3, <2>1, ReplyKeeps, Answers
<1>4. CASE /\ got[p].au # 0 /\ Write(p, FALSE, 200)
           /\ articles' = IF Written(p) /\ ~SlugTaken(call[p].slug, 0)
                          THEN Append(articles, row) ELSE articles
  <2>1. offered' = offered
    BY <1>2, <1>4, WriteSays
  <2>2. row \in ArticleRows /\ row.author \in DOMAIN articleUsers
    BY <1>2, <1>4, TableIds DEF RequestInv, AuthorInv, Locals, ArticleRows
  <2> HIDE DEF row
  <2>3. Grown
    BY <1>1, <1>2, <1>4, <2>1, <2>2, ArticlesWritten
  <2> QED BY <1>1, <1>4, <2>3, WriteKeeps
<1> QED BY <1>3, <1>4 DEF ImportArticle

LEMMA FirstFavoriteKeeps ==
  ASSUME IInv, NEW p \in Requests, FirstFavorite(p)
  PROVE  IInv'
<1>1. pc[p] = "write" /\ Kind(p) = "favorite" /\ (Works \/ Fault(p)) /\ Unchanged
  BY DEF FirstFavorite, At, Unchanged
<1>2. TypeInv /\ RequestInv(p) /\ got[p] \in Locals
  BY <1>1, Asked
<1>3. offered' = offered
  BY DEF FirstFavorite, Serialize, List, Goto, Reply
<1>4. /\ Grown /\ users' = users /\ articleUsers' = articleUsers
      /\ articles' = articles /\ comments' = comments
  BY <1>1, <1>2, <1>3, UnchangedGrown DEF Unchanged, accountVars, contentVars
<1>5. CASE Goto(p, "create", got[p])
  <2>1. "create" \in Steps \ {"idle", "begun"}
    BY DEF Steps
  <2>2. Goes(p, "create", got[p])
    BY <1>1, <1>2, <1>5, <2>1, GotoAt
  <2>3. AuthorInv(p)'
    BY <1>1, <1>2, <1>4, <2>2 DEF RequestInv, AuthorInv, Goes, Whose, Kind
  <2>4. ProfileInv(p)' /\ CommentInv(p)'
    BY <1>1, <2>2 DEF ProfileInv, CommentInv, Goes, Kind, Lists
  <2>5. ArticleInv(p)'
    BY <1>1, <1>2, <1>4, <2>2 DEF RequestInv, ArticleInv, Goes, Kind, OnArticle
  <2> QED BY <1>1, <1>2, <1>4, <1>5, <2>1, <2>3, <2>4, <2>5, GotoKeeps
<1>6. CASE Serialize(p, {got[p].found})
  <2>1. {got[p].found} \in SUBSET Nat
    BY <1>2 DEF Locals
  <2> QED BY <1>1, <1>4, <1>6, <2>1, SerializeKeeps
<1>7. CASE Reply(p, 422)
  BY <1>1, <1>4, <1>7, ReplyKeeps, Answers
<1> QED BY <1>5, <1>6, <1>7 DEF FirstFavorite

\* A handler that writes favourites only.
LEMMA FavoritesWritten ==
  ASSUME TypeInv, offered' = offered,
         UNCHANGED <<accountVars, articleUsers, articles, comments>>,
         AuthorsGrown /\ ArticlesGrown => FavoritesGrown
  PROVE  Grown
<1>1. AuthorsGrown
  BY AuthorsSame
<1>2. ArticlesGrown
  BY <1>1, ArticlesSame
<1>3. CommentsGrown
  BY <1>1, <1>2, CommentsSame
<1> QED BY <1>1, <1>2, <1>3, ContentGrows

LEMMA CreateFavoriteKeeps ==
  ASSUME IInv, NEW p \in Requests, CreateFavorite(p)
  PROVE  IInv'
<1> DEFINE row == [by |-> got[p].au, article |-> got[p].found, live |-> TRUE]
           refused == got[p].au = 0
<1>1. /\ pc[p] = "create" /\ Kind(p) = "favorite" /\ Write(p, refused, 200)
      /\ UNCHANGED <<accountVars, articleUsers, articles, comments>>
      /\ favorites' = IF Written(p) THEN Append(favorites, row) ELSE favorites
  BY DEF CreateFavorite, At
<1>2. TypeInv /\ RequestInv(p) /\ got[p] \in Locals
  BY <1>1, Asked
<1> HIDE DEF refused
<1>3. offered' = offered /\ (Written(p) => ~refused)
  BY <1>1, <1>2, WriteSays
<1>4. ASSUME AuthorsGrown, ArticlesGrown PROVE FavoritesGrown
  <2>1. CASE Written(p)
    <3>1. /\ row \in FavoriteRecords
          /\ row.by \in DOMAIN articleUsers' /\ row.article \in DOMAIN articles'
      BY <1>1, <1>2, <1>3, <2>1, TableIds
         DEF RequestInv, AuthorInv, ArticleInv, OnArticle, Locals, FavoriteRecords, refused
    <3> HIDE DEF row
    <3> QED BY <1>1, <1>2, <1>4, <2>1, <3>1, NewFavorite
  <2>2. CASE ~Written(p)
    BY <1>1, <1>2, <1>4, <2>2, FavoritesSame
  <2> QED BY <2>1, <2>2
<1>5. Grown
  BY <1>1, <1>2, <1>3, <1>4, FavoritesWritten
<1> QED BY <1>1, <1>5, WriteKeeps

LEMMA UnfavoriteKeeps ==
  ASSUME IInv, NEW p \in Requests, Unfavorite(p)
  PROVE  IInv'
<1> DEFINE removed == [f \in DOMAIN favorites |->
                         IF favorites[f].by = got[p].au /\ favorites[f].article = got[p].found
                         THEN [favorites[f] EXCEPT !.live = FALSE] ELSE favorites[f]]
<1>1. /\ pc[p] = "write" /\ (Works \/ Fault(p))
      /\ UNCHANGED <<accountVars, articleUsers, articles, comments>>
      /\ favorites' = removed \/ favorites' = favorites
      /\ Serialize(p, {got[p].found}) \/ Reply(p, 422)
  BY DEF Unfavorite, At
<1>2. TypeInv /\ favorites \in Seq(FavoriteRecords) /\ {got[p].found} \in SUBSET Nat
  BY <1>1, Asked DEF TypeInv, Consistent, Locals
<1>3. offered' = offered
  BY <1>1 DEF Serialize, List, Goto, Reply
<1>4. ASSUME NEW f \in DOMAIN favorites
      PROVE  /\ favorites'[f] \in FavoriteRecords
             /\ favorites'[f].by = favorites[f].by
             /\ favorites'[f].article = favorites[f].article
  <2>1. favorites[f] \in FavoriteRecords
    BY <1>2
  <2>2. favorites'[f] = favorites[f] \/ favorites'[f] = [favorites[f] EXCEPT !.live = FALSE]
    BY <1>1
  <2> QED BY <2>1, <2>2 DEF FavoriteRecords
<1>5. favorites' \in [DOMAIN favorites -> FavoriteRecords]
  <2>1. DOMAIN favorites' = DOMAIN favorites /\ favorites' = [f \in DOMAIN favorites' |-> favorites'[f]]
    BY <1>1, <1>2
  <2> QED BY <1>4, <2>1
<1>6. favorites' \in Seq(FavoriteRecords) /\ DOMAIN favorites' = DOMAIN favorites
  BY <1>2, <1>5, MapRows
<1>7. FavoritesGrown
  BY <1>1, <1>2, <1>4, <1>6 DEF FavoritesGrown, TypeInv, Consistent
<1>8. Grown
  BY <1>1, <1>2, <1>3, <1>7, FavoritesWritten
<1>9. CASE Serialize(p, {got[p].found})
  BY <1>1, <1>2, <1>8, <1>9, SerializeKeeps
<1>10. CASE Reply(p, 422)
  BY <1>1, <1>8, <1>10, ReplyKeeps, Answers
<1> QED BY <1>1, <1>9, <1>10

LEMMA CommentCreateKeeps ==
  ASSUME IInv, NEW p \in Requests, ArticleCommentCreate(p)
  PROVE  IInv'
<1> DEFINE row     == [author |-> SavedAs(p), article |-> got[p].found, live |-> TRUE]
           refused == Nobody(p)
<1>1. /\ pc[p] = "write" /\ Kind(p) = "comment" /\ Write(p, refused, 201)
      /\ comments' = (IF Written(p) THEN Append(comments, row) ELSE comments)
      /\ SaveAuthor(p) /\ UNCHANGED <<accountVars, articles, favorites>>
  BY DEF ArticleCommentCreate, At
<1>2. TypeInv /\ RequestInv(p) /\ got[p] \in Locals
  BY <1>1, Asked
<1> HIDE DEF refused
<1>3. offered' = offered /\ (Written(p) => ~refused)
  BY <1>1, <1>2, WriteSays
<1>4. Whose(p) = got[p].me /\ (Written(p) => ~Nobody(p))
  BY <1>1, <1>3 DEF Whose, Lists, refused
<1>5. /\ AuthorsGrown
      /\ Written(p) => SavedAs(p) \in Nat /\ SavedAs(p) \in DOMAIN articleUsers'
  BY <1>1, <1>4, SaveAuthorGrows
<1>6. ArticlesGrown
  BY <1>1, <1>2, <1>5, ArticlesSame
<1>7. FavoritesGrown
  BY <1>1, <1>2, <1>5, <1>6, FavoritesSame
<1>8. CommentsGrown
  <2>1. CASE Written(p)
    <3>1. got[p].found \in Nat /\ got[p].found \in DOMAIN articles'
      BY <1>1, <1>2, TableIds DEF RequestInv, ArticleInv, OnArticle, Locals
    <3>2. /\ row \in CommentRows /\ row.author \in DOMAIN articleUsers'
          /\ row.article \in DOMAIN articles'
      BY <1>5, <2>1, <3>1 DEF CommentRows
    <3> HIDE DEF row
    <3> QED BY <1>1, <1>2, <1>5, <1>6, <2>1, <3>2, NewComment
  <2>2. CASE ~Written(p)
    BY <1>1, <1>2, <1>5, <1>6, <2>2, CommentsSame
  <2> QED BY <2>1, <2>2
<1>9. Grown
  BY <1>1, <1>2, <1>3, <1>5, <1>6, <1>7, <1>8, ContentGrows
<1> QED BY <1>1, <1>9, WriteKeeps

LEMMA CommentDeleteKeeps ==
  ASSUME IInv, NEW p \in Requests, ArticleCommentDelete(p)
  PROVE  IInv'
<1>1. /\ pc[p] = "write" /\ Write(p, FALSE, 200)
      /\ UNCHANGED <<accountVars, articleUsers, articles, favorites>>
      /\ comments' = [c \in DOMAIN comments |->
                        IF Written(p) /\ c = call[p].id
                        THEN [comments[c] EXCEPT !.live = FALSE] ELSE comments[c]]
  BY DEF ArticleCommentDelete, At
<1>2. TypeInv /\ comments \in Seq(CommentRows)
  BY <1>1, Asked DEF TypeInv, Consistent
<1>3. offered' = offered
  BY <1>1, <1>2, WriteSays
<1>4. ASSUME NEW c \in DOMAIN comments
      PROVE  /\ comments'[c] \in CommentRows
             /\ comments'[c].author = comments[c].author
             /\ comments'[c].article = comments[c].article
  <2>1. comments[c] \in CommentRows
    BY <1>2
  <2>2. comments'[c] = comments[c] \/ comments'[c] = [comments[c] EXCEPT !.live = FALSE]
    BY <1>1
  <2> QED BY <2>1, <2>2 DEF CommentRows
<1>5. comments' \in [DOMAIN comments -> CommentRows]
  BY <1>1, <1>4
<1>6. comments' \in Seq(CommentRows) /\ DOMAIN comments' = DOMAIN comments
      /\ Len(comments') = Len(comments)
  BY <1>2, <1>5, MapRows
<1>7. AuthorsGrown
  BY <1>1, <1>2, AuthorsSame
<1>8. ArticlesGrown
  BY <1>1, <1>2, <1>7, ArticlesSame
<1>9. FavoritesGrown
  BY <1>1, <1>2, <1>7, <1>8, FavoritesSame
<1>10. CommentsGrown
  BY <1>1, <1>2, <1>4, <1>6, TableIds DEF CommentsGrown, TypeInv, Consistent
<1>11. Grown
  BY <1>1, <1>2, <1>3, <1>7, <1>8, <1>9, <1>10, ContentGrows
<1> QED BY <1>1, <1>11, WriteKeeps
-----------------------------------------------------------------------------
(***************************************************************************)
(* Feeds, lists and exports: they read, and answer with sets of ids.       *)
(***************************************************************************)

\* A query has found some rows.
LEMMA QueryKeeps ==
  ASSUME IInv, NEW p \in Requests, pc[p] \notin {"idle", "done"}, Unchanged, Works \/ Fault(p),
         NEW n \in {"authors", "list"}, NEW rows \in SUBSET Nat,
         Goto(p, n, [got[p] EXCEPT !.ids = rows])
  PROVE  IInv'
<1> DEFINE l == [got[p] EXCEPT !.ids = rows]
<1>1. TypeInv /\ RequestInv(p) /\ got[p] \in Locals
  BY Asked
<1>2. offered' = offered
  BY DEF Goto
<1>3. /\ Grown /\ users' = users /\ articleUsers' = articleUsers
      /\ articles' = articles /\ comments' = comments
  BY <1>1, <1>2, UnchangedGrown DEF Unchanged, accountVars, contentVars
<1>4. /\ l \in Locals /\ l.me = got[p].me /\ l.found = got[p].found
      /\ l.au = got[p].au /\ l.article = got[p].article
  BY <1>1 DEF Locals
<1>5. Goto(p, n, l)
  OBVIOUS
<1> HIDE DEF l
<1>6. n \in Steps \ {"idle", "begun"}
  BY DEF Steps
<1>7. Goes(p, n, l)
  BY <1>1, <1>4, <1>5, <1>6, GotoAt
<1>8. AuthorInv(p)' /\ ProfileInv(p)'
  BY <1>1, <1>3, <1>4, <1>7 DEF RequestInv, AuthorInv, ProfileInv, Goes, Whose, Kind
<1>9. ArticleInv(p)' /\ CommentInv(p)'
  BY <1>1, <1>3, <1>4, <1>7 DEF RequestInv, ArticleInv, CommentInv, Goes, Kind
<1> QED BY <1>3, <1>4, <1>5, <1>6, <1>8, <1>9, GotoKeeps

\* The tables have no ids but numbers.
LEMMA IdsOfRows ==
  ASSUME TypeInv
  PROVE  /\ \A u : Followings(u) \in SUBSET Nat /\ AuthorRows(u) \in SUBSET Nat
         /\ DOMAIN users \in SUBSET Nat /\ DOMAIN articles \in SUBSET Nat
         /\ DOMAIN comments \in SUBSET Nat
         /\ \A f \in DOMAIN favorites : favorites[f].article \in Nat
<1>1. \A f \in DOMAIN follows : follows[f].of \in Nat
  <2>1. \A f \in DOMAIN follows : follows[f] \in FollowRecords
    BY DEF TypeInv, Consistent
  <2> QED BY <2>1 DEF FollowRecords
<1>2. \A f \in DOMAIN favorites : favorites[f].article \in Nat
  <2>1. \A f \in DOMAIN favorites : favorites[f] \in FavoriteRecords
    BY DEF TypeInv, Consistent
  <2> QED BY <2>1 DEF FavoriteRecords
<1> QED BY <1>1, <1>2, TableIds DEF Followings, AuthorRows

LEMMA FeedRefusedKeeps ==
  ASSUME IInv, NEW p \in Requests, FeedRefused(p)
  PROVE  IInv'
<1>1. pc[p] = "begun" /\ Works /\ Reply(p, 401) /\ Unchanged
  BY DEF FeedRefused, At, Unchanged
<1>2. Grown
  BY <1>1, UnchangedGrown DEF IInv, Reply
<1> QED BY <1>1, <1>2, ReplyKeeps, Answers

LEMMA FeedFollowingsKeeps ==
  ASSUME IInv, NEW p \in Requests, FeedFollowings(p)
  PROVE  IInv'
<1>1. pc[p] = "followings" /\ Unchanged
  BY DEF FeedFollowings, Unchanged
<1>2. PICK found \in {Followings(got[p].me), {}} :
        /\ Works \/ Fault(p)
        /\ Reply(p, 200) \/ Goto(p, "authors", [got[p] EXCEPT !.ids = found])
  BY DEF FeedFollowings
<1>3. found \in SUBSET Nat
  BY IdsOfRows DEF IInv
<1>4. CASE Reply(p, 200)
  <2>1. Grown
    BY <1>1, <1>4, UnchangedGrown DEF IInv, Reply
  <2> QED BY <1>1, <1>2, <1>4, <2>1, ReplyKeeps, Answers
<1>5. CASE Goto(p, "authors", [got[p] EXCEPT !.ids = found])
  BY <1>1, <1>2, <1>3, <1>5, QueryKeeps
<1> QED BY <1>2, <1>4, <1>5

LEMMA FeedAuthorsKeeps ==
  ASSUME IInv, NEW p \in Requests, FeedAuthors(p)
  PROVE  IInv'
<1> DEFINE rows == UNION {AuthorRows(u) : u \in got[p].ids}
<1>1. pc[p] = "authors" /\ Unchanged /\ (Works \/ Fault(p))
  BY DEF FeedAuthors, Unchanged
<1>2. rows \in SUBSET Nat
  BY IdsOfRows DEF IInv
<1>3. CASE Reply(p, 404)
  <2>1. Grown
    BY <1>1, <1>3, UnchangedGrown DEF IInv, Reply
  <2> QED BY <1>1, <1>3, <2>1, ReplyKeeps, Answers
<1>4. CASE Goto(p, "list", [got[p] EXCEPT !.ids = rows])
  <2> HIDE DEF rows
  <2> QED BY <1>1, <1>2, <1>4, QueryKeeps
<1>5. got[p] \in Locals
  BY DEF IInv, TypeInv
<1>6. [got[p] EXCEPT !.ids = UNION {AuthorRows(u) : u \in @}] = [got[p] EXCEPT !.ids = rows]
  BY <1>5
<1> HIDE DEF rows
<1> QED BY <1>3, <1>4, <1>6 DEF FeedAuthors

\* The last query of a list.
LEMMA ListAnswers ==
  ASSUME IInv, NEW p \in Requests, pc[p] # "idle", Unchanged, NEW rows \in SUBSET Nat,
         \/ (Works \/ Fault(p)) /\ List(p, rows)
         \/ Fault(p) /\ Reply(p, 404)
  PROVE  IInv'
<1>1. Grown
  BY UnchangedGrown DEF IInv, Reply, List
<1>2. CASE (Works \/ Fault(p)) /\ List(p, rows)
  BY <1>1, <1>2, ListKeeps
<1>3. CASE Fault(p) /\ Reply(p, 404)
  BY <1>1, <1>3, ReplyKeeps, Answers
<1> QED BY <1>2, <1>3

LEMMA ListSerialized ==
  ASSUME IInv, NEW p \in Requests, pc[p] = "list", Unchanged, NEW rows \in SUBSET Nat,
         \/ Works /\ Serialize(p, rows)
         \/ Fault(p) /\ Reply(p, 404)
  PROVE  IInv'
<1>1. Grown
  BY UnchangedGrown DEF IInv, Reply, Serialize, List, Goto
<1>2. CASE Works /\ Serialize(p, rows)
  BY <1>1, <1>2, SerializeKeeps
<1>3. CASE Fault(p) /\ Reply(p, 404)
  BY <1>1, <1>3, ReplyKeeps, Answers
<1> QED BY <1>2, <1>3

LEMMA FeedArticlesKeeps ==
  ASSUME IInv, NEW p \in Requests, FeedArticles(p)
  PROVE  IInv'
<1> DEFINE rows == {a \in DOMAIN articles : articles[a].live /\ articles[a].author \in got[p].ids}
<1>1. rows \in SUBSET Nat
  BY IdsOfRows DEF IInv
<1>2. pc[p] = "list" /\ Unchanged
      /\ ((Works /\ Serialize(p, rows)) \/ (Fault(p) /\ Reply(p, 404)))
  BY DEF FeedArticles, Unchanged, At
<1> HIDE DEF rows
<1> QED BY <1>1, <1>2, ListSerialized

LEMMA FindListedKeeps ==
  ASSUME IInv, NEW p \in Requests, FindListed(p)
  PROVE  IInv'
<1> DEFINE named == {u \in DOMAIN users : users[u].username = call[p].name}
           l     == [got[p] EXCEPT !.found = Min(named)]
<1>1. pc[p] = "begun" /\ Kind(p) \in Lists /\ (Works \/ Fault(p)) /\ Unchanged
  BY DEF FindListed, At, Unchanged
<1>2. TypeInv /\ RequestInv(p) /\ got[p] \in Locals
  BY <1>1, Asked
<1>3. offered' = offered
  BY DEF FindListed, Goto, Reply, List
<1>4. Grown /\ users' = users
  BY <1>1, <1>2, <1>3, UnchangedGrown DEF Unchanged, accountVars
<1>5. CASE named # {} /\ Goto(p, "author", l)
  <2>1. Min(named) \in Nat /\ Min(named) # 0 /\ Min(named) <= Len(users)
    BY <1>2, <1>5, TableIds, FirstRow
  <2>2. l \in Locals /\ l.me = got[p].me /\ l.au = got[p].au /\ l.found = Min(named)
    BY <1>2, <2>1 DEF Locals
  <2> HIDE DEF named, l
  <2>3. "author" \in Steps \ {"idle", "begun"}
    BY DEF Steps
  <2>4. Goes(p, "author", l)
    BY <1>1, <1>2, <1>5, <2>2, <2>3, GotoAt
  <2>5. AuthorInv(p)'
    BY <1>1, <1>2, <2>2, <2>4 DEF RequestInv, CallerInv, AuthorInv, Goes, Kind
  <2>6. ProfileInv(p)'
    BY <1>4, <2>1, <2>2, <2>4 DEF ProfileInv, Goes
  <2>7. ArticleInv(p)' /\ CommentInv(p)'
    BY <1>1, <2>4 DEF ArticleInv, CommentInv, Goes, Kind, OnArticle, Lists
  <2> QED BY <1>1, <1>4, <1>5, <2>2, <2>3, <2>5, <2>6, <2>7, GotoKeeps
<1>6. CASE List(p, {})
  BY <1>1, <1>6, ListAnswers
<1>7. CASE Fault(p) /\ Reply(p, 404)
  BY <1>1, <1>7, ListAnswers
<1> QED BY <1>5, <1>6, <1>7 DEF FindListed

LEMMA FindIdsKeeps ==
  ASSUME IInv, NEW p \in Requests, FindIds(p)
  PROVE  IInv'
<1>1. pc[p] = "rows" /\ Unchanged /\ (Works \/ Fault(p))
  BY DEF FindIds, At, Unchanged
<1>2. ListedIds(p) \in SUBSET Nat
  BY IdsOfRows DEF IInv, ListedIds
<1>3. CASE Goto(p, "list", [got[p] EXCEPT !.ids = ListedIds(p)])
  BY <1>1, <1>2, <1>3, QueryKeeps
<1>4. CASE List(p, {}) \/ (Fault(p) /\ Reply(p, 404))
  BY <1>1, <1>4, ListAnswers
<1> QED BY <1>3, <1>4 DEF FindIds

LEMMA FindManyArticleKeeps ==
  ASSUME IInv, NEW p \in Requests, FindManyArticle(p)
  PROVE  IInv'
<1> DEFINE rows == {a \in got[p].ids : articles[a].live}
<1>1. pc[p] = "list" /\ Unchanged
      /\ ((Works /\ Serialize(p, rows)) \/ (Fault(p) /\ Reply(p, 404)))
  BY DEF FindManyArticle, At, Unchanged
<1>2. rows \in SUBSET Nat
  BY <1>1, Asked DEF Locals
<1> HIDE DEF rows
<1> QED BY <1>1, <1>2, ListSerialized

LEMMA FindFilterKeeps ==
  ASSUME IInv, NEW p \in Requests, FindFilter(p)
  PROVE  IInv'
<1> DEFINE named == IF Kind(p) = "exportArticles"
                    THEN {u \in DOMAIN users : users[u].username = call[p].name}
                    ELSE {a \in DOMAIN articles : articles[a].live /\ articles[a].slug = call[p].slug}
           l     == [got[p] EXCEPT !.found = Min(named)]
<1>1. /\ pc[p] = "begun" /\ Kind(p) \in {"exportArticles", "exportComments"}
      /\ (Works \/ Fault(p)) /\ Unchanged
  BY DEF FindFilter, At, Unchanged
<1>2. TypeInv /\ RequestInv(p) /\ got[p] \in Locals
  BY <1>1, Asked
<1>3. offered' = offered
  BY DEF FindFilter, Goto
<1>4. Grown
  BY <1>1, <1>2, <1>3, UnchangedGrown
<1>5. "list" \in Steps \ {"idle", "begun"}
  BY DEF Steps
<1>6. ASSUME NEW m \in Locals, m.me = got[p].me, m.au = got[p].au, Goto(p, "list", m)
      PROVE  IInv'
  <2>1. Goes(p, "list", m)
    BY <1>1, <1>2, <1>5, <1>6, GotoAt
  <2>2. AuthorInv(p)'
    BY <1>1, <1>2, <1>6, <2>1 DEF RequestInv, CallerInv, AuthorInv, Goes
  <2>3. ProfileInv(p)' /\ ArticleInv(p)' /\ CommentInv(p)'
    BY <1>1, <2>1 DEF ProfileInv, ArticleInv, CommentInv, Goes, Kind, OnArticle, Lists
  <2> QED BY <1>1, <1>4, <1>5, <1>6, <2>2, <2>3, GotoKeeps
<1>7. CASE named # {} /\ Goto(p, "list", l)
  <2>1. named \in SUBSET Nat
    BY <1>2, IdsOfRows
  <2>2. Min(named) \in Nat
    BY <1>7, <2>1, MinIn
  <2>3. l \in Locals /\ l.me = got[p].me /\ l.au = got[p].au
    BY <1>2, <2>2 DEF Locals
  <2> HIDE DEF l
  <2> QED BY <1>6, <1>7, <2>3
<1>8. CASE Goto(p, "list", got[p])
  BY <1>2, <1>6, <1>8
<1> QED BY <1>7, <1>8 DEF FindFilter

LEMMA ExportRowsKeeps ==
  ASSUME IInv, NEW p \in Requests, ExportRows(p)
  PROVE  IInv'
<1>1. /\ pc[p] = "list" /\ Unchanged
      /\ ((Works /\ List(p, Filtered(p))) \/ (Fault(p) /\ List(p, {})))
  BY DEF ExportRows, At, Unchanged
<1>2. Filtered(p) \in SUBSET Nat
  BY IdsOfRows DEF IInv, Filtered
<1> QED BY <1>1, <1>2, ListAnswers
-----------------------------------------------------------------------------
(***************************************************************************)
(* The inductive invariant holds.                                          *)
(***************************************************************************)
LEMMA InitIInv == Init => IInv
<1> SUFFICES ASSUME Init PROVE IInv
  OBVIOUS
<1>1. PICK s \in Scenarios :
        /\ offered = s.calls
        /\ users = s.users /\ follows = s.follows
        /\ articleUsers = s.articleUsers /\ articles = s.articles
        /\ favorites = s.favorites /\ comments = s.comments
  BY DEF Init
<1>2. /\ Consistent(users, follows, articleUsers, articles, favorites, comments)
      /\ \A c \in offered : CallOK(c, users)
  BY <1>1, ScenarioAssumption
<1>3. Nothing \in Locals /\ Nothing.me = 0 /\ Nothing.au = 0 /\ Nothing.found = 0
  BY DEF Nothing, Locals
<1>4. TypeInv
  BY <1>2, <1>3 DEF Init, TypeInv, Steps, Statuses
<1>5. ASSUME NEW p \in Requests PROVE RequestInv(p)
  <2>1. /\ pc[p] = "idle" /\ got[p] = Nothing /\ answer[p] = 0 /\ call[p] = NoCall
        /\ Kind(p) = "none"
    BY DEF Init, Kind, NoCall
  <2>2. CallerInv(p) /\ AuthorInv(p) /\ RefusedInv(p)
    BY <1>3, <1>4, <2>1, TableIds DEF CallerInv, AuthorInv, RefusedInv, NoCall
  <2>3. ProfileInv(p) /\ ArticleInv(p) /\ CommentInv(p)
    BY <2>1 DEF ProfileInv, ArticleInv, CommentInv, OnArticle, Lists
  <2> QED BY <2>2, <2>3 DEF RequestInv
<1> QED BY <1>4, <1>5 DEF IInv

LEMMA AccountStepKeeps ==
  ASSUME IInv, NEW p \in Requests, AccountStep(p), UNCHANGED contentVars
  PROVE  IInv'
  BY MiddlewareKeeps, RegistrationKeeps, LoginKeeps, UserUpdateKeeps, FindProfileKeeps,
     FirstFollowKeeps, CreateFollowKeeps, UnfollowKeeps DEF AccountStep

LEMMA ArticleStepKeeps ==
  ASSUME IInv, NEW p \in Requests, ArticleStep(p)
  PROVE  IInv'
  BY FindOneArticleKeeps, FindOneCommentKeeps, FirstArticleUserKeeps, CreateArticleUserKeeps,
     ArticleSerializerKeeps,
     ArticleCreateKeeps, ArticleUpdateKeeps, ArticleDeleteKeeps, ImportArticleKeeps,
     FirstFavoriteKeeps, CreateFavoriteKeeps, UnfavoriteKeeps,
     CommentCreateKeeps, CommentDeleteKeeps,
     FeedRefusedKeeps, FeedFollowingsKeeps, FeedAuthorsKeeps, FeedArticlesKeeps,
     FindListedKeeps, FindIdsKeeps, FindManyArticleKeeps,
     FindFilterKeeps, ExportRowsKeeps DEF ArticleStep

LEMMA StutterKeeps ==
  ASSUME IInv, UNCHANGED vars
  PROVE  IInv'
  BY DEF vars, requestVars, accountVars, contentVars, IInv, TypeInv, Consistent, RequestInv,
         CallerInv, AuthorInv, ProfileInv, ArticleInv, CommentInv, RefusedInv, Whose, Kind

LEMMA NextKeeps ==
  ASSUME IInv, [Next]_vars
  PROVE  IInv'
  BY AccountStepKeeps, ArticleStepKeeps, StutterKeeps DEF Next

\* In every state the locals of every request fit the tables, whatever the others
\* have done since it read them.
THEOREM InvariantHolds == Spec => []IInv
<1>1. Init => IInv
  BY InitIInv
<1>2. IInv /\ [Next]_vars => IInv'
  BY NextKeeps
<1> QED BY <1>1, <1>2, PTL DEF Spec

\* Rows refer to rows that are there, and every request to its own call, user and
\* ArticleUserModel (ApiTypeOK).
THEOREM TypeCorrect == Spec => []ApiTypeOK
<1>1. IInv => ApiTypeOK
  <2> SUFFICES ASSUME IInv PROVE ApiTypeOK
    OBVIOUS
  <2>1. TypeInv
    BY DEF IInv
  <2>2. ASSUME NEW p \in Requests
        PROVE  got[p].me \in 0..Len(users) /\ got[p].au \in 0..Len(articleUsers)
    <3>1. got[p] \in Locals /\ RequestInv(p)
      BY <2>1 DEF IInv, TypeInv
    <3> QED BY <2>1, <3>1, TableIds DEF RequestInv, CallerInv, AuthorInv, Locals
  <2> QED BY <2>1, <2>2 DEF TypeInv, ApiTypeOK
<1> QED BY <1>1, InvariantHolds, PTL

\* A table that has two rows of a user has more than one.
LEMMA TwoRows ==
  ASSUME TypeInv, NEW u, NEW r \in AuthorRows(u), NEW s \in AuthorRows(u), r # s
  PROVE  Cardinality(AuthorRows(u)) > 1
<1>1. IsFiniteSet(1..Len(articleUsers))
  BY TableIds, FS_Interval
<1>2. IsFiniteSet(AuthorRows(u))
  <2>1. AuthorRows(u) \in SUBSET (1..Len(articleUsers))
    BY TableIds DEF AuthorRows
  <2> QED BY <1>1, <2>1, FS_Subset
<1>3. IsFiniteSet({r, s}) /\ Cardinality({r, s}) = 2
  <2>1. IsFiniteSet({r}) /\ Cardinality({r}) = 1
    BY FS_Singleton
  <2>2. {r, s} = {r} \cup {s} /\ s \notin {r}
    OBVIOUS
  <2> QED BY <2>1, <2>2, FS_AddElement
<1>4. Cardinality({r, s}) <= Cardinality(AuthorRows(u))
  <2>1. {r, s} \in SUBSET AuthorRows(u)
    OBVIOUS
  <2> QED BY <1>2, <2>1, FS_Subset
<1>5. Cardinality(AuthorRows(u)) \in Nat
  BY <1>2, FS_CardinalityType
<1> QED BY <1>3, <1>4, <1>5

\* The author of an article or a comment is never told that it is not, unless the
\* lookup of its ArticleUserModel failed or found another than the one it wrote
\* with (RefusedOnlyOutsiders).
THEOREM OutsidersAreRefused == Spec => []RefusedOnlyOutsiders
<1>1. IInv => RefusedOnlyOutsiders
  <2> SUFFICES ASSUME IInv,
                      NEW p \in Calling({"updateArticle", "deleteArticle", "deleteComment"}) \ hit,
                      answer[p] = 403
               PROVE  LET author == IF Kind(p) = "deleteComment"
                                    THEN comments[got[p].found].author
                                    ELSE articles[got[p].found].author
                      IN articleUsers[author] = call[p].me => Cardinality(AuthorRows(call[p].me)) > 1
    BY DEF RefusedOnlyOutsiders
  <2> DEFINE author == IF Kind(p) = "deleteComment" THEN comments[got[p].found].author
                                                    ELSE articles[got[p].found].author
  <2>1. p \in Requests /\ TypeInv /\ RequestInv(p) /\ got[p] \in Locals
    BY DEF Calling, Started, IInv, TypeInv
  <2>2. /\ Kind(p) \in Owned /\ got[p].found # 0
        /\ articleUsers[author] = call[p].me =>
             \E r \in DOMAIN articleUsers : r # author /\ articleUsers[r] = call[p].me
    BY <2>1 DEF RequestInv, RefusedInv
  <2>3. /\ Kind(p) = "deleteComment" => got[p].found \in DOMAIN comments
        /\ Kind(p) # "deleteComment" => got[p].found \in DOMAIN articles
    BY <2>1, <2>2, TableIds DEF RequestInv, CommentInv, ArticleInv, Owned, OnArticle, Locals
  <2>4. author \in DOMAIN articleUsers
    BY <2>1, <2>3 DEF TypeInv, Consistent
  <2> HIDE DEF author
  <2>5. ASSUME articleUsers[author] = call[p].me
        PROVE  Cardinality(AuthorRows(call[p].me)) > 1
    <3>1. PICK r \in DOMAIN articleUsers : r # author /\ articleUsers[r] = call[p].me
      BY <2>2, <2>5
    <3>2. author \in AuthorRows(call[p].me) /\ r \in AuthorRows(call[p].me)
      BY <2>4, <2>5, <3>1 DEF AuthorRows
    <3> QED BY <2>1, <3>1, <3>2, TwoRows
  <2> QED BY <2>5 DEF author
<1> QED BY <1>1, InvariantHolds, PTL
-----------------------------------------------------------------------------
(***************************************************************************)
(* What a step may not do.                                                 *)
(***************************************************************************)
LEMMA MovesOnly ==
  ASSUME TypeInv, NEW p \in Requests, NEW n, pc[p] # n, pc' = [pc EXCEPT ![p] = n]
  PROVE  Moves(p) /\ \A q \in Requests : Moves(q) => q = p
  BY DEF TypeInv, Moves

\* One request moves at a step.
LEMMA OneMoves ==
  ASSUME TypeInv, NEW p \in Requests, AccountStep(p) \/ ArticleStep(p)
  PROVE  Moves(p) /\ \A q \in Requests : Moves(q) => q = p
<1>1. \E n : pc[p] # n /\ pc' = [pc EXCEPT ![p] = n]
  <2>1. CASE AccountStep(p)
    BY <2>1 DEF AccountStep, AuthMiddleware, Arrive, UsersRegistration, UsersLogin, UserUpdate,
                FindProfile, FirstFollow, CreateFollow, Unfollow, At, Goto, Reply
  <2>2. CASE FindOneArticle(p) \/ FindOneComment(p)
    BY <2>2 DEF FindOneArticle, FindOneComment, At, Goto, Reply
  <2>3. CASE FirstArticleUser(p) \/ CreateArticleUser(p) \/ ArticleSerializer(p)
    BY <2>3 DEF FirstArticleUser, CreateArticleUser, ArticleSerializer, AtAuthor, At, AsAuthor,
                Going, Goto, Reply, List
  <2>4. CASE ArticleCreate(p) \/ ArticleUpdate(p) \/ ArticleDelete(p) \/ ImportArticle(p)
    BY <2>4 DEF ArticleCreate, ArticleUpdate, ArticleDelete, ImportArticle, Write, At, Reply
  <2>5. CASE \/ FirstFavorite(p) \/ CreateFavorite(p) \/ Unfavorite(p)
             \/ ArticleCommentCreate(p) \/ ArticleCommentDelete(p)
    BY <2>5 DEF FirstFavorite, CreateFavorite, Unfavorite, ArticleCommentCreate,
                ArticleCommentDelete, Write, Serialize, List, At, Goto, Reply
  <2>6. CASE FeedRefused(p) \/ FeedFollowings(p) \/ FeedAuthors(p) \/ FeedArticles(p)
    BY <2>6 DEF FeedRefused, FeedFollowings, FeedAuthors, FeedArticles, Serialize, At,
                Goto, Reply, List
  <2>7. CASE \/ FindListed(p) \/ FindIds(p) \/ FindManyArticle(p)
             \/ FindFilter(p) \/ ExportRows(p)
    BY <2>7 DEF FindListed, FindIds, FindManyArticle, FindFilter, ExportRows, Serialize, At,
                Goto, Reply, List
  <2> QED BY <2>1, <2>2, <2>3, <2>4, <2>5, <2>6, <2>7 DEF ArticleStep
<1> QED BY <1>1, MovesOnly

\* The steps that write no article and no comment.
LEMMA OthersLeaveContent ==
  ASSUME NEW p \in Requests,
         \/ AccountStep(p) /\ UNCHANGED contentVars
         \/ ArticleStep(p),
         ~ArticleCreate(p), ~ArticleUpdate(p), ~ArticleDelete(p), ~ImportArticle(p),
         ~ArticleCommentCreate(p), ~ArticleCommentDelete(p)
  PROVE  UNCHANGED <<articles, comments>>
  BY DEF ArticleStep, contentVars, FindOneArticle, FindOneComment, FirstArticleUser,
         CreateArticleUser, ArticleSerializer, FirstFavorite, CreateFavorite, Unfavorite,
         FeedRefused,
         FeedFollowings, FeedAuthors, FeedArticles, FindListed, FindIds, FindManyArticle,
         FindFilter, ExportRows

\* The ArticleUserModel of a handler that wrote with it is its user's.
LEMMA OwnAuthor ==
  ASSUME TypeInv, NEW p \in Requests, RequestInv(p), Kind(p) \notin Lists,
         got[p].au \in DOMAIN articleUsers
  PROVE  articleUsers[got[p].au] = got[p].me
  BY TableIds DEF RequestInv, AuthorInv, Whose

\* What may happen to an article, and to a comment.
ArticlesDecided(p) ==
  \A a \in DOMAIN articles : articles'[a] # articles[a] =>
    /\ articles[a].live
    /\ AuthorOf(a) = got[p].me \/ (Kind(p) = "deleteArticle" /\ got[p].found # a)

CommentsDecided(p) ==
  \A c \in DOMAIN comments : comments'[c] # comments[c] =>
    /\ comments[c].live
    /\ articleUsers[comments[c].author] = got[p].me \/ got[p].found # c

LEMMA CreateDecided ==
  ASSUME IInv, NEW p \in Requests, ArticleCreate(p) \/ ImportArticle(p)
  PROVE  ArticlesDecided(p) /\ CommentsDecided(p)
<1>1. \/ articles' = articles
      \/ \E r : articles' = Append(articles, r)
  BY DEF ArticleCreate, ImportArticle
<1>2. \A a \in DOMAIN articles : articles'[a] = articles[a]
  <2>1. articles \in Seq(ArticleRows)
    BY DEF IInv, TypeInv, Consistent
  <2>2. ASSUME NEW r, articles' = Append(articles, r), NEW a \in DOMAIN articles
        PROVE  articles'[a] = articles[a]
    BY <2>1, <2>2
  <2> QED BY <1>1, <2>2
<1>3. comments' = comments
  BY DEF ArticleCreate, ImportArticle
<1> QED BY <1>2, <1>3 DEF ArticlesDecided, CommentsDecided

LEMMA UpdateDecided ==
  ASSUME IInv, NEW p \in Requests, ArticleUpdate(p)
  PROVE  ArticlesDecided(p) /\ CommentsDecided(p)
<1>1. pc[p] = "write" /\ Kind(p) = "updateArticle" /\ comments' = comments
  BY DEF ArticleUpdate, At
<1>2. TypeInv /\ RequestInv(p) /\ got[p] \in Locals
  BY <1>1, Asked
<1>3. /\ got[p].found # 0 /\ got[p].found <= Len(articles)
      /\ articles[got[p].found].author = got[p].au
  BY <1>1, <1>2 DEF RequestInv, ArticleInv, OnArticle
<1>4. got[p].found \in DOMAIN articles
  BY <1>2, <1>3, TableIds DEF Locals
<1>5. AuthorOf(got[p].found) = got[p].me
  <2>1. got[p].au \in DOMAIN articleUsers
    BY <1>2, <1>3, <1>4 DEF TypeInv, Consistent
  <2> QED BY <1>1, <1>2, <1>3, <2>1, OwnAuthor DEF AuthorOf, Lists
<1>6. ASSUME NEW a \in DOMAIN articles, articles'[a] # articles[a]
      PROVE  a = got[p].found /\ articles[a].live
  BY <1>6 DEF ArticleUpdate
<1> QED BY <1>1, <1>5, <1>6 DEF ArticlesDecided, CommentsDecided

LEMMA DeleteDecided ==
  ASSUME IInv, NEW p \in Requests, ArticleDelete(p)
  PROVE  ArticlesDecided(p) /\ CommentsDecided(p)
<1>1. pc[p] = "write" /\ Kind(p) = "deleteArticle" /\ comments' = comments
  BY DEF ArticleDelete, At
<1>2. TypeInv /\ RequestInv(p) /\ got[p] \in Locals
  BY <1>1, Asked
<1>3. ASSUME NEW a \in DOMAIN articles, articles'[a] # articles[a] PROVE articles[a].live
  <2>1. articles[a] \in ArticleRows
    BY <1>2 DEF TypeInv, Consistent
  <2>2. articles'[a] = [articles[a] EXCEPT !.live = FALSE]
    BY <1>3 DEF ArticleDelete
  <2> QED BY <1>3, <2>1, <2>2 DEF ArticleRows
<1>4. ASSUME NEW a \in DOMAIN articles, got[p].found = a PROVE AuthorOf(a) = got[p].me
  <2>1. a # 0
    BY <1>2, TableIds
  <2>2. articles[a].author = got[p].au
    BY <1>1, <1>2, <1>4, <2>1 DEF RequestInv, ArticleInv
  <2>3. got[p].au \in DOMAIN articleUsers
    BY <1>2, <2>2 DEF TypeInv, Consistent
  <2> QED BY <1>1, <1>2, <2>2, <2>3, OwnAuthor DEF AuthorOf, Lists
<1> QED BY <1>1, <1>3, <1>4 DEF ArticlesDecided, CommentsDecided

LEMMA CommentDecided ==
  ASSUME IInv, NEW p \in Requests, ArticleCommentCreate(p) \/ ArticleCommentDelete(p)
  PROVE  ArticlesDecided(p) /\ CommentsDecided(p)
<1>1. pc[p] = "write" /\ articles' = articles
  BY DEF ArticleCommentCreate, ArticleCommentDelete, At
<1>2. TypeInv /\ RequestInv(p) /\ got[p] \in Locals /\ comments \in Seq(CommentRows)
  BY <1>1, Asked DEF TypeInv, Consistent
<1>3. CASE ArticleCommentCreate(p)
  <2>1. \/ comments' = comments
        \/ \E r : comments' = Append(comments, r)
    BY <1>3 DEF ArticleCommentCreate
  <2>2. ASSUME NEW r, comments' = Append(comments, r), NEW c \in DOMAIN comments
        PROVE  comments'[c] = comments[c]
    BY <1>2, <2>2
  <2> QED BY <1>1, <2>1, <2>2 DEF ArticlesDecided, CommentsDecided
<1>4. CASE ArticleCommentDelete(p)
  <2>1. Kind(p) = "deleteComment"
    BY <1>4 DEF ArticleCommentDelete, At
  <2>2. ASSUME NEW c \in DOMAIN comments, comments'[c] # comments[c] PROVE comments[c].live
    <3>1. comments[c] \in CommentRows
      BY <1>2
    <3>2. comments'[c] = [comments[c] EXCEPT !.live = FALSE]
      BY <1>4, <2>2 DEF ArticleCommentDelete
    <3> QED BY <2>2, <3>1, <3>2 DEF CommentRows
  <2>3. ASSUME NEW c \in DOMAIN comments, got[p].found = c
        PROVE  articleUsers[comments[c].author] = got[p].me
    <3>1. c # 0
      BY <1>2, TableIds
    <3>2. comments[c].author = got[p].au
      BY <1>1, <1>2, <2>1, <2>3, <3>1 DEF RequestInv, CommentInv
    <3>3. got[p].au \in DOMAIN articleUsers
      BY <1>2, <3>2 DEF TypeInv, Consistent
    <3> QED BY <1>2, <2>1, <3>2, <3>3, OwnAuthor DEF Lists
  <2> QED BY <1>1, <2>2, <2>3 DEF ArticlesDecided, CommentsDecided
<1> QED BY <1>3, <1>4

\* Only its author changes an article or a comment, and only while it is there; a
\* delete that had found something else takes what has the slug now (OwnersDecide).
THEOREM AuthorsDecide == Spec => OwnersDecide
<1>1. ASSUME IInv, NEW p \in Requests,
             (AccountStep(p) /\ UNCHANGED contentVars) \/ ArticleStep(p)
      PROVE  Moves(p) /\ ArticlesDecided(p) /\ CommentsDecided(p)
  <2>1. Moves(p)
    BY <1>1, OneMoves DEF IInv
  <2>2. CASE UNCHANGED <<articles, comments>>
    BY <2>1, <2>2 DEF ArticlesDecided, CommentsDecided
  <2> QED BY <1>1, <2>1, <2>2, OthersLeaveContent, CreateDecided, UpdateDecided,
             DeleteDecided, CommentDecided
<1>2. IInv /\ Next => \E p \in Requests :
                        Moves(p) /\ ArticlesDecided(p) /\ CommentsDecided(p)
  BY <1>1 DEF Next
<1>3. IInv /\ [Next]_vars =>
        [\E p \in Requests : Moves(p) /\
           /\ \A a \in DOMAIN articles : articles'[a] # articles[a] =>
                /\ articles[a].live
                /\ AuthorOf(a) = got[p].me \/ (Kind(p) = "deleteArticle" /\ got[p].found # a)
           /\ \A c \in DOMAIN comments : comments'[c] # comments[c] =>
                /\ comments[c].live
                /\ articleUsers[comments[c].author] = got[p].me \/ got[p].found # c]_vars
  BY <1>2 DEF ArticlesDecided, CommentsDecided
<1> QED BY <1>3, InvariantHolds, PTL DEF Spec, OwnersDecide

\* What a request without a user may do.
NothingWritten(p) ==
  /\ UNCHANGED <<users, follows, favorites>>
  /\ UNCHANGED articleUsers \/ Kind(p) \in Lists
  /\ UNCHANGED <<articles, comments>> \/ (got[p].found = 0 /\
       Len(articles') = Len(articles) /\ Len(comments') = Len(comments))

\* The zero user has no ArticleUserModel.
LEMMA NobodyHasNone ==
  ASSUME TypeInv, NEW p \in Requests, RequestInv(p), got[p].me = 0, Kind(p) \notin Lists
  PROVE  got[p].au = 0 /\ Nobody(p)
<1>1. got[p] \in Locals
  BY DEF TypeInv
<1>2. ASSUME got[p].au # 0 PROVE FALSE
  <2>1. got[p].au \in DOMAIN articleUsers
    BY <1>1, <1>2, TableIds DEF RequestInv, AuthorInv, Locals
  <2>2. articleUsers[got[p].au] \in 1..Len(users)
    BY <2>1, TableIds DEF TypeInv, Consistent
  <2>3. articleUsers[got[p].au] = 0
    BY <2>1, OwnAuthor
  <2> QED BY <2>2, <2>3, TableIds
<1> QED BY <1>2 DEF Nobody

\* No row belongs to id 0.
LEMMA NoRowOfNobody ==
  ASSUME TypeInv
  PROVE  /\ \A f \in DOMAIN follows : follows[f].by # 0
         /\ \A f \in DOMAIN favorites : favorites[f].by # 0
         /\ \A a \in DOMAIN articles : articles[a].author # 0
         /\ \A c \in DOMAIN comments : comments[c].author # 0
<1>1. 0 \notin DOMAIN users /\ 0 \notin DOMAIN articleUsers
  BY TableIds
<1> QED BY <1>1 DEF TypeInv, Consistent

LEMMA NobodyAccountStep ==
  ASSUME IInv, NEW p \in Requests, AccountStep(p), UNCHANGED contentVars,
         got[p].me = 0, pc[p] # "idle", Kind(p) \notin {"register", "login"}
  PROVE  NothingWritten(p)
<1>1. TypeInv /\ follows \in Seq(FollowRecords)
  BY DEF IInv, TypeInv, Consistent
<1>2. users' = users
  BY DEF AccountStep, AuthMiddleware, Arrive, UsersRegistration, UsersLogin, UserUpdate,
         FindProfile, FirstFollow, CreateFollow, Unfollow, At, accountVars
<1>3. follows' = follows
  <2>1. CASE Unfollow(p)
    <3>1. \/ follows' = follows
          \/ follows' = [f \in DOMAIN follows |->
                           IF follows[f].by = 0 /\ follows[f].of = got[p].found
                           THEN [follows[f] EXCEPT !.live = FALSE] ELSE follows[f]]
      BY <2>1 DEF Unfollow
    <3>2. \A f \in DOMAIN follows : follows[f].by # 0
      BY <1>1, NoRowOfNobody
    <3>3. follows = [f \in DOMAIN follows |-> follows[f]]
      BY <1>1
    <3>4. CASE follows' = [f \in DOMAIN follows |->
                             IF follows[f].by = 0 /\ follows[f].of = got[p].found
                             THEN [follows[f] EXCEPT !.live = FALSE] ELSE follows[f]]
      <4>1. follows' = [f \in DOMAIN follows |-> follows[f]]
        BY <3>2, <3>4
      <4> QED BY <3>3, <4>1
    <3> QED BY <3>1, <3>4
  <2>2. CASE ~Unfollow(p)
    BY <2>2 DEF AccountStep, AuthMiddleware, Arrive, UsersRegistration, UsersLogin, UserUpdate,
                FindProfile, FirstFollow, CreateFollow, At, accountVars
  <2> QED BY <2>1, <2>2
<1> QED BY <1>2, <1>3 DEF NothingWritten, contentVars

LEMMA NobodyArticleStep ==
  ASSUME IInv, NEW p \in Requests, ArticleStep(p), got[p].me = 0, pc[p] # "idle"
  PROVE  NothingWritten(p)
<1>1. TypeInv /\ RequestInv(p) /\ got[p] \in Locals
  BY Asked
<1>2. CASE UNCHANGED <<accountVars, contentVars>>
  BY <1>2 DEF NothingWritten, accountVars, contentVars
<1>3. CASE CreateArticleUser(p)
  <2>1. UNCHANGED <<users, follows, articles, favorites, comments>>
    BY <1>3 DEF CreateArticleUser, accountVars
  <2>2. Kind(p) \in Lists
    BY <1>1, <1>3 DEF RequestInv, AuthorInv, CreateArticleUser, Whose
  <2> QED BY <2>1, <2>2 DEF NothingWritten
<1>4. CASE ArticleCreate(p) \/ ArticleCommentCreate(p)
  <2>1. Kind(p) \notin Lists
    BY <1>4 DEF ArticleCreate, ArticleCommentCreate, At, Lists
  <2>2. Nobody(p) /\ got[p].au = 0
    BY <1>1, <2>1, NobodyHasNone
  <2>3. ~Written(p)
    <3>1. CASE ArticleCreate(p)
      <4> DEFINE refused == Nobody(p) \/ SlugTaken(SlugOf[call[p].title], 0)
      <4>1. Write(p, refused, 201)
        BY <3>1 DEF ArticleCreate
      <4>2. refused
        BY <2>2
      <4> HIDE DEF refused
      <4> QED BY <1>1, <4>1, <4>2, WriteSays
    <3>2. CASE ArticleCommentCreate(p)
      <4> DEFINE refused == Nobody(p)
      <4>1. Write(p, refused, 201)
        BY <3>2 DEF ArticleCommentCreate
      <4>2. refused
        BY <2>2
      <4> HIDE DEF refused
      <4> QED BY <1>1, <4>1, <4>2, WriteSays
    <3> QED BY <1>4, <3>1, <3>2
  <2> QED BY <1>4, <2>3 DEF ArticleCreate, ArticleCommentCreate, SaveAuthor, NothingWritten,
                            accountVars
<1>5. CASE ArticleUpdate(p)
  <2>1. Kind(p) = "updateArticle" /\ pc[p] = "write"
    BY <1>5 DEF ArticleUpdate, At
  <2>2. got[p].au = 0
    BY <1>1, <2>1, NobodyHasNone DEF Lists
  <2>3. /\ got[p].found \in DOMAIN articles
        /\ articles[got[p].found].author = got[p].au
    BY <1>1, <2>1, TableIds DEF RequestInv, ArticleInv, OnArticle, Locals
  <2> QED BY <1>1, <2>2, <2>3, NoRowOfNobody
<1>6. CASE ArticleDelete(p)
  <2>1. Kind(p) = "deleteArticle" /\ pc[p] = "write"
    BY <1>6 DEF ArticleDelete, At
  <2>2. got[p].au = 0
    BY <1>1, <2>1, NobodyHasNone DEF Lists
  <2>3. got[p].found = 0
    <3>1. ASSUME got[p].found # 0 PROVE FALSE
      <4>1. /\ got[p].found \in DOMAIN articles
            /\ articles[got[p].found].author = got[p].au
        BY <1>1, <2>1, <3>1, TableIds DEF RequestInv, ArticleInv, OnArticle, Locals
      <4> QED BY <1>1, <2>2, <4>1, NoRowOfNobody
    <3> QED BY <3>1
  <2>4. IInv'
    BY <1>6, ArticleDeleteKeeps
  <2>5. DOMAIN articles' = DOMAIN articles
    BY <1>6 DEF ArticleDelete
  <2>6. Len(articles') = Len(articles)
    <3>1. articles \in Seq(ArticleRows) /\ articles' \in Seq(ArticleRows)
      BY <1>1, <2>4 DEF IInv, TypeInv, Consistent
    <3> QED BY <2>5, <3>1
  <2>7. UNCHANGED <<users, follows, favorites, articleUsers, comments>>
    BY <1>6 DEF ArticleDelete, accountVars
  <2> QED BY <2>3, <2>6, <2>7 DEF NothingWritten
<1>7. CASE ImportArticle(p)
  <2>1. Kind(p) = "import"
    BY <1>7 DEF ImportArticle
  <2>2. got[p].au = 0
    BY <1>1, <2>1, NobodyHasNone DEF Lists
  <2> QED BY <1>7, <2>2 DEF ImportArticle, NothingWritten, accountVars
<1>8. CASE CreateFavorite(p)
  <2>1. got[p].au = 0
    BY <1>1, <1>8, NobodyHasNone DEF CreateFavorite, At, Lists
  <2> DEFINE refused == got[p].au = 0
  <2>2. Write(p, refused, 200) /\ refused
    BY <1>8, <2>1 DEF CreateFavorite
  <2> HIDE DEF refused
  <2>3. ~Written(p)
    BY <1>1, <2>2, WriteSays
  <2> QED BY <1>8, <2>3 DEF CreateFavorite, NothingWritten, accountVars
<1>9. CASE Unfavorite(p)
  <2>1. got[p].au = 0
    BY <1>1, <1>9, NobodyHasNone DEF Unfavorite, At, Lists
  <2>2. \A f \in DOMAIN favorites : favorites[f].by # got[p].au
    BY <1>1, <2>1, NoRowOfNobody
  <2>3. favorites' = [f \in DOMAIN favorites |-> favorites[f]] \/ favorites' = favorites
    BY <1>9, <2>2 DEF Unfavorite
  <2>4. favorites \in Seq(FavoriteRecords)
    BY <1>1 DEF TypeInv, Consistent
  <2>5. favorites' = favorites
    BY <2>3, <2>4
  <2> QED BY <1>9, <2>5 DEF Unfavorite, NothingWritten, accountVars
<1>10. CASE ArticleCommentDelete(p)
  <2>1. Kind(p) = "deleteComment" /\ pc[p] = "write"
    BY <1>10 DEF ArticleCommentDelete, At
  <2>2. got[p].au = 0
    BY <1>1, <2>1, NobodyHasNone DEF Lists
  <2>3. got[p].found = 0
    <3>1. ASSUME got[p].found # 0 PROVE FALSE
      <4>1. got[p].found \in DOMAIN comments /\ comments[got[p].found].author = got[p].au
        BY <1>1, <2>1, <3>1, TableIds DEF RequestInv, CommentInv, Locals
      <4> QED BY <1>1, <2>2, <4>1, NoRowOfNobody
    <3> QED BY <3>1
  <2>4. IInv'
    BY <1>10, CommentDeleteKeeps
  <2>5. DOMAIN comments' = DOMAIN comments
    BY <1>10 DEF ArticleCommentDelete
  <2>6. Len(comments') = Len(comments)
    <3>1. comments \in Seq(CommentRows) /\ comments' \in Seq(CommentRows)
      BY <1>1, <2>4 DEF IInv, TypeInv, Consistent
    <3> QED BY <2>5, <3>1
  <2>7. UNCHANGED <<users, follows, favorites, articleUsers, articles>>
    BY <1>10 DEF ArticleCommentDelete, accountVars
  <2> QED BY <2>3, <2>6, <2>7 DEF NothingWritten
<1>11. \/ UNCHANGED <<accountVars, contentVars>>
       \/ CreateArticleUser(p) \/ ArticleSerializer(p)
       \/ ArticleCreate(p) \/ ArticleCommentCreate(p) \/ ArticleUpdate(p) \/ ArticleDelete(p)
       \/ ImportArticle(p) \/ CreateFavorite(p) \/ Unfavorite(p) \/ ArticleCommentDelete(p)
  BY DEF ArticleStep, FindOneArticle, FindOneComment, FirstArticleUser, FirstFavorite,
         FeedRefused, FeedFollowings, FeedAuthors, FeedArticles,
         FindListed, FindIds, FindManyArticle, FindFilter, ExportRows
<1>12. ~ArticleSerializer(p)
  BY <1>1 DEF RequestInv, AuthorInv, ArticleSerializer
<1> QED BY <1>2, <1>3, <1>4, <1>5, <1>6, <1>7, <1>8, <1>9, <1>10, <1>11, <1>12

\* A request whose user could not be read, or that has none, adds no row in
\* anybody's name (NobodyWrites).
THEOREM ZeroUserWritesNothing == Spec => NobodyWrites
<1>1. ASSUME IInv, NEW q \in Requests,
             (AccountStep(q) /\ UNCHANGED contentVars) \/ ArticleStep(q),
             NEW p \in Requests, Moves(p), got[p].me = 0, pc[p] # "idle",
             Kind(p) \notin {"register", "login"}
      PROVE  NothingWritten(p)
  <2>1. p = q
    BY <1>1, OneMoves DEF IInv
  <2> QED BY <1>1, <2>1, NobodyAccountStep, NobodyArticleStep
<1>2. IInv /\ Next => \A p \in Requests :
                        Moves(p) /\ got[p].me = 0 /\ pc[p] # "idle"
                          /\ Kind(p) \notin {"register", "login"} => NothingWritten(p)
  BY <1>1 DEF Next
<1>3. IInv /\ [Next]_vars =>
        [\A p \in Requests : Moves(p) /\ got[p].me = 0 /\ pc[p] # "idle"
                             /\ Kind(p) \notin {"register", "login"} =>
           /\ UNCHANGED <<users, follows, favorites>>
           /\ UNCHANGED articleUsers \/ Kind(p) \in Lists
           /\ UNCHANGED <<articles, comments>> \/ (got[p].found = 0 /\
                Len(articles') = Len(articles) /\ Len(comments') = Len(comments))]_vars
  BY <1>2 DEF NothingWritten
<1> QED BY <1>3, InvariantHolds, PTL DEF Spec, NobodyWrites
=============================================================================
