----------------------------- MODULE RaceProofs -----------------------------
(***************************************************************************)
(* Proofs about requests that overlap: they never undo a change of a       *)
(* password (PasswordHolds), and only they make second rows                *)
(* (DuplicatesNeedARace).                                                  *)
(***************************************************************************)
EXTENDS OrderProofs

(***************************************************************************)
(* Addresses are unique, and the copy of a row that a pending update will  *)
(* write back has its address as long as nobody asks to change it.         *)
(***************************************************************************)
NoEmail(u) == \A q \in Calling({"updateUser"}) :
                call[q].me = u => "email" \notin DOMAIN call[q].given

EmailInv == \A q \in Calling({"updateUser"}) :
              pc[q] = "begun" /\ got[q].me # 0 /\ NoEmail(call[q].me) =>
                got[q].user.email = users[call[q].me].email

LEMMA HashedFields ==
  ASSUME NEW user \in UserModels
  PROVE  Hashed(user).email = user.email /\ Hashed(user).password = Hash(user.password)
  BY DEF Hashed, UserModels

LEMMA RegistersUser ==
  ASSUME OInv, NEW r \in Requests, UsersRegistration(r)
  PROVE  /\ Kind(r) = "register" /\ call[r].user \in UserModels /\ pc'[r] = "done"
         /\ \/ users' = Append(users, Hashed(call[r].user))
            \/ answer'[r] = 422
<1>1. pc[r] # "idle" /\ Kind(r) = "register"
  BY DEF UsersRegistration, At
<1>2. TypeInv /\ call[r].user \in UserModels
  BY <1>1, Asked DEF OInv, CallOK, Kind
<1>3. pc'[r] = "done" /\ (Reply(r, 422) => answer'[r] = 422)
  BY <1>2 DEF UsersRegistration, Reply, TypeInv
<1> QED BY <1>1, <1>2, <1>3 DEF UsersRegistration

LEMMA UniqueKept ==
  ASSUME OInv, OInv', NEW r \in Requests, Step(r), UniqueEmails(users)
  PROVE  UniqueEmails(users)'
<1>1. users \in Seq(UserRows)
  BY DEF OInv, IInv, TypeInv, Consistent
<1>2. CASE users' = users
  BY <1>2 DEF UniqueEmails
<1>3. CASE UsersRegistration(r) /\ users' # users
  <2>1. users' = Append(users, Hashed(call[r].user)) /\ ~EmailTaken(call[r].user.email, 0)
    BY <1>3 DEF UsersRegistration
  <2> DEFINE n == Len(users) + 1
  <2>2. /\ DOMAIN users' = DOMAIN users \cup {n} /\ users'[n].email = call[r].user.email
        /\ \A u \in DOMAIN users : users'[u] = users[u]
    <3>1. /\ DOMAIN users' = DOMAIN users \cup {n} /\ users'[n] = Hashed(call[r].user)
          /\ \A u \in DOMAIN users : users'[u] = users[u]
      BY <1>1, <2>1, Appended
    <3>2. call[r].user \in UserModels
      BY <1>3, RegistersUser
    <3>3. Hashed(call[r].user).email = call[r].user.email
      BY <3>2, HashedFields
    <3> QED BY <3>1, <3>3
  <2>3. \A u \in DOMAIN users : users[u].email # call[r].user.email
    BY <1>1, <2>1 DEF EmailTaken
  <2> HIDE DEF n
  <2> QED BY <2>2, <2>3 DEF UniqueEmails
<1>4. CASE UserUpdate(r) /\ users' # users
  <2> DEFINE me == got[r].me
             row == WrittenUser(users[got[r].me], got[r].user, call[r].given)
  <2>1. Update(r) /\ me \in DOMAIN users /\ ~EmailTaken(row.email, me)
    BY <1>4, UpdateSays
  <2>2. users' = [users EXCEPT ![me] = row]
    BY <2>1 DEF Update
  <2> HIDE DEF me, row
  <2>3. /\ DOMAIN users' = DOMAIN users /\ users'[me] = row
        /\ \A u \in DOMAIN users \ {me} : users'[u] = users[u]
    BY <1>1, <2>1, <2>2
  <2>4. \A u \in DOMAIN users \ {me} : users[u].email # row.email
    BY <2>1 DEF EmailTaken
  <2> QED BY <2>3, <2>4 DEF UniqueEmails
<1> QED BY <1>2, <1>3, <1>4, WhoWrites

\* What a step may do to a row.
LEMMA EmailWritten ==
  ASSUME NEW row, NEW copy, NEW given, "email" \notin DOMAIN given
  PROVE  WrittenUser(row, copy, given).email = copy.email
  BY DEF WrittenUser, Filled

\* A password that could be hashed was given.
Sets(given) == GivenHash(given) # ""

LEMMA PasswordWritten ==
  ASSUME NEW row, NEW copy, NEW given
  PROVE  /\ (~Sets(given) => WrittenUser(row, copy, given).password = row.password)
         /\ (Sets(given) => WrittenUser(row, copy, given).password = GivenHash(given))
<1>1. CASE ~Sets(given)
  BY <1>1 DEF WrittenUser, Sets
<1>2. CASE Sets(given)
  BY <1>2 DEF WrittenUser, Sets
<1> QED BY <1>1, <1>2

LEMMA EmailFrame ==
  ASSUME OInv, NEW r \in Requests, Step(r), EmailInv, NEW u \in DOMAIN users, NoEmail(u)'
  PROVE  NoEmail(u) /\ users'[u].email = users[u].email
<1>1. NoEmail(u)
  <2> SUFFICES ASSUME NEW q \in Calling({"updateUser"}), call[q].me = u
               PROVE  "email" \notin DOMAIN call[q].given
    BY DEF NoEmail
  <2>1. q \in Started /\ Kind(q) = "updateUser"
    BY DEF Calling
  <2>2. q \in Calling({"updateUser"})' /\ call'[q] = call[q]
    BY <2>1, StartedStays DEF Calling
  <2> QED BY <2>2 DEF NoEmail
<1>2. CASE Updated(r) /\ u = got[r].me
  <2>1. /\ pc[r] = "begun" /\ Kind(r) = "updateUser" /\ got[r].me # 0 /\ got[r].me = call[r].me
        /\ users'[u] = WrittenUser(users[u], got[r].user, call[r].given)
    BY <1>2, UpdateWorks
  <2>2. r \in Calling({"updateUser"})
    BY <2>1 DEF Calling, Started
  <2>3. "email" \notin DOMAIN call[r].given
    BY <1>1, <1>2, <2>1, <2>2 DEF NoEmail
  <2>4. users'[u].email = got[r].user.email
    BY <2>1, <2>3, EmailWritten
  <2>5. got[r].user.email = users[u].email
    BY <1>1, <1>2, <2>1, <2>2 DEF EmailInv
  <2> QED BY <1>1, <2>4, <2>5
<1> QED BY <1>1, <1>2, RowChanges

LEMMA PasswordFrame ==
  ASSUME OInv, NEW r \in Requests, Step(r), NEW u \in DOMAIN users
  PROVE  \/ users'[u].password = users[u].password
         \/ (Updated(r) /\ u = got[r].me /\ SetsPassword(r))
<1>1. CASE Updated(r) /\ u = got[r].me /\ ~SetsPassword(r)
  <2>1. users'[u] = WrittenUser(users[u], got[r].user, call[r].given)
    BY <1>1, UpdateWorks
  <2>2. ~Sets(call[r].given)
    BY <1>1 DEF SetsPassword, Sets
  <2>3. WrittenUser(users[u], got[r].user, call[r].given).password = users[u].password
    BY <2>2, PasswordWritten
  <2> QED BY <2>1, <2>3
<1> QED BY <1>1, RowChanges

LEMMA EmailKept ==
  ASSUME OInv, OInv', NEW r \in Requests, Step(r), EmailInv
  PROVE  EmailInv'
<1> SUFFICES ASSUME NEW q \in Calling({"updateUser"})', pc'[q] = "begun", got'[q].me # 0,
                    NEW u, u = call'[q].me, NoEmail(u)'
             PROVE  got'[q].user.email = users'[u].email
  BY DEF EmailInv, NoEmail
<1>1. Moved(r) /\ (Arrives(r) \/ Handles(r)) /\ q \in Requests
  BY StepMoves DEF Calling, Started
<1>2. CASE q = r
  <2>1. Arrives(r) /\ users' = users
    BY <1>1, <1>2 DEF Handles, Arrives, accountVars
  <2> QED BY <1>2, <2>1, ArrivalCopies
<1>3. CASE q # r
  <2>1. /\ pc[q] = "begun" /\ got'[q] = got[q] /\ call'[q] = call[q]
        /\ q \in Calling({"updateUser"}) /\ Kind(q) = "updateUser"
    BY <1>1, <1>3 DEF Moved, Calling, Started, Kind
  <2>2. u \in DOMAIN users /\ call[q].me = u
    BY <1>1, <2>1, UpdateHasRow
  <2>3. NoEmail(u) /\ users'[u].email = users[u].email
    BY <2>2, EmailFrame
  <2> QED BY <2>1, <2>2, <2>3 DEF EmailInv
<1> QED BY <1>2, <1>3
-----------------------------------------------------------------------------
(***************************************************************************)
(* The last password that could be hashed is in the row.                   *)
(***************************************************************************)
OtherUpdates(p) == {q \in Calling({"updateUser"}) \ {p} : call[q].me = call[p].me}

LastPassword(p) == /\ Succeeded(p) /\ SetsPassword(p)
                   /\ \A q \in OtherUpdates(p) : SetsPassword(q) => q \in before[p]

PasswordInv == \A p \in Calling({"updateUser"}) :
                 LastPassword(p) => users[call[p].me].password = GivenHash(call[p].given)

LEMMA LastPasswordBefore ==
  ASSUME OInv, NEW r \in Requests, Step(r), NEW p \in Requests, pc[p] = "done", LastPassword(p)'
  PROVE  LastPassword(p)
<1>1. Succeeded(p) /\ SetsPassword(p) /\ call'[p] = call[p] /\ before'[p] = before[p]
  <2>1. Succeeded(p)' /\ SetsPassword(p)'
    BY DEF LastPassword
  <2>2. call'[p] = call[p] /\ before'[p] = before[p]
    BY DoneStays
  <2>3. Succeeded(p)
    BY <2>1, DoneStays DEF Succeeded
  <2>4. SetsPassword(p)
    BY <2>1, <2>2 DEF SetsPassword
  <2> QED BY <2>2, <2>3, <2>4
<1>2. ASSUME NEW q \in OtherUpdates(p), SetsPassword(q) PROVE q \in before[p]
  <2>1. q \in Started /\ Kind(q) = "updateUser" /\ call[q].me = call[p].me /\ q # p
    BY DEF OtherUpdates, Calling
  <2>2. q \in Started' /\ call'[q] = call[q] /\ Kind(q)' = Kind(q)
    BY <2>1, StartedStays
  <2>3. q \in OtherUpdates(p)'
    BY <1>1, <2>1, <2>2 DEF OtherUpdates, Calling
  <2> QED BY <1>1, <1>2, <2>2, <2>3 DEF LastPassword, SetsPassword
<1> QED BY <1>1, <1>2 DEF LastPassword

LEMMA PasswordKept ==
  ASSUME OInv, OInv', NEW r \in Requests, Step(r), PasswordInv
  PROVE  PasswordInv'
<1> SUFFICES ASSUME NEW p \in Calling({"updateUser"})', LastPassword(p)'
             PROVE  users'[call'[p].me].password = GivenHash(call'[p].given)
  BY DEF PasswordInv
<1>1. p \in Requests /\ pc'[p] = "done" /\ answer'[p] # 422 /\ SetsPassword(p)'
  BY AnswerGiven DEF Calling, Started, LastPassword
<1>2. Moved(r) /\ (Arrives(r) \/ Handles(r))
  BY StepMoves
<1>3. CASE pc[p] # "done"
  <2>1. p = r /\ Handles(p)
    BY <1>1, <1>2, <1>3 DEF Moved, Arrives
  <2>2. Kind(p) = "updateUser" /\ pc[p] # "idle" /\ call'[p] = call[p]
    BY <2>1 DEF Handles, Calling, Kind
  <2>3. UserUpdate(p)
    BY <2>1, <2>2, UpdateSteps
  <2>4. Updated(p)
    BY <1>1, <2>3, UpdateSays DEF Updated
  <2>5. /\ got[p].me = call[p].me
        /\ users'[got[p].me] = WrittenUser(users[got[p].me], got[p].user, call[p].given)
    BY <1>1, <2>4, UpdateWorks
  <2>6. WrittenUser(users[got[p].me], got[p].user, call[p].given).password
          = GivenHash(call[p].given)
    <3>1. Sets(call[p].given)
      BY <1>1, <2>2 DEF SetsPassword, Sets
    <3> QED BY <3>1, PasswordWritten
  <2> QED BY <2>2, <2>5, <2>6
<1>4. CASE pc[p] = "done"
  <2>1. /\ LastPassword(p) /\ call'[p] = call[p] /\ p # r
        /\ p \in Calling({"updateUser"}) /\ Kind(p) = "updateUser" /\ pc[p] # "idle"
    BY <1>1, <1>4, LastPasswordBefore, DoneStays DEF Calling, Started
  <2>2. users[call[p].me].password = GivenHash(call[p].given) /\ call[p].me \in DOMAIN users
    BY <1>1, <2>1, UpdateHasRow DEF PasswordInv
  <2>3. ~(Updated(r) /\ call[p].me = got[r].me /\ SetsPassword(r))
    <3> SUFFICES ASSUME Updated(r), call[p].me = got[r].me, SetsPassword(r)
                 PROVE  FALSE
      OBVIOUS
    <3>1. pc[r] = "begun" /\ Kind(r) = "updateUser" /\ got[r].me = call[r].me
      BY UpdateWorks
    <3>2. r \in OtherUpdates(p)
      BY <2>1, <3>1 DEF OtherUpdates, Calling, Started
    <3>3. r \in before[p]
      BY <2>1, <3>2 DEF LastPassword
    <3> QED BY <1>1, <3>1, <3>3 DEF OInv, OrderInv
  <2>4. users'[call[p].me].password = users[call[p].me].password
    BY <2>2, <2>3, PasswordFrame
  <2> QED BY <2>1, <2>2, <2>4
<1> QED BY <1>3, <1>4
-----------------------------------------------------------------------------
(***************************************************************************)
(* A login gets in with that password alone.                               *)
(***************************************************************************)
LetIn(l) == answer[l] = 200

\* A login that arrived after p had changed the password, with the user's address.
LogsIn(p, l) == /\ LastPassword(p) /\ NoEmail(call[p].me)
                /\ call[l].email = users[call[p].me].email
                /\ p \in before[l] /\ pc[l] = "done"

LoginInv == \A p \in Calling({"updateUser"}), l \in Calling({"login"}) \ hit :
              LogsIn(p, l) => (LetIn(l) <=> BcryptKey[call[l].password] = GivenHash(call[p].given))

LEMMA LoginSteps ==
  ASSUME OInv, NEW p \in Requests, Step(p), Kind(p) = "login", pc[p] # "idle"
  PROVE  UsersLogin(p)
<1>1. Fits(pc[p], Kind(p))
  BY DEF OInv, OrderInv
<1>2. pc[p] \notin {"author", "createAuthor", "serialize", "followings", "authors"}
  BY <1>1 DEF Fits, OnArticle, Lists
<1>3. ~ArticleStep(p)
  BY <1>2 DEF ArticleStep, At, AtAuthor, OnArticle, Lists, FindOneArticle,
        FindOneComment, FirstArticleUser, CreateArticleUser, ArticleSerializer, ArticleCreate,
        ArticleUpdate, ArticleDelete, ImportArticle, FirstFavorite, CreateFavorite, Unfavorite,
        ArticleCommentCreate, ArticleCommentDelete, FeedRefused, FeedFollowings, FeedAuthors,
        FeedArticles, FindListed, FindIds, FindManyArticle, FindFilter, ExportRows
<1> QED BY <1>3 DEF Step, AccountStep, AuthMiddleware, Arrive, UsersRegistration, UserUpdate,
         FindProfile, FirstFollow, CreateFollow, Unfollow, At

LEMMA LoginSays ==
  ASSUME OInv, NEW l \in Requests, UsersLogin(l), l \notin hit'
  PROVE  /\ users' = users
         /\ LetIn(l)' <=> \E u \in DOMAIN users : /\ users[u].email = call[l].email
                                                  /\ users[u].password = BcryptKey[call[l].password]
<1> DEFINE right == {u \in DOMAIN users : /\ users[u].email = call[l].email
                                          /\ users[u].password = BcryptKey[call[l].password]}
<1>1. /\ IF right = {} THEN Reply(l, 401) ELSE Reply(l, 200)
      /\ users' = users
  BY DEF UsersLogin, Fault, accountVars
<1>2. (Reply(l, 401) => answer'[l] = 401) /\ (Reply(l, 200) => answer'[l] = 200)
  BY DEF Reply, OInv, IInv, TypeInv
<1>3. LetIn(l)' <=> right # {}
  BY <1>1, <1>2 DEF LetIn
<1> QED BY <1>1, <1>3

LEMMA LoginKept ==
  ASSUME OInv, OInv', NEW r \in Requests, Step(r),
         UniqueEmails(users), EmailInv, PasswordInv, LoginInv
  PROVE  LoginInv'
<1> SUFFICES ASSUME NEW p \in Calling({"updateUser"})', NEW l \in (Calling({"login"}) \ hit)',
                    LogsIn(p, l)'
             PROVE  LetIn(l)' <=> BcryptKey[call'[l].password] = GivenHash(call'[p].given)
  BY DEF LoginInv
<1>1. Moved(r) /\ (Arrives(r) \/ Handles(r)) /\ p \in Requests /\ l \in Requests /\ l \notin hit'
  BY StepMoves DEF Calling, Started
<1>2. l \notin hit /\ Kind(p)' = "updateUser" /\ Kind(l)' = "login"
  BY <1>1 DEF Moved, Calling
<1>3. LastPassword(p)' /\ p \in before'[l] /\ pc'[l] = "done"
  BY DEF LogsIn
<1>4. before'[l] = before[l] /\ call'[l] = call[l] /\ pc[l] # "idle" /\ Kind(l) = "login"
  <2>1. CASE l = r
    BY <1>1, <1>2, <1>3, <2>1 DEF Arrives, Handles, Kind
  <2>2. CASE l # r
    BY <1>1, <1>2, <1>3, <2>2 DEF Moved, Kind
  <2> QED BY <2>1, <2>2
<1>5. pc[p] = "done"
  BY <1>1, <1>3, <1>4 DEF OInv, OrderInv
<1>6. LastPassword(p) /\ call'[p] = call[p] /\ Kind(p) = "updateUser" /\ p \in Calling({"updateUser"})
  BY <1>1, <1>2, <1>3, <1>5, LastPasswordBefore, DoneStays DEF Calling, Started
<1>7. PICK me : me = call[p].me
  OBVIOUS
<1>8. me \in DOMAIN users
  BY <1>1, <1>5, <1>6, <1>7, UpdateHasRow
<1>9. NoEmail(me)' /\ call'[l].email = users'[me].email
  BY <1>6, <1>7 DEF LogsIn, NoEmail
<1>10. NoEmail(me) /\ users'[me].email = users[me].email
  BY <1>8, <1>9, EmailFrame
<1>11. call[l].email = users[me].email
  BY <1>4, <1>9, <1>10
<1>12. CASE pc[l] = "done"
  <2>1. LetIn(l)' <=> LetIn(l)
    BY <1>1, <1>12, DoneStays DEF LetIn
  <2>2. LogsIn(p, l) /\ l \in Calling({"login"}) \ hit
    BY <1>1, <1>2, <1>3, <1>4, <1>6, <1>7, <1>10, <1>11, <1>12 DEF LogsIn, Calling, Started
  <2> QED BY <1>4, <1>6, <2>1, <2>2 DEF LoginInv
<1>13. CASE pc[l] # "done"
  <2>1. l = r
    BY <1>1, <1>3, <1>13 DEF Moved
  <2>2. UsersLogin(l)
    BY <1>4, <2>1, LoginSteps
  <2>3. LetIn(l)' <=> \E u \in DOMAIN users : /\ users[u].email = call[l].email
                                              /\ users[u].password = BcryptKey[call[l].password]
    BY <1>1, <2>2, LoginSays
  <2>4. \A u \in DOMAIN users : users[u].email = call[l].email <=> u = me
    BY <1>8, <1>11 DEF UniqueEmails
  <2>5. users[me].password = GivenHash(call[p].given)
    BY <1>6, <1>7 DEF PasswordInv
  <2>6. LetIn(l)' <=> users[me].password = BcryptKey[call[l].password]
    BY <1>8, <2>3, <2>4
  <2> QED BY <1>4, <1>6, <2>5, <2>6
<1> QED BY <1>12, <1>13

-----------------------------------------------------------------------------
(***************************************************************************)
(* The password of a registration, until an update sets another.           *)
(***************************************************************************)
NoEmails == \A q \in Calling({"updateUser"}) : "email" \notin DOMAIN call[q].given

\* Nobody asks for another password for the account of this address.
KeepsPassword(email) == \A q \in Calling({"updateUser"}) :
                          users[call[q].me].email = email => ~SetsPassword(q)

Reset(u) == \E q \in Calling({"updateUser"}) : call[q].me = u /\ SetsPassword(q)

RegisteredInv ==
  \A p \in Calling({"register"}) : Succeeded(p) /\ NoEmails =>
    \E u \in DOMAIN users : /\ users[u].email = call[p].user.email
                            /\ users[u].password = Hash(call[p].user.password) \/ Reset(u)

\* A login that arrived after p had registered, with the address of p.
FirstLogin(p, l) == /\ Succeeded(p) /\ NoEmails /\ KeepsPassword(call[l].email)
                    /\ call[l].email = call[p].user.email
                    /\ p \in before[l] /\ pc[l] = "done"

FirstLoginInv == \A p \in Calling({"register"}), l \in Calling({"login"}) \ hit :
  FirstLogin(p, l) => (LetIn(l) <=> BcryptKey[call[l].password] = Hash(call[p].user.password))

LEMMA RegisterSteps ==
  ASSUME OInv, NEW p \in Requests, Step(p), Kind(p) = "register", pc[p] # "idle"
  PROVE  UsersRegistration(p)
<1>1. Fits(pc[p], Kind(p))
  BY DEF OInv, OrderInv
<1>2. pc[p] \notin {"author", "createAuthor", "serialize", "followings", "authors"}
  BY <1>1 DEF Fits, OnArticle, Lists
<1>3. ~ArticleStep(p)
  BY <1>2 DEF ArticleStep, At, AtAuthor, OnArticle, Lists, FindOneArticle,
        FindOneComment, FirstArticleUser, CreateArticleUser, ArticleSerializer, ArticleCreate,
        ArticleUpdate, ArticleDelete, ImportArticle, FirstFavorite, CreateFavorite, Unfavorite,
        ArticleCommentCreate, ArticleCommentDelete, FeedRefused, FeedFollowings, FeedAuthors,
        FeedArticles, FindListed, FindIds, FindManyArticle, FindFilter, ExportRows
<1> QED BY <1>3 DEF Step, AccountStep, AuthMiddleware, Arrive, UsersLogin, UserUpdate,
         FindProfile, FirstFollow, CreateFollow, Unfollow, At

\* What is asked stays asked.
LEMMA AskedBefore ==
  ASSUME OInv, NEW r \in Requests, Step(r), NoEmails'
  PROVE  /\ NoEmails
         /\ \A u \in DOMAIN users : NoEmail(u)' /\ (Reset(u) => Reset(u)')
<1>1. ASSUME NEW q \in Calling({"updateUser"})
      PROVE  q \in Calling({"updateUser"})' /\ call'[q] = call[q]
  <2>1. q \in Started /\ Kind(q) = "updateUser"
    BY DEF Calling
  <2> QED BY <2>1, StartedStays DEF Calling
<1>2. NoEmails
  BY <1>1 DEF NoEmails
<1>3. ASSUME NEW u \in DOMAIN users, Reset(u) PROVE Reset(u)'
  BY <1>1, <1>3 DEF Reset, SetsPassword
<1>4. \A u \in DOMAIN users : NoEmail(u)'
  BY DEF NoEmail, NoEmails
<1> QED BY <1>2, <1>3, <1>4

LEMMA KeepsBefore ==
  ASSUME OInv, NEW r \in Requests, Step(r), EmailInv, NoEmails', NEW e, KeepsPassword(e)'
  PROVE  KeepsPassword(e)
<1> SUFFICES ASSUME NEW q \in Calling({"updateUser"}), users[call[q].me].email = e
             PROVE  ~SetsPassword(q)
  BY DEF KeepsPassword
<1>1. q \in Started /\ q \in Requests /\ pc[q] # "idle" /\ Kind(q) = "updateUser"
  BY DEF Calling, Started
<1>2. q \in Calling({"updateUser"})' /\ call'[q] = call[q]
  BY <1>1, StartedStays DEF Calling
<1>3. PICK u : u = call[q].me
  OBVIOUS
<1>4. u \in DOMAIN users
  BY <1>1, <1>3, UpdateHasRow
<1>5. users'[u].email = users[u].email
  BY <1>4, AskedBefore, EmailFrame
<1>6. ~SetsPassword(q)'
  BY <1>2, <1>3, <1>5 DEF KeepsPassword
<1> QED BY <1>2, <1>6 DEF SetsPassword

LEMMA RegisteredKept ==
  ASSUME OInv, OInv', NEW r \in Requests, Step(r), EmailInv, RegisteredInv
  PROVE  RegisteredInv'
<1> SUFFICES ASSUME NEW p \in Calling({"register"})', Succeeded(p)', NoEmails',
                    NEW user, user = call'[p].user
             PROVE  \E u \in DOMAIN users' :
                      /\ users'[u].email = user.email
                      /\ users'[u].password = Hash(user.password) \/ Reset(u)'
  BY DEF RegisteredInv
<1>1. p \in Requests /\ pc'[p] = "done" /\ answer'[p] # 422 /\ Kind(p)' = "register"
  BY AnswerGiven DEF Calling, Started
<1>2. Moved(r) /\ (Arrives(r) \/ Handles(r))
  BY StepMoves
<1>3. users \in Seq(UserRows)
  BY DEF OInv, IInv, TypeInv, Consistent
<1>4. CASE pc[p] # "done"
  <2>1. p = r /\ Handles(p)
    BY <1>1, <1>2, <1>4 DEF Moved, Arrives
  <2>2. Kind(p) = "register" /\ pc[p] # "idle" /\ call'[p] = call[p]
    BY <1>1, <2>1 DEF Handles, Kind
  <2>3. UsersRegistration(p)
    BY <2>1, <2>2, RegisterSteps
  <2>4. users' = Append(users, Hashed(user)) /\ user \in UserModels
    BY <1>1, <2>2, <2>3, RegistersUser
  <2>5. Len(users) + 1 \in DOMAIN users' /\ users'[Len(users) + 1] = Hashed(user)
    BY <1>3, <2>4, Appended
  <2> QED BY <2>4, <2>5, HashedFields
<1>5. CASE pc[p] = "done"
  <2>1. /\ Succeeded(p) /\ call'[p] = call[p] /\ Kind(p) = "register"
        /\ p \in Calling({"register"})
    BY <1>1, <1>5, DoneStays DEF Succeeded, Calling, Started
  <2>2. PICK u \in DOMAIN users : /\ users[u].email = user.email
                                  /\ users[u].password = Hash(user.password) \/ Reset(u)
    BY <2>1, AskedBefore DEF RegisteredInv
  <2>3. u \in DOMAIN users' /\ users'[u].email = user.email
    BY <2>2, AskedBefore, EmailFrame, UsersFrame
  <2>4. users'[u].password = Hash(user.password) \/ Reset(u)'
    <3>1. CASE Reset(u)
      BY <3>1, AskedBefore
    <3>2. CASE Updated(r) /\ u = got[r].me /\ SetsPassword(r)
      <4>1. pc[r] = "begun" /\ Kind(r) = "updateUser" /\ u = call[r].me
        BY <3>2, UpdateWorks
      <4>2. r \in Calling({"updateUser"})
        BY <4>1 DEF Calling, Started
      <4>3. Reset(u)
        BY <3>2, <4>1, <4>2 DEF Reset
      <4> QED BY <4>3, AskedBefore
    <3>3. CASE users'[u].password = users[u].password /\ ~Reset(u)
      BY <2>2, <3>3
    <3> QED BY <3>1, <3>2, <3>3, PasswordFrame
  <2> QED BY <2>3, <2>4
<1> QED BY <1>4, <1>5

LEMMA FirstLoginKept ==
  ASSUME OInv, OInv', NEW r \in Requests, Step(r),
         UniqueEmails(users), EmailInv, RegisteredInv, FirstLoginInv
  PROVE  FirstLoginInv'
<1> SUFFICES ASSUME NEW p \in Calling({"register"})', NEW l \in (Calling({"login"}) \ hit)',
                    FirstLogin(p, l)'
             PROVE  LetIn(l)' <=> BcryptKey[call'[l].password] = Hash(call'[p].user.password)
  BY DEF FirstLoginInv
<1>1. Moved(r) /\ (Arrives(r) \/ Handles(r)) /\ p \in Requests /\ l \in Requests /\ l \notin hit'
  BY StepMoves DEF Calling, Started
<1>2. l \notin hit /\ Kind(p)' = "register" /\ Kind(l)' = "login"
  BY <1>1 DEF Moved, Calling
<1>3. /\ Succeeded(p)' /\ NoEmails'
      /\ call'[l].email = call'[p].user.email /\ p \in before'[l] /\ pc'[l] = "done"
  BY DEF FirstLogin
<1>4. before'[l] = before[l] /\ call'[l] = call[l] /\ pc[l] # "idle" /\ Kind(l) = "login"
  <2>1. CASE l = r
    BY <1>1, <1>2, <1>3, <2>1 DEF Arrives, Handles, Kind
  <2>2. CASE l # r
    BY <1>1, <1>2, <1>3, <2>2 DEF Moved, Kind
  <2> QED BY <2>1, <2>2
<1>5. pc[p] = "done"
  BY <1>1, <1>3, <1>4 DEF OInv, OrderInv
<1>6. Succeeded(p) /\ call'[p] = call[p] /\ p \in Calling({"register"})
  BY <1>1, <1>2, <1>3, <1>5, DoneStays DEF Succeeded, Calling, Started
<1>7. NoEmails /\ call[l].email = call[p].user.email
  BY <1>3, <1>4, <1>6, AskedBefore
<1>8. KeepsPassword(call[l].email)
  <2>1. PICK e : e = call[l].email
    OBVIOUS
  <2>2. KeepsPassword(e)'
    BY <1>4, <2>1 DEF FirstLogin, KeepsPassword
  <2> QED BY <1>3, <2>1, <2>2, KeepsBefore
<1>9. CASE pc[l] = "done"
  <2>1. LetIn(l)' <=> LetIn(l)
    BY <1>1, <1>9, DoneStays DEF LetIn
  <2>2. FirstLogin(p, l) /\ l \in Calling({"login"}) \ hit
    BY <1>1, <1>2, <1>3, <1>4, <1>6, <1>7, <1>8, <1>9 DEF FirstLogin, Calling, Started
  <2> QED BY <1>4, <1>6, <2>1, <2>2 DEF FirstLoginInv
<1>10. CASE pc[l] # "done"
  <2>1. l = r
    BY <1>1, <1>3, <1>10 DEF Moved
  <2>2. UsersLogin(l)
    BY <1>4, <2>1, LoginSteps
  <2>3. LetIn(l)' <=> \E u \in DOMAIN users : /\ users[u].email = call[l].email
                                              /\ users[u].password = BcryptKey[call[l].password]
    BY <1>1, <2>2, LoginSays
  <2>4. PICK u \in DOMAIN users : /\ users[u].email = call[l].email
                                  /\ users[u].password = Hash(call[p].user.password) \/ Reset(u)
    BY <1>6, <1>7 DEF RegisteredInv
  <2>5. ~Reset(u)
    BY <1>8, <2>4 DEF KeepsPassword, Reset
  <2>6. \A v \in DOMAIN users : users[v].email = call[l].email <=> v = u
    BY <2>4 DEF UniqueEmails
  <2> QED BY <1>4, <1>6, <2>3, <2>4, <2>5, <2>6
<1> QED BY <1>9, <1>10

\* The last password that could be hashed lets its user in, and so does the one of a
\* registration until another is set; no password of another key does (PasswordHolds).
THEOREM PasswordsHold == Spec => []PasswordHolds
<1> DEFINE Inv == /\ UniqueEmails(users) /\ EmailInv /\ PasswordInv /\ LoginInv
                  /\ RegisteredInv /\ FirstLoginInv
<1>1. Init => Inv
  <2> SUFFICES ASSUME Init PROVE Inv
    OBVIOUS
  <2>1. UniqueEmails(users)
    BY ScenarioAssumption DEF Init
  <2>2. Started = {}
    BY DEF Init, Started
  <2> QED BY <2>1, <2>2 DEF EmailInv, PasswordInv, LoginInv, RegisteredInv, FirstLoginInv, Calling
<1>2. OInv /\ OInv' /\ Inv /\ [Next]_vars => Inv'
  <2> SUFFICES ASSUME OInv, OInv', Inv, [Next]_vars PROVE Inv'
    OBVIOUS
  <2>1. CASE UNCHANGED vars
    <3>1. /\ call' = call /\ pc' = pc /\ got' = got /\ answer' = answer /\ hit' = hit
          /\ before' = before /\ users' = users
      BY <2>1 DEF vars, requestVars, accountVars
    <3>2. UniqueEmails(users)' = UniqueEmails(users)
      BY ONLY <3>1 DEF UniqueEmails
    <3>3. EmailInv' = EmailInv
      BY ONLY <3>1 DEF EmailInv, NoEmail, Calling, Started, Kind
    <3>4. PasswordInv' = PasswordInv
      BY ONLY <3>1 DEF PasswordInv, LastPassword, OtherUpdates, SetsPassword, Succeeded,
                       Calling, Started, Kind
    <3>5. LoginInv' = LoginInv
      BY ONLY <3>1 DEF LoginInv, LogsIn, LetIn, NoEmail, LastPassword, OtherUpdates, SetsPassword,
                       Succeeded, Calling, Started, Kind
    <3>6. RegisteredInv' = RegisteredInv
      BY ONLY <3>1 DEF RegisteredInv, NoEmails, Reset, SetsPassword, Succeeded,
                       Calling, Started, Kind
    <3>7. FirstLoginInv' = FirstLoginInv
      BY ONLY <3>1 DEF FirstLoginInv, FirstLogin, LetIn, NoEmails, KeepsPassword, SetsPassword,
                       Succeeded, Calling, Started, Kind
    <3> QED BY <3>2, <3>3, <3>4, <3>5, <3>6, <3>7
  <2>2. CASE Next
    <3>1. PICK r \in Requests : Step(r)
      BY <2>2 DEF Next, Step
    <3> QED BY <3>1, UniqueKept, EmailKept, PasswordKept, LoginKept,
               RegisteredKept, FirstLoginKept
  <2> QED BY <2>1, <2>2
<1>3. LoginInv /\ FirstLoginInv => PasswordHolds
  <2> SUFFICES ASSUME LoginInv, FirstLoginInv PROVE PasswordHolds
    OBVIOUS
  <2>1. ASSUME NEW l \in Calling({"login"}) \ hit, pc[l] = "done",
               NEW p \in Calling({"updateUser"}) \cap before[l], Succeeded(p), SetsPassword(p),
               \A q \in OtherUpdates(p) : SetsPassword(q) => q \in before[p],
               \A q \in OtherUpdates(p) \cup {p} : "email" \notin DOMAIN call[q].given,
               call[l].email = users[call[p].me].email
        PROVE  LetIn(l) <=> BcryptKey[call[l].password] = GivenHash(call[p].given)
    <3>1. LastPassword(p)
      BY <2>1 DEF LastPassword
    <3>2. NoEmail(call[p].me)
      BY <2>1 DEF NoEmail, OtherUpdates
    <3> QED BY <2>1, <3>1, <3>2 DEF LoginInv, LogsIn
  <2>2. ASSUME NEW l \in Calling({"login"}) \ hit, pc[l] = "done",
               NEW p \in Calling({"register"}) \cap before[l], Succeeded(p),
               call[l].email = call[p].user.email, NoEmails, KeepsPassword(call[l].email)
        PROVE  LetIn(l) <=> BcryptKey[call[l].password] = Hash(call[p].user.password)
    BY <2>2 DEF FirstLoginInv, FirstLogin
  <2> QED BY <2>1, <2>2 DEF PasswordHolds, OtherUpdates, NoEmails, KeepsPassword, LetIn
<1> HIDE DEF Inv
<1>4. Inv => LoginInv /\ FirstLoginInv
  BY DEF Inv
<1> QED BY <1>1, <1>2, <1>3, <1>4, OrderHolds, PTL DEF Spec
-----------------------------------------------------------------------------
(***************************************************************************)
(* Second rows.  A request that has looked for a row and not found it, and *)
(* finds one when it comes to make its own, has been overtaken by another. *)
(***************************************************************************)

\* Where a handler goes, and what it has just seen.
LEMMA Looks ==
  ASSUME OInv, NEW p \in Requests, Step(p)
  PROVE  /\ pc'[p] = "createAuthor" =>
              AuthorRows(Whose(p)) = {} /\ articleUsers' = articleUsers /\ got'[p] = got[p]
         /\ pc'[p] = "serialize" => AuthorRows(got[p].me) = {} /\ articleUsers' = articleUsers
         /\ pc'[p] = "create" /\ Kind(p) = "follow" =>
              FollowRows(got[p].me, got[p].found) = {} /\ follows' = follows /\ got'[p] = got[p]
         /\ pc'[p] = "create" /\ Kind(p) = "favorite" =>
              FavoriteRows(got[p].au, got[p].found) = {} /\ favorites' = favorites /\ got'[p] = got[p]
         /\ pc'[p] = "write" /\ Kind(p) \in {"createArticle", "comment"} =>
              FirstArticleUser(p) \/ CreateArticleUser(p) \/ pc[p] = "write"
<1>1. TypeInv
  BY DEF OInv, IInv
<1>2. /\ \A n, l : Goto(p, n, l) => pc'[p] = n /\ got'[p] = l
      /\ \A s : Reply(p, s) => pc'[p] = "done"
      /\ \A rows : List(p, rows) => pc'[p] = "done"
  BY <1>1 DEF TypeInv, Goto, Reply, List
<1>3. CASE AccountStep(p) /\ UNCHANGED contentVars
  <2>1. CASE AuthMiddleware(p)
    <3>1. pc'[p] = "begun"
      BY <1>1, <2>1 DEF AuthMiddleware, Arrive, TypeInv
    <3> QED BY <3>1
  <2>2. CASE FirstFollow(p)
    <3>1. /\ Kind(p) = "follow" /\ follows' = follows
          /\ \/ Goto(p, "create", got[p]) /\ FollowRows(got[p].me, got[p].found) = {}
             \/ \E s : Reply(p, s)
      BY <2>2 DEF FirstFollow, At, accountVars
    <3> QED BY <1>2, <3>1
  <2>3. CASE FindProfile(p)
    <3>1. (\E l : Goto(p, "found", l)) \/ \E s : Reply(p, s)
      BY <2>3 DEF FindProfile
    <3> QED BY <1>2, <3>1
  <2>4. CASE UsersRegistration(p) \/ UsersLogin(p) \/ UserUpdate(p) \/ CreateFollow(p) \/ Unfollow(p)
    <3>1. \E s : Reply(p, s)
      BY <2>4 DEF UsersRegistration, UsersLogin, UserUpdate, CreateFollow, Unfollow
    <3> QED BY <1>2, <3>1
  <2> QED BY <1>3, <2>1, <2>2, <2>3, <2>4 DEF AccountStep
<1>4. ASSUME NEW rows, Serialize(p, rows)
      PROVE  pc'[p] = "done" \/ (pc'[p] = "serialize" /\ AuthorRows(got[p].me) = {})
  BY <1>2, <1>4 DEF Serialize
<1>5. ASSUME NEW au, AsAuthor(p, au) PROVE pc'[p] \in {"followings", "rows", "write", "done"}
  <2>1. \/ \E s : Reply(p, s)
        \/ \E n \in {"followings", "rows", "write"} : \E l : Goto(p, n, l)
        \/ List(p, {})
    BY <1>5 DEF AsAuthor, Going
  <2> QED BY <1>2, <2>1
<1>6. CASE FirstArticleUser(p)
  <2>1. articleUsers' = articleUsers
    BY <1>6 DEF FirstArticleUser, contentVars
  <2>2. \/ Goto(p, "createAuthor", got[p]) /\ AuthorRows(Whose(p)) = {}
        \/ \E au : AsAuthor(p, au)
    BY <1>6 DEF FirstArticleUser
  <2> QED BY <1>2, <1>5, <1>6, <2>1, <2>2
<1>7. CASE CreateArticleUser(p)
  <2>1. \E au : AsAuthor(p, au)
    BY <1>7 DEF CreateArticleUser
  <2> QED BY <1>5, <1>7, <2>1
<1>8. CASE FirstFavorite(p)
  <2>1. /\ Kind(p) = "favorite" /\ articleUsers' = articleUsers /\ favorites' = favorites
        /\ \/ Goto(p, "create", got[p]) /\ FavoriteRows(got[p].au, got[p].found) = {}
           \/ \E rows : Serialize(p, rows)
           \/ \E s : Reply(p, s)
    BY <1>8 DEF FirstFavorite, At, contentVars
  <2> QED BY <1>2, <1>4, <2>1
<1>9. CASE Unfavorite(p) \/ FeedArticles(p) \/ FindManyArticle(p)
  <2>1. articleUsers' = articleUsers
    BY <1>9 DEF Unfavorite, FeedArticles, FindManyArticle, contentVars
  <2>2. (\E rows : Serialize(p, rows)) \/ \E s : Reply(p, s)
    BY <1>9 DEF Unfavorite, FeedArticles, FindManyArticle
  <2> QED BY <1>2, <1>4, <2>1, <2>2
<1>10. CASE \/ FindOneArticle(p) \/ FindOneComment(p) \/ FeedFollowings(p) \/ FeedAuthors(p)
            \/ FindListed(p) \/ FindIds(p) \/ FindFilter(p)
  <2>1. \/ \E n \in {"author", "authors", "list"} : \E l : Goto(p, n, l)
        \/ Kind(p) \in {"deleteArticle", "deleteComment"} /\ \E l : Goto(p, "write", l)
        \/ \E s : Reply(p, s)
        \/ \E rows : List(p, rows)
    BY <1>10 DEF FindOneArticle, FindOneComment, FeedFollowings, FeedAuthors, FindListed, FindIds,
                 FindFilter, At
  <2> QED BY <1>2, <2>1
<1>11. CASE \/ ArticleSerializer(p) \/ ExportRows(p) \/ FeedRefused(p)
            \/ ArticleCreate(p) \/ ArticleUpdate(p) \/ ArticleDelete(p) \/ ImportArticle(p)
            \/ CreateFavorite(p) \/ ArticleCommentCreate(p) \/ ArticleCommentDelete(p)
  <2>1. (\E s : Reply(p, s)) \/ \E rows : List(p, rows)
    BY <1>11 DEF ArticleSerializer, ExportRows, FeedRefused, ArticleCreate, ArticleUpdate,
                 ArticleDelete, ImportArticle, CreateFavorite, ArticleCommentCreate,
                 ArticleCommentDelete, Write
  <2> QED BY <1>2, <2>1
<1>12. CASE ArticleStep(p)
  BY <1>6, <1>7, <1>8, <1>9, <1>10, <1>11, <1>12 DEF ArticleStep
<1> QED BY <1>3, <1>12 DEF Step

\* A request that has made a statement of its own; who it then looks up stays.
Acted(p) == pc[p] \notin {"idle", "begun"}
Names(p) == {Whose(p), got[p].me}

LEMMA ActedStays ==
  ASSUME OInv, NEW r \in Requests, Step(r), NEW q \in Requests, Acted(q)
  PROVE  /\ Acted(q)' /\ q \in Started /\ q \in Started' /\ before'[q] = before[q]
         /\ Kind(q)' = Kind(q)
         /\ got'[q].me = got[q].me /\ got'[q].found = got[q].found /\ Whose(q)' = Whose(q)
         /\ Names(q)' = Names(q)
         /\ got[q].au # 0 => got'[q].au = got[q].au
<1>1. Moved(r) /\ (Arrives(r) \/ Handles(r)) /\ q \in Started
  BY StepMoves DEF Started, Acted
<1>2. q \in Started' /\ before'[q] = before[q] /\ got'[q].me = got[q].me /\ Kind(q)' = Kind(q)
  BY <1>1, StartedStays
<1>3. Acted(q)' /\ got'[q].found = got[q].found /\ (got[q].au # 0 => got'[q].au = got[q].au)
  <2>1. CASE q # r
    BY <1>1, <2>1 DEF Moved, Acted
  <2>2. CASE q = r
    <3>1. Handles(q) /\ pc'[q] # "idle"
      BY <1>1, <2>2 DEF Arrives, Acted, Moved
    <3>2. pc[q] \in {"begun", "author", "createAuthor"} => got[q].au = 0
      BY DEF OInv, OrderInv
    <3> QED BY <3>1, <3>2 DEF Handles, Acted
  <2> QED BY <2>1, <2>2
<1>4. Whose(q)' = Whose(q)
  BY <1>2, <1>3 DEF Whose
<1> QED BY <1>1, <1>2, <1>3, <1>4 DEF Names

\* A request at work has acted, unless it is its first statement.
LEMMA AtWork ==
  ASSUME OInv, NEW r \in Requests, Step(r), Acted(r)
  PROVE  /\ Handles(r) /\ pc[r] # "done"
         /\ \A q \in Requests : r \notin before[q]
<1>1. Moved(r) /\ (Arrives(r) \/ Handles(r))
  BY StepMoves
<1>2. Handles(r) /\ pc[r] # "done"
  BY <1>1 DEF Arrives, Acted, Moved
<1> QED BY <1>2 DEF OInv, OrderInv

\* The rows that a step adds.
LEMMA FollowAdded ==
  ASSUME OInv, NEW r \in Requests, Step(r), NEW f \in DOMAIN follows', f \notin DOMAIN follows
  PROVE  /\ pc[r] = "create" /\ Kind(r) = "follow" /\ got[r].me # 0 /\ f = Len(follows) + 1
         /\ follows'[f].by = got[r].me /\ follows'[f].of = got[r].found
<1>1. CreateFollow(r)
  BY FollowsFrame
<1>2. /\ follows' = Append(follows, [by |-> got[r].me, of |-> got[r].found, live |-> TRUE])
      /\ pc[r] = "create" /\ Kind(r) = "follow" /\ got[r].me # 0
  BY <1>1 DEF CreateFollow, At
<1>3. follows \in Seq(FollowRecords)
  BY DEF OInv, IInv, TypeInv, Consistent
<1>4. f = Len(follows) + 1
  BY <1>2, <1>3, Appended
<1>5. follows'[f] = [by |-> got[r].me, of |-> got[r].found, live |-> TRUE]
  BY <1>2, <1>3, <1>4, Appended
<1> QED BY <1>2, <1>4, <1>5

LEMMA FavoriteAdded ==
  ASSUME OInv, NEW r \in Requests, Step(r), NEW f \in DOMAIN favorites', f \notin DOMAIN favorites
  PROVE  /\ pc[r] = "create" /\ Kind(r) = "favorite" /\ got[r].au # 0 /\ f = Len(favorites) + 1
         /\ favorites'[f].by = got[r].au /\ favorites'[f].article = got[r].found
<1>1. CreateFavorite(r) /\ TypeInv
  BY FavoritesFrame DEF OInv, IInv
<1>2. /\ favorites' = Append(favorites, [by |-> got[r].au, article |-> got[r].found, live |-> TRUE])
      /\ Written(r) /\ pc[r] = "create" /\ Kind(r) = "favorite"
  BY <1>1 DEF CreateFavorite, At
<1>3. got[r].au # 0
  <2>1. CASE got[r].au = 0
    <3>1. Reply(r, 422)
      BY <1>1, <2>1 DEF CreateFavorite, Write
    <3>2. answer'[r] = 422
      BY <1>1, <3>1 DEF Reply, TypeInv
    <3> QED BY <1>2, <3>2 DEF Written
  <2> QED BY <2>1
<1>4. favorites \in Seq(FavoriteRecords)
  BY DEF OInv, IInv, TypeInv, Consistent
<1>5. f = Len(favorites) + 1
  BY <1>2, <1>4, Appended
<1>6. favorites'[f] = [by |-> got[r].au, article |-> got[r].found, live |-> TRUE]
  BY <1>2, <1>4, <1>5, Appended
<1> QED BY <1>2, <1>3, <1>5, <1>6

\* An ArticleUserModel is made by GetArticleUserModel, or is saved with an article
\* or a comment because its id was 0.
Unnamed(r) == /\ pc[r] = "write" /\ Kind(r) \in {"createArticle", "comment"}
              /\ got[r].au = 0 /\ got[r].me # 0

LEMMA AuthorAdded ==
  ASSUME OInv, NEW r \in Requests, Step(r),
         NEW f \in DOMAIN articleUsers', f \notin DOMAIN articleUsers
  PROVE  /\ Acted(r) /\ f = Len(articleUsers) + 1 /\ articleUsers'[f] \in Names(r)
         /\ \/ pc[r] = "createAuthor" /\ articleUsers'[f] = Whose(r)
            \/ pc[r] = "serialize" /\ articleUsers'[f] = got[r].me
            \/ Unnamed(r) /\ articleUsers'[f] = got[r].me
<1>1. articleUsers \in Seq(Nat) /\ TypeInv
  BY DEF OInv, IInv, TypeInv, Consistent
<1>2. ASSUME NEW u, articleUsers' = Append(articleUsers, u)
      PROVE  f = Len(articleUsers) + 1 /\ articleUsers'[f] = u
  <2>1. f = Len(articleUsers) + 1
    BY <1>1, <1>2, Appended
  <2> QED BY <1>1, <1>2, <2>1, Appended
<1>3. articleUsers' # articleUsers
  OBVIOUS
<1>4. CASE CreateArticleUser(r)
  <2>1. articleUsers' = Append(articleUsers, Whose(r)) /\ pc[r] = "createAuthor"
    BY <1>3, <1>4 DEF CreateArticleUser
  <2> QED BY <1>2, <2>1 DEF Acted, Names
<1>5. CASE ArticleSerializer(r)
  <2>1. articleUsers' = Append(articleUsers, got[r].me) /\ pc[r] = "serialize"
    BY <1>3, <1>5 DEF ArticleSerializer
  <2> QED BY <1>2, <2>1 DEF Acted, Names
<1>6. CASE ArticleCreate(r) \/ ArticleCommentCreate(r)
  <2>1. pc[r] = "write" /\ Kind(r) \in {"createArticle", "comment"} /\ SaveAuthor(r)
    BY <1>6 DEF ArticleCreate, ArticleCommentCreate, At
  <2>2. articleUsers' = Append(articleUsers, got[r].me) /\ got[r].au = 0 /\ Written(r)
    BY <1>3, <2>1 DEF SaveAuthor
  <2>3. got[r].me # 0
    <3>1. CASE Nobody(r)
      <4>1. Reply(r, 422)
        BY <1>6, <3>1 DEF ArticleCreate, ArticleCommentCreate, Write
      <4>2. answer'[r] = 422
        BY <1>1, <4>1 DEF Reply, TypeInv
      <4> QED BY <2>2, <4>2 DEF Written
    <3> QED BY <2>2, <3>1 DEF Nobody
  <2> QED BY <1>2, <2>1, <2>2, <2>3 DEF Acted, Names, Unnamed
<1> QED BY <1>3, <1>4, <1>5, <1>6, WhoWrites
-----------------------------------------------------------------------------
(***************************************************************************)
(* Who has been overtaken, and what a second row says.                     *)
(***************************************************************************)
FollowRace(u)   == \E p, q \in Calling({"follow"}) : got[p].me = u /\ got[q].me = u /\ Overlap(p, q)
FavoriteRace(r) == \E p, q \in Calling({"favorite"}) : got[p].au = r /\ got[q].au = r /\ Overlap(p, q)
AuthorRace(u)   == \E p, q \in Requests : /\ Acted(p) /\ Acted(q) /\ u \in Names(p) \cap Names(q)
                                          /\ Overlap(p, q)
AuthorFault(u)  == \E p \in Calling({"createArticle", "comment"}) : p \in hit /\ got[p].me = u

\* The row that a request is about to make is there: another made it meanwhile.
FollowWaits(p) ==
  pc[p] = "create" /\ Kind(p) = "follow" /\ got[p].me # 0
    /\ FollowRows(got[p].me, got[p].found) # {} =>
      \E q \in Calling({"follow"}) : q # p /\ q \notin before[p] /\ got[q].me = got[p].me

FavoriteWaits(p) ==
  pc[p] = "create" /\ Kind(p) = "favorite" /\ got[p].au # 0
    /\ FavoriteRows(got[p].au, got[p].found) # {} =>
      \E q \in Calling({"favorite"}) : q # p /\ q \notin before[p] /\ got[q].au = got[p].au

Overtaken(p, u) == \E q \in Requests : q # p /\ q \notin before[p] /\ Acted(q) /\ u \in Names(q)

AuthorWaits(p) ==
  /\ pc[p] = "createAuthor" /\ AuthorRows(Whose(p)) # {} => Overtaken(p, Whose(p))
  /\ pc[p] = "serialize" /\ AuthorRows(got[p].me) # {} => Overtaken(p, got[p].me)
  /\ Unnamed(p) => p \in hit

Waits(p) == FollowWaits(p) /\ FavoriteWaits(p) /\ AuthorWaits(p)

\* Two rows of the same.
SecondFollow == \A f, g \in DOMAIN follows :
  f # g /\ follows[f].live /\ follows[g].live
    /\ follows[f].by = follows[g].by /\ follows[f].of = follows[g].of => FollowRace(follows[f].by)

SecondFavorite == \A f, g \in DOMAIN favorites :
  f # g /\ favorites[f].live /\ favorites[g].live
    /\ favorites[f].by = favorites[g].by /\ favorites[f].article = favorites[g].article =>
      FavoriteRace(favorites[f].by)

SecondAuthor == \A f, g \in DOMAIN articleUsers :
  f # g /\ articleUsers[f] = articleUsers[g] =>
    AuthorRace(articleUsers[f]) \/ AuthorFault(articleUsers[f])

LEMMA FollowWaitsKept ==
  ASSUME OInv, OInv', NEW r \in Requests, Step(r), NEW p \in Requests, FollowWaits(p)
  PROVE  FollowWaits(p)'
<1> SUFFICES ASSUME pc'[p] = "create", Kind(p)' = "follow", got'[p].me # 0,
                    NEW f \in DOMAIN follows', follows'[f].live,
                    follows'[f].by = got'[p].me, follows'[f].of = got'[p].found
             PROVE  \E q \in Calling({"follow"})' :
                      q # p /\ q \notin before'[p] /\ got'[q].me = got'[p].me
  BY DEF FollowWaits, FollowRows
<1>1. Moved(r) /\ (Arrives(r) \/ Handles(r))
  BY StepMoves
<1>2. CASE p = r
  <2>1. Handles(p) /\ Kind(p) = "follow"
    BY <1>1, <1>2 DEF Arrives, Handles, Kind
  <2>2. FollowRows(got[p].me, got[p].found) = {} /\ follows' = follows /\ got'[p] = got[p]
    BY <1>2, <2>1, Looks
  <2> QED BY <2>2 DEF FollowRows
<1>3. CASE p # r
  <2>1. /\ pc[p] = "create" /\ Kind(p) = "follow" /\ got'[p] = got[p] /\ before'[p] = before[p]
    BY <1>1, <1>3 DEF Moved, Kind
  <2>2. CASE f \in DOMAIN follows
    <3>1. f \in FollowRows(got[p].me, got[p].found)
      BY <2>1, <2>2, FollowsFrame DEF FollowRows
    <3>2. PICK q \in Calling({"follow"}) : q # p /\ q \notin before[p] /\ got[q].me = got[p].me
      BY <2>1, <3>1 DEF FollowWaits
    <3>3. q \in Started /\ Kind(q) = "follow"
      BY DEF Calling
    <3>4. q \in Calling({"follow"})' /\ got'[q].me = got[q].me
      BY <3>3, StartedStays DEF Calling
    <3> QED BY <2>1, <3>2, <3>4
  <2>3. CASE f \notin DOMAIN follows
    <3>1. pc[r] = "create" /\ Kind(r) = "follow" /\ follows'[f].by = got[r].me
      BY <2>3, FollowAdded
    <3>2. r \in Started /\ r \notin before[p]
      BY <3>1 DEF Started, OInv, OrderInv
    <3>3. r \in Calling({"follow"})' /\ got'[r].me = got[r].me
      BY <3>1, <3>2, StartedStays DEF Calling
    <3> QED BY <1>3, <2>1, <3>1, <3>2, <3>3
  <2> QED BY <2>2, <2>3
<1> QED BY <1>2, <1>3

LEMMA FavoriteWaitsKept ==
  ASSUME OInv, OInv', NEW r \in Requests, Step(r), NEW p \in Requests, FavoriteWaits(p)
  PROVE  FavoriteWaits(p)'
<1> SUFFICES ASSUME pc'[p] = "create", Kind(p)' = "favorite", got'[p].au # 0,
                    NEW f \in DOMAIN favorites', favorites'[f].live,
                    favorites'[f].by = got'[p].au, favorites'[f].article = got'[p].found
             PROVE  \E q \in Calling({"favorite"})' :
                      q # p /\ q \notin before'[p] /\ got'[q].au = got'[p].au
  BY DEF FavoriteWaits, FavoriteRows
<1>1. Moved(r) /\ (Arrives(r) \/ Handles(r))
  BY StepMoves
<1>2. CASE p = r
  <2>1. Handles(p) /\ Kind(p) = "favorite"
    BY <1>1, <1>2 DEF Arrives, Handles, Kind
  <2>2. FavoriteRows(got[p].au, got[p].found) = {} /\ favorites' = favorites /\ got'[p] = got[p]
    BY <1>2, <2>1, Looks
  <2> QED BY <2>2 DEF FavoriteRows
<1>3. CASE p # r
  <2>1. /\ pc[p] = "create" /\ Kind(p) = "favorite" /\ got'[p] = got[p] /\ before'[p] = before[p]
    BY <1>1, <1>3 DEF Moved, Kind
  <2>2. CASE f \in DOMAIN favorites
    <3>1. f \in FavoriteRows(got[p].au, got[p].found)
      BY <2>1, <2>2, FavoritesFrame DEF FavoriteRows
    <3>2. PICK q \in Calling({"favorite"}) : q # p /\ q \notin before[p] /\ got[q].au = got[p].au
      BY <2>1, <3>1 DEF FavoriteWaits
    <3>3. q \in Started /\ Kind(q) = "favorite" /\ got[q].au # 0 /\ q \in Requests
      BY <2>1, <3>2 DEF Calling, Started
    <3>4. Acted(q)
      BY <3>3 DEF Started, Acted, OInv, OrderInv
    <3>5. q \in Calling({"favorite"})' /\ got'[q].au = got[q].au
      BY <3>3, <3>4, ActedStays DEF Calling
    <3> QED BY <2>1, <3>2, <3>5
  <2>3. CASE f \notin DOMAIN favorites
    <3>1. pc[r] = "create" /\ Kind(r) = "favorite" /\ favorites'[f].by = got[r].au /\ got[r].au # 0
      BY <2>3, FavoriteAdded
    <3>2. Acted(r) /\ r \notin before[p]
      BY <3>1 DEF Acted, OInv, OrderInv
    <3>3. r \in Calling({"favorite"})' /\ got'[r].au = got[r].au
      BY <3>1, <3>2, ActedStays DEF Calling
    <3> QED BY <1>3, <2>1, <3>1, <3>2, <3>3
  <2> QED BY <2>2, <2>3
<1> QED BY <1>2, <1>3

LEMMA OvertakenStays ==
  ASSUME OInv, NEW r \in Requests, Step(r), NEW p \in Requests, p # r, NEW u,
         \/ Overtaken(p, u)
         \/ \E f \in DOMAIN articleUsers' : f \notin DOMAIN articleUsers /\ articleUsers'[f] = u
  PROVE  Overtaken(p, u)'
<1>1. before'[p] = before[p]
  BY StepMoves DEF Moved
<1>2. PICK q \in Requests : q # p /\ q \notin before[p] /\ Acted(q) /\ u \in Names(q)
  <2>1. CASE Overtaken(p, u)
    BY <2>1 DEF Overtaken
  <2>2. ASSUME NEW f \in DOMAIN articleUsers', f \notin DOMAIN articleUsers, articleUsers'[f] = u
        PROVE  Acted(r) /\ u \in Names(r) /\ r \notin before[p]
    <3>1. Acted(r) /\ u \in Names(r)
      BY <2>2, AuthorAdded
    <3> QED BY <3>1, AtWork
  <2> QED BY <2>1, <2>2
<1>3. Acted(q)' /\ Names(q)' = Names(q)
  BY <1>2, ActedStays
<1> QED BY <1>1, <1>2, <1>3 DEF Overtaken

\* Who goes on to save with the id 0 has been hit by a failure.
LEMMA UnnamedIsHit ==
  ASSUME OInv, NEW p \in Requests, FirstArticleUser(p) \/ CreateArticleUser(p), Unnamed(p)',
         Kind(p)' = Kind(p), got'[p].me = got[p].me
  PROVE  p \in hit'
<1>1. got[p] \in Locals /\ TypeInv
  BY DEF OInv, IInv, TypeInv
<1>2. /\ Kind(p) \in {"createArticle", "comment"} /\ pc'[p] = "write"
      /\ got'[p].au = 0 /\ got[p].me # 0
  BY DEF Unnamed
<1>3. Whose(p) # 0
  BY <1>2 DEF Whose, Lists
<1>4. Goto(p, "createAuthor", got[p]) => pc'[p] = "createAuthor"
  BY <1>1 DEF Goto, TypeInv
<1>5. ASSUME NEW au \in Nat \ {0}, AsAuthor(p, au) PROVE got'[p].au # 0
  <2>1. Goto(p, "write", [got[p] EXCEPT !.au = au])
    BY <1>2, <1>5 DEF AsAuthor, Going, Owned, Lists
  <2> QED BY <1>1, <1>5, <2>1 DEF Goto, TypeInv, Locals
<1> SUFFICES ASSUME p \notin hit' PROVE FALSE
  OBVIOUS
<1>6. Goto(p, "createAuthor", got[p]) \/ \E au \in Nat \ {0} : AsAuthor(p, au)
  BY <1>3, AuthorGiven
<1> QED BY <1>2, <1>4, <1>5, <1>6

LEMMA AuthorWaitsKept ==
  ASSUME OInv, OInv', NEW r \in Requests, Step(r), NEW p \in Requests, AuthorWaits(p)
  PROVE  AuthorWaits(p)'
<1>1. Moved(r) /\ (Arrives(r) \/ Handles(r))
  BY StepMoves
<1>2. ASSUME p # r
      PROVE  /\ pc'[p] = pc[p] /\ got'[p] = got[p] /\ Kind(p)' = Kind(p) /\ Whose(p)' = Whose(p)
             /\ (p \in hit' <=> p \in hit)
  BY <1>1, <1>2 DEF Moved, Kind, Whose
<1>3. ASSUME p = r, pc'[p] \in {"createAuthor", "serialize", "write"}
      PROVE  /\ Handles(p) /\ Kind(p)' = Kind(p) /\ got'[p].me = got[p].me
             /\ p \in hit => p \in hit'
  BY <1>1, <1>3 DEF Moved, Arrives, Handles, Kind
<1>4. ASSUME pc'[p] = "createAuthor", AuthorRows(Whose(p))' # {} PROVE Overtaken(p, Whose(p))'
  <2>1. PICK u : u = Whose(p)'
    OBVIOUS
  <2>2. PICK f \in DOMAIN articleUsers' : articleUsers'[f] = u
    BY <1>4, <2>1 DEF AuthorRows
  <2>3. CASE p = r
    <3>1. AuthorRows(Whose(p)) = {} /\ articleUsers' = articleUsers /\ Whose(p)' = Whose(p)
      BY <1>3, <1>4, <2>3, Looks DEF Whose
    <3> QED BY <2>1, <2>2, <3>1 DEF AuthorRows
  <2>4. CASE p # r
    <3>1. f \in DOMAIN articleUsers => Overtaken(p, u)
      BY <1>2, <1>4, <2>1, <2>2, <2>4, AuthorsFrame DEF AuthorWaits, AuthorRows
    <3>2. Overtaken(p, u)'
      BY <2>2, <2>4, <3>1, OvertakenStays
    <3> QED BY <2>1, <3>2 DEF Overtaken
  <2> QED BY <2>3, <2>4
<1>5. ASSUME pc'[p] = "serialize", AuthorRows(got[p].me)' # {} PROVE Overtaken(p, got[p].me)'
  <2>1. PICK u : u = got'[p].me
    OBVIOUS
  <2>2. PICK f \in DOMAIN articleUsers' : articleUsers'[f] = u
    BY <1>5, <2>1 DEF AuthorRows
  <2>3. CASE p = r
    <3>1. AuthorRows(got[p].me) = {} /\ articleUsers' = articleUsers /\ got'[p].me = got[p].me
      BY <1>3, <1>5, <2>3, Looks
    <3> QED BY <2>1, <2>2, <3>1 DEF AuthorRows
  <2>4. CASE p # r
    <3>1. f \in DOMAIN articleUsers => Overtaken(p, u)
      BY <1>2, <1>5, <2>1, <2>2, <2>4, AuthorsFrame DEF AuthorWaits, AuthorRows
    <3>2. Overtaken(p, u)'
      BY <2>2, <2>4, <3>1, OvertakenStays
    <3> QED BY <2>1, <3>2 DEF Overtaken
  <2> QED BY <2>3, <2>4
<1>6. ASSUME Unnamed(p)' PROVE p \in hit'
  <2>1. CASE p # r
    BY <1>2, <1>6, <2>1 DEF Unnamed, AuthorWaits
  <2>2. CASE p = r
    <3>1. /\ pc'[p] = "write" /\ Kind(p)' \in {"createArticle", "comment"}
          /\ got'[p].au = 0 /\ got'[p].me # 0
      BY <1>6 DEF Unnamed
    <3>2. /\ Handles(p) /\ Kind(p)' = Kind(p) /\ got'[p].me = got[p].me
          /\ p \in hit => p \in hit'
      BY <1>3, <2>2, <3>1
    <3>3. CASE pc[p] = "write"
      <4>1. got'[p].au = got[p].au
        BY <3>2, <3>3 DEF Handles
      <4> QED BY <3>1, <3>2, <3>3, <4>1 DEF Unnamed, AuthorWaits
    <3>4. CASE pc[p] # "write"
      <4>1. FirstArticleUser(p) \/ CreateArticleUser(p)
        BY <2>2, <3>1, <3>2, <3>4, Looks
      <4> QED BY <1>6, <3>2, <4>1, UnnamedIsHit
    <3> QED BY <3>3, <3>4
  <2> QED BY <2>1, <2>2
<1> QED BY <1>4, <1>5, <1>6 DEF AuthorWaits

\* A race that there was stays one.
LEMMA RacesStay ==
  ASSUME OInv, NEW r \in Requests, Step(r), NEW u
  PROVE  /\ FollowRace(u) => FollowRace(u)'
         /\ FavoriteRace(u) /\ u # 0 => FavoriteRace(u)'
         /\ AuthorRace(u) => AuthorRace(u)'
         /\ AuthorFault(u) => AuthorFault(u)'
<1>1. ASSUME NEW kind, NEW p \in Calling({kind})
      PROVE  p \in Calling({kind})' /\ before'[p] = before[p] /\ got'[p].me = got[p].me
  BY <1>1, StartedStays DEF Calling
<1>2. ASSUME FollowRace(u) PROVE FollowRace(u)'
  <2>1. PICK p, q \in Calling({"follow"}) : got[p].me = u /\ got[q].me = u /\ Overlap(p, q)
    BY <1>2 DEF FollowRace
  <2>2. Overlap(p, q)'
    BY <1>1, <2>1 DEF Overlap
  <2> QED BY <1>1, <2>1, <2>2 DEF FollowRace
<1>3. ASSUME FavoriteRace(u), u # 0 PROVE FavoriteRace(u)'
  <2>1. PICK p, q \in Calling({"favorite"}) : got[p].au = u /\ got[q].au = u /\ Overlap(p, q)
    BY <1>3 DEF FavoriteRace
  <2>2. Overlap(p, q)'
    BY <1>1, <2>1 DEF Overlap
  <2>3. ASSUME NEW s \in Calling({"favorite"}), got[s].au = u PROVE got'[s].au = u
    <3>1. s \in Requests /\ Acted(s)
      BY <1>3, <2>3 DEF Calling, Started, Acted, OInv, OrderInv
    <3> QED BY <1>3, <2>3, <3>1, ActedStays
  <2>4. got'[p].au = u /\ got'[q].au = u
    BY <2>1, <2>3
  <2>5. p \in Calling({"favorite"})' /\ q \in Calling({"favorite"})'
    BY <1>1
  <2> QED BY <2>2, <2>4, <2>5 DEF FavoriteRace
<1>4. ASSUME AuthorRace(u) PROVE AuthorRace(u)'
  <2>1. PICK p, q \in Requests : /\ Acted(p) /\ Acted(q) /\ u \in Names(p) \cap Names(q)
                                 /\ Overlap(p, q)
    BY <1>4 DEF AuthorRace
  <2>2. Acted(p)' /\ Acted(q)' /\ u \in (Names(p) \cap Names(q))' /\ Overlap(p, q)'
    BY <2>1, ActedStays DEF Overlap
  <2> QED BY <2>2 DEF AuthorRace
<1>5. ASSUME AuthorFault(u) PROVE AuthorFault(u)'
  <2>1. PICK p \in Calling({"createArticle", "comment"}) : p \in hit /\ got[p].me = u
    BY <1>5 DEF AuthorFault
  <2>2. p \in Calling({"createArticle", "comment"})' /\ p \in hit' /\ got'[p].me = u
    BY <2>1, StartedStays DEF Calling
  <2> QED BY <2>2 DEF AuthorFault
<1> QED BY <1>2, <1>3, <1>4, <1>5

LEMMA SecondFollowKept ==
  ASSUME OInv, OInv', NEW r \in Requests, Step(r), FollowWaits(r), SecondFollow
  PROVE  SecondFollow'
<1> SUFFICES ASSUME NEW f \in DOMAIN follows', NEW g \in DOMAIN follows', f # g,
                    follows'[f].live, follows'[g].live, follows'[f].by = follows'[g].by,
                    follows'[f].of = follows'[g].of
             PROVE  FollowRace(follows[f].by)'
  BY DEF SecondFollow
<1> PICK u : u = follows'[f].by
  OBVIOUS
<1>1. ASSUME NEW x \in DOMAIN follows', NEW y \in DOMAIN follows, follows'[y].live,
             x \notin DOMAIN follows, follows'[x].by = u, follows'[y].by = u,
             follows'[x].of = follows'[y].of
      PROVE  FollowRace(u)'
  <2>1. /\ pc[r] = "create" /\ Kind(r) = "follow" /\ got[r].me # 0
        /\ got[r].me = u /\ got[r].found = follows'[x].of
    BY <1>1, FollowAdded
  <2>2. y \in FollowRows(got[r].me, got[r].found)
    BY <1>1, <2>1, FollowsFrame DEF FollowRows
  <2>3. PICK q \in Calling({"follow"}) : q # r /\ q \notin before[r] /\ got[q].me = u
    BY <2>1, <2>2 DEF FollowWaits
  <2>4. r \in Calling({"follow"}) /\ Acted(r)
    BY <2>1 DEF Calling, Started, Acted
  <2>5. Overlap(r, q)
    BY <2>3, <2>4, AtWork DEF Overlap, Calling, Started
  <2>6. FollowRace(u)
    BY <2>1, <2>3, <2>4, <2>5 DEF FollowRace
  <2> QED BY <2>6, RacesStay
<1>2. CASE f \in DOMAIN follows /\ g \in DOMAIN follows
  <2>1. FollowRace(u)
    BY <1>2, FollowsFrame DEF SecondFollow
  <2> QED BY <2>1, RacesStay
<1>3. f \in DOMAIN follows \/ g \in DOMAIN follows
  BY FollowAdded
<1>4. FollowRace(u)'
  BY <1>1, <1>2, <1>3
<1> QED BY <1>4 DEF FollowRace

LEMMA SecondFavoriteKept ==
  ASSUME OInv, OInv', NEW r \in Requests, Step(r), FavoriteWaits(r), SecondFavorite
  PROVE  SecondFavorite'
<1> SUFFICES ASSUME NEW f \in DOMAIN favorites', NEW g \in DOMAIN favorites', f # g,
                    favorites'[f].live, favorites'[g].live, favorites'[f].by = favorites'[g].by,
                    favorites'[f].article = favorites'[g].article
             PROVE  FavoriteRace(favorites[f].by)'
  BY DEF SecondFavorite
<1> PICK u : u = favorites'[f].by
  OBVIOUS
<1>1. ASSUME NEW x \in DOMAIN favorites', NEW y \in DOMAIN favorites, favorites'[y].live,
             x \notin DOMAIN favorites, favorites'[x].by = u, favorites'[y].by = u,
             favorites'[x].article = favorites'[y].article
      PROVE  FavoriteRace(u)'
  <2>1. /\ pc[r] = "create" /\ Kind(r) = "favorite" /\ got[r].au # 0
        /\ got[r].au = u /\ got[r].found = favorites'[x].article
    BY <1>1, FavoriteAdded
  <2>2. y \in FavoriteRows(got[r].au, got[r].found)
    BY <1>1, <2>1, FavoritesFrame DEF FavoriteRows
  <2>3. PICK q \in Calling({"favorite"}) : q # r /\ q \notin before[r] /\ got[q].au = u
    BY <2>1, <2>2 DEF FavoriteWaits
  <2>4. r \in Calling({"favorite"}) /\ Acted(r)
    BY <2>1 DEF Calling, Started, Acted
  <2>5. Overlap(r, q)
    BY <2>3, <2>4, AtWork DEF Overlap, Calling, Started
  <2>6. FavoriteRace(u) /\ u # 0
    BY <2>1, <2>3, <2>4, <2>5 DEF FavoriteRace
  <2> QED BY <2>6, RacesStay
<1>2. CASE f \in DOMAIN favorites /\ g \in DOMAIN favorites
  <2>1. FavoriteRace(u)
    BY <1>2, FavoritesFrame DEF SecondFavorite
  <2>2. u # 0
    <3>1. favorites[f].by = u /\ favorites[f].by \in DOMAIN articleUsers /\ articleUsers \in Seq(Nat)
      BY <1>2, FavoritesFrame DEF OInv, IInv, TypeInv, Consistent
    <3> QED BY <3>1
  <2> QED BY <2>1, <2>2, RacesStay
<1>3. f \in DOMAIN favorites \/ g \in DOMAIN favorites
  BY FavoriteAdded
<1>4. FavoriteRace(u)'
  BY <1>1, <1>2, <1>3
<1> QED BY <1>4 DEF FavoriteRace

LEMMA SecondAuthorKept ==
  ASSUME OInv, OInv', NEW r \in Requests, Step(r), AuthorWaits(r), SecondAuthor
  PROVE  SecondAuthor'
<1> SUFFICES ASSUME NEW f \in DOMAIN articleUsers', NEW g \in DOMAIN articleUsers', f # g,
                    NEW u, u = articleUsers'[f], articleUsers'[g] = u
             PROVE  AuthorRace(u)' \/ AuthorFault(u)'
  BY DEF SecondAuthor, AuthorRace, AuthorFault
<1>1. ASSUME NEW x \in DOMAIN articleUsers', NEW y \in DOMAIN articleUsers,
             x \notin DOMAIN articleUsers, articleUsers'[x] = u, articleUsers'[y] = u
      PROVE  AuthorRace(u) \/ AuthorFault(u)
  <2>1. /\ Acted(r) /\ u \in Names(r)
        /\ \/ pc[r] = "createAuthor" /\ u = Whose(r)
           \/ pc[r] = "serialize" /\ u = got[r].me
           \/ Unnamed(r) /\ u = got[r].me
    BY <1>1, AuthorAdded
  <2>2. y \in AuthorRows(u)
    BY <1>1, AuthorsFrame DEF AuthorRows
  <2>3. CASE Overtaken(r, u)
    <3>1. PICK q \in Requests : q # r /\ q \notin before[r] /\ Acted(q) /\ u \in Names(q)
      BY <2>3 DEF Overtaken
    <3>2. Overlap(r, q)
      BY <2>1, <3>1, AtWork DEF Overlap
    <3> QED BY <2>1, <3>1, <3>2 DEF AuthorRace
  <2>4. CASE Unnamed(r) /\ u = got[r].me
    BY <2>4 DEF AuthorWaits, AuthorFault, Unnamed, Calling, Started
  <2> QED BY <2>1, <2>2, <2>3, <2>4 DEF AuthorWaits
<1>2. CASE f \in DOMAIN articleUsers /\ g \in DOMAIN articleUsers
  <2>1. AuthorRace(u) \/ AuthorFault(u)
    BY <1>2, AuthorsFrame DEF SecondAuthor
  <2> QED BY <2>1, RacesStay
<1>3. f \in DOMAIN articleUsers \/ g \in DOMAIN articleUsers
  BY AuthorAdded
<1> QED BY <1>1, <1>2, <1>3, RacesStay
-----------------------------------------------------------------------------
(***************************************************************************)
(* Tables that start without second rows get them by races only.           *)
(***************************************************************************)
LEMMA MoreThanOne ==
  ASSUME NEW S, Cardinality(S) > 1
  PROVE  \E x, y \in S : x # y
<1> SUFFICES ASSUME \A x, y \in S : x = y PROVE FALSE
  OBVIOUS
<1>1. CASE S = {}
  BY <1>1, FS_EmptySet
<1>2. CASE S # {}
  <2>1. PICK x : S = {x}
    BY <1>2
  <2>2. Cardinality(S) = 1
    BY <2>1, FS_Singleton
  <2> QED BY <2>2
<1> QED BY <1>1, <1>2

NoDuplicates ==
  /\ \A f, g \in DOMAIN follows : f # g /\ follows[f].live /\ follows[g].live =>
       follows[f].by # follows[g].by \/ follows[f].of # follows[g].of
  /\ \A f, g \in DOMAIN favorites : f # g /\ favorites[f].live /\ favorites[g].live =>
       favorites[f].by # favorites[g].by \/ favorites[f].article # favorites[g].article
  /\ \A f, g \in DOMAIN articleUsers : f # g => articleUsers[f] # articleUsers[g]

\* From tables that have none, FirstOrCreate makes a second ArticleUserModel, follow
\* or favourite only when requests overlap or a failed lookup came before
\* (DuplicatesNeedARace).
THEOREM RacesMakeDuplicates == Spec /\ NoDuplicates => []DuplicatesNeedARace
<1> DEFINE Inv == /\ \A p \in Requests : Waits(p)
                  /\ SecondFollow /\ SecondFavorite /\ SecondAuthor
<1>1. Init /\ NoDuplicates => Inv
  <2> SUFFICES ASSUME Init, NoDuplicates PROVE Inv
    OBVIOUS
  <2>1. ASSUME NEW p \in Requests PROVE Waits(p)
    BY DEF Init, Waits, FollowWaits, FavoriteWaits, AuthorWaits, Unnamed
  <2>2. SecondFollow /\ SecondFavorite /\ SecondAuthor
    BY DEF NoDuplicates, SecondFollow, SecondFavorite, SecondAuthor
  <2> QED BY <2>1, <2>2
<1>2. OInv /\ OInv' /\ Inv /\ [Next]_vars => Inv'
  <2> SUFFICES ASSUME OInv, OInv', Inv, [Next]_vars PROVE Inv'
    OBVIOUS
  <2>1. CASE UNCHANGED vars
    <3>1. /\ call' = call /\ pc' = pc /\ got' = got /\ hit' = hit /\ before' = before
          /\ follows' = follows /\ favorites' = favorites /\ articleUsers' = articleUsers
      BY <2>1 DEF vars, requestVars, accountVars, contentVars
    <3>2. ASSUME NEW p PROVE Waits(p)' = Waits(p)
      BY ONLY <3>1 DEF Waits, FollowWaits, FavoriteWaits, AuthorWaits, Unnamed, Overtaken, Names,
                       Whose, Acted, Calling, Started, Kind, FollowRows, FavoriteRows, AuthorRows
    <3>3. /\ SecondFollow' = SecondFollow /\ SecondFavorite' = SecondFavorite
          /\ SecondAuthor' = SecondAuthor
      BY ONLY <3>1 DEF SecondFollow, SecondFavorite, SecondAuthor, FollowRace, FavoriteRace,
                       AuthorRace, AuthorFault, Overlap, Names, Whose, Acted, Calling, Started, Kind
    <3> QED BY <3>2, <3>3
  <2>2. CASE Next
    <3>1. PICK r \in Requests : Step(r)
      BY <2>2 DEF Next, Step
    <3> QED BY <3>1, FollowWaitsKept, FavoriteWaitsKept, AuthorWaitsKept, SecondFollowKept,
               SecondFavoriteKept, SecondAuthorKept DEF Waits
  <2> QED BY <2>1, <2>2
<1>3. OInv /\ Inv => DuplicatesNeedARace
  <2> SUFFICES ASSUME OInv, Inv PROVE DuplicatesNeedARace
    OBVIOUS
  <2>1. ASSUME NEW u \in DOMAIN users, Cardinality(AuthorRows(u)) > 1
        PROVE  \/ \E p, q \in Started : /\ u \in {Whose(p), got[p].me} \cap {Whose(q), got[q].me}
                                        /\ Overlap(p, q)
               \/ \E p \in Calling({"createArticle", "comment"}) : p \in hit /\ got[p].me = u
    <3>1. PICK f, g \in AuthorRows(u) : f # g
      BY <2>1, MoreThanOne
    <3>2. AuthorRace(u) \/ AuthorFault(u)
      BY <3>1 DEF SecondAuthor, AuthorRows
    <3> QED BY <3>2 DEF AuthorRace, AuthorFault, Names, Acted, Started
  <2>2. ASSUME NEW u \in DOMAIN users, NEW v \in DOMAIN users, Cardinality(FollowRows(u, v)) > 1
        PROVE  \E p, q \in Calling({"follow"}) : got[p].me = u /\ got[q].me = u /\ Overlap(p, q)
    <3>1. PICK f, g \in FollowRows(u, v) : f # g
      BY <2>2, MoreThanOne
    <3>2. u # 0
      BY DEF OInv, IInv, TypeInv, Consistent
    <3>3. FollowRace(u)
      BY <3>1, <3>2 DEF SecondFollow, FollowRows
    <3> QED BY <3>3 DEF FollowRace
  <2>3. ASSUME NEW r \in DOMAIN articleUsers, NEW a \in DOMAIN articles,
               Cardinality(FavoriteRows(r, a)) > 1
        PROVE  \E p, q \in Calling({"favorite"}) : got[p].au = r /\ got[q].au = r /\ Overlap(p, q)
    <3>1. PICK f, g \in FavoriteRows(r, a) : f # g
      BY <2>3, MoreThanOne
    <3>2. r # 0
      BY DEF OInv, IInv, TypeInv, Consistent
    <3>3. FavoriteRace(r)
      BY <3>1, <3>2 DEF SecondFavorite, FavoriteRows
    <3> QED BY <3>3 DEF FavoriteRace
  <2> QED BY <2>1, <2>2, <2>3 DEF DuplicatesNeedARace
<1> HIDE DEF Inv
<1> QED BY <1>1, <1>2, <1>3, OrderHolds, PTL DEF Spec
=============================================================================
