------------------------------ MODULE Accounts ------------------------------
(***************************************************************************)
(* The users package: accounts, who follows whom, and the middleware that  *)
(* reads the caller's row before every other handler.  A request is a      *)
(* process; each of its database statements is a step, and statements of   *)
(* other requests come in between.  Articles adds the handlers of the      *)
(* articles package, which run in the same way over more tables.           *)
(*                                                                         *)
(* The n-th row of a table has the id n; id 0 is Go's zero value.          *)
(***************************************************************************)
EXTENDS Naturals, Sequences, FiniteSets, FiniteSetsExt

CONSTANTS Requests,   \* one process for each request that is ever made
          MaxFaults,  \* bound on the requests whom a statement fails
          BcryptKey,  \* what bcrypt reads of each password, its first 72 bytes
          TooLong,    \* passwords of more than 72 bytes, which bcrypt hashes none of
          RandomPassword  \* common.RandomPassword, which stands for none given

Passwords == DOMAIN BcryptKey

ASSUME PasswordAssumption == \A pw \in Passwords : BcryptKey[pw] # ""

VARIABLES
  offered,    \* the calls that clients make in this behaviour
  call,       \* what a request asks: its kind, the caller's id, arguments
  pc,         \* its next statement
  got,        \* what its statements have read
  answer,     \* the HTTP status, 0 before
  hit,        \* requests with a statement that failed
  before,     \* history: the requests that were answered when it arrived
  users,      \* user_models
  follows     \* follow_models, with deleted_at as live

requestVars == <<offered, call, pc, got, answer, hit, before>>
accountVars == <<users, follows>>

NoCall == [kind |-> "none", me |-> 0]
Nothing == [me |-> 0,           \* my_user_model.ID
            user |-> <<>>,      \* the rest of my_user_model
            found |-> 0,        \* the user, article or comment of the path
            article |-> <<>>,   \* a copy of that article
            au |-> 0,           \* the caller's ArticleUserModel
            ids |-> {}]         \* rows found so far, and in the end the answer

Kind(p) == call[p].kind

Goto(p, next, locals) == /\ pc' = [pc EXCEPT ![p] = next]
                         /\ got' = [got EXCEPT ![p] = locals]
                         /\ UNCHANGED <<offered, call, answer, before>>

\* The copies that a handler worked with are gone when it answers.
Reply(p, status) ==
  /\ pc' = [pc EXCEPT ![p] = "done"]
  /\ answer' = [answer EXCEPT ![p] = status]
  /\ got' = [got EXCEPT ![p].user = <<>>, ![p].article = <<>>]
  /\ UNCHANGED <<offered, call, before>>

Fault(p) == /\ p \in hit \/ Cardinality(hit) < MaxFaults
            /\ hit' = hit \cup {p}
Works == UNCHANGED hit

\* A request stands at a statement of one of these handlers.
At(p, step, kinds) == pc[p] = step /\ Kind(p) \in kinds

\* No token, so no row is read: the user is the zero user.
Anonymous(c) == c.me = 0

\* A request arrives, with the answers that were given until then.
Arrive(p, c) ==
  /\ pc[p] = "idle" /\ c \in offered
  /\ call' = [call EXCEPT ![p] = c]
  /\ before' = [before EXCEPT ![p] = {q \in Requests : pc[q] = "done"}]
  /\ pc' = [pc EXCEPT ![p] = "begun"]
  /\ UNCHANGED <<offered, answer>>

\* AuthMiddleware and UpdateContextUserModel: the caller's row is copied into the
\* context.  A read that fails leaves the zero user there, and the request goes on.
\* For an import it is the importer's lookup of the author by uuid.
AuthMiddleware(p) ==
  \E c \in offered :
    /\ Arrive(p, c)
    /\ \/ Anonymous(c) /\ Works /\ UNCHANGED got
       \/ /\ ~Anonymous(c) /\ Works
          /\ got' = [got EXCEPT ![p].me = c.me, ![p].user = users[c.me]]
       \/ ~Anonymous(c) /\ Fault(p) /\ UNCHANGED got
    /\ UNCHANGED accountVars
-----------------------------------------------------------------------------
(***************************************************************************)
(* Registration, login and UserUpdate.                                     *)
(***************************************************************************)
EmailTaken(email, but) == \E u \in DOMAIN users \ {but} : users[u].email = email

\* PasswordHash after Bind: passwords of one key have one hash.  The error of
\* GenerateFromPassword is dropped, which leaves the hash empty.
Hash(password) == IF password = RandomPassword \/ password \in TooLong
                  THEN "" ELSE BcryptKey[password]
Hashes == {BcryptKey[pw] : pw \in Passwords} \cup {""}
Hashed(user) == [user EXCEPT !.password = Hash(@)]

\* SaveOne: refused by the unique index when the address is taken, and content
\* with an empty hash.
UsersRegistration(p) ==
  /\ At(p, "begun", {"register"})
  /\ \/ /\ ~EmailTaken(call[p].user.email, 0)
        /\ users' = Append(users, Hashed(call[p].user))
        /\ Reply(p, 201) /\ Works
     \/ /\ IF EmailTaken(call[p].user.email, 0) THEN Works ELSE Fault(p)
        /\ Reply(p, 422) /\ UNCHANGED users
  /\ UNCHANGED follows

\* FindOneUser by address, then checkPassword on the row it found: it compares the
\* key, of a password of any length.  An empty hash matches none.
UsersLogin(p) ==
  /\ At(p, "begun", {"login"})
  /\ \/ /\ Works
        /\ LET right == {u \in DOMAIN users : /\ users[u].email = call[p].email
                                              /\ users[u].password = BcryptKey[call[p].password]}
           IN IF right = {} THEN Reply(p, 401) ELSE Reply(p, 200)
     \/ Fault(p) /\ Reply(p, 401)
  /\ UNCHANGED accountVars

\* A field of the form: what the body gives, else what FillWith put there.
Filled(given, copy, field) == IF field \in DOMAIN given THEN given[field] ELSE copy[field]

\* For the password that is not the copy's.
GivenHash(given) == Hash(Filled(given, [password |-> RandomPassword], "password"))

\* Mutant: the form is filled with the copy after the body was bound.
WrittenUserFilledLast(row, copy, given) ==
  [row EXCEPT !.username = copy.username, !.email = copy.email,
              !.password = IF GivenHash(given) = "" THEN @ ELSE GivenHash(given)]

\* Mutant: the hash is written back with the rest.
WrittenUserWhole(row, copy, given) ==
  [username |-> Filled(given, copy, "username"), email |-> Filled(given, copy, "email"),
   bio |-> Filled(given, copy, "bio"),
   password |-> IF GivenHash(given) = "" THEN copy.password ELSE GivenHash(given)]

\* Updates writes the fields that are not empty, and so no password when the body
\* gave none, or one that could not be hashed.
WrittenUser(row, copy, given) ==
  LET bio  == Filled(given, copy, "bio")
      hash == GivenHash(given)
  IN [username |-> Filled(given, copy, "username"),
      email    |-> Filled(given, copy, "email"),
      bio      |-> IF bio = "" THEN row.bio ELSE bio,
      password |-> IF hash = "" THEN row.password ELSE hash]

\* The form is filled with the middleware's copy.  The zero user has no row to
\* update, which Updates refuses.
UserUpdate(p) ==
  /\ At(p, "begun", {"updateUser"})
  /\ LET me  == got[p].me
         row == WrittenUser(users[me], got[p].user, call[p].given)
     IN \/ /\ me # 0 /\ ~EmailTaken(row.email, me)
           /\ users' = [users EXCEPT ![me] = row]
           /\ Reply(p, 200) /\ Works
        \/ /\ IF me = 0 \/ EmailTaken(row.email, me) THEN Works ELSE Fault(p)
           /\ Reply(p, 422) /\ UNCHANGED users
  /\ UNCHANGED follows
-----------------------------------------------------------------------------
(***************************************************************************)
(* Profiles: follow and unfollow.                                          *)
(***************************************************************************)

\* FindOneUser by username, which is not unique: First takes the lowest id.
FindProfile(p) ==
  /\ At(p, "begun", {"follow", "unfollow"})
  /\ LET named == {u \in DOMAIN users : users[u].username = call[p].name}
     IN \/ /\ named # {} /\ Works
           /\ Goto(p, "found", [got[p] EXCEPT !.found = Min(named)])
        \/ /\ IF named = {} THEN Works ELSE Fault(p)
           /\ Reply(p, 404)
  /\ UNCHANGED accountVars

\* The live rows of a pair; a condition on the zero id is left out of the query.
FollowRows(by, of) ==
  {f \in DOMAIN follows : /\ follows[f].live /\ follows[f].of = of
                          /\ by = 0 \/ follows[f].by = by}

\* following is a FirstOrCreate: a SELECT, then an INSERT if it found nothing.
FirstFollow(p) ==
  /\ At(p, "found", {"follow"})
  /\ \/ /\ Works
        /\ IF FollowRows(got[p].me, got[p].found) # {}
           THEN Reply(p, 200)
           ELSE Goto(p, "create", got[p])
     \/ Fault(p) /\ Reply(p, 422)
  /\ UNCHANGED accountVars

\* The zero user breaks the foreign key.
CreateFollow(p) ==
  /\ At(p, "create", {"follow"})
  /\ \/ /\ got[p].me # 0
        /\ follows' = Append(follows, [by |-> got[p].me, of |-> got[p].found, live |-> TRUE])
        /\ Reply(p, 200) /\ Works
     \/ /\ IF got[p].me = 0 THEN Works ELSE Fault(p)
        /\ Reply(p, 422) /\ UNCHANGED follows
  /\ UNCHANGED users

\* Mutant: one row is deleted, as if there were no other.
UnfollowFirst(p) ==
  /\ At(p, "found", {"unfollow"})
  /\ LET mine == FollowRows(got[p].me, got[p].found)
     IN follows' = IF mine = {} THEN follows ELSE [follows EXCEPT ![Min(mine)].live = FALSE]
  /\ Reply(p, 200) /\ Works
  /\ UNCHANGED users

\* unFollowing deletes every row of the pair, softly; here the zero id is compared.
Unfollow(p) ==
  /\ At(p, "found", {"unfollow"})
  /\ \/ /\ follows' = [f \in DOMAIN follows |->
                         IF follows[f].by = got[p].me /\ follows[f].of = got[p].found
                         THEN [follows[f] EXCEPT !.live = FALSE] ELSE follows[f]]
        /\ Reply(p, 200) /\ Works
     \/ Fault(p) /\ Reply(p, 422) /\ UNCHANGED follows
  /\ UNCHANGED users

\* Mutant: the join runs the other way.
FollowingsReversed(u) == {follows[f].by : f \in {g \in DOMAIN follows : follows[g].of = u}}

\* GetFollowings joins the table itself: rows that were deleted softly are in it.
Followings(u) == {follows[f].of : f \in {g \in DOMAIN follows : follows[g].by = u}}

AccountStep(p) == \/ AuthMiddleware(p)
                  \/ UsersRegistration(p) \/ UsersLogin(p) \/ UserUpdate(p)
                  \/ FindProfile(p) \/ FirstFollow(p) \/ CreateFollow(p) \/ Unfollow(p)
=============================================================================
