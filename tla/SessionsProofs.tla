--------------------------- MODULE SessionsProofs ---------------------------
(***************************************************************************)
(* Proofs about Sessions: the inductive invariant, and from it that logout *)
(* revokes exactly the tokens stamped before it and that registration is   *)
(* atomic, for any number of calls, emails, wipes and any life of a token. *)
(***************************************************************************)
EXTENDS Sessions, TLAPS

(* The steps of one call, by name. *)
CallStep(c) ==
    \/ GetByEmail(c) \/ ComparePassword(c) \/ IssueAccessToken(c)
    \/ InsertUser(c) \/ InsertAccount(c) \/ CommitRegistration(c)
    \/ CheckExpiry(c) \/ CheckVersion(c) \/ Serve(c) \/ Logout(c)
    \/ StatementFails(c) \/ Unacknowledged(c)

(* A row built by Register, or for the system user, is a user row. *)
LEMMA FreshTyped ==
    ASSUME NEW id \in UserIDs, NEW e \in Emails, NEW p \in Passwords, NEW ro \in Roles
    PROVE  /\ FreshUser(id, e, p, ro) \in UserRow
           /\ FreshUser(id, e, p, ro) # NoUser
           /\ FreshUser(id, e, p, ro).id = id
           /\ FreshUser(id, e, p, ro).email = e
           /\ FreshUser(id, e, p, ro).version = 0
<1>1. FreshUser(id, e, p, ro) \in UserRow
  BY DEF FreshUser, UserRow
<1>2. QED
  BY <1>1, NullsAssumption DEF FreshUser

(* The row of the system user. *)
LEMMA SystemUserTyped ==
    /\ SystemUser \in UserRow /\ SystemUser # NoUser
    /\ SystemUser.id = Root /\ SystemUser.email = RootEmail /\ SystemUser.version = 0
BY FreshTyped, SessionsAssumption DEF SystemUser, UserIDs, Roles

(* The clock in whole seconds is a natural number. *)
LEMMA UnixTyped == ASSUME NEW t \in Nat PROVE Unix(t) \in Nat
BY SessionsAssumption DEF Unix

(* A claim stamped from a user row is well typed. *)
LEMMA ClaimTyped ==
    ASSUME now \in Nat, NEW r \in UserRow
    PROVE  /\ LoginClaim(r) \in Claim /\ LoginClaim(r) # NoToken
           /\ LoginClaim(r).user = r.id /\ LoginClaim(r).version = r.version
<1>1. now + TTL * Res \in Nat
  BY SessionsAssumption
<1>2. Unix(now + TTL * Res) \in Nat
  BY <1>1, UnixTyped
<1>3. LoginClaim(r) \in Claim
  BY <1>2 DEF LoginClaim, Claim, UserRow
<1>4. QED
  BY <1>3, NullsAssumption DEF LoginClaim

(* The labels, in extension. *)
LEMMA LabelsList ==
    Labels = {"idle", "getByEmail", "compare", "insertUser", "insertAccount", "commit",
              "issue", "expiry", "version", "serve", "token", "invalid_credentials",
              "already_exists", "unauthorized", "unverified", "forbidden", "served",
              "logged_out", "failed", "lost"}
BY DEF Labels, Ended, Answers

(* The initial database satisfies the inductive invariant. *)
THEOREM InitIInv == Init => IInv
<1> SUFFICES ASSUME Init PROVE IInv
  OBVIOUS
<1>1. TypeOK
  BY SystemUserTyped, LabelsList DEF Init, TypeOK, UserIDs
<1>2. Held /\ EmailLocks
  BY DEF Init, Held, EmailLocks
<1>3. \A u \in UserIDs : Stamped(u) = {}
  BY DEF Init, Stamped
<1>4. Born
  BY <1>3, SystemUserTyped, SessionsAssumption DEF Init, Born, UserIDs
<1>5. EpochExact
  BY <1>3 DEF EpochExact
<1>6. RegistrationAtomic
  BY DEF Init, RegistrationAtomic
<1>7. QED
  BY <1>1, <1>2, <1>4, <1>5, <1>6 DEF IInv

(* Goto moves its own call and no other, and keeps the locals. *)
LEMMA GotoAt ==
    ASSUME TypeOK, NEW c \in Calls, NEW label \in Labels, Goto(c, label)
    PROVE  /\ pc' \in [Calls -> Labels]
           /\ req' = req /\ row' = row
           /\ pc'[c] = label /\ \A b \in Calls \ {c} : pc'[b] = pc[b]
BY DEF Goto, TypeOK

(* Hold moves its own call and gives it a row. *)
LEMMA HoldAt ==
    ASSUME TypeOK, NEW c \in Calls, NEW label \in Labels, NEW r \in UserRow, Hold(c, label, r)
    PROVE  /\ pc' \in [Calls -> Labels] /\ row' \in [Calls -> UserRow \union {NoUser}]
           /\ req' = req
           /\ pc'[c] = label /\ row'[c] = r
           /\ \A b \in Calls \ {c} : pc'[b] = pc[b] /\ row'[b] = row[b]
BY DEF Hold, TypeOK

(* Answer ends its own call, and clears its locals. *)
LEMMA AnswerAt ==
    ASSUME TypeOK, NEW c \in Calls, NEW a \in Answers, Answer(c, a)
    PROVE  /\ pc' \in [Calls -> Labels] /\ row' \in [Calls -> UserRow \union {NoUser}]
           /\ req' \in [Calls -> RequestType \union {NoRequest}]
           /\ pc'[c] = a /\ a \in Ended
           /\ \A b \in Calls \ {c} : pc'[b] = pc[b] /\ row'[b] = row[b] /\ req'[b] = req[b]
<1>1. a \in Labels /\ a \in Ended
  BY DEF Labels, Ended
<1>2. QED
  BY <1>1 DEF Answer, TypeOK

(* The next-state relation, sorted by what the inductive step needs. *)
LEMMA NextCases ==
    ASSUME [Next]_vars
    PROVE  \/ UNCHANGED vars
           \/ \E c \in Calls, r \in Requests : Receive(c, r)
           \/ \E c \in Calls : CallStep(c)
           \/ Crash \/ WipeTables \/ CreateSystemUser \/ Tick
BY DEF Next, Quiet, CallStep

(* Answers and labels the steps use are members of their sets. *)
LEMMA AnswersIn ==
    /\ "token" \in Answers /\ "invalid_credentials" \in Answers
    /\ "already_exists" \in Answers /\ "unauthorized" \in Answers
    /\ "unverified" \in Answers /\ "forbidden" \in Answers
    /\ "served" \in Answers /\ "logged_out" \in Answers /\ "failed" \in Answers
BY DEF Answers

(* What a step of one call may do to the calls: move to a label that is    *)
(* not before its own, keep or clear its locals, or read a user row; the   *)
(* other calls stay where they are.                                        *)
Moves(c) ==
    /\ pc' \in [Calls -> Labels]
    /\ row' \in [Calls -> UserRow \union {NoUser}]
    /\ req' \in [Calls -> RequestType \union {NoRequest}]
    /\ \A b \in Calls \ {c} : pc'[b] = pc[b] /\ row'[b] = row[b] /\ req'[b] = req[b]
    /\ \/ pc'[c] \in Ended
       \/ /\ req'[c] = req[c] /\ row'[c] = row[c]
          /\ \/ pc[c] = "compare" /\ pc'[c] = "issue"
             \/ pc[c] = "insertUser" /\ pc'[c] = "insertAccount"
             \/ pc[c] = "insertAccount" /\ pc'[c] = "commit"
             \/ pc[c] = "commit" /\ pc'[c] = "issue"
             \/ pc[c] = "expiry" /\ pc'[c] = "version"
             \/ pc[c] = "version" /\ pc'[c] = "serve"
       \/ /\ pc[c] = "getByEmail" /\ pc'[c] = "compare"
          /\ \E u \in UserIDs : users[u] # NoUser /\ row'[c] = users[u]

(* Every step of a call moves it so. *)
LEMMA StepMoves ==
    ASSUME IInv, NEW c \in Calls, CallStep(c)
    PROVE  Moves(c) /\ pc[c] \notin Ended \union {"idle"}
<1> USE AnswersIn
<1>0. TypeOK
  BY DEF IInv
<1>l. /\ "issue" \in Labels /\ "insertAccount" \in Labels /\ "commit" \in Labels
      /\ "version" \in Labels /\ "serve" \in Labels /\ "compare" \in Labels
  BY LabelsList
<1>a. ASSUME NEW a \in Answers, Answer(c, a) PROVE Moves(c)
  BY <1>0, <1>a, AnswerAt DEF Moves
<1>g. ASSUME NEW label \in Labels, Goto(c, label),
             \/ pc[c] = "compare" /\ label = "issue"
             \/ pc[c] = "insertUser" /\ label = "insertAccount"
             \/ pc[c] = "insertAccount" /\ label = "commit"
             \/ pc[c] = "commit" /\ label = "issue"
             \/ pc[c] = "expiry" /\ label = "version"
             \/ pc[c] = "version" /\ label = "serve"
      PROVE  Moves(c)
  BY <1>0, <1>g, GotoAt DEF Moves, TypeOK
<1>s. pc[c] \notin Ended \union {"idle"}
  BY DEF CallStep, GetByEmail, ComparePassword, IssueAccessToken, InsertUser, InsertAccount,
         CommitRegistration, CheckExpiry, CheckVersion, Serve, Logout, StatementFails,
         Unacknowledged, Ended, Answers
<1> SUFFICES Moves(c)
  BY <1>s
<1>1. CASE GetByEmail(c)
  <2>1. CASE Answer(c, "invalid_credentials")
    BY <2>1, <1>a
  <2>2. CASE \E u \in UserIDs : users[u] # NoUser /\ Hold(c, "compare", users[u])
    <3>1. PICK u \in UserIDs : users[u] # NoUser /\ Hold(c, "compare", users[u])
      BY <2>2
    <3>2. users[u] \in UserRow
      BY <1>0, <3>1 DEF TypeOK
    <3>3. QED
      BY <1>0, <1>1, <1>l, <3>1, <3>2, HoldAt DEF Moves, GetByEmail, TypeOK
  <2>3. QED
    BY <1>1, <2>1, <2>2 DEF GetByEmail
<1>2. CASE ComparePassword(c)
  BY <1>2, <1>a, <1>g, <1>l DEF ComparePassword
<1>3. CASE IssueAccessToken(c)
  BY <1>3, <1>a DEF IssueAccessToken
<1>4. CASE InsertUser(c)
  BY <1>4, <1>a, <1>g, <1>l DEF InsertUser
<1>5. CASE InsertAccount(c)
  BY <1>5, <1>g, <1>l DEF InsertAccount
<1>6. CASE CommitRegistration(c)
  BY <1>6, <1>g, <1>l DEF CommitRegistration
<1>7. CASE CheckExpiry(c)
  BY <1>7, <1>a, <1>g, <1>l DEF CheckExpiry
<1>8. CASE CheckVersion(c)
  BY <1>8, <1>a, <1>g, <1>l DEF CheckVersion
<1>9. CASE Serve(c)
  BY <1>9, <1>a DEF Serve
<1>10. CASE Logout(c)
  BY <1>10, <1>a DEF Logout
<1>11. CASE StatementFails(c)
  BY <1>11, <1>a DEF StatementFails
<1>12. CASE Unacknowledged(c)
  BY <1>12, <1>a DEF Unacknowledged
<1>13. QED
  BY <1>1, <1>2, <1>3, <1>4, <1>5, <1>6, <1>7, <1>8, <1>9, <1>10, <1>11, <1>12 DEF CallStep

(* What a step of one call may do to the database and to the tokens. *)
Steps(c) ==
    \/ /\ UNCHANGED <<tables, tokens, revoked>>
       /\ pc[c] = "insertUser" => pc'[c] \in Ended
       /\ pc[c] = "insertAccount" => pc'[c] = "commit"
       /\ pc[c] # "commit"
    \/ /\ pc[c] = "issue" /\ pc'[c] \in Ended
       /\ tokens' = [tokens EXCEPT ![c] = LoginClaim(row[c])]
       /\ UNCHANGED <<tables, revoked>>
    \/ /\ pc[c] = "insertUser" /\ pc'[c] = "insertAccount"
       /\ ~EmailTaken(row[c].email) /\ EmailFree(row[c].email)
       /\ inserting' = [inserting EXCEPT ![row[c].email] = c]
       /\ UNCHANGED <<users, wallets, tokens, revoked>>
    \/ /\ pc[c] = "commit" /\ pc'[c] \in Ended \union {"issue"}
       /\ Publish(c)
       /\ UNCHANGED <<tokens, revoked>>
    \/ /\ pc'[c] \in Ended /\ inserting' = Released(c)
       /\ UNCHANGED <<users, wallets, tokens, revoked>>
    \/ /\ pc[c] = "serve" /\ pc'[c] \in Ended
       /\ users[Presented(c).user] # NoUser /\ Bump(Presented(c).user)
       /\ UNCHANGED <<wallets, inserting, tokens>>

(* Every step of a call changes the database so. *)
LEMMA StepSteps ==
    ASSUME IInv, NEW c \in Calls, CallStep(c)
    PROVE  Steps(c) /\ bootstrap' = bootstrap /\ now' = now
<1> USE AnswersIn
<1>0. TypeOK
  BY DEF IInv
<1>a. ASSUME NEW a \in Answers, Answer(c, a) PROVE pc'[c] \in Ended
  BY <1>0, <1>a, AnswerAt
<1>g. /\ Goto(c, "insertAccount") => pc'[c] = "insertAccount"
      /\ Goto(c, "commit") => pc'[c] = "commit"
      /\ Goto(c, "issue") => pc'[c] = "issue"
  BY <1>0 DEF TypeOK, Goto
<1>b. bootstrap' = bootstrap /\ now' = now
  BY DEF CallStep, GetByEmail, ComparePassword, IssueAccessToken, InsertUser, InsertAccount,
         CommitRegistration, CheckExpiry, CheckVersion, Serve, Logout, StatementFails,
         Unacknowledged
<1>1. CASE GetByEmail(c) \/ ComparePassword(c) \/ InsertAccount(c) \/ CheckExpiry(c)
           \/ CheckVersion(c) \/ Serve(c)
  BY <1>1, <1>g DEF Steps, GetByEmail, ComparePassword, InsertAccount, CheckExpiry, CheckVersion,
              Serve
<1>2. CASE IssueAccessToken(c)
  BY <1>2, <1>a DEF IssueAccessToken, Steps
<1>3. CASE InsertUser(c)
  BY <1>3, <1>a, <1>g DEF InsertUser, Steps, tables
<1>4. CASE CommitRegistration(c)
  BY <1>4, <1>g DEF CommitRegistration, Steps
<1>5. CASE Logout(c)
  BY <1>5, <1>a DEF Logout, Steps, tables
<1>6. CASE StatementFails(c)
  BY <1>6, <1>a DEF StatementFails, Steps
<1>7. CASE Unacknowledged(c)
  BY <1>7, <1>a DEF Unacknowledged, Steps
<1>8. QED
  BY <1>b, <1>1, <1>2, <1>3, <1>4, <1>5, <1>6, <1>7 DEF CallStep

(* What an arriving request leaves in its call. *)
LEMMA ReceiveAt ==
    ASSUME TypeOK, NEW c \in Calls, NEW r \in Requests, Receive(c, r)
    PROVE  /\ pc[c] = "idle"
           /\ pc' \in [Calls -> Labels]
           /\ row' \in [Calls -> UserRow \union {NoUser}]
           /\ req' \in [Calls -> RequestType \union {NoRequest}]
           /\ \A b \in Calls \ {c} : pc'[b] = pc[b] /\ row'[b] = row[b] /\ req'[b] = req[b]
           /\ \/ pc'[c] \in {"getByEmail", "unauthorized"}
              \/ /\ pc'[c] = "insertUser" /\ row'[c] \in UserRow
                 /\ row'[c].id = c /\ row'[c].version = 0
              \/ /\ pc'[c] = "expiry" /\ req'[c] = r /\ r.token \in Calls
                 /\ tokens[r.token] # NoToken
<1>1. r \in RequestType
  BY SessionsAssumption
<1>2. /\ r.email \in Emails /\ r.password \in Passwords
      /\ r.token \in Calls \union {NoToken}
  BY <1>1 DEF RequestType
<1>3. /\ FreshUser(c, r.email, r.password, "member") \in UserRow
      /\ FreshUser(c, r.email, r.password, "member").id = c
      /\ FreshUser(c, r.email, r.password, "member").version = 0
  BY <1>2, FreshTyped DEF UserIDs, Roles
<1>4. /\ "getByEmail" \in Labels /\ "insertUser" \in Labels
      /\ "unauthorized" \in Labels /\ "expiry" \in Labels
  BY LabelsList
<1>5. CASE r.op = "login"
  BY <1>1, <1>4, <1>5 DEF Receive, TypeOK, Protected
<1>6. CASE r.op = "register"
  BY <1>1, <1>3, <1>4, <1>6 DEF Receive, TypeOK, Protected
<1>7. CASE r.op \in Protected
  BY <1>1, <1>2, <1>4, <1>7 DEF Receive, TypeOK, Protected
<1>8. QED
  BY <1>5, <1>6, <1>7 DEF Receive

(* A logout raises the epoch of one user and leaves every row otherwise    *)
(* as it was.                                                              *)
LEMMA BumpAt ==
    ASSUME TypeOK, NEW u \in UserIDs, users[u] # NoUser, Bump(u)
    PROVE  /\ users' \in [UserIDs -> UserRow \union {NoUser}]
           /\ users'[u] # NoUser
           /\ users'[u].version = users[u].version + 1
           /\ users'[u].id = users[u].id /\ users'[u].email = users[u].email
           /\ \A v \in UserIDs \ {u} : users'[v] = users[v]
           /\ revoked' = revoked \union Stamped(u)
<1>1. users[u] \in UserRow
  BY DEF TypeOK
<1>2. [users[u] EXCEPT !.version = @ + 1] \in UserRow
  BY <1>1 DEF UserRow
<1>3. users' = [users EXCEPT ![u] = [users[u] EXCEPT !.version = @ + 1]]
  BY DEF Bump
<1>4. users'[u] = [users[u] EXCEPT !.version = @ + 1]
  BY <1>3 DEF TypeOK
<1>5. users'[u] # NoUser
  BY <1>2, <1>4, NullsAssumption
<1>6. /\ users'[u].version = users[u].version + 1
      /\ users'[u].id = users[u].id /\ users'[u].email = users[u].email
  BY <1>1, <1>4 DEF UserRow
<1>7. QED
  BY <1>2, <1>3, <1>5, <1>6 DEF TypeOK, Bump

(* The claim a call presents names a user. *)
LEMMA PresentedTyped ==
    ASSUME TypeOK, Held, NEW c \in Calls, pc[c] \in {"expiry", "version", "serve"}
    PROVE  /\ req[c].token \in Calls
           /\ Presented(c) \in Claim /\ Presented(c).user \in UserIDs
           /\ c \in Calls /\ req[c].token \in Stamped(Presented(c).user)
           /\ Epoch(req[c].token) = Presented(c).version
<1>1. req[c].token \in Calls /\ Presented(c) # NoToken
  BY DEF Held
<1>2. Presented(c) \in Claim
  BY <1>1 DEF TypeOK, Presented
<1>3. QED
  BY <1>1, <1>2 DEF Claim, Stamped, Presented, Epoch

(* Every step of Next keeps TypeOK. *)
LEMMA TypeStep == IInv /\ [Next]_vars => TypeOK'
<1> SUFFICES ASSUME IInv, [Next]_vars PROVE TypeOK'
  OBVIOUS
<1>0. TypeOK /\ Held
  BY DEF IInv
<1>1. CASE UNCHANGED vars
  BY <1>0, <1>1 DEF TypeOK, vars, tables, calls
<1>2. CASE \E c \in Calls, r \in Requests : Receive(c, r)
  <2>1. PICK c \in Calls, r \in Requests : Receive(c, r)
    BY <1>2
  <2>2. UNCHANGED <<tables, bootstrap, now, tokens, revoked>>
    BY <2>1 DEF Receive
  <2>3. QED
    BY <1>0, <2>1, <2>2, ReceiveAt DEF TypeOK, tables
<1>3. CASE \E c \in Calls : CallStep(c)
  <2>1. PICK c \in Calls : CallStep(c)
    BY <1>3
  <2>2. Moves(c) /\ Steps(c) /\ bootstrap' = bootstrap /\ now' = now
    BY <2>1, StepMoves, StepSteps
  <2>3. /\ pc' \in [Calls -> Labels] /\ row' \in [Calls -> UserRow \union {NoUser}]
        /\ req' \in [Calls -> RequestType \union {NoRequest}]
    BY <2>2 DEF Moves
  <2>4. CASE UNCHANGED <<tables, tokens, revoked>>
    BY <1>0, <2>2, <2>3, <2>4 DEF TypeOK, tables
  <2>5. CASE /\ pc[c] = "issue" /\ tokens' = [tokens EXCEPT ![c] = LoginClaim(row[c])]
             /\ UNCHANGED <<tables, revoked>>
    <3>1. row[c] \in UserRow /\ now \in Nat
      BY <1>0, <2>5 DEF Held, TypeOK
    <3>2. LoginClaim(row[c]) \in Claim
      BY <3>1, ClaimTyped
    <3>3. QED
      BY <1>0, <2>2, <2>3, <2>5, <3>2 DEF TypeOK, tables
  <2>6. CASE /\ inserting' = [inserting EXCEPT ![row[c].email] = c]
             /\ UNCHANGED <<users, wallets, tokens, revoked>>
    BY <1>0, <2>2, <2>3, <2>6 DEF TypeOK
  <2>7. CASE pc[c] = "commit" /\ Publish(c) /\ UNCHANGED <<tokens, revoked>>
    BY <1>0, <2>2, <2>3, <2>7 DEF TypeOK, Publish, Released, UserIDs
  <2>8. CASE inserting' = Released(c) /\ UNCHANGED <<users, wallets, tokens, revoked>>
    BY <1>0, <2>2, <2>3, <2>8 DEF TypeOK, Released
  <2>9. CASE /\ pc[c] = "serve"
             /\ users[Presented(c).user] # NoUser /\ Bump(Presented(c).user)
             /\ UNCHANGED <<wallets, inserting, tokens>>
    <3>1. Presented(c).user \in UserIDs
      BY <1>0, <2>9, PresentedTyped
    <3>2. Stamped(Presented(c).user) \subseteq Calls
      BY DEF Stamped
    <3>3. QED
      BY <1>0, <2>2, <2>3, <2>9, <3>1, <3>2, BumpAt DEF TypeOK
  <2>10. QED
    BY <2>2, <2>4, <2>5, <2>6, <2>7, <2>8, <2>9 DEF Steps
<1>4. CASE Crash
  BY <1>0, <1>4, LabelsList DEF Crash, TypeOK
<1>5. CASE WipeTables
  BY <1>0, <1>5 DEF WipeTables, TypeOK, calls
<1>6. CASE CreateSystemUser
  BY <1>0, <1>6, SystemUserTyped DEF CreateSystemUser, TypeOK, calls, UserIDs
<1>7. CASE Tick
  BY <1>0, <1>7 DEF Tick, TypeOK, calls, tables
<1>8. QED
  BY <1>1, <1>2, <1>3, <1>4, <1>5, <1>6, <1>7, NextCases

(* The labels of a call under way. *)
LEMMA NotEnded ==
    /\ "idle" \notin Ended /\ "getByEmail" \notin Ended /\ "compare" \notin Ended
    /\ "insertUser" \notin Ended /\ "insertAccount" \notin Ended /\ "commit" \notin Ended
    /\ "issue" \notin Ended /\ "expiry" \notin Ended /\ "version" \notin Ended
    /\ "serve" \notin Ended /\ "unauthorized" \in Ended /\ "lost" \in Ended
BY DEF Ended, Answers

(* Tokens are never taken back. *)
LEMMA TokensKept ==
    ASSUME IInv, [Next]_vars, NEW t \in Calls, tokens[t] # NoToken
    PROVE  tokens'[t] = tokens[t]
<1>0. TypeOK /\ Held
  BY DEF IInv
<1>1. CASE \E c \in Calls : CallStep(c)
  <2>1. PICK c \in Calls : CallStep(c)
    BY <1>1
  <2>2. Steps(c)
    BY <2>1, StepSteps
  <2>3. pc[c] = "issue" => c # t
    BY <1>0, NotEnded DEF Held
  <2>4. QED
    BY <1>0, <2>2, <2>3 DEF Steps, TypeOK
<1>2. QED
  BY <1>1, NextCases DEF vars, Receive, Crash, WipeTables, CreateSystemUser, Tick

(* Every step of Next keeps Held. *)
LEMMA HeldStep == IInv /\ [Next]_vars => Held'
<1> SUFFICES ASSUME IInv, [Next]_vars, NEW b \in Calls
             PROVE  (/\ pc[b] \in {"expiry", "version", "serve"} =>
                           /\ req[b] \in RequestType /\ req[b].token \in Calls
                           /\ Presented(b) # NoToken
                     /\ pc[b] \in {"compare", "issue"} => row[b] \in UserRow
                     /\ pc[b] \in {"insertUser", "insertAccount", "commit"} =>
                           row[b] \in UserRow /\ row[b].id = b /\ row[b].version = 0
                     /\ tokens[b] # NoToken => pc[b] \in Ended)'
  BY DEF Held
<1>0. TypeOK /\ Held
  BY DEF IInv
<1>k. \A t \in Calls : tokens[t] # NoToken => tokens'[t] # NoToken
  BY TokensKept
<1>s. ASSUME pc'[b] = pc[b], req'[b] = req[b], row'[b] = row[b],
             tokens'[b] = tokens[b]
      PROVE  (/\ pc[b] \in {"expiry", "version", "serve"} =>
                    /\ req[b] \in RequestType /\ req[b].token \in Calls
                    /\ Presented(b) # NoToken
              /\ pc[b] \in {"compare", "issue"} => row[b] \in UserRow
              /\ pc[b] \in {"insertUser", "insertAccount", "commit"} =>
                    row[b] \in UserRow /\ row[b].id = b /\ row[b].version = 0
              /\ tokens[b] # NoToken => pc[b] \in Ended)'
  BY <1>0, <1>k, <1>s DEF Held, Presented
<1>1. CASE UNCHANGED vars \/ WipeTables \/ CreateSystemUser \/ Tick
  BY <1>1, <1>s DEF vars, calls, WipeTables, CreateSystemUser, Tick
<1>2. CASE \E c \in Calls, r \in Requests : Receive(c, r)
  <2>1. PICK c \in Calls, r \in Requests : Receive(c, r)
    BY <1>2
  <2>2. tokens' = tokens
    BY <2>1 DEF Receive
  <2>3. CASE b # c
    BY <1>0, <1>s, <2>1, <2>2, <2>3, ReceiveAt
  <2>4. CASE b = c
    <3>1. tokens[b] = NoToken
      BY <1>0, <2>1, <2>4, ReceiveAt, NotEnded DEF Held
    <3>2. r \in RequestType
      BY SessionsAssumption
    <3>3. QED
      BY <1>0, <2>1, <2>2, <2>4, <3>1, <3>2, ReceiveAt, NotEnded DEF Presented
  <2>5. QED
    BY <2>3, <2>4
<1>3. CASE \E c \in Calls : CallStep(c)
  <2>1. PICK c \in Calls : CallStep(c)
    BY <1>3
  <2>2. Moves(c) /\ Steps(c) /\ pc[c] \notin Ended
    BY <2>1, StepMoves, StepSteps
  <2>3. CASE b # c
    <3>1. tokens'[b] = tokens[b]
      BY <1>0, <2>2, <2>3 DEF Steps, TypeOK
    <3>2. QED
      BY <1>s, <2>2, <2>3, <3>1 DEF Moves
  <2>4. CASE b = c /\ pc'[c] \in Ended
    BY <2>4, NotEnded
  <2>5. CASE b = c /\ pc'[c] \notin Ended
    <3>1. tokens'[b] = NoToken
      BY <1>0, <2>2, <2>5 DEF Held, Steps
    <3>2. CASE pc[c] = "getByEmail" /\ pc'[c] = "compare"
      BY <1>0, <2>2, <2>5, <3>1, <3>2 DEF Moves, TypeOK
    <3>3. CASE req'[c] = req[c] /\ row'[c] = row[c]
      BY <1>0, <1>k, <2>2, <2>5, <3>1, <3>3 DEF Moves, Held, Presented
    <3>4. QED
      BY <2>2, <2>5, <3>2, <3>3 DEF Moves
  <2>6. QED
    BY <2>3, <2>4, <2>5
<1>4. CASE Crash
  <2>1. CASE pc[b] \in Ended \union {"idle"}
    BY <1>4, <2>1, <1>s DEF Crash
  <2>2. CASE pc[b] \notin Ended \union {"idle"}
    BY <1>4, <2>2, NotEnded DEF Crash
  <2>3. QED
    BY <2>1, <2>2
<1>5. QED
  BY <1>1, <1>2, <1>3, <1>4, NextCases

(* The users keep their emails through a logout, and a new one is added    *)
(* only by a commit or by the bootstrap tool.                              *)
LEMMA TakenStep ==
    ASSUME IInv, NEW c \in Calls, Steps(c), NEW e \in Emails
    PROVE  \/ EmailTaken(e)' <=> EmailTaken(e)
           \/ pc[c] = "commit" /\ Publish(c) /\ (EmailTaken(e)' => EmailTaken(e) \/ e = row[c].email)
<1>0. TypeOK /\ Held
  BY DEF IInv
<1>1. CASE users' = users
  BY <1>1 DEF EmailTaken
<1>2. CASE pc[c] = "commit" /\ Publish(c)
  BY <1>0, <1>2 DEF EmailTaken, Publish, TypeOK
<1>3. CASE pc[c] = "serve" /\ users[Presented(c).user] # NoUser /\ Bump(Presented(c).user)
  <2>1. Presented(c).user \in UserIDs
    BY <1>0, <1>3, PresentedTyped
  <2>2. QED
    BY <1>0, <1>3, <2>1, BumpAt DEF EmailTaken
<1>4. QED
  BY <1>1, <1>2, <1>3 DEF Steps, tables

(* Every step of Next keeps EmailLocks. *)
LEMMA EmailLocksStep == IInv /\ [Next]_vars => EmailLocks'
<1> SUFFICES ASSUME IInv, [Next]_vars PROVE EmailLocks'
  OBVIOUS
<1>0. TypeOK /\ Held /\ EmailLocks
  BY DEF IInv
<1>1. CASE UNCHANGED vars \/ Tick
  BY <1>0, <1>1 DEF vars, tables, calls, Tick, EmailLocks, EmailTaken
<1>2. CASE \E c \in Calls, r \in Requests : Receive(c, r)
  <2>1. PICK c \in Calls, r \in Requests : Receive(c, r)
    BY <1>2
  <2>2. inserting' = inserting /\ users' = users
    BY <2>1 DEF Receive, tables
  <2>3. \A e \in Emails : inserting[e] # c
    BY <1>0, <2>1, SessionsAssumption, ReceiveAt DEF EmailLocks
  <2>4. \A e \in Emails : EmailTaken(e)' <=> EmailTaken(e)
    BY <2>2 DEF EmailTaken
  <2>5. pc'[c] \notin {"insertAccount", "commit"}
    BY <1>0, <2>1, ReceiveAt
  <2>6. \A b \in Calls \ {c} : pc'[b] = pc[b] /\ row'[b] = row[b]
    BY <1>0, <2>1, ReceiveAt
  <2>7. \A e \in Emails : inserting[e] # Nobody => inserting[e] \in Calls \ {c}
    BY <1>0, <2>3 DEF TypeOK
  <2>8. QED
    BY <1>0, <2>2, <2>4, <2>5, <2>6, <2>7 DEF EmailLocks
<1>3. CASE \E c \in Calls : CallStep(c)
  <2>1. PICK c \in Calls : CallStep(c)
    BY <1>3
  <2>2. Moves(c) /\ Steps(c) /\ pc[c] \notin Ended
    BY <2>1, StepMoves, StepSteps
  <2>m. \A b \in Calls \ {c} : pc'[b] = pc[b] /\ row'[b] = row[b]
    BY <2>2 DEF Moves
  <2>t. \A e \in Emails : inserting[e] # Nobody => inserting[e] \in Calls
    BY <1>0 DEF TypeOK
  <2>c. pc[c] \notin {"insertAccount", "commit"} => \A e \in Emails : inserting[e] # c
    BY <1>0, SessionsAssumption DEF EmailLocks
  <2>3. CASE pc[c] \notin {"insertUser", "insertAccount", "commit"}
    <3>1. inserting' = inserting
      BY <1>0, <2>2, <2>c, <2>3 DEF Steps, Released, TypeOK, tables
    <3>2. pc'[c] \notin {"insertAccount", "commit"}
      BY <2>2, <2>3, NotEnded DEF Moves
    <3>3. \A e \in Emails : EmailTaken(e)' <=> EmailTaken(e)
      BY <2>2, <2>3, TakenStep
    <3>4. QED
      BY <1>0, <2>m, <2>t, <2>c, <2>3, <3>1, <3>2, <3>3 DEF EmailLocks
  <2>4. CASE pc[c] = "insertUser"
    <3>1. row[c] \in UserRow /\ row[c].email \in Emails
      BY <1>0, <2>4 DEF Held, UserRow
    <3>2. \A e \in Emails : EmailTaken(e)' <=> EmailTaken(e)
      BY <2>2, <2>4, TakenStep
    <3>3. CASE pc'[c] \in Ended
      <4>1. inserting' = inserting
        BY <1>0, <2>2, <2>c, <2>4, <3>3, NotEnded DEF Steps, Released, TypeOK, tables
      <4>2. QED
        BY <1>0, <2>m, <2>t, <2>c, <2>4, <3>2, <3>3, <4>1, NotEnded DEF EmailLocks
    <3>4. CASE pc'[c] = "insertAccount"
      <4>1. /\ ~EmailTaken(row[c].email) /\ inserting[row[c].email] = Nobody
            /\ inserting' = [inserting EXCEPT ![row[c].email] = c]
        BY <2>2, <2>4, <3>4, NotEnded DEF Steps, EmailFree
      <4>2. row'[c] = row[c]
        BY <2>2, <2>4, <3>4, NotEnded DEF Moves
      <4>3. inserting'[row[c].email] = c
            /\ \A e \in Emails \ {row[c].email} : inserting'[e] = inserting[e]
        BY <1>0, <3>1, <4>1 DEF TypeOK
      <4>4. QED
        BY <1>0, <2>m, <2>t, <2>c, <2>4, <3>1, <3>2, <3>4, <4>1, <4>2, <4>3,
           SessionsAssumption DEF EmailLocks
    <3>5. QED
      BY <2>2, <2>4, <3>3, <3>4 DEF Moves
  <2>5. CASE pc[c] = "insertAccount" /\ pc'[c] = "commit"
    <3>1. inserting' = inserting /\ row'[c] = row[c]
      BY <2>2, <2>5, NotEnded DEF Steps, Moves, tables
    <3>2. \A e \in Emails : EmailTaken(e)' <=> EmailTaken(e)
      BY <2>2, <2>5, TakenStep
    <3>3. QED
      BY <1>0, <2>m, <2>t, <2>5, <3>1, <3>2 DEF EmailLocks
  <2>6. CASE pc[c] \in {"insertAccount", "commit"} /\ pc'[c] \in Ended \union {"issue"}
    <3>1. inserting' = Released(c)
      BY <2>2, <2>6, NotEnded DEF Steps, Publish
    <3>2. \A e \in Emails : inserting'[e] # Nobody =>
              inserting'[e] = inserting[e] /\ inserting[e] # c
      BY <1>0, <3>1 DEF Released, TypeOK
    <3>3. \A e \in Emails : inserting[e] # c => inserting'[e] = inserting[e]
      BY <1>0, <3>1 DEF Released, TypeOK
    <3>4. \A e \in Emails : inserting'[e] # Nobody => ~EmailTaken(e)'
      BY <1>0, <2>2, <2>6, <3>2, TakenStep DEF EmailLocks
    <3>5. \A b \in Calls : pc'[b] \in {"insertAccount", "commit"} =>
              /\ b # c /\ pc[b] = pc'[b] /\ row'[b] = row[b]
              /\ row[b].email \in Emails /\ inserting[row[b].email] = b
      BY <1>0, <2>m, <2>6, NotEnded DEF Held, UserRow, EmailLocks
    <3>6. \A b \in Calls : pc'[b] \in {"insertAccount", "commit"} =>
              inserting'[row'[b].email] = b
      BY <3>3, <3>5
    <3>7. QED
      BY <1>0, <2>m, <2>t, <3>2, <3>4, <3>6 DEF EmailLocks
  <2>7. QED
    BY <2>2, <2>3, <2>4, <2>5, <2>6 DEF Moves
<1>4. CASE Crash
  BY <1>4, NotEnded DEF Crash, EmailLocks
<1>5. CASE WipeTables
  BY <1>0, <1>5 DEF WipeTables, EmailLocks, EmailFree, EmailTaken, calls
<1>6. CASE CreateSystemUser
  <2>1. \A e \in Emails : inserting[e] # Nobody => ~EmailTaken(e)'
    BY <1>0, <1>6, SystemUserTyped DEF CreateSystemUser, EmailLocks, EmailFree, EmailTaken, TypeOK
  <2>2. QED
    BY <1>0, <1>6, <2>1 DEF CreateSystemUser, EmailLocks, calls
<1>7. QED
  BY <1>1, <1>2, <1>3, <1>4, <1>5, <1>6, NextCases

(* Every step of Next keeps RegistrationAtomic. *)
LEMMA AtomicStep == IInv /\ [Next]_vars => RegistrationAtomic'
<1> SUFFICES ASSUME IInv, [Next]_vars PROVE RegistrationAtomic'
  OBVIOUS
<1>0. TypeOK /\ Held /\ EmailLocks /\ RegistrationAtomic
  BY DEF IInv
<1>s. ASSUME users' = users, wallets' = wallets PROVE RegistrationAtomic'
  BY <1>0, <1>s DEF RegistrationAtomic
<1>1. CASE UNCHANGED vars \/ Tick \/ Crash \/ \E c \in Calls, r \in Requests : Receive(c, r)
  BY <1>1, <1>s DEF vars, tables, Tick, Crash, Receive
<1>2. CASE \E c \in Calls : CallStep(c)
  <2>1. PICK c \in Calls : CallStep(c)
    BY <1>2
  <2>2. Steps(c)
    BY <2>1, StepSteps
  <2>3. CASE pc[c] = "commit" /\ Publish(c)
    <3>1. row[c] \in UserRow /\ row[c] # NoUser
      BY <1>0, <2>3, NullsAssumption DEF Held
    <3>2. row[c].email \in Emails
      BY <3>1 DEF UserRow
    <3>3. \A u \in UserIDs : users[u] # NoUser => users[u].email # row[c].email
      BY <1>0, <2>3, <3>2, SessionsAssumption DEF EmailLocks, EmailTaken
    <3>4. c \in UserIDs /\ c # Root
      BY SessionsAssumption DEF UserIDs
    <3>5. users'[c] = row[c] /\ \A u \in UserIDs \ {c} : users'[u] = users[u]
      BY <1>0, <2>3, <3>4 DEF Publish, TypeOK
    <3>6. wallets' = wallets \union {c}
      BY <2>3 DEF Publish
    <3>7. QED
      BY <1>0, <3>1, <3>3, <3>4, <3>5, <3>6 DEF RegistrationAtomic
  <2>4. CASE /\ pc[c] = "serve" /\ wallets' = wallets
             /\ users[Presented(c).user] # NoUser /\ Bump(Presented(c).user)
    <3>1. Presented(c).user \in UserIDs
      BY <1>0, <2>4, PresentedTyped
    <3>2. \A u \in UserIDs : /\ users'[u] # NoUser <=> users[u] # NoUser
                             /\ users[u] # NoUser => users'[u].email = users[u].email
      BY <1>0, <2>4, <3>1, BumpAt
    <3>3. QED
      BY <1>0, <2>4, <3>2 DEF RegistrationAtomic
  <2>5. QED
    BY <1>s, <2>2, <2>3, <2>4 DEF Steps, tables
<1>3. CASE WipeTables
  BY <1>3 DEF WipeTables, RegistrationAtomic
<1>4. CASE CreateSystemUser
  <2>1. CASE users' = users
    BY <1>4, <1>s, <2>1 DEF CreateSystemUser
  <2>2. CASE users' = [users EXCEPT ![Root] = SystemUser] /\ ~EmailTaken(RootEmail)
    <3>1. users'[Root] = SystemUser /\ \A u \in UserIDs \ {Root} : users'[u] = users[u]
      BY <1>0, <2>2 DEF TypeOK, UserIDs
    <3>2. \A u \in UserIDs : users[u] # NoUser => users[u].email # RootEmail
      BY <2>2 DEF EmailTaken
    <3>3. wallets' = wallets
      BY <1>4 DEF CreateSystemUser
    <3>4. QED
      BY <1>0, <3>1, <3>2, <3>3, SystemUserTyped DEF RegistrationAtomic
  <2>3. QED
    BY <1>4, <2>1, <2>2 DEF CreateSystemUser
<1>5. QED
  BY <1>1, <1>2, <1>3, <1>4, NextCases

(* A token is stamped for one user only. *)
LEMMA StampedOnce ==
    ASSUME Held, NEW u \in UserIDs, NEW v \in UserIDs, NEW b \in Calls,
           b \in Stamped(u), b \in Stamped(v)
    PROVE  u = v
BY NotEnded DEF Held, Stamped

(* A step of call c stamps at most its own token: with the epoch of the    *)
(* user it reads, or with that of the user it commits; the stamps there    *)
(* already keep their epoch.                                               *)
LEMMA StampedStep ==
    ASSUME IInv, NEW c \in Calls, CallStep(c), NEW u \in UserIDs, NEW b \in Stamped(u)'
    PROVE  /\ b \in Calls
           /\ \/ b \in Stamped(u) /\ Epoch(b)' = Epoch(b)
              \/ /\ b = c /\ pc[c] = "getByEmail" /\ users' = users
                 /\ users[u] # NoUser /\ Epoch(c)' = users[u].version
              \/ /\ b = c /\ u = c /\ pc[c] = "commit" /\ Publish(c)
                 /\ Epoch(c)' = 0
<1>0. TypeOK /\ Held /\ Born
  BY DEF IInv
<1>1. Moves(c) /\ Steps(c) /\ pc[c] \notin Ended \union {"idle"}
  BY StepMoves, StepSteps
<1>2. b \in Calls
  BY DEF Stamped
<1>3. CASE b # c
  <2>1. tokens'[b] = tokens[b]
    BY <1>0, <1>1, <1>2, <1>3 DEF Steps, TypeOK
  <2>2. pc'[b] = pc[b] /\ row'[b] = row[b]
    BY <1>1, <1>2, <1>3 DEF Moves
  <2>3. QED
    BY <1>2, <2>1, <2>2 DEF Stamped, Epoch
<1>4. CASE b = c
  <2>1. tokens[c] = NoToken
    BY <1>0, <1>1 DEF Held
  <2>2. CASE pc[c] = "issue"
    <3>1. row[c] \in UserRow /\ now \in Nat
      BY <1>0, <2>2 DEF Held, TypeOK
    <3>2. tokens'[c] # NoToken /\ tokens' = [tokens EXCEPT ![c] = LoginClaim(row[c])]
      BY <1>1, <1>4, <2>1, <2>2, NotEnded DEF Moves, Steps, Stamped
    <3>3. tokens'[c] = LoginClaim(row[c])
      BY <1>0, <3>2 DEF TypeOK
    <3>4. tokens'[c].user = row[c].id /\ tokens'[c].version = row[c].version
      BY <3>1, <3>3, ClaimTyped
    <3>5. pc'[c] \in Ended
      BY <1>1, <2>2 DEF Moves
    <3>6. row[c].id = u
      BY <1>4, <3>2, <3>4, <3>5, NotEnded DEF Stamped
    <3>7. QED
      BY <1>2, <1>4, <2>1, <2>2, <3>2, <3>4, <3>6 DEF Stamped, Epoch
  <2>3. CASE pc[c] # "issue"
    <3>1. tokens'[c] = NoToken
      BY <1>1, <2>1, <2>3 DEF Steps
    <3>2. pc'[c] \in {"compare", "issue"} /\ row'[c].id = u /\ Epoch(c)' = row'[c].version
      BY <1>4, <3>1 DEF Stamped, Epoch
    <3>3. CASE pc[c] = "compare"
      BY <1>1, <1>2, <1>4, <2>1, <3>2, <3>3, NotEnded DEF Moves, Stamped, Epoch
    <3>4. CASE pc[c] = "getByEmail"
      <4>1. PICK v \in UserIDs : users[v] # NoUser /\ row'[c] = users[v]
        BY <1>1, <3>2, <3>4, NotEnded DEF Moves
      <4>2. v = u
        BY <1>0, <3>2, <4>1 DEF Born
      <4>3. users' = users
        BY <1>1, <3>4 DEF Steps, tables
      <4>4. QED
        BY <1>2, <1>4, <3>2, <3>4, <4>1, <4>2, <4>3
    <3>5. CASE pc[c] = "commit"
      <4>1. row'[c] = row[c]
        BY <1>1, <3>2, <3>5, NotEnded DEF Moves
      <4>2. row[c].id = c /\ row[c].version = 0
        BY <1>0, <3>5 DEF Held
      <4>3. Publish(c)
        BY <1>1, <3>2, <3>5, NotEnded DEF Steps
      <4>4. QED
        BY <1>2, <1>4, <3>2, <3>5, <4>1, <4>2, <4>3
    <3>6. QED
      BY <1>1, <2>3, <3>2, <3>3, <3>4, <3>5, NotEnded DEF Moves
  <2>4. QED
    BY <2>2, <2>3
<1>5. QED
  BY <1>3, <1>4

(* A step that leaves tokens and calls alone leaves the stamps alone. *)
LEMMA StampedSame ==
    ASSUME tokens' = tokens, pc' = pc, row' = row
    PROVE  /\ \A u \in UserIDs : Stamped(u)' = Stamped(u)
           /\ \A b \in Calls : Epoch(b)' = Epoch(b)
BY DEF Stamped, Epoch

(* An arriving request and a crash stamp nothing. *)
LEMMA NothingStamped ==
    ASSUME IInv, Crash \/ \E c \in Calls, r \in Requests : Receive(c, r),
           NEW u \in UserIDs, NEW b \in Stamped(u)'
    PROVE  b \in Calls /\ b \in Stamped(u) /\ Epoch(b)' = Epoch(b)
<1>0. TypeOK /\ Held
  BY DEF IInv
<1>1. b \in Calls
  BY DEF Stamped
<1>2. tokens' = tokens
  BY DEF Crash, Receive
<1>3. CASE pc'[b] \in {"compare", "issue"}
  <2>1. pc'[b] = pc[b] /\ row'[b] = row[b]
    <3>1. CASE Crash
      BY <1>1, <1>3, <3>1, NotEnded DEF Crash
    <3>2. CASE \E c \in Calls, r \in Requests : Receive(c, r)
      BY <1>0, <1>1, <1>3, <3>2, ReceiveAt
    <3>3. QED
      BY <3>1, <3>2
  <2>2. QED
    BY <1>1, <1>2, <1>3, <2>1 DEF Stamped, Epoch
<1>4. CASE pc'[b] \notin {"compare", "issue"}
  <2>1. tokens[b] # NoToken
    BY <1>2, <1>4 DEF Stamped
  <2>2. QED
    BY <1>1, <1>2, <1>4, <2>1 DEF Stamped, Epoch
<1>5. QED
  BY <1>3, <1>4

(* A registered user stays where a commit or a logout leaves it. *)
LEMMA UsersStep ==
    ASSUME IInv, NEW c \in Calls, CallStep(c), NEW u \in UserIDs
    PROVE  \/ users'[u] = users[u]
           \/ /\ u = c /\ pc[c] = "commit" /\ Publish(c)
              /\ users'[c] = row[c] /\ revoked' = revoked
              /\ row[c].id = c /\ row[c].version = 0 /\ row[c] # NoUser
           \/ /\ pc[c] = "serve" /\ u = Presented(c).user
              /\ users[u] # NoUser /\ users'[u] # NoUser /\ users'[u].id = users[u].id
              /\ users'[u].version = users[u].version + 1
              /\ revoked' = revoked \union Stamped(u)
<1>0. TypeOK /\ Held
  BY DEF IInv
<1>1. Steps(c)
  BY StepSteps
<1>2. CASE users' = users
  BY <1>2
<1>3. CASE pc[c] = "commit" /\ Publish(c) /\ revoked' = revoked
  BY <1>0, <1>3, NullsAssumption DEF Publish, TypeOK, Held
<1>4. CASE pc[c] = "serve" /\ users[Presented(c).user] # NoUser /\ Bump(Presented(c).user)
  <2>1. Presented(c).user \in UserIDs
    BY <1>0, <1>4, PresentedTyped
  <2>2. QED
    BY <1>0, <1>4, <2>1, BumpAt
<1>5. QED
  BY <1>1, <1>2, <1>3, <1>4 DEF Steps, tables

(* A logout revokes the tokens stamped for its user; nothing else does. *)
LEMMA RevokedStep ==
    ASSUME IInv, NEW c \in Calls, CallStep(c)
    PROVE  \/ revoked' = revoked
           \/ /\ pc[c] = "serve" /\ Presented(c).user \in UserIDs
              /\ users[Presented(c).user] # NoUser
              /\ users'[Presented(c).user].version = users[Presented(c).user].version + 1
              /\ revoked' = revoked \union Stamped(Presented(c).user)
<1>0. TypeOK /\ Held
  BY DEF IInv
<1>1. Steps(c)
  BY StepSteps
<1>2. CASE revoked' = revoked
  BY <1>2
<1>3. CASE pc[c] = "serve" /\ users[Presented(c).user] # NoUser /\ Bump(Presented(c).user)
  <2>1. Presented(c).user \in UserIDs
    BY <1>0, <1>3, PresentedTyped
  <2>2. QED
    BY <1>0, <1>3, <2>1, BumpAt
<1>4. QED
  BY <1>1, <1>2, <1>3 DEF Steps

(* Every step of Next keeps Born. *)
LEMMA BornStep == IInv /\ [Next]_vars => Born'
<1> SUFFICES ASSUME IInv, [Next]_vars PROVE Born'
  OBVIOUS
<1>0. TypeOK /\ Held /\ Born
  BY DEF IInv
<1>r. Root \notin Calls /\ Root \in UserIDs /\ Calls \subseteq UserIDs
  BY SessionsAssumption DEF UserIDs
<1>1. CASE UNCHANGED vars \/ Tick
  <2>1. /\ users' = users /\ bootstrap' = bootstrap /\ revoked' = revoked
        /\ tokens' = tokens /\ pc' = pc /\ row' = row
    BY <1>1 DEF vars, tables, calls, Tick
  <2>2. \A u \in UserIDs : Stamped(u)' = Stamped(u)
    BY <2>1, StampedSame
  <2>3. QED
    BY <1>0, <1>r, <2>1, <2>2 DEF Born
<1>2. CASE WipeTables
  <2>1. /\ users' = [u \in UserIDs |-> NoUser] /\ bootstrap'.runs > 0 /\ revoked' = revoked
        /\ tokens' = tokens /\ pc' = pc /\ row' = row
    BY <1>0, <1>2 DEF calls, WipeTables, TypeOK
  <2>2. \A u \in UserIDs : Stamped(u)' = Stamped(u)
    BY <2>1, StampedSame
  <2>3. QED
    BY <1>0, <1>r, <2>1, <2>2 DEF Born
<1>3. CASE CreateSystemUser
  <2>1. /\ bootstrap'.at = "done" /\ revoked' = revoked
        /\ tokens' = tokens /\ pc' = pc /\ row' = row
    BY <1>0, <1>3 DEF calls, CreateSystemUser, TypeOK
  <2>2. \A u \in UserIDs : Stamped(u)' = Stamped(u)
    BY <2>1, StampedSame
  <2>3. \A u \in UserIDs : users'[u] = users[u] \/ (u = Root /\ users'[u] = SystemUser)
    BY <1>0, <1>3 DEF CreateSystemUser, TypeOK
  <2>4. QED
    BY <1>0, <1>r, <2>1, <2>2, <2>3, SystemUserTyped DEF Born
<1>4. CASE Crash \/ \E c \in Calls, r \in Requests : Receive(c, r)
  <2>1. users' = users /\ bootstrap' = bootstrap /\ revoked' = revoked
    BY <1>4 DEF Crash, Receive, tables
  <2>2. \A u \in Calls : Stamped(u)' # {} => Stamped(u) # {}
    BY <1>4, <1>r, NothingStamped
  <2>3. \A b \in Calls : pc[b] # "idle" => pc'[b] = pc[b] \/ pc'[b] \in Ended
    <3>1. CASE Crash
      BY <3>1, NotEnded DEF Crash
    <3>2. CASE \E c \in Calls, r \in Requests : Receive(c, r)
      BY <1>0, <3>2, ReceiveAt
    <3>3. QED
      BY <1>4, <3>1, <3>2
  <2>4. \A b \in Calls : b \in revoked => pc[b] # "idle"
    BY <1>0, NotEnded DEF Born
  <2>5. \A u \in Calls : users[u] # NoUser \/ Stamped(u) # {} => pc[u] # "idle"
    BY <1>0, NotEnded DEF Born
  <2>6. revoked \subseteq Calls
    BY <1>0 DEF TypeOK
  <2>7. QED
    BY <1>0, <1>r, <2>1, <2>2, <2>3, <2>4, <2>5, <2>6 DEF Born
<1>5. CASE \E c \in Calls : CallStep(c)
  <2>1. PICK c \in Calls : CallStep(c)
    BY <1>5
  <2>2. Moves(c) /\ bootstrap' = bootstrap /\ pc[c] \notin Ended \union {"idle"}
    BY <2>1, StepMoves, StepSteps
  <2>3. \A u \in UserIDs : users'[u] # NoUser => users'[u].id = u
    BY <1>0, <2>1, UsersStep DEF Born
  <2>4. ASSUME NEW b \in Calls, pc[b] \in Ended \union {"issue"}
        PROVE  pc'[b] \in Ended \union {"issue"}
    BY <2>2, <2>4 DEF Moves
  <2>5. ASSUME NEW u \in Calls, users'[u] # NoUser \/ Stamped(u)' # {}
        PROVE  pc'[u] \in Ended \union {"issue"}
    <3>1. CASE u = c /\ pc[c] = "commit" /\ Publish(c)
      <4>1. pc'[c] # "commit"
        BY <2>2, <3>1, NotEnded DEF Moves
      <4>2. QED
        BY <2>2, <3>1, <4>1 DEF Moves
    <3>2. CASE ~(u = c /\ pc[c] = "commit" /\ Publish(c))
      <4>1. users'[u] # NoUser => users[u] # NoUser
        BY <1>r, <2>1, <3>2, UsersStep
      <4>2. Stamped(u)' # {} => Stamped(u) # {} \/ users[u] # NoUser
        BY <1>r, <2>1, <3>2, StampedStep
      <4>3. pc[u] \in Ended \union {"issue"}
        BY <1>0, <2>5, <4>1, <4>2 DEF Born
      <4>4. QED
        BY <2>4, <4>3
    <3>3. QED
      BY <3>1, <3>2
  <2>6. ASSUME NEW b \in revoked'
        PROVE  pc'[b] \in Ended \union {"compare", "issue"}
    <3>1. b \in Calls /\ pc[b] \in Ended \union {"compare", "issue"}
      <4>1. CASE b \in revoked
        BY <1>0, <4>1 DEF Born, TypeOK
      <4>2. CASE b \notin revoked
        BY <1>0, <2>1, <2>6, <4>2, RevokedStep DEF Held, Stamped
      <4>3. QED
        BY <4>1, <4>2
    <3>2. QED
      BY <2>2, <3>1 DEF Moves
  <2>7. QED
    BY <1>0, <2>2, <2>3, <2>5, <2>6 DEF Born
<1>6. QED
  BY <1>1, <1>2, <1>3, <1>4, <1>5, NextCases

(* Every step of Next keeps EpochExact. *)
LEMMA EpochStep == IInv /\ [Next]_vars => EpochExact'
<1> SUFFICES ASSUME IInv, [Next]_vars, NEW u \in UserIDs, NEW b \in Stamped(u)'
             PROVE  (/\ bootstrap.runs = 0 => users[u] # NoUser
                     /\ users[u] # NoUser /\ (u # Root \/ bootstrap.runs = 0) =>
                           /\ Epoch(b) <= users[u].version
                           /\ b \in revoked <=> Epoch(b) < users[u].version)'
  BY DEF EpochExact
<1>0. TypeOK /\ Held /\ Born /\ EpochExact
  BY DEF IInv
<1>v. \A w \in UserIDs : users[w] # NoUser => users[w].version \in Nat
  BY <1>0 DEF TypeOK, UserRow
<1>e. ASSUME b \in Stamped(u) PROVE Epoch(b) \in Nat
  <2>1. b \in Calls
    BY <1>e DEF Stamped
  <2>2. CASE tokens[b] # NoToken
    BY <1>0, <2>1, <2>2 DEF TypeOK, Epoch, Claim
  <2>3. CASE tokens[b] = NoToken
    <3>1. row[b] \in UserRow
      BY <1>0, <1>e, <2>1, <2>3 DEF Held, Stamped
    <3>2. QED
      BY <2>3, <3>1 DEF Epoch, UserRow
  <2>4. QED
    BY <2>2, <2>3
<1>s. ASSUME b \in Stamped(u), Epoch(b)' = Epoch(b), users'[u] = users[u],
             bootstrap' = bootstrap, b \in revoked' <=> b \in revoked
      PROVE  (/\ bootstrap.runs = 0 => users[u] # NoUser
              /\ users[u] # NoUser /\ (u # Root \/ bootstrap.runs = 0) =>
                    /\ Epoch(b) <= users[u].version
                    /\ b \in revoked <=> Epoch(b) < users[u].version)'
  BY <1>0, <1>s DEF EpochExact
<1>1. CASE UNCHANGED vars \/ Tick
  <2>1. /\ users' = users /\ bootstrap' = bootstrap /\ revoked' = revoked
        /\ tokens' = tokens /\ pc' = pc /\ row' = row
    BY <1>1 DEF vars, tables, calls, Tick
  <2>2. b \in Stamped(u) /\ b \in Calls
    BY <2>1, StampedSame DEF Stamped
  <2>3. QED
    BY <1>s, <2>1, <2>2, StampedSame
<1>2. CASE WipeTables
  <2>1. users'[u] = NoUser /\ bootstrap'.runs # 0
    BY <1>0, <1>2 DEF WipeTables, TypeOK
  <2>2. QED
    BY <2>1
<1>3. CASE CreateSystemUser
  <2>1. /\ bootstrap'.runs # 0 /\ revoked' = revoked
        /\ tokens' = tokens /\ pc' = pc /\ row' = row
    BY <1>0, <1>3 DEF calls, CreateSystemUser, TypeOK, Born
  <2>2. u # Root => users'[u] = users[u]
    BY <1>0, <1>3 DEF CreateSystemUser, TypeOK
  <2>3. b \in Stamped(u) /\ b \in Calls
    BY <2>1, StampedSame DEF Stamped
  <2>4. Epoch(b)' = Epoch(b)
    BY <2>1, <2>3, StampedSame
  <2>5. QED
    BY <1>0, <2>1, <2>2, <2>3, <2>4 DEF EpochExact
<1>4. CASE Crash \/ \E c \in Calls, r \in Requests : Receive(c, r)
  <2>1. users' = users /\ bootstrap' = bootstrap /\ revoked' = revoked
    BY <1>4 DEF Crash, Receive, tables
  <2>2. b \in Stamped(u) /\ Epoch(b)' = Epoch(b)
    BY <1>4, NothingStamped
  <2>3. QED
    BY <1>s, <2>1, <2>2
<1>5. CASE \E c \in Calls : CallStep(c)
  <2>1. PICK c \in Calls : CallStep(c)
    BY <1>5
  <2>2. bootstrap' = bootstrap
    BY <2>1, StepSteps
  <2>3. CASE b = c /\ pc[c] = "getByEmail" /\ users' = users
             /\ users[u] # NoUser /\ Epoch(c)' = users[u].version
    <3>1. b \notin revoked'
      BY <1>0, <2>1, <2>3, RevokedStep, NotEnded DEF Born
    <3>2. QED
      BY <1>v, <2>3, <3>1
  <2>4. CASE b = c /\ u = c /\ pc[c] = "commit" /\ Publish(c) /\ Epoch(c)' = 0
    <3>1. b \notin revoked'
      BY <1>0, <2>1, <2>4, RevokedStep, NotEnded DEF Born
    <3>2. users'[u] = row[c] /\ row[c] # NoUser /\ row[c].version = 0
      BY <1>0, <2>4, NullsAssumption DEF Publish, TypeOK, Held
    <3>3. QED
      BY <2>4, <3>1, <3>2
  <2>5. CASE b \in Stamped(u) /\ Epoch(b)' = Epoch(b)
    <3>0. b \in Calls
      BY <2>5 DEF Stamped
    <3>1. CASE /\ pc[c] = "serve" /\ u = Presented(c).user
               /\ users[u] # NoUser /\ users'[u] # NoUser
               /\ users'[u].version = users[u].version + 1
               /\ revoked' = revoked \union Stamped(u)
      <4>1. /\ users[u] # NoUser /\ (u # Root \/ bootstrap.runs = 0) =>
                  Epoch(b) <= users[u].version
        BY <1>0, <2>5 DEF EpochExact
      <4>2. b \in revoked'
        BY <2>5, <3>1
      <4>3. Epoch(b) \in Nat /\ users[u].version \in Nat
        BY <1>e, <1>v, <2>5, <3>1
      <4>4. QED
        BY <2>2, <2>5, <3>1, <4>1, <4>2, <4>3
    <3>2. CASE u = c /\ pc[c] = "commit"
      <4>1. Stamped(u) = {}
        BY <1>0, <3>2, NotEnded DEF Born
      <4>2. QED
        BY <2>5, <4>1
    <3>3. CASE users'[u] = users[u]
      <4>1. b \in revoked' <=> b \in revoked
        <5>1. CASE revoked' = revoked
          BY <5>1
        <5>2. CASE /\ Presented(c).user \in UserIDs
                   /\ users[Presented(c).user] # NoUser
                   /\ users'[Presented(c).user].version = users[Presented(c).user].version + 1
                   /\ revoked' = revoked \union Stamped(Presented(c).user)
          <6>1. Presented(c).user # u
            BY <1>v, <3>3, <5>2
          <6>2. b \notin Stamped(Presented(c).user)
            BY <1>0, <2>5, <3>0, <5>2, <6>1, StampedOnce
          <6>3. QED
            BY <5>2, <6>2
        <5>3. QED
          BY <2>1, <5>1, <5>2, RevokedStep
      <4>2. QED
        BY <1>s, <2>2, <2>5, <3>3, <4>1
    <3>4. QED
      BY <2>1, <3>1, <3>2, <3>3, UsersStep
  <2>6. QED
    BY <2>1, <2>3, <2>4, <2>5, StampedStep
<1>6. QED
  BY <1>1, <1>2, <1>3, <1>4, <1>5, NextCases

-----------------------------------------------------------------------------
(* Theorems *)

(* The inductive invariant holds in every state of every behaviour. *)
THEOREM Invariance == Spec => []IInv
<1>1. IInv /\ [Next]_vars => IInv'
  BY TypeStep, HeldStep, EmailLocksStep, BornStep, EpochStep, AtomicStep DEF IInv
<1>2. QED
  BY InitIInv, <1>1, PTL DEF Spec

(* Every variable keeps its type: among others, every call presents a      *)
(* token that was issued, and users are stored under roles the policy      *)
(* knows.                                                                  *)
THEOREM TypeCorrect == Spec => []TypeOK
<1>1. IInv => TypeOK
  BY DEF IInv
<1>2. QED
  BY Invariance, <1>1, PTL

(* Registration: one user per email, each with its first account.          *)
THEOREM RegistrationSafe == Spec => []RegistrationAtomic
<1>1. IInv => RegistrationAtomic
  BY DEF IInv
<1>2. QED
  BY Invariance, <1>1, PTL

(* Only CheckVersion decides over a token that has not expired: it serves  *)
(* a token at the user's epoch, and refuses any other.                     *)
LEMMA Decision ==
    ASSUME IInv, [Next]_vars, NEW c \in Calls, pc[c] = "version"
    PROVE  /\ pc'[c] = "serve" => CurrentVersion(Presented(c))
           /\ pc'[c] = "unauthorized" => ~CurrentVersion(Presented(c))
<1>0. TypeOK
  BY DEF IInv
<1>1. CASE \E b \in Calls : CallStep(b)
  <2>1. PICK b \in Calls : CallStep(b)
    BY <1>1
  <2>2. CASE b # c
    BY <2>1, <2>2, StepMoves DEF Moves
  <2>3. CASE b = c
    <3>1. CheckVersion(c) \/ StatementFails(c)
      BY <2>1, <2>3 DEF CallStep, GetByEmail, ComparePassword, IssueAccessToken, InsertUser,
         InsertAccount, CommitRegistration, CheckExpiry, Serve, Logout, Unacknowledged
    <3>2. CASE CheckVersion(c)
      BY <1>0, <3>2 DEF CheckVersion, Answer, Goto, TypeOK
    <3>3. CASE StatementFails(c)
      BY <1>0, <3>3 DEF StatementFails, Answer, TypeOK
    <3>4. QED
      BY <3>1, <3>2, <3>3
  <2>4. QED
    BY <2>2, <2>3
<1>2. CASE UNCHANGED vars \/ WipeTables \/ CreateSystemUser \/ Tick
  BY <1>2 DEF vars, calls, WipeTables, CreateSystemUser, Tick
<1>3. CASE Crash
  BY <1>3 DEF Crash
<1>4. CASE \E b \in Calls, r \in Requests : Receive(b, r)
  BY <1>0, <1>4, ReceiveAt
<1>5. QED
  BY <1>1, <1>2, <1>3, <1>4, NextCases

(* A token stamped before a logout of its user is never let through.       *)
THEOREM RevocationSafe == Spec => RevokedStaysRevoked
<1>1. ASSUME IInv, [Next]_vars, NEW c \in Calls, pc[c] = "version", pc'[c] = "serve",
             bootstrap.runs = 0 \/ Presented(c).user # Root
      PROVE  req[c].token \notin revoked
  <2>0. TypeOK /\ Held /\ EpochExact
    BY <1>1 DEF IInv
  <2>1. /\ users[Presented(c).user] # NoUser
        /\ Presented(c).version = users[Presented(c).user].version
    BY <1>1, Decision DEF CurrentVersion
  <2>2. /\ Presented(c).user \in UserIDs /\ req[c].token \in Stamped(Presented(c).user)
        /\ Epoch(req[c].token) = Presented(c).version /\ Presented(c) \in Claim
    BY <1>1, <2>0, PresentedTyped
  <2>3. Presented(c).version \in Nat
    BY <2>2 DEF Claim
  <2>4. req[c].token \in revoked =>
            Epoch(req[c].token) < users[Presented(c).user].version
    BY <1>1, <2>0, <2>1, <2>2 DEF EpochExact
  <2>5. QED
    BY <2>1, <2>2, <2>3, <2>4
<1>2. IInv /\ [Next]_vars =>
          [\A c \in Calls :
              /\ pc[c] = "version" /\ pc'[c] = "serve"
              /\ bootstrap.runs = 0 \/ Presented(c).user # Root
              => req[c].token \notin revoked]_vars
  BY <1>1
<1>3. QED
  BY Invariance, <1>2, PTL DEF Spec, RevokedStaysRevoked

(* Until the tables are wiped, an unexpired token is refused only when its *)
(* user has logged out since it was stamped.                               *)
THEOREM SessionsKept == Spec => LiveSessionsKept
<1>1. ASSUME IInv, [Next]_vars, NEW c \in Calls, pc[c] = "version", pc'[c] = "unauthorized",
             bootstrap.runs = 0
      PROVE  req[c].token \in revoked
  <2>0. TypeOK /\ Held /\ EpochExact
    BY <1>1 DEF IInv
  <2>1. ~CurrentVersion(Presented(c))
    BY <1>1, Decision
  <2>2. /\ Presented(c).user \in UserIDs /\ req[c].token \in Stamped(Presented(c).user)
        /\ Epoch(req[c].token) = Presented(c).version /\ Presented(c) \in Claim
    BY <1>1, <2>0, PresentedTyped
  <2>3. users[Presented(c).user] # NoUser
    BY <1>1, <2>0, <2>2 DEF EpochExact
  <2>4. Presented(c).version \in Nat /\ users[Presented(c).user].version \in Nat
    BY <2>0, <2>2, <2>3 DEF Claim, TypeOK, UserRow
  <2>5. Presented(c).version # users[Presented(c).user].version
    BY <2>1, <2>3 DEF CurrentVersion
  <2>6. /\ Epoch(req[c].token) <= users[Presented(c).user].version
        /\ req[c].token \in revoked <=>
              Epoch(req[c].token) < users[Presented(c).user].version
    BY <1>1, <2>0, <2>2, <2>3 DEF EpochExact
  <2>7. QED
    BY <2>2, <2>4, <2>5, <2>6
<1>2. IInv /\ [Next]_vars =>
          [\A c \in Calls :
              /\ pc[c] = "version" /\ pc'[c] = "unauthorized"
              /\ bootstrap.runs = 0
              => req[c].token \in revoked]_vars
  BY <1>1
<1>3. QED
  BY Invariance, <1>2, PTL DEF Spec, LiveSessionsKept

-----------------------------------------------------------------------------
(* The life of a token *)

(* Whole seconds, multiplied out. *)
LEMMA UnixBounds ==
    ASSUME NEW t \in Nat
    PROVE  Unix(t) * Res <= t /\ t < (Unix(t) + 1) * Res
<1>1. Res \in Nat \ {0}
  BY SessionsAssumption
<1>2. \A d \in Nat \ {0} : (t \div d) * d <= t /\ t < ((t \div d) + 1) * d
  OBVIOUS
<1> QED
  BY <1>1, <1>2 DEF Unix

LEMMA Multiplied ==
    ASSUME NEW m \in Nat, NEW n \in Nat, NEW d \in Nat, m <= n
    PROVE  m * d <= n * d
OBVIOUS

(* The comparison of whole seconds bounds the age of a token. *)
LEMMA AgeBounds ==
    ASSUME NEW t \in Nat, NEW issued \in Nat, NEW exp \in Nat,
           exp = Unix(issued + TTL * Res)
    PROVE  /\ Unix(t) <= exp => t - issued < (TTL + 1) * Res
           /\ Unix(t) > exp => t - issued > TTL * Res
<1> DEFINE end  == issued + TTL * Res
           life == TTL * Res
<1>1. TTL \in Nat /\ Res \in Nat \ {0} /\ life \in Nat /\ (TTL + 1) * Res = life + Res
  BY SessionsAssumption
<1> HIDE DEF life
<1>2. end \in Nat /\ end = issued + life
  BY <1>1 DEF life
<1>3. Unix(t) \in Nat /\ exp = Unix(end)
  BY UnixTyped
<1>4. /\ exp * Res <= end /\ end < (exp + 1) * Res
      /\ Unix(t) * Res <= t /\ t < (Unix(t) + 1) * Res
  BY <1>2, <1>3, UnixBounds
<1> HIDE DEF end
<1>5. ASSUME Unix(t) <= exp PROVE t - issued < (TTL + 1) * Res
  <2>1. (Unix(t) + 1) * Res <= (exp + 1) * Res
    BY <1>1, <1>3, <1>5, Multiplied
  <2>2. (exp + 1) * Res = exp * Res + Res /\ exp * Res \in Nat /\ (Unix(t) + 1) * Res \in Nat
    BY <1>1, <1>3
  <2> QED
    BY <1>1, <1>2, <1>4, <2>1, <2>2
<1>6. ASSUME Unix(t) > exp PROVE t - issued > life
  <2>1. (exp + 1) * Res <= Unix(t) * Res
    BY <1>1, <1>3, <1>6, Multiplied
  <2>2. (exp + 1) * Res \in Nat /\ Unix(t) * Res \in Nat
    BY <1>1, <1>3
  <2> QED
    BY <1>1, <1>2, <1>4, <2>1, <2>2
<1> QED
  BY <1>5, <1>6 DEF life

(* Every claim expires TTL after its signing, in whole seconds. *)
ExpiryStamped ==
    \A c \in Calls : tokens[c] # NoToken =>
        tokens[c].exp = Unix(tokens[c].issued + TTL * Res)

LEMMA ExpiryStep ==
    ASSUME IInv, ExpiryStamped, [Next]_vars
    PROVE  ExpiryStamped'
<1>1. TypeOK
  BY DEF IInv
<1>2. CASE tokens' = tokens
  BY <1>2 DEF ExpiryStamped
<1>3. ASSUME NEW c \in Calls, tokens' = [tokens EXCEPT ![c] = LoginClaim(row[c])]
      PROVE  ExpiryStamped'
  <2>1. LoginClaim(row[c]).exp = Unix(LoginClaim(row[c]).issued + TTL * Res)
    BY DEF LoginClaim
  <2>2. \A b \in Calls : tokens'[b] = tokens[b] \/ tokens'[b] = LoginClaim(row[c])
    BY <1>1, <1>3 DEF TypeOK
  <2> QED
    BY <2>1, <2>2 DEF ExpiryStamped
<1>4. ASSUME NEW c \in Calls, CallStep(c) PROVE ExpiryStamped'
  BY <1>2, <1>3, <1>4, StepSteps DEF Steps
<1>5. CASE \/ UNCHANGED vars \/ Crash \/ WipeTables \/ CreateSystemUser \/ Tick
           \/ \E c \in Calls, r \in Requests : Receive(c, r)
  BY <1>2, <1>5 DEF vars, Crash, WipeTables, CreateSystemUser, Tick, Receive
<1> QED
  BY <1>4, <1>5, NextCases

(* Only CheckExpiry decides over the expiry of a token. *)
LEMMA ExpiryDecision ==
    ASSUME IInv, [Next]_vars, NEW c \in Calls, pc[c] = "expiry"
    PROVE  /\ pc'[c] = "version" => ~Expired(Presented(c))
           /\ pc'[c] = "unauthorized" => Expired(Presented(c))
<1>0. TypeOK
  BY DEF IInv
<1>1. CASE \E b \in Calls : CallStep(b)
  <2>1. PICK b \in Calls : CallStep(b)
    BY <1>1
  <2>2. CASE b # c
    BY <2>1, <2>2, StepMoves DEF Moves
  <2>3. CASE b = c
    <3>1. CheckExpiry(c)
      BY <2>1, <2>3 DEF CallStep, GetByEmail, ComparePassword, IssueAccessToken, InsertUser,
         InsertAccount, CommitRegistration, CheckVersion, Serve, Logout, StatementFails,
         Unacknowledged
    <3>2. QED
      BY <1>0, <3>1 DEF CheckExpiry, Answer, Goto, TypeOK
  <2>4. QED
    BY <2>2, <2>3
<1>2. CASE UNCHANGED vars \/ WipeTables \/ CreateSystemUser \/ Tick
  BY <1>2 DEF vars, calls, WipeTables, CreateSystemUser, Tick
<1>3. CASE Crash
  BY <1>3 DEF Crash
<1>4. CASE \E b \in Calls, r \in Requests : Receive(b, r)
  BY <1>0, <1>4, ReceiveAt
<1>5. QED
  BY <1>1, <1>2, <1>3, <1>4, NextCases

(* A token is let through the expiry check for its whole TTL and for less  *)
(* than a second more, for any TTL and any fractions of a second cut off   *)
(* when it is stamped and when it is checked (ValidateAccessToken).        *)
THEOREM LifetimeKept == Spec => TokenLifetime
<1> DEFINE Kept(c) ==
             pc[c] = "expiry" =>
                 LET age == now - Presented(c).issued
                 IN  /\ pc'[c] = "version" => age < (TTL + 1) * Res
                     /\ pc'[c] = "unauthorized" => age > TTL * Res
<1>1. Init => ExpiryStamped
  BY DEF Init, ExpiryStamped
<1>2. IInv /\ ExpiryStamped /\ [Next]_vars => ExpiryStamped'
  BY ExpiryStep
<1>3. ASSUME IInv, ExpiryStamped, [Next]_vars, NEW c \in Calls, pc[c] = "expiry"
      PROVE  /\ pc'[c] = "version" => now - Presented(c).issued < (TTL + 1) * Res
             /\ pc'[c] = "unauthorized" => now - Presented(c).issued > TTL * Res
  <2>1. TypeOK /\ Held
    BY <1>3 DEF IInv
  <2>2. /\ Presented(c) \in Claim /\ Presented(c) # NoToken
        /\ Presented(c).exp = Unix(Presented(c).issued + TTL * Res)
    BY <1>3, <2>1, PresentedTyped DEF Held, ExpiryStamped, Presented
  <2>3. now \in Nat /\ Presented(c).issued \in Nat /\ Presented(c).exp \in Nat
    BY <2>1, <2>2 DEF TypeOK, Claim
  <2>4. Expired(Presented(c)) <=> Unix(now) > Presented(c).exp
    BY DEF Expired
  <2>5. Unix(now) \in Nat
    BY <2>3, UnixTyped
  <2>6. ~(Unix(now) > Presented(c).exp) => Unix(now) <= Presented(c).exp
    BY <2>3, <2>5
  <2>7. /\ Unix(now) <= Presented(c).exp => now - Presented(c).issued < (TTL + 1) * Res
        /\ Unix(now) > Presented(c).exp => now - Presented(c).issued > TTL * Res
    BY <2>2, <2>3, AgeBounds
  <2>8. QED
    BY <1>3, <2>4, <2>6, <2>7, ExpiryDecision
<1>4. IInv /\ ExpiryStamped /\ [Next]_vars => [\A c \in Calls : Kept(c)]_vars
  BY <1>3
<1>5. QED
  BY Invariance, <1>1, <1>2, <1>4, PTL DEF Spec, TokenLifetime
=============================================================================
