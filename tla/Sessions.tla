------------------------------ MODULE Sessions ------------------------------
(***************************************************************************)
(* Registration, login, token validation and logout: concurrent calls that *)
(* each register a user, exchange credentials for a signed token, or       *)
(* present a token to a protected method, over table users.  A token       *)
(* carries the session epoch (token_version) the user had when it was      *)
(* stamped; logout raises the epoch, and every protected call compares the *)
(* two.  The bootstrap tool may wipe the tables and recreate the system    *)
(* user meanwhile.                                                         *)
(*                                                                         *)
(* A call issues at most one token and creates at most one user, so the    *)
(* call names both (the uuid of the user, the bytes of the token).         *)
(***************************************************************************)
EXTENDS Integers, FiniteSets

CONSTANTS
    Calls,          \* HTTP requests
    Root,           \* RootUserID, the fixed id of the system user
    Emails, RootEmail,
    Passwords, RootPassword,
    Requests,       \* requests that may arrive
    TTL,            \* life of a token, in seconds
    Res,            \* ticks of the clock per second
    MaxTime,        \* bound on the clock
    MaxBootstraps,  \* bound on runs of the bootstrap tool
    Faults,         \* which failures may happen
    NoUser, NoToken, NoRequest, Nobody

UserIDs == Calls \union {Root}
Roles == {"member", "admin"}
Protected == {"read", "operate", "logout"}

RequestType ==
    [op: {"register", "login"} \union Protected, email: Emails,
     password: Passwords, token: Calls \union {NoToken}]

ASSUME SessionsAssumption ==
    /\ Root \notin Calls
    /\ RootEmail \in Emails /\ RootPassword \in Passwords
    /\ Requests \subseteq RequestType
    /\ TTL \in Nat /\ Res \in Nat \ {0} /\ MaxTime \in Nat /\ MaxBootstraps \in Nat
    /\ Faults \subseteq {"statement", "commit", "crash"}
    /\ Nobody \notin Calls /\ NoToken \notin Calls /\ NoRequest \notin RequestType

VARIABLES
    users,       \* table users, by id
    wallets,     \* ids of the users whose first account is in table accounts
    inserting,   \* email -> call whose uncommitted INSERT holds it
    bootstrap,   \* the bootstrap tool: where it is, how often it ran
    now,         \* the clock of the server
    tokens,      \* call -> the claim of the token it issued
    revoked,     \* history: tokens stamped before a logout of their user
    pc,          \* where each call is; once it has ended, its answer
    req,         \* its request
    row          \* the user row it read, or is about to insert

tables == <<users, wallets, inserting>>
calls == <<pc, req, row>>
vars == <<tables, bootstrap, now, tokens, revoked, calls>>

-----------------------------------------------------------------------------
(* Values *)

UserRow ==
    [id: UserIDs, email: Emails, password: Passwords, role: Roles, version: Nat]

(* LoginClaim; issued is the moment of signing, kept for the properties. *)
Claim == [user: UserIDs, role: Roles, version: Nat, issued: Nat, exp: Nat]

ASSUME NullsAssumption == NoUser \notin UserRow /\ NoToken \notin Claim

Answers ==
    {"token", "invalid_credentials", "already_exists", "unauthorized",
     "unverified", "forbidden", "served", "logged_out", "failed"}

Ended == Answers \union {"lost"}
Labels ==
    {"idle", "getByEmail", "compare", "insertUser", "insertAccount", "commit",
     "issue", "expiry", "version", "serve"} \union Ended

(* time.Time.Unix: whole seconds, the rest is cut off. *)
Unix(t) == t \div Res

(* Fault for mutation: the expiry is compared with >=. *)
ExpiredEarly(claim) == Unix(now) >= claim.exp

Expired(claim) == Unix(now) > claim.exp

(* Policy.Authorize on the permissions stamped into the claim: operator    *)
(* methods need an all-scoped one, which only admins have.                 *)
Authorize(role, op) == op # "operate" \/ role = "admin"

FreshUser(id, email, password, role) ==
    [id |-> id, email |-> email, password |-> password, role |-> role, version |-> 0]

(* Fault for mutation: the system user gets a role of its own. *)
SystemUserAsRoot == FreshUser(Root, RootEmail, RootPassword, "root")

SystemUser == FreshUser(Root, RootEmail, RootPassword, "admin")

(* Fault for mutation: Login stamps epoch 0, as Register may. *)
ClaimAtEpochZero(r) ==
    [user |-> r.id, role |-> r.role, version |-> 0,
     issued |-> now, exp |-> Unix(now + TTL * Res)]

LoginClaim(r) ==
    [user |-> r.id, role |-> r.role, version |-> r.version,
     issued |-> now, exp |-> Unix(now + TTL * Res)]

EmailTaken(e) == \E u \in UserIDs : users[u] # NoUser /\ users[u].email = e

EmailFree(e) == inserting[e] = Nobody

Released(c) == [e \in Emails |-> IF inserting[e] = c THEN Nobody ELSE inserting[e]]

(* A call goes on, goes on holding a user row, or returns: its locals go.  *)
Goto(c, label) == pc' = [pc EXCEPT ![c] = label] /\ UNCHANGED <<req, row>>

Hold(c, label, r) ==
    /\ pc' = [pc EXCEPT ![c] = label]
    /\ row' = [row EXCEPT ![c] = r]
    /\ UNCHANGED req

Answer(c, a) ==
    /\ pc' = [pc EXCEPT ![c] = a]
    /\ req' = [req EXCEPT ![c] = NoRequest]
    /\ row' = [row EXCEPT ![c] = NoUser]

-----------------------------------------------------------------------------
(* A bootstrapped database: the system user only. *)

Init ==
    /\ users = [u \in UserIDs |-> IF u = Root THEN SystemUser ELSE NoUser]
    /\ wallets = {}
    /\ inserting = [e \in Emails |-> Nobody]
    /\ bootstrap = [at |-> "done", runs |-> 0]
    /\ now = 0
    /\ tokens = [c \in Calls |-> NoToken]
    /\ revoked = {}
    /\ pc = [c \in Calls |-> "idle"]
    /\ req = [c \in Calls |-> NoRequest]
    /\ row = [c \in Calls |-> NoUser]

(* A request that passes its validation arrives.  The authorization        *)
(* middleware lets the public methods through and wants a token for the    *)
(* others; a client presents a token it was given.  Register hashes the    *)
(* password and builds the user before it opens its unit of work.          *)
Receive(c, r) ==
    /\ pc[c] = "idle"
    /\ r.token # NoToken => tokens[r.token] # NoToken
    /\ \/ /\ r.op = "login"
          /\ pc' = [pc EXCEPT ![c] = "getByEmail"]
          /\ UNCHANGED row
       \/ /\ r.op = "register"
          /\ pc' = [pc EXCEPT ![c] = "insertUser"]
          /\ row' = [row EXCEPT ![c] = FreshUser(c, r.email, r.password, "member")]
       \/ /\ r.op \in Protected
          /\ pc' = [pc EXCEPT ![c] = IF r.token = NoToken THEN "unauthorized" ELSE "expiry"]
          /\ UNCHANGED row
    /\ req' = [req EXCEPT ![c] = r]
    /\ UNCHANGED <<tables, bootstrap, now, tokens, revoked>>

-----------------------------------------------------------------------------
(* Login *)

(* The user row is read once; what it says may be old when it is used. *)
GetByEmail(c) ==
    /\ pc[c] = "getByEmail"
    /\ \/ ~EmailTaken(req[c].email) /\ Answer(c, "invalid_credentials")
       \/ \E u \in UserIDs :
             /\ users[u] # NoUser /\ users[u].email = req[c].email
             /\ Hold(c, "compare", users[u])
    /\ UNCHANGED <<tables, bootstrap, now, tokens, revoked>>

ComparePassword(c) ==
    /\ pc[c] = "compare"
    /\ \/ row[c].password = req[c].password /\ Goto(c, "issue")
       \/ row[c].password # req[c].password /\ Answer(c, "invalid_credentials")
    /\ UNCHANGED <<tables, bootstrap, now, tokens, revoked>>

(* Login and Register stamp and sign the claim from the row they hold. *)
IssueAccessToken(c) ==
    /\ pc[c] = "issue"
    /\ tokens' = [tokens EXCEPT ![c] = LoginClaim(row[c])]
    /\ Answer(c, "token")
    /\ UNCHANGED <<tables, bootstrap, now, revoked>>

-----------------------------------------------------------------------------
(* Register: user and first account in one unit of work *)

(* Fault for mutation: the user is inserted on the pool, outside the unit  *)
(* of work.                                                                *)
InsertUserOutside(c) ==
    /\ pc[c] = "insertUser"
    /\ \/ /\ EmailTaken(row[c].email)
          /\ Answer(c, "already_exists")
          /\ UNCHANGED users
       \/ /\ ~EmailTaken(row[c].email)
          /\ EmailFree(row[c].email)
          /\ users' = [users EXCEPT ![c] = row[c]]
          /\ Goto(c, "insertAccount")
    /\ UNCHANGED <<wallets, inserting, bootstrap, now, tokens, revoked>>

(* INSERT INTO users: waits while another open transaction has inserted    *)
(* the email, fails once it is committed.                                  *)
InsertUser(c) ==
    /\ pc[c] = "insertUser"
    /\ \/ /\ EmailTaken(row[c].email)
          /\ Answer(c, "already_exists")
          /\ UNCHANGED inserting
       \/ /\ ~EmailTaken(row[c].email)
          /\ EmailFree(row[c].email)
          /\ inserting' = [inserting EXCEPT ![row[c].email] = c]
          /\ Goto(c, "insertAccount")
    /\ UNCHANGED <<users, wallets, bootstrap, now, tokens, revoked>>

InsertAccount(c) ==
    /\ pc[c] = "insertAccount"
    /\ Goto(c, "commit")
    /\ UNCHANGED <<tables, bootstrap, now, tokens, revoked>>

(* COMMIT: the user and the account appear together. *)
Publish(c) ==
    /\ users' = [users EXCEPT ![c] = row[c]]
    /\ wallets' = wallets \union {c}
    /\ inserting' = Released(c)

CommitRegistration(c) ==
    /\ pc[c] = "commit"
    /\ Publish(c)
    /\ Goto(c, "issue")
    /\ UNCHANGED <<bootstrap, now, tokens, revoked>>

-----------------------------------------------------------------------------
(* Protected methods *)

Presented(c) == tokens[req[c].token]

CheckExpiry(c) ==
    /\ pc[c] = "expiry"
    /\ \/ Expired(Presented(c)) /\ Answer(c, "unauthorized")
       \/ ~Expired(Presented(c)) /\ Goto(c, "version")
    /\ UNCHANGED <<tables, bootstrap, now, tokens, revoked>>

(* Fault for mutation: an epoch older than the user's is let through. *)
NoLaterThan(claim) ==
    /\ users[claim.user] # NoUser
    /\ claim.version <= users[claim.user].version

(* GetTokenVersion finds the user, at the epoch of the claim. *)
CurrentVersion(claim) ==
    /\ users[claim.user] # NoUser
    /\ claim.version = users[claim.user].version

CheckVersion(c) ==
    /\ pc[c] = "version"
    /\ LET claim == Presented(c)
       IN  \/ ~CurrentVersion(claim) /\ Answer(c, "unauthorized")
           \/ /\ CurrentVersion(claim) /\ ~Authorize(claim.role, req[c].op)
              /\ Answer(c, "forbidden")
           \/ /\ CurrentVersion(claim) /\ Authorize(claim.role, req[c].op)
              /\ Goto(c, "serve")
    /\ UNCHANGED <<tables, bootstrap, now, tokens, revoked>>

(* The handler of a method other than logout. *)
Serve(c) ==
    /\ pc[c] = "serve"
    /\ req[c].op # "logout"
    /\ Answer(c, "served")
    /\ UNCHANGED <<tables, bootstrap, now, tokens, revoked>>

(* The tokens of user u that carry an epoch read so far: issued, or about  *)
(* to be issued by a call that holds the row already.                      *)
Stamped(u) ==
    { c \in Calls :
        \/ tokens[c] # NoToken /\ tokens[c].user = u
        \/ pc[c] \in {"compare", "issue"} /\ row[c].id = u }

(* IncrementTokenVersion: one UPDATE .. RETURNING. *)
Bump(u) ==
    /\ users' = [users EXCEPT ![u].version = @ + 1]
    /\ revoked' = revoked \union Stamped(u)

Logout(c) ==
    /\ pc[c] = "serve"
    /\ req[c].op = "logout"
    /\ LET u == Presented(c).user
       IN  \/ users[u] # NoUser /\ Bump(u) /\ Answer(c, "logged_out")
           \/ users[u] = NoUser /\ Answer(c, "failed") /\ UNCHANGED <<users, revoked>>
    /\ UNCHANGED <<wallets, inserting, bootstrap, now, tokens>>

-----------------------------------------------------------------------------
(* Failures *)

(* A read or a write fails.  Login hides the error behind its answer for   *)
(* wrong credentials; the middleware answers unauthorized also when it     *)
(* could not read the epoch (here "unverified"); an open registration is   *)
(* rolled back.                                                            *)
StatementFails(c) ==
    /\ "statement" \in Faults
    /\ \/ pc[c] = "getByEmail" /\ Answer(c, "invalid_credentials")
       \/ pc[c] = "version" /\ Answer(c, "unverified")
       \/ pc[c] \in {"insertUser", "insertAccount", "commit", "serve"} /\ Answer(c, "failed")
    /\ inserting' = Released(c)
    /\ UNCHANGED <<users, wallets, bootstrap, now, tokens, revoked>>

(* Postgres did it, the answer to the statement was lost. *)
Unacknowledged(c) ==
    /\ "commit" \in Faults
    /\ \/ /\ pc[c] = "commit"
          /\ Publish(c)
          /\ UNCHANGED revoked
       \/ /\ pc[c] = "serve" /\ req[c].op = "logout"
          /\ users[Presented(c).user] # NoUser
          /\ Bump(Presented(c).user)
          /\ UNCHANGED <<wallets, inserting>>
    /\ Answer(c, "failed")
    /\ UNCHANGED <<bootstrap, now, tokens>>

(* The server dies with its calls; Postgres drops their transactions. *)
Crash ==
    /\ "crash" \in Faults
    /\ LET alive == {c \in Calls : pc[c] \notin Ended \union {"idle"}}
       IN  /\ alive # {}
           /\ pc' = [c \in Calls |-> IF c \in alive THEN "lost" ELSE pc[c]]
           /\ req' = [c \in Calls |-> IF c \in alive THEN NoRequest ELSE req[c]]
           /\ row' = [c \in Calls |-> IF c \in alive THEN NoUser ELSE row[c]]
    /\ inserting' = [e \in Emails |-> Nobody]
    /\ UNCHANGED <<users, wallets, bootstrap, now, tokens, revoked>>

-----------------------------------------------------------------------------
(* The bootstrap tool, a process of its own *)

(* TRUNCATE waits for the open transactions that touched the tables. *)
WipeTables ==
    /\ bootstrap.at = "done" /\ bootstrap.runs < MaxBootstraps
    /\ \A e \in Emails : EmailFree(e)
    /\ users' = [u \in UserIDs |-> NoUser]
    /\ wallets' = {}
    /\ bootstrap' = [at |-> "wiped", runs |-> bootstrap.runs + 1]
    /\ UNCHANGED <<inserting, now, tokens, revoked, calls>>

(* The INSERT of the system user, direct SQL; it can fail, and then there  *)
(* is no system user until the tool runs again.                            *)
CreateSystemUser ==
    /\ bootstrap.at = "wiped"
    /\ \/ /\ ~EmailTaken(RootEmail) /\ EmailFree(RootEmail)
          /\ users' = [users EXCEPT ![Root] = SystemUser]
       \/ /\ EmailTaken(RootEmail) \/ "statement" \in Faults
          /\ UNCHANGED users
    /\ bootstrap' = [bootstrap EXCEPT !.at = "done"]
    /\ UNCHANGED <<wallets, inserting, now, tokens, revoked, calls>>

Tick ==
    /\ now < MaxTime
    /\ now' = now + 1
    /\ UNCHANGED <<tables, bootstrap, tokens, revoked, calls>>

-----------------------------------------------------------------------------

(* Every call has ended. *)
Quiet == (\A c \in Calls : pc[c] \in Ended) /\ UNCHANGED vars

Next ==
    \/ \E c \in Calls :
          \/ \E r \in Requests : Receive(c, r)
          \/ GetByEmail(c) \/ ComparePassword(c) \/ IssueAccessToken(c)
          \/ InsertUser(c) \/ InsertAccount(c) \/ CommitRegistration(c)
          \/ CheckExpiry(c) \/ CheckVersion(c) \/ Serve(c) \/ Logout(c)
          \/ StatementFails(c)
          \/ Unacknowledged(c)
    \/ Crash
    \/ WipeTables
    \/ CreateSystemUser
    \/ Tick
    \/ Quiet

Spec == Init /\ [][Next]_vars

-----------------------------------------------------------------------------
(* Properties *)

TypeOK ==
    /\ users \in [UserIDs -> UserRow \union {NoUser}]
    /\ wallets \subseteq UserIDs
    /\ inserting \in [Emails -> Calls \union {Nobody}]
    /\ bootstrap \in [at: {"done", "wiped"}, runs: Nat]
    /\ now \in Nat
    /\ tokens \in [Calls -> Claim \union {NoToken}]
    /\ revoked \subseteq Calls
    /\ pc \in [Calls -> Labels]
    /\ req \in [Calls -> RequestType \union {NoRequest}]
    /\ row \in [Calls -> UserRow \union {NoUser}]

(* A token stamped before a logout of its user is never let through again, *)
(* even when it was signed after the logout from a row read before it, and *)
(* even when logouts overlap (ValidateAccessToken, IncrementTokenVersion). *)
(* The system user, whose id outlives a wipe, is covered until the first.  *)
(* The comment at emailPasswordAuthenticatorImpl.go:19 still says that a   *)
(* token "cannot be revoked before it expires"; the code revokes it.       *)
RevokedStaysRevoked ==
    [][\A c \in Calls :
          /\ pc[c] = "version" /\ pc'[c] = "serve"
          /\ bootstrap.runs = 0 \/ Presented(c).user # Root
          => req[c].token \notin revoked]_vars

(* accessTokenServiceImpl.go: "every token issued before the bump is       *)
(* rejected here".  After a bootstrap the system user is back at epoch 0.  *)
RevokedForever ==
    [][\A c \in Calls :
          pc[c] = "version" /\ pc'[c] = "serve" => req[c].token \notin revoked]_vars

(* A login ends no other session: an unexpired token whose user has not    *)
(* logged out since is refused only because the tables were wiped          *)
(* (Authenticate stamps the epoch and does not raise it).                  *)
LiveSessionsKept ==
    [][\A c \in Calls :
          /\ pc[c] = "version" /\ pc'[c] = "unauthorized"
          /\ bootstrap.runs = 0
          => req[c].token \in revoked]_vars

(* A token works for its whole TTL and for less than one second more,      *)
(* whatever the fractions of a second cut off when it was stamped and when *)
(* it is checked (ValidateAccessToken, the expiry).                        *)
TokenLifetime ==
    [][\A c \in Calls : pc[c] = "expiry" =>
          LET age == now - Presented(c).issued
          IN  /\ pc'[c] = "version" => age < (TTL + 1) * Res
              /\ pc'[c] = "unauthorized" => age > TTL * Res]_vars

(* Concurrent registrations of one email create one user, and every        *)
(* registered user has a first account, whatever failed on the way         *)
(* (Register, one unit of work).                                           *)
RegistrationAtomic ==
    /\ \A u, v \in UserIDs :
          users[u] # NoUser /\ users[v] # NoUser /\ users[u].email = users[v].email => u = v
    /\ \A u \in UserIDs \ {Root} : users[u] # NoUser <=> u \in wallets

-----------------------------------------------------------------------------
(* The inductive invariant behind the properties above *)

(* A call that presents a token has one; a call that holds a user row has  *)
(* one, its own until it is committed.                                     *)
Held ==
    \A c \in Calls :
        /\ pc[c] \in {"expiry", "version", "serve"} =>
              /\ req[c] \in RequestType /\ req[c].token \in Calls
              /\ Presented(c) # NoToken
        /\ pc[c] \in {"compare", "issue"} => row[c] \in UserRow
        /\ pc[c] \in {"insertUser", "insertAccount", "commit"} =>
              row[c] \in UserRow /\ row[c].id = c /\ row[c].version = 0
        /\ tokens[c] # NoToken => pc[c] \in Ended

(* An email is held by the call that is inserting it, and is not taken.    *)
EmailLocks ==
    /\ \A e \in Emails : inserting[e] # Nobody =>
          /\ pc[inserting[e]] \in {"insertAccount", "commit"}
          /\ row[inserting[e]].email = e
          /\ ~EmailTaken(e)
    /\ \A c \in Calls : pc[c] \in {"insertAccount", "commit"} =>
          inserting[row[c].email] = c

(* A registered user and the tokens of one come after the commit of the    *)
(* call that registers it; a revoked token has been stamped.               *)
Born ==
    /\ \A u \in UserIDs : users[u] # NoUser => users[u].id = u
    /\ \A u \in Calls : users[u] # NoUser \/ Stamped(u) # {} =>
          pc[u] \in Ended \union {"issue"}
    /\ \A c \in revoked : pc[c] \in Ended \union {"compare", "issue"}
    /\ bootstrap.at = "wiped" => bootstrap.runs > 0

Epoch(c) == IF tokens[c] # NoToken THEN tokens[c].version ELSE row[c].version

(* A stamped epoch is the user's, or it is older and the token is revoked. *)
EpochExact ==
    \A u \in UserIDs : \A c \in Stamped(u) :
        /\ bootstrap.runs = 0 => users[u] # NoUser
        /\ users[u] # NoUser /\ (u # Root \/ bootstrap.runs = 0) =>
              /\ Epoch(c) <= users[u].version
              /\ c \in revoked <=> Epoch(c) < users[u].version

IInv == TypeOK /\ Held /\ EmailLocks /\ Born /\ EpochExact /\ RegistrationAtomic

=============================================================================
