------------------------------- MODULE Wallet -------------------------------
(***************************************************************************)
(* The wallet service over Postgres: concurrent request goroutines that    *)
(* each run one call of WalletServiceImpl.ProcessTransaction (reached      *)
(* through EarnPoints, SpendPoints, ProcessTransaction or one element of a *)
(* batch) or one administrator call of UpdateAccountBalance, statement by  *)
(* statement, against the tables users see.                                *)
(*                                                                         *)
(* Postgres runs the unit of work at READ COMMITTED: what a transaction    *)
(* wrote is visible to others only after its commit; an INSERT of a ref    *)
(* that another open transaction has inserted waits for that transaction;  *)
(* an UPDATE of an account row another open transaction has updated waits  *)
(* and then looks at the newest committed row.                             *)
(***************************************************************************)
EXTENDS Integers, FiniteSets, FiniteSetsExt

CONSTANTS
    Attempts,    \* calls; an id also names the rows the call inserts (uuid)
    Users,       \* user ids
    Admins,      \* the users with role admin
    AccountIDs,  \* account ids, opened or not
    Owner,       \* owner_id of each account id
    Refs,        \* idempotency keys
    Requests,    \* requests that may arrive
    InitAccounts, InitBalance,   \* accounts already open, their balances
    MaxBalance,  \* largest BIGINT balance
    PoolSize,    \* SetMaxOpenConns
    Faults,      \* which failures may happen
    NoRow, Nobody, NoOwner, NoRequest

Kinds == {"earn", "spend", "adjust", "other"}

RequestType ==
    [user: Users, ref: Refs, account: AccountIDs, kind: Kinds, points: Int]

ASSUME ConstantsAssumption ==
    /\ Admins \subseteq Users
    /\ Owner \in [AccountIDs -> Users]
    /\ Requests \subseteq RequestType
    /\ InitAccounts \subseteq AccountIDs
    /\ InitBalance \in [AccountIDs -> 0..MaxBalance]
    /\ MaxBalance \in Nat
    /\ PoolSize \in Nat \ {0}
    /\ Faults \subseteq {"statement", "commit", "crash"}

ASSUME NullsAssumption ==
    /\ Nobody \notin Attempts
    /\ NoOwner \notin Users
    /\ NoRequest \notin RequestType

VARIABLES
    \* Durable: what any other session reads.
    accounts,    \* rows of table accounts
    balance,     \* accounts.balance
    adjusted,    \* history variable: sum of the off-ledger adjustments
    ledger,      \* table transactions, keyed by its UNIQUE ref
    audit,       \* table audit_entries
    \* Open transactions.
    inserting,   \* ref -> attempt whose uncommitted INSERT holds it
    updating,    \* account -> attempt whose uncommitted UPDATE locks the row
    staged,      \* attempt -> its uncommitted audit rows
    conns,       \* attempts holding a connection of the pool
    \* Request goroutines.
    pc,          \* where the call is
    req,         \* its request
    frame        \* its local variables and its response

durable == <<accounts, balance, adjusted, ledger, audit>>
session == <<inserting, updating, staged>>
vars == <<durable, session, conns, pc, req, frame>>

-----------------------------------------------------------------------------
(* Values *)

Outcomes == {"accepted", "duplicate", "rejected"}
Causes == {"ok", "insufficient", "unknown", "internal"}

(* Table transactions: kind is the sign of points; the timestamps play no  *)
(* part in these rules.                                                    *)
RowType ==
    [id: Attempts, account: AccountIDs, owner: Users, points: Int,
     createdBy: Users]

EntryType ==
    [id: Attempts, ref: Refs, account: AccountIDs, owner: Users \union {NoOwner},
     points: Int, outcome: Outcomes, reason: Causes \union {"duplicate"},
     user: Users]

ASSUME NoRowAssumption == NoRow \notin RowType

(* Locals of a call: the resolved owner, the error on its way out, the     *)
(* balance and original row of the response, and which response it is.     *)
FrameType ==
    [owner: Users \union {NoOwner}, cause: Causes, balance: Int,
     original: RowType \union {NoRow},
     reply: Outcomes \union {"none", "invalid", "unaudited", "adjusted", "failed"}]

EmptyFrame ==
    [owner |-> NoOwner, cause |-> "ok", balance |-> 0, original |-> NoRow,
     reply |-> "none"]

TxStatements ==
    {"insert", "fetchOriginal", "fetchAccount", "auditDuplicate",
     "update", "recheck", "readBack", "auditAccepted"}
InTx == TxStatements \union {"commit", "rollback"}
AdjustSteps == {"adjBegin", "adjUpdate", "adjRecheck", "adjRead"}
Ended == {"replied", "lost"}
Labels == {"idle", "lookup", "begin", "reject"} \union InTx \union AdjustSteps \union Ended

-----------------------------------------------------------------------------
(* Operators of the code *)

Valid(r) ==
    IF r.kind = "adjust" THEN r.points # 0
                         ELSE r.kind \in {"earn", "spend"} /\ r.points > 0

Authorized(r) == r.kind \in {"earn", "spend"} \/ r.user \in Admins

signedDelta(kind, points) == IF kind = "spend" THEN -points ELSE points

Delta(a) == signedDelta(req[a].kind, req[a].points)

(* Fault for mutation: the account read is not scoped to its owner. *)
AccountVisibleToAll(u, acc) == acc \in accounts

(* Row visibility of AccountRepository.GetByID. *)
AccountVisible(u, acc) == acc \in accounts /\ (u \in Admins \/ Owner[acc] = u)

(* Row visibility of TransactionRepository.GetByID. *)
TransactionVisible(u, row) == u \in Admins \/ row.owner = u

(* WHERE id = .. AND balance + .. >= 0 [AND owner_id = ..]: the wallet     *)
(* passes the owner it resolved, an administrator's call is not scoped.    *)
Guard(a) ==
    /\ req[a].account \in accounts
    /\ balance[req[a].account] + Delta(a) >= 0

(* CHECK (balance >= 0) and the range of BIGINT. *)
Storable(b) == b \in 0..MaxBalance

newRow(a) ==
    [id |-> a, account |-> req[a].account, owner |-> frame[a].owner,
     points |-> Delta(a), createdBy |-> req[a].user]

buildAuditEntry(a, outcome, reason, owner) ==
    [id |-> a, ref |-> req[a].ref, account |-> req[a].account, owner |-> owner,
     points |-> Delta(a), outcome |-> outcome, reason |-> reason,
     user |-> req[a].user]

RefFree(a) == inserting[req[a].ref] = Nobody
RowFree(a) == updating[req[a].account] = Nobody
ConnFree == Cardinality(conns) < PoolSize

(* End of a transaction, whichever way: its locks and its connection go.   *)
ReleasedRefs(a) == [r \in Refs |-> IF inserting[r] = a THEN Nobody ELSE inserting[r]]

ReleasedRows(a) ==
    [acc \in AccountIDs |-> IF updating[acc] = a THEN Nobody ELSE updating[acc]]

EndTx(a) ==
    /\ inserting' = ReleasedRefs(a)
    /\ updating' = ReleasedRows(a)
    /\ staged' = [staged EXCEPT ![a] = {}]
    /\ conns' = conns \ {a}

(* What a commit makes visible. *)
Publish(a) ==
    /\ ledger' = [r \in Refs |-> IF inserting[r] = a THEN newRow(a) ELSE ledger[r]]
    /\ balance' = [acc \in AccountIDs |->
                     IF updating[acc] = a THEN balance[acc] + Delta(a) ELSE balance[acc]]
    /\ audit' = audit \union staged[a]
    /\ UNCHANGED <<accounts, adjusted>>

Goto(a, label) == pc' = [pc EXCEPT ![a] = label]
SetFrame(a, f) == frame' = [frame EXCEPT ![a] = f]
Reply(a, r) == frame' = [frame EXCEPT ![a].reply = r]
Raise(a, label, cause) ==
    Goto(a, label) /\ frame' = [frame EXCEPT ![a].cause = cause]

-----------------------------------------------------------------------------
(* Initial state: a migrated database, accounts funded by administrators.  *)

Init ==
    /\ accounts = InitAccounts
    /\ balance = InitBalance
    /\ adjusted = InitBalance
    /\ ledger = [r \in Refs |-> NoRow]
    /\ audit = {}
    /\ inserting = [r \in Refs |-> Nobody]
    /\ updating = [acc \in AccountIDs |-> Nobody]
    /\ staged = [a \in Attempts |-> {}]
    /\ conns = {}
    /\ pc = [a \in Attempts |-> "idle"]
    /\ req = [a \in Attempts |-> NoRequest]
    /\ frame = [a \in Attempts |-> EmptyFrame]

(* AccountOpener.OpenAccount: one INSERT of a zero-balance row. *)
OpenAccount(acc) ==
    /\ acc \notin accounts
    /\ ConnFree
    /\ accounts' = accounts \union {acc}
    /\ UNCHANGED <<balance, adjusted, ledger, audit, session, conns, pc, req, frame>>

-----------------------------------------------------------------------------
(* ProcessTransaction *)

(* A request arrives and is validated; an invalid one is answered at once. *)
Receive(a, r) ==
    /\ pc[a] = "idle"
    /\ Authorized(r)
    /\ req' = [req EXCEPT ![a] = r]
    /\ \/ ~Valid(r) /\ Goto(a, "replied") /\ Reply(a, "invalid")
       \/ Valid(r) /\ Goto(a, IF r.kind = "adjust" THEN "adjBegin" ELSE "lookup")
                   /\ UNCHANGED frame
    /\ UNCHANGED <<durable, session, conns>>

(* Fault for mutation: the resolved owner is not kept. *)
LookupWithoutOwner(a) ==
    /\ pc[a] = "lookup"
    /\ ConnFree
    /\ Goto(a, "begin")
    /\ UNCHANGED <<durable, session, conns, req, frame>>

(* The scoped account read, on the pool. *)
LookupAccount(a) ==
    /\ pc[a] = "lookup"
    /\ ConnFree
    /\ \/ /\ AccountVisible(req[a].user, req[a].account)
          /\ Goto(a, "begin")
          /\ frame' = [frame EXCEPT ![a].owner = Owner[req[a].account]]
       \/ /\ ~AccountVisible(req[a].user, req[a].account)
          /\ Raise(a, "reject", "unknown")
    /\ UNCHANGED <<durable, session, conns, req>>

(* RunInTx opens the unit of work and keeps a connection until it ends. *)
BeginTx(a) ==
    /\ pc[a] = "begin"
    /\ ConnFree
    /\ conns' = conns \union {a}
    /\ Goto(a, "insert")
    /\ UNCHANGED <<durable, session, req, frame>>

(* Fault for mutation: SELECT by ref, then INSERT when there is no row. *)
CheckThenInsert(a) ==
    /\ pc[a] = "insert"
    /\ \/ /\ ledger[req[a].ref] # NoRow
          /\ Goto(a, "fetchOriginal")
          /\ UNCHANGED inserting
       \/ /\ ledger[req[a].ref] = NoRow
          /\ inserting' = [inserting EXCEPT ![req[a].ref] = a]
          /\ Goto(a, "update")
    /\ UNCHANGED <<durable, updating, staged, conns, req, frame>>

(* INSERT .. ON CONFLICT (ref) DO NOTHING: zero rows when the ref is       *)
(* recorded; waits while another open transaction has inserted it.         *)
InsertRow(a) ==
    /\ pc[a] = "insert"
    /\ \/ /\ ledger[req[a].ref] # NoRow
          /\ Goto(a, "fetchOriginal")
          /\ UNCHANGED inserting
       \/ /\ ledger[req[a].ref] = NoRow
          /\ RefFree(a)
          /\ inserting' = [inserting EXCEPT ![req[a].ref] = a]
          /\ Goto(a, "update")
    /\ UNCHANGED <<durable, updating, staged, conns, req, frame>>

(* The duplicate branch: the original row, read with the caller's scope. *)
FetchOriginal(a) ==
    /\ pc[a] = "fetchOriginal"
    /\ LET row == ledger[req[a].ref]
       IN  \/ /\ TransactionVisible(req[a].user, row)
              /\ Goto(a, "fetchAccount")
              /\ frame' = [frame EXCEPT ![a].original = row]
           \/ /\ ~TransactionVisible(req[a].user, row)
              /\ Raise(a, "rollback", "unknown")
    /\ UNCHANGED <<durable, session, conns, req>>

(* The balance of the account named by this request. *)
FetchAccount(a) ==
    /\ pc[a] = "fetchAccount"
    /\ \/ /\ AccountVisible(req[a].user, req[a].account)
          /\ Goto(a, "auditDuplicate")
          /\ frame' = [frame EXCEPT ![a].balance = balance[req[a].account]]
       \/ /\ ~AccountVisible(req[a].user, req[a].account)
          /\ Raise(a, "rollback", "unknown")
    /\ UNCHANGED <<durable, session, conns, req>>

AuditDuplicate(a) ==
    /\ pc[a] = "auditDuplicate"
    /\ staged' = [staged EXCEPT ![a] =
                    {buildAuditEntry(a, "duplicate", "duplicate", frame[a].owner)}]
    /\ Reply(a, "duplicate")
    /\ Goto(a, "commit")
    /\ UNCHANGED <<durable, inserting, updating, conns, req>>

(* The guarded UPDATE.  A row that fails the guard as committed is skipped *)
(* without waiting; one that passes is locked, after waiting for the       *)
(* transaction that holds it, and is tested again on its newest version.   *)
UpdateBalance(a) ==
    /\ pc[a] = "update"
    /\ LET b == balance[req[a].account] + Delta(a)
       IN  \/ /\ Guard(a) /\ Storable(b) /\ RowFree(a)
              /\ updating' = [updating EXCEPT ![req[a].account] = a]
              /\ Goto(a, "readBack")
              /\ UNCHANGED frame
           \/ /\ Guard(a) /\ ~Storable(b)
              /\ Raise(a, "rollback", "internal")
              /\ UNCHANGED updating
           \/ /\ ~Guard(a)
              /\ Goto(a, "recheck")
              /\ UNCHANGED <<updating, frame>>
    /\ UNCHANGED <<durable, inserting, staged, conns, req>>

(* Zero rows updated: read the row again to tell missing from too poor. *)
Recheck(a) ==
    /\ pc[a] = "recheck"
    /\ Raise(a, "rollback",
             IF req[a].account \in accounts THEN "insufficient"
                                            ELSE "unknown")
    /\ UNCHANGED <<durable, session, conns, req>>

(* Fault for mutation: the balance is read on the pool, before the commit. *)
ReadBackOutside(a) ==
    /\ pc[a] = "readBack"
    /\ frame' = [frame EXCEPT ![a].balance = balance[req[a].account]]
    /\ Goto(a, "auditAccepted")
    /\ UNCHANGED <<durable, session, conns, req>>

(* SELECT balance inside the unit of work: sees its own update. *)
ReadBack(a) ==
    /\ pc[a] = "readBack"
    /\ frame' = [frame EXCEPT ![a].balance = balance[req[a].account] + Delta(a)]
    /\ Goto(a, "auditAccepted")
    /\ UNCHANGED <<durable, session, conns, req>>

(* Fault for mutation: the accepted audit row is written on the pool. *)
AuditAcceptedOutside(a) ==
    /\ pc[a] = "auditAccepted"
    /\ audit' = audit \union {buildAuditEntry(a, "accepted", "ok", frame[a].owner)}
    /\ Reply(a, "accepted")
    /\ Goto(a, "commit")
    /\ UNCHANGED <<accounts, balance, adjusted, ledger, session, conns, req>>

AuditAccepted(a) ==
    /\ pc[a] = "auditAccepted"
    /\ staged' = [staged EXCEPT ![a] =
                    {buildAuditEntry(a, "accepted", "ok", frame[a].owner)}]
    /\ Reply(a, "accepted")
    /\ Goto(a, "commit")
    /\ UNCHANGED <<durable, inserting, updating, conns, req>>

Commit(a) ==
    /\ pc[a] = "commit"
    /\ Publish(a)
    /\ EndTx(a)
    /\ Goto(a, "replied")
    /\ UNCHANGED <<req, frame>>

(* Faults for mutation: the failed unit of work is committed, or left open *)
(* while the rejected audit row is written.                                *)
RollbackCommits(a) ==
    /\ pc[a] = "rollback"
    /\ Publish(a)
    /\ EndTx(a)
    /\ Goto(a, "reject")
    /\ UNCHANGED <<req, frame>>

RollbackDeferred(a) ==
    /\ pc[a] = "rollback"
    /\ Goto(a, "reject")
    /\ UNCHANGED <<durable, session, conns, req, frame>>

Rollback(a) ==
    /\ pc[a] = "rollback"
    /\ EndTx(a)
    /\ Goto(a, "reject")
    /\ UNCHANGED <<durable, req, frame>>

(* rejectTransaction: the rejected audit row, on the pool. *)
RejectTransaction(a) ==
    /\ pc[a] = "reject"
    /\ ConnFree
    /\ audit' = audit \union
         {buildAuditEntry(a, "rejected", frame[a].cause, frame[a].owner)}
    /\ Reply(a, "rejected")
    /\ Goto(a, "replied")
    /\ UNCHANGED <<accounts, balance, adjusted, ledger, session, conns, req>>

-----------------------------------------------------------------------------
(* AccountService.UpdateAccountBalance: the same repository call without a *)
(* unit of work, so each statement commits by itself.                      *)

AdjustBegin(a) ==
    /\ pc[a] = "adjBegin"
    /\ ConnFree
    /\ conns' = conns \union {a}
    /\ Goto(a, "adjUpdate")
    /\ UNCHANGED <<durable, session, req, frame>>

(* Fault for mutation: the floor is tested by a SELECT, which waits for    *)
(* nobody, and not by the UPDATE.                                          *)
AdjustAfterSelect(a) ==
    LET acc == req[a].account
        b   == balance[acc] + Delta(a)
    IN  /\ Guard(a) /\ Storable(b)
        /\ balance' = [balance EXCEPT ![acc] = b]
        /\ adjusted' = [adjusted EXCEPT ![acc] = @ + Delta(a)]

(* The UPDATE takes effect, once no open transaction holds the row. *)
AdjustApplies(a) ==
    LET acc == req[a].account
        b   == balance[acc] + Delta(a)
    IN  /\ Guard(a) /\ Storable(b) /\ RowFree(a)
        /\ balance' = [balance EXCEPT ![acc] = b]
        /\ adjusted' = [adjusted EXCEPT ![acc] = @ + Delta(a)]

AdjustUpdate(a) ==
    /\ pc[a] = "adjUpdate"
    /\ \/ /\ AdjustApplies(a)
          /\ Goto(a, "adjRead")
          /\ UNCHANGED frame
       \/ /\ Guard(a) /\ ~Storable(balance[req[a].account] + Delta(a))
          /\ Goto(a, "replied") /\ Reply(a, "failed")
          /\ UNCHANGED <<balance, adjusted>>
       \/ /\ ~Guard(a)
          /\ Goto(a, "adjRecheck")
          /\ UNCHANGED <<balance, adjusted, frame>>
    /\ conns' = conns \ {a}
    /\ UNCHANGED <<accounts, ledger, audit, session, req>>

AdjustRecheck(a) ==
    /\ pc[a] = "adjRecheck"
    /\ ConnFree
    /\ SetFrame(a, [frame[a] EXCEPT
         !.cause = IF req[a].account \in accounts THEN "insufficient"
                                                  ELSE "unknown",
         !.reply = "failed"])
    /\ Goto(a, "replied")
    /\ UNCHANGED <<durable, session, conns, req>>

AdjustRead(a) ==
    /\ pc[a] = "adjRead"
    /\ ConnFree
    /\ SetFrame(a, [frame[a] EXCEPT
         !.balance = balance[req[a].account], !.reply = "adjusted"])
    /\ Goto(a, "replied")
    /\ UNCHANGED <<durable, session, conns, req>>

-----------------------------------------------------------------------------
(* Failures *)

(* A statement inside the unit of work fails: a cancelled context, a       *)
(* timeout while waiting for a lock, a lost connection.                    *)
TxStatementFails(a) ==
    /\ "statement" \in Faults
    /\ pc[a] \in TxStatements
    /\ Raise(a, "rollback", "internal")
    /\ UNCHANGED <<durable, session, conns, req>>

(* Fault for mutation: the error of the rejected audit row is ignored. *)
AuditErrorIgnored(a) ==
    /\ "statement" \in Faults
    /\ pc[a] = "reject" /\ Goto(a, "replied") /\ Reply(a, "rejected")
    /\ conns' = conns \ {a}
    /\ UNCHANGED <<durable, session, req>>

(* A statement on the pool fails, or the wait for a connection does.  When *)
(* it is the rejected audit row, the call ends without one.                *)
PoolStatementFails(a) ==
    /\ "statement" \in Faults
    /\ \/ pc[a] \in {"lookup", "begin"} /\ Raise(a, "reject", "internal")
       \/ pc[a] = "reject" /\ Goto(a, "replied") /\ Reply(a, "unaudited")
       \/ pc[a] \in AdjustSteps /\ Goto(a, "replied") /\ Reply(a, "failed")
    /\ conns' = conns \ {a}
    /\ UNCHANGED <<durable, session, req>>

(* Fault for mutation: RunInTx drops the error of Commit. *)
CommitErrorDropped(a) ==
    /\ "commit" \in Faults
    /\ pc[a] = "commit"
    /\ EndTx(a)
    /\ Goto(a, "replied")
    /\ UNCHANGED <<durable, req, frame>>

(* The answer to COMMIT is an error; Postgres committed or it did not. *)
CommitFails(a) ==
    /\ "commit" \in Faults
    /\ pc[a] = "commit"
    /\ \/ Publish(a)
       \/ UNCHANGED durable
    /\ EndTx(a)
    /\ Raise(a, "reject", "internal")
    /\ UNCHANGED req

(* The same for the self-committing UPDATE: applied, and answered with an  *)
(* error.                                                                  *)
AdjustUnacknowledged(a) ==
    /\ "commit" \in Faults
    /\ pc[a] = "adjUpdate"
    /\ AdjustApplies(a)
    /\ Goto(a, "replied") /\ Reply(a, "failed")
    /\ conns' = conns \ {a}
    /\ UNCHANGED <<accounts, ledger, audit, session, req>>

(* The server dies: its calls are gone, Postgres drops their transactions. *)
Crash ==
    /\ "crash" \in Faults
    /\ \E a \in Attempts : pc[a] \notin Ended \union {"idle"}
    /\ pc' = [a \in Attempts |-> IF pc[a] \in Ended \union {"idle"} THEN pc[a] ELSE "lost"]
    /\ inserting' = [r \in Refs |-> Nobody]
    /\ updating' = [acc \in AccountIDs |-> Nobody]
    /\ staged' = [a \in Attempts |-> {}]
    /\ conns' = {}
    /\ UNCHANGED <<durable, req, frame>>

-----------------------------------------------------------------------------

Progress(a) ==
    \/ LookupAccount(a)
    \/ BeginTx(a)
    \/ InsertRow(a)
    \/ FetchOriginal(a)
    \/ FetchAccount(a)
    \/ AuditDuplicate(a)
    \/ UpdateBalance(a)
    \/ Recheck(a)
    \/ ReadBack(a)
    \/ AuditAccepted(a)
    \/ Commit(a)
    \/ Rollback(a)
    \/ RejectTransaction(a)
    \/ AdjustBegin(a)
    \/ AdjustUpdate(a)
    \/ AdjustRecheck(a)
    \/ AdjustRead(a)

(* Every call has ended. *)
Quiet ==
    /\ \A a \in Attempts : pc[a] \in Ended
    /\ UNCHANGED vars

Next ==
    \/ \E acc \in AccountIDs : OpenAccount(acc)
    \/ \E a \in Attempts, r \in Requests : Receive(a, r)
    \/ \E a \in Attempts :
          \/ Progress(a)
          \/ TxStatementFails(a) \/ PoolStatementFails(a)
          \/ CommitFails(a) \/ AdjustUnacknowledged(a)
    \/ Crash
    \/ Quiet

(* Goroutines are scheduled, Postgres serves its lock queues and           *)
(* database/sql its queue for connections: a call that can go on, does.    *)
Fairness == \A a \in Attempts : WF_vars(Progress(a))

Spec == Init /\ [][Next]_vars
FairSpec == Spec /\ Fairness

-----------------------------------------------------------------------------
(* Invariants *)

TypeOK ==
    /\ accounts \subseteq AccountIDs
    /\ balance \in [AccountIDs -> Int]
    /\ adjusted \in [AccountIDs -> Int]
    /\ ledger \in [Refs -> RowType \union {NoRow}]
    /\ audit \subseteq EntryType
    /\ inserting \in [Refs -> Attempts \union {Nobody}]
    /\ updating \in [AccountIDs -> Attempts \union {Nobody}]
    /\ staged \in [Attempts -> SUBSET EntryType]
    /\ conns \subseteq Attempts
    /\ pc \in [Attempts -> Labels]
    /\ req \in [Attempts -> RequestType \union {NoRequest}]
    /\ frame \in [Attempts -> FrameType]

(* A call inside its unit of work has a request on an open account it may  *)
(* use, and the owner it stamps on its rows is that account's.             *)
CallsResolved ==
    \A a \in Attempts :
        /\ pc[a] # "idle" => req[a] \in RequestType
        /\ pc[a] \in InTx \union {"begin"} =>
              /\ AccountVisible(req[a].user, req[a].account)
              /\ frame[a].owner = Owner[req[a].account]

(* The locks that make the unit of work safe are held from the statement   *)
(* that takes them to the end of the transaction, and what the statement   *)
(* found stays true meanwhile: the ref is unrecorded, and the tested       *)
(* balance is still there (the order insert, update, audit, commit in      *)
(* ProcessTransaction).                                                    *)
RefLocks ==
    \A r \in Refs : inserting[r] # Nobody =>
        /\ pc[inserting[r]] \in {"update", "recheck", "readBack",
                                 "auditAccepted", "commit", "rollback"}
        /\ req[inserting[r]].ref = r
        /\ ledger[r] = NoRow

RowLocks ==
    \A acc \in AccountIDs : updating[acc] # Nobody =>
        /\ pc[updating[acc]] \in {"readBack", "auditAccepted", "commit", "rollback"}
        /\ req[updating[acc]].account = acc
        /\ Storable(balance[acc] + Delta(updating[acc]))

Accepting(a) ==
    \/ pc[a] \in {"readBack", "auditAccepted"}
    \/ pc[a] = "commit" /\ frame[a].reply = "accepted"

LocksHeld ==
    \A a \in Attempts :
        /\ pc[a] \in {"update", "recheck"} \/ Accepting(a) =>
              inserting[req[a].ref] = a
        /\ Accepting(a) => updating[req[a].account] = a
        /\ pc[a] = "commit" /\ frame[a].reply # "accepted" =>
              /\ \A r \in Refs : inserting[r] # a
              /\ \A acc \in AccountIDs : updating[acc] # a

LockDiscipline == RefLocks /\ RowLocks /\ LocksHeld

(* The audit rows of an open transaction are the one its response stands   *)
(* for, and a duplicate's ref is recorded.                                 *)
StagedEntries ==
    \A a \in Attempts :
        /\ pc[a] # "commit" => staged[a] = {}
        /\ pc[a] = "commit" =>
              \/ /\ frame[a].reply = "accepted"
                 /\ staged[a] = {buildAuditEntry(a, "accepted", "ok", frame[a].owner)}
              \/ /\ frame[a].reply = "duplicate"
                 /\ staged[a] = {buildAuditEntry(a, "duplicate", "duplicate", frame[a].owner)}
                 /\ ledger[req[a].ref] # NoRow
        /\ pc[a] \in {"fetchOriginal", "fetchAccount", "auditDuplicate"} =>
              /\ ledger[req[a].ref] # NoRow
              /\ \A r \in Refs : inserting[r] # a

(* A call has no audit row before its transaction ends, and no rejected    *)
(* one before rejectTransaction writes it.                                 *)
AuditOnce ==
    \A e \in audit :
        /\ pc[e.id] \in Ended \union {"reject"}
        /\ pc[e.id] = "reject" => e.outcome # "rejected"

IInv ==
    TypeOK /\ CallsResolved /\ LockDiscipline /\ StagedEntries /\ AuditOnce

(* No interleaving of spends, earns and adjustments leaves a balance below *)
(* zero (or beyond BIGINT): the test an UPDATE made still holds when its   *)
(* transaction commits (accountRepositoryImpl.go, UpdateAccountBalance).   *)
BalanceFloor == \A acc \in AccountIDs : Storable(balance[acc])

LedgerRows(acc) == {r \in Refs : ledger[r] # NoRow /\ ledger[r].account = acc}

LedgerSum(acc) == MapThenSumSet(LAMBDA r : ledger[r].points, LedgerRows(acc))

(* The balance of an account is the sum of its ledger rows and of its      *)
(* off-ledger adjustments: no accepted ref counts twice or not at all      *)
(* (the ledger insert and the balance update are one unit of work).        *)
Conservation == \A acc \in AccountIDs : balance[acc] = adjusted[acc] + LedgerSum(acc)

(* transaction.go: "SUM(points) over an account's transactions equals its  *)
(* balance".  The code lets an administrator move a balance without a row. *)
LedgerSumIsBalance == \A acc \in AccountIDs : balance[acc] = LedgerSum(acc)

(* Every ledger row has exactly its accepted audit row, and every accepted *)
(* audit row its ledger row: the two commit together or not at all         *)
(* (walletServiceImpl.go, the unit of work).                               *)
LedgerAudited ==
    /\ \A r \in Refs : ledger[r] # NoRow =>
          \E e \in audit : /\ e.outcome = "accepted" /\ e.ref = r
                           /\ e.id = ledger[r].id
                           /\ e.account = ledger[r].account
                           /\ e.points = ledger[r].points
    /\ \A e \in audit : e.outcome = "accepted" =>
          ledger[e.ref] # NoRow /\ ledger[e.ref].id = e.id

(* What a caller was told lasts: an accepted or duplicate response means   *)
(* the ref is recorded, by this call or by the original it was shown, even *)
(* after a crash (ProcessTransaction returns only what it committed).      *)
AcknowledgedDurable ==
    \A a \in Attempts : pc[a] = "replied" =>
        /\ frame[a].reply = "accepted" => ledger[req[a].ref] = newRow(a)
        /\ frame[a].reply = "duplicate" =>
              ledger[req[a].ref] = frame[a].original /\ frame[a].original # NoRow

(* A response and the audit trail agree: accepted, duplicate and rejected  *)
(* responses each have their audit row, whatever failed on the way         *)
(* (ProcessTransaction and rejectTransaction).                             *)
RepliedAudited ==
    \A a \in Attempts : pc[a] = "replied" /\ frame[a].reply \in Outcomes =>
        \E e \in audit : e.id = a /\ e.outcome = frame[a].reply

(* A call answered with an error recorded nothing in the ledger: its ref   *)
(* stays free for a retry (walletServiceImpl.go, "the unit of work rolled  *)
(* back").                                                                 *)
RejectedRolledBack ==
    \A a \in Attempts, r \in Refs :
        pc[a] = "replied" /\ frame[a].reply \in {"rejected", "unaudited"} =>
            ledger[r] = NoRow \/ ledger[r].id # a

(* A member's calls touch the member's accounts only, and a member is      *)
(* shown no other owner's row, although the ref space is shared by all     *)
(* (the scoped reads of ProcessTransaction).                               *)
OwnScope ==
    /\ \A r \in Refs : ledger[r] # NoRow =>
          /\ ledger[r].owner = Owner[ledger[r].account]
          /\ ledger[r].createdBy \in Admins \union {ledger[r].owner}
    /\ \A a \in Attempts :
          frame[a].original # NoRow =>
              req[a].user \in Admins \union {frame[a].original.owner}

(* A call that waits for a connection holds none, and no lock; a call that *)
(* holds a row lock waits for no other lock.  So waiting calls cannot form *)
(* a cycle (RunInTx, and the repositories taking the executor from the     *)
(* context).                                                               *)
NoHoldAndWait ==
    /\ \A a \in Attempts :
          pc[a] \in {"lookup", "begin", "reject", "adjBegin", "adjRecheck", "adjRead"} =>
              /\ a \notin conns
              /\ \A r \in Refs : inserting[r] # a
              /\ \A acc \in AccountIDs : updating[acc] # a
    /\ \A acc \in AccountIDs :
          updating[acc] # Nobody => pc[updating[acc]] \notin {"insert", "update"}

(* The balance an accepted response reports is the balance its own commit  *)
(* leaves, not one that others' concurrent commits have moved on           *)
(* (UpdateAccountBalance reads it back inside the unit of work).           *)
AcceptedBalanceExact ==
    [][\A a \in Attempts :
          pc[a] = "commit" /\ pc'[a] = "replied" /\ frame[a].reply = "accepted" =>
              balance'[req[a].account] = frame[a].balance]_vars

(* Every call that starts is answered, or dies with the server: no wait    *)
(* for a ref, a row or a connection is forever (ProcessTransaction,        *)
(* UpdateAccountBalance).                                                  *)
EveryCallEnds ==
    \A a \in Attempts : pc[a] \notin Ended \union {"idle"} ~> pc[a] \in Ended

(* The wallet implements the abstract ledger: the tables change only by    *)
(* opening, accepting, noting or adjusting, each in one step.              *)
Abstract == INSTANCE PointsLedger
    WITH accounts <- accounts, balance <- balance, adjusted <- adjusted,
         ledger <- ledger, audit <- audit

ImplementsLedger == Abstract!Spec
=============================================================================
