------------------------- MODULE WalletTrailProofs --------------------------
(***************************************************************************)
(* Theorems about Wallet that relate the ledger, the audit trail, the      *)
(* connections and what the callers were told, for all constants.  They    *)
(* rest on the inductive invariant of WalletProofs.                        *)
(***************************************************************************)
EXTENDS WalletProofs

(* A call that answers, or is about to answer, with the row it found. *)
ShowsOriginal(c) ==
    \/ pc[c] \in {"fetchAccount", "auditDuplicate"}
    \/ pc[c] \in {"commit", "replied"} /\ frame[c].reply = "duplicate"

(* A call that has read back the balance its commit will leave. *)
HasReadBack(c) ==
    pc[c] = "auditAccepted" \/ (pc[c] = "commit" /\ frame[c].reply = "accepted")

(* What the locals and the response of a call say of the tables. *)
Told(c) ==
    /\ pc[c] = "idle" => frame[c].original = NoRow
    /\ frame[c].original # NoRow =>
          req[c].user \in Admins \union {frame[c].original.owner}
    /\ ShowsOriginal(c) =>
          frame[c].original # NoRow /\ ledger[req[c].ref] = frame[c].original
    /\ pc[c] = "replied" /\ frame[c].reply = "accepted" =>
          ledger[req[c].ref] = newRow(c) /\ newRow(c) # NoRow
    /\ pc[c] = "replied" /\ frame[c].reply \in Outcomes =>
          \E e \in audit : e.id = c /\ e.outcome = frame[c].reply
    /\ HasReadBack(c) => frame[c].balance = balance[req[c].account] + Delta(c)
    /\ c \in conns => pc[c] \in InTx \union {"adjUpdate"}

(* What the rows of the ledger say of each other and of the audit trail. *)
RowScoped(r) ==
    ledger[r] # NoRow =>
        /\ ledger[r].owner = Owner[ledger[r].account]
        /\ ledger[r].createdBy \in Admins \union {ledger[r].owner}

RowAudited(r) ==
    ledger[r] # NoRow =>
        \E e \in audit : /\ e.outcome = "accepted" /\ e.ref = r
                         /\ e.id = ledger[r].id
                         /\ e.account = ledger[r].account
                         /\ e.points = ledger[r].points

AcceptedRecorded(e) ==
    e.outcome = "accepted" => ledger[e.ref] # NoRow /\ ledger[e.ref].id = e.id

Recorded ==
    /\ \A r \in Refs : RowScoped(r) /\ RowAudited(r)
    /\ \A e \in audit : AcceptedRecorded(e)

TrailInv == IInv /\ Recorded /\ \A c \in Attempts : Told(c)

-----------------------------------------------------------------------------
(* Effects of a step on the durable tables. *)

(* The audit row a commit publishes.                                       *)
Entry(a) ==
    IF frame[a].reply = "accepted"
    THEN buildAuditEntry(a, "accepted", "ok", frame[a].owner)
    ELSE buildAuditEntry(a, "duplicate", "duplicate", frame[a].owner)

(* What the commit of the unit of work does to the tables: an accepted     *)
(* call records its free ref and moves its balance, a duplicate only       *)
(* leaves its audit row.                                                   *)
LEMMA PublishEffect ==
    ASSUME IInv, NEW a \in Attempts, pc[a] = "commit", Publish(a)
    PROVE  /\ audit' = audit \union {Entry(a)}
           /\ frame[a].reply = "accepted" =>
                 /\ ledger[req[a].ref] = NoRow
                 /\ ledger' = [ledger EXCEPT ![req[a].ref] = newRow(a)]
                 /\ balance' = [balance EXCEPT ![req[a].account] =
                                   balance[req[a].account] + Delta(a)]
           /\ frame[a].reply # "accepted" =>
                 frame[a].reply = "duplicate" /\ ledger' = ledger /\ balance' = balance
<1>1. /\ req[a] \in RequestType /\ req[a].ref \in Refs /\ req[a].account \in AccountIDs
  BY DeltaType DEF IInv, CallsResolved
<1>2. CASE frame[a].reply = "accepted"
  <2>1. audit' = audit \union {Entry(a)}
    BY <1>2 DEF IInv, StagedEntries, Publish, Entry
  <2>2. /\ inserting[req[a].ref] = a /\ \A x \in Refs : inserting[x] = a => x = req[a].ref
        /\ ledger[req[a].ref] = NoRow
    BY <1>1, <1>2, NullsAssumption DEF IInv, LockDiscipline, RefLocks, LocksHeld, Accepting
  <2>3. /\ updating[req[a].account] = a
        /\ \A x \in AccountIDs : updating[x] = a => x = req[a].account
    BY <1>1, <1>2, NullsAssumption DEF IInv, LockDiscipline, RowLocks, LocksHeld, Accepting
  <2>4. ledger' = [ledger EXCEPT ![req[a].ref] = newRow(a)]
    BY <1>1, <2>2 DEF Publish, IInv, TypeOK
  <2>5. balance' = [balance EXCEPT ![req[a].account] = balance[req[a].account] + Delta(a)]
    BY <1>1, <2>3 DEF Publish, IInv, TypeOK
  <2> QED
    BY <1>2, <2>1, <2>2, <2>4, <2>5
<1>3. CASE frame[a].reply # "accepted"
  <2>1. audit' = audit \union {Entry(a)} /\ frame[a].reply = "duplicate"
    BY <1>3 DEF IInv, StagedEntries, Publish, Entry
  <2>2. ledger' = ledger /\ balance' = balance
    BY <1>3 DEF Publish, IInv, TypeOK, LockDiscipline, LocksHeld
  <2> QED
    BY <1>3, <2>1, <2>2
<1> QED
  BY <1>2, <1>3

(* A row that another call has locked keeps its balance. *)
LEMMA LockedBalanceKept ==
    ASSUME IInv, [Next]_vars, NEW c \in Attempts, NEW acc \in AccountIDs,
           updating[acc] = c, pc'[c] = pc[c], pc[c] \notin Ended
    PROVE  balance'[acc] = balance[acc]
<1>a. TypeOK
  BY DEF IInv
<1>1. ASSUME NEW a \in Attempts, Publish(a), pc[a] = "commit", pc'[a] # "commit"
      PROVE  balance'[acc] = balance[acc]
  BY <1>1, <1>a DEF Publish, TypeOK
<1>2. ASSUME NEW a \in Attempts, AdjustApplies(a)
      PROVE  balance'[acc] = balance[acc]
  <2>1. req[a].account # acc
    BY <1>2, NullsAssumption DEF AdjustApplies, RowFree
  <2> QED
    BY <1>2, <2>1, <1>a DEF AdjustApplies, TypeOK
<1>3. \/ UNCHANGED balance
      \/ \E a \in Attempts : AdjustApplies(a)
      \/ \E a \in Attempts : Publish(a) /\ pc[a] = "commit" /\ (Goto(a, "replied") \/ Goto(a, "reject"))
  BY DEF Next, Progress, Quiet, vars, OpenAccount, Receive, LookupAccount, BeginTx, InsertRow,
     FetchOriginal, FetchAccount, AuditDuplicate, UpdateBalance, Recheck, ReadBack, AuditAccepted,
     Commit, Rollback, RejectTransaction, AdjustBegin, AdjustUpdate, AdjustRecheck, AdjustRead,
     TxStatementFails, PoolStatementFails, CommitFails, AdjustUnacknowledged, Crash, durable, Raise
<1> QED
  BY <1>a, <1>1, <1>2, <1>3, GotoAt

(* The audit trail only grows. *)
LEMMA AuditGrows == [Next]_vars => audit \subseteq audit'
BY DEF Next, Progress, Quiet, vars, OpenAccount, Receive, LookupAccount, BeginTx, InsertRow,
   FetchOriginal, FetchAccount, AuditDuplicate, UpdateBalance, Recheck, ReadBack, AuditAccepted,
   Commit, Rollback, RejectTransaction, AdjustBegin, AdjustUpdate, AdjustRecheck, AdjustRead,
   TxStatementFails, PoolStatementFails, CommitFails, AdjustUnacknowledged, Crash, durable,
   Publish

-----------------------------------------------------------------------------
(* What the calls were told. *)

(* A call that a step leaves where it is has been told nothing wrong by it. *)
LEMMA ToldOthers ==
    ASSUME TrailInv, [Next]_vars, NEW c \in Attempts,
           pc'[c] = pc[c], frame'[c] = frame[c], req'[c] = req[c],
           c \in conns' => c \in conns
    PROVE  Told(c)'
<1>1. Told(c) /\ IInv
  BY DEF TrailInv
<1>2. pc[c] # "idle" => req[c].ref \in Refs /\ req[c].account \in AccountIDs
  BY <1>1, DeltaType DEF IInv, CallsResolved
<1>3. newRow(c)' = newRow(c) /\ Delta(c)' = Delta(c)
  BY DEF newRow, Delta
<1>4. pc[c] # "idle" /\ ledger[req[c].ref] # NoRow => ledger'[req[c].ref] = ledger[req[c].ref]
  BY <1>1, <1>2, LedgerGrows
<1>5. HasReadBack(c) => balance'[req[c].account] = balance[req[c].account]
  <2>1. HasReadBack(c) => updating[req[c].account] = c /\ pc[c] \notin Ended \union {"idle"}
    BY <1>1 DEF HasReadBack, IInv, LockDiscipline, LocksHeld, Accepting, Ended
  <2> QED
    BY <1>1, <1>2, <2>1, LockedBalanceKept
<1>6. audit \subseteq audit'
  BY AuditGrows
<1> QED
  BY <1>1, <1>3, <1>4, <1>5, <1>6 DEF Told, ShowsOriginal, HasReadBack

(* Labels at which a call has nothing to say yet. *)
Silent ==
    Labels \ {"idle", "fetchAccount", "auditDuplicate", "auditAccepted", "commit", "replied"}

LEMMA ToldSilent ==
    ASSUME TrailInv, NEW a \in Attempts, pc'[a] \in Silent, req' = req,
           frame'[a].original = frame[a].original,
           a \in conns' => pc'[a] \in InTx \union {"adjUpdate"}
    PROVE  Told(a)'
BY DEF TrailInv, Told, ShowsOriginal, HasReadBack, Silent

(* An answer that claims nothing about the tables. *)
LEMMA ToldFailure ==
    ASSUME TrailInv, NEW a \in Attempts, pc'[a] = "replied", a \notin conns',
           frame'[a].reply \in {"invalid", "unaudited", "failed", "adjusted"},
           \/ frame'[a].original = NoRow
           \/ frame'[a].original = frame[a].original /\ req' = req
    PROVE  Told(a)'
BY DEF TrailInv, Told, ShowsOriginal, HasReadBack, Outcomes

LEMMA ReceiveTold ==
    ASSUME TrailInv, [Next]_vars, NEW a \in Attempts, NEW r \in Requests, Receive(a, r)
    PROVE  \A c \in Attempts : Told(c)'
<1>1. TypeOK
  BY DEF TrailInv, IInv
<1>2. /\ pc[a] = "idle" /\ frame'[a].original = frame[a].original
      /\ pc'[a] \in {"replied", "adjBegin", "lookup"} /\ conns' = conns
  BY <1>1, ReceiveAt
<1>3. pc'[a] = "replied" => frame'[a].reply = "invalid"
  <2>1. CASE Goto(a, "replied") /\ Reply(a, "invalid")
    BY <1>1, <2>1, ReplyAt
  <2>2. CASE Goto(a, IF r.kind = "adjust" THEN "adjBegin" ELSE "lookup")
    BY <1>1, <2>2, GotoAt
  <2> QED
    BY <2>1, <2>2 DEF Receive
<1>4. frame'[a].original = NoRow /\ a \notin conns'
  BY <1>2 DEF TrailInv, Told, InTx, TxStatements
<1>5. Told(a)'
  BY <1>2, <1>3, <1>4 DEF Told, ShowsOriginal, HasReadBack, Outcomes
<1> QED
  BY <1>1, <1>2, <1>5, ReceiveAt, ToldOthers

LEMMA ReadsTold ==
    ASSUME TrailInv, NEW a \in Attempts,
           FetchOriginal(a) \/ FetchAccount(a) \/ AuditDuplicate(a)
    PROVE  Told(a)'
<1>1. TypeOK /\ Told(a) /\ IInv
  BY DEF TrailInv, IInv
<1>2. /\ pc[a] \in {"fetchOriginal", "fetchAccount", "auditDuplicate"}
      /\ UNCHANGED <<req, conns, ledger, balance, audit>>
  BY DEF FetchOriginal, FetchAccount, AuditDuplicate, durable
<1>3. CASE Raise(a, "rollback", "unknown")
  BY <1>1, <1>2, <1>3, RaiseAt, ToldSilent, LabelsList DEF Silent, InTx
<1>4. CASE /\ pc[a] = "fetchOriginal" /\ Goto(a, "fetchAccount")
           /\ TransactionVisible(req[a].user, ledger[req[a].ref])
           /\ frame' = [frame EXCEPT ![a].original = ledger[req[a].ref]]
  <2>1. frame'[a].original = ledger[req[a].ref]
    BY <1>1, <1>4 DEF TypeOK, FrameType
  <2>2. ledger[req[a].ref] # NoRow
    BY <1>1, <1>4 DEF IInv, StagedEntries
  <2> QED
    BY <1>1, <1>2, <1>4, <2>1, <2>2, GotoAt
    DEF Told, ShowsOriginal, HasReadBack, TransactionVisible, InTx, TxStatements
<1>5. CASE /\ pc[a] = "fetchAccount" /\ Goto(a, "auditDuplicate")
           /\ frame' = [frame EXCEPT ![a].balance = balance[req[a].account]]
  <2>1. frame'[a].original = frame[a].original
    BY <1>1, <1>5 DEF TypeOK, FrameType
  <2> QED
    BY <1>1, <1>2, <1>5, <2>1, GotoAt DEF Told, ShowsOriginal, HasReadBack, InTx, TxStatements
<1>6. CASE pc[a] = "auditDuplicate" /\ Reply(a, "duplicate") /\ Goto(a, "commit")
  BY <1>1, <1>2, <1>6, GotoAt, ReplyAt DEF Told, ShowsOriginal, HasReadBack, InTx
<1> QED
  BY <1>3, <1>4, <1>5, <1>6 DEF FetchOriginal, FetchAccount, AuditDuplicate

LEMMA AcceptsTold ==
    ASSUME TrailInv, NEW a \in Attempts, ReadBack(a) \/ AuditAccepted(a)
    PROVE  Told(a)'
<1>1. TypeOK /\ Told(a) /\ IInv
  BY DEF TrailInv, IInv
<1>2. UNCHANGED <<req, conns, ledger, balance, audit>>
  BY DEF ReadBack, AuditAccepted, durable
<1>3. Delta(a)' = Delta(a)
  BY <1>2 DEF Delta
<1>4. CASE ReadBack(a)
  <2>1. /\ frame'[a].original = frame[a].original
        /\ frame'[a].balance = balance[req[a].account] + Delta(a)
    BY <1>1, <1>4 DEF ReadBack, TypeOK, FrameType
  <2>2. pc'[a] = "auditAccepted"
    BY <1>1, <1>4, GotoAt DEF ReadBack
  <2> QED
    BY <1>1, <1>2, <1>3, <2>1, <2>2 DEF Told, ShowsOriginal, HasReadBack, InTx, TxStatements
<1>5. CASE AuditAccepted(a)
  <2>1. /\ pc[a] = "auditAccepted" /\ pc'[a] = "commit" /\ frame'[a].reply = "accepted"
        /\ frame'[a].original = frame[a].original /\ frame'[a].balance = frame[a].balance
    BY <1>1, <1>5, GotoAt, ReplyAt DEF AuditAccepted
  <2> QED
    BY <1>1, <1>2, <1>3, <2>1 DEF Told, ShowsOriginal, HasReadBack, InTx
<1> QED
  BY <1>4, <1>5

LEMMA CommitTold ==
    ASSUME TrailInv, NEW a \in Attempts, Commit(a)
    PROVE  Told(a)'
<1>1. TypeOK /\ Told(a) /\ IInv /\ pc[a] = "commit" /\ Publish(a)
  BY DEF TrailInv, IInv, Commit
<1>2. pc'[a] = "replied" /\ frame' = frame /\ req' = req /\ a \notin conns'
  BY <1>1, GotoAt DEF Commit, EndTx
<1>3. newRow(a)' = newRow(a)
  BY <1>2 DEF newRow, Delta
<1>4. Entry(a) \in audit' /\ Entry(a).id = a
      /\ (frame[a].reply \in Outcomes => Entry(a).outcome = frame[a].reply)
  BY <1>1, PublishEffect DEF Entry, buildAuditEntry
<1>5. CASE frame[a].reply = "accepted"
  <2>1. req[a] \in RequestType /\ req[a].ref \in Refs
    BY <1>1, DeltaType DEF IInv, CallsResolved
  <2>2. frame[a].owner \in Users
    BY <1>1, <2>1, ConstantsAssumption, DeltaType DEF IInv, CallsResolved, InTx
  <2>3. newRow(a) # NoRow
    BY <2>1, <2>2, RowTyped, NoRowAssumption
  <2>4. ledger'[req[a].ref] = newRow(a)
    BY <1>1, <1>5, <2>1, PublishEffect DEF TypeOK
  <2> QED
    BY <1>1, <1>2, <1>3, <1>4, <1>5, <2>3, <2>4 DEF Told, ShowsOriginal, HasReadBack
<1>6. CASE frame[a].reply # "accepted"
  BY <1>1, <1>2, <1>4, <1>6, PublishEffect DEF Told, ShowsOriginal, HasReadBack
<1> QED
  BY <1>5, <1>6

LEMMA RejectTold ==
    ASSUME TrailInv, NEW a \in Attempts, RejectTransaction(a)
    PROVE  Told(a)'
<1> DEFINE entry == buildAuditEntry(a, "rejected", frame[a].cause, frame[a].owner)
<1>1. TypeOK /\ Told(a)
  BY DEF TrailInv, IInv
<1>2. /\ pc[a] = "reject" /\ pc'[a] = "replied" /\ frame'[a].reply = "rejected"
      /\ frame'[a].original = frame[a].original /\ req' = req /\ conns' = conns
  BY <1>1, GotoAt, ReplyAt DEF RejectTransaction
<1>3. entry \in audit'
  BY DEF RejectTransaction
<1>4. entry.id = a /\ entry.outcome = "rejected"
  BY DEF buildAuditEntry
<1> HIDE DEF entry
<1> QED
  BY <1>1, <1>2, <1>3, <1>4 DEF Told, ShowsOriginal, HasReadBack, InTx, TxStatements

LEMMA AdjustAnswer ==
    ASSUME TypeOK, NEW a \in Attempts, AdjustRecheck(a) \/ AdjustRead(a)
    PROVE  frame'[a].original = frame[a].original /\ frame'[a].reply \in {"failed", "adjusted"}
<1>1. a \in DOMAIN frame /\ frame[a] \in FrameType
  BY DEF TypeOK
<1>2. ASSUME NEW cause, frame' = [frame EXCEPT ![a] =
                   [frame[a] EXCEPT !.cause = cause, !.reply = "failed"]]
      PROVE  frame'[a].original = frame[a].original /\ frame'[a].reply = "failed"
  BY <1>1, <1>2 DEF FrameType
<1>3. ASSUME NEW b, frame' = [frame EXCEPT ![a] =
                   [frame[a] EXCEPT !.balance = b, !.reply = "adjusted"]]
      PROVE  frame'[a].original = frame[a].original /\ frame'[a].reply = "adjusted"
  BY <1>1, <1>3 DEF FrameType
<1>4. CASE AdjustRecheck(a)
  BY <1>2, <1>4 DEF AdjustRecheck, SetFrame
<1>5. CASE AdjustRead(a)
  BY <1>3, <1>5 DEF AdjustRead, SetFrame
<1> QED
  BY <1>4, <1>5

(* The steps after which a call has nothing to say, or an error. *)
LEMMA QuietTold ==
    ASSUME TrailInv, NEW a \in Attempts,
           \/ LookupAccount(a) \/ BeginTx(a) \/ AdjustBegin(a) \/ InsertRow(a)
           \/ UpdateBalance(a) \/ Recheck(a) \/ Rollback(a) \/ TxStatementFails(a)
           \/ CommitFails(a) \/ PoolStatementFails(a)
           \/ AdjustUpdate(a) \/ AdjustUnacknowledged(a) \/ AdjustRecheck(a) \/ AdjustRead(a)
    PROVE  Told(a)'
<1>1. TypeOK /\ Told(a)
  BY DEF TrailInv, IInv
<1> USE <1>1, LabelsList DEF Silent, InTx, TxStatements, AdjustSteps
<1>2. CASE LookupAccount(a)
  <2>1. a \notin conns'
    BY <1>2, LookupAt DEF Told
  <2> QED
    BY <1>2, <2>1, LookupAt, ToldSilent
<1>3. CASE BeginTx(a) \/ AdjustBegin(a) \/ InsertRow(a)
  <2>1. pc'[a] \in {"insert", "adjUpdate", "fetchOriginal", "update"}
        /\ frame' = frame /\ req' = req
    BY <1>3, GotoAt DEF BeginTx, AdjustBegin, InsertRow
  <2> QED
    BY <2>1, ToldSilent
<1>4. CASE UpdateBalance(a) \/ Recheck(a) \/ TxStatementFails(a)
  <2>1. \/ Raise(a, "rollback", "internal")
        \/ Raise(a, "rollback", IF req[a].account \in accounts THEN "insufficient" ELSE "unknown")
        \/ (Goto(a, "readBack") \/ Goto(a, "recheck")) /\ UNCHANGED frame
    BY <1>4 DEF UpdateBalance, Recheck, TxStatementFails
  <2>2. pc'[a] \in {"rollback", "readBack", "recheck"} /\ frame'[a].original = frame[a].original
    BY <2>1, RaiseAt, GotoAt
  <2>3. req' = req
    BY <1>4 DEF UpdateBalance, Recheck, TxStatementFails
  <2> QED
    BY <2>2, <2>3, ToldSilent
<1>5. CASE Rollback(a) \/ CommitFails(a)
  <2>1. EndTx(a) /\ req' = req
        /\ (Raise(a, "reject", "internal") \/ (Goto(a, "reject") /\ UNCHANGED frame))
    BY <1>5 DEF Rollback, CommitFails
  <2>2. pc'[a] = "reject" /\ frame'[a].original = frame[a].original /\ a \notin conns'
    BY <2>1, RaiseAt, GotoAt DEF EndTx
  <2> QED
    BY <2>1, <2>2, ToldSilent
<1>6. CASE PoolStatementFails(a)
  <2>1. req' = req /\ a \notin conns'
    BY <1>6 DEF PoolStatementFails
  <2>2. CASE Raise(a, "reject", "internal")
    BY <2>1, <2>2, RaiseAt, ToldSilent
  <2>3. CASE Goto(a, "replied") /\ (Reply(a, "unaudited") \/ Reply(a, "failed"))
    BY <2>1, <2>3, GotoAt, ReplyAt, ToldFailure
  <2> QED
    BY <1>6, <2>2, <2>3 DEF PoolStatementFails
<1>7. CASE AdjustUpdate(a) \/ AdjustUnacknowledged(a)
  <2>1. req' = req /\ a \notin conns'
    BY <1>7 DEF AdjustUpdate, AdjustUnacknowledged
  <2>2. \/ Goto(a, "adjRead") /\ UNCHANGED frame
        \/ Goto(a, "adjRecheck") /\ UNCHANGED frame
        \/ Goto(a, "replied") /\ Reply(a, "failed")
    BY <1>7 DEF AdjustUpdate, AdjustUnacknowledged
  <2>3. CASE (Goto(a, "adjRead") \/ Goto(a, "adjRecheck")) /\ UNCHANGED frame
    BY <2>1, <2>3, GotoAt, ToldSilent
  <2>4. CASE Goto(a, "replied") /\ Reply(a, "failed")
    BY <2>1, <2>4, GotoAt, ReplyAt, ToldFailure
  <2> QED
    BY <2>2, <2>3, <2>4
<1>8. CASE AdjustRecheck(a) \/ AdjustRead(a)
  <2>1. req' = req /\ conns' = conns /\ pc[a] \in {"adjRecheck", "adjRead"} /\ pc'[a] = "replied"
    BY <1>8, GotoAt DEF AdjustRecheck, AdjustRead
  <2>2. frame'[a].original = frame[a].original /\ frame'[a].reply \in {"failed", "adjusted"}
    BY <1>8, AdjustAnswer
  <2>3. a \notin conns'
    BY <2>1 DEF Told
  <2> QED
    BY <2>1, <2>2, <2>3, ToldFailure
<1> QED
  BY <1>2, <1>3, <1>4, <1>5, <1>6, <1>7, <1>8

(* A step gives its own call at most a connection. *)
LEMMA ConnsOfOthers ==
    ASSUME TypeOK, NEW a \in Attempts,
           \/ Progress(a) \/ TxStatementFails(a) \/ PoolStatementFails(a)
           \/ CommitFails(a) \/ AdjustUnacknowledged(a)
    PROVE  conns' \subseteq conns \union {a}
BY DEF Progress, LookupAccount, BeginTx, InsertRow, FetchOriginal, FetchAccount, AuditDuplicate,
   UpdateBalance, Recheck, ReadBack, AuditAccepted, Commit, Rollback, RejectTransaction,
   AdjustBegin, AdjustUpdate, AdjustRecheck, AdjustRead, TxStatementFails, PoolStatementFails,
   CommitFails, AdjustUnacknowledged, EndTx

LEMMA ToldStep ==
    ASSUME TrailInv, [Next]_vars
    PROVE  \A c \in Attempts : Told(c)'
<1>1. TypeOK /\ IInv
  BY DEF TrailInv, IInv
<1>2. CASE UNCHANGED vars \/ \E acc \in AccountIDs : OpenAccount(acc)
  <2>1. UNCHANGED <<pc, frame, req, conns>>
    BY <1>2 DEF vars, OpenAccount
  <2> QED
    BY <2>1, ToldOthers
<1>3. CASE \E a \in Attempts, r \in Requests : Receive(a, r)
  BY <1>3, ReceiveTold
<1>4. ASSUME NEW a \in Attempts, LookupAccount(a)
      PROVE  \A c \in Attempts : Told(c)'
  BY <1>1, <1>4, LookupAt, QuietTold, ToldOthers
<1>5. ASSUME NEW a \in Attempts, Resumes(a),
             \/ Progress(a) /\ ~LookupAccount(a)
             \/ TxStatementFails(a) \/ PoolStatementFails(a)
             \/ CommitFails(a) \/ AdjustUnacknowledged(a)
      PROVE  \A c \in Attempts : Told(c)'
  <2>1. Told(a)'
    BY <1>5, QuietTold, ReadsTold, AcceptsTold, CommitTold, RejectTold DEF Progress
  <2>2. conns' \subseteq conns \union {a}
    BY <1>1, <1>5, ConnsOfOthers
  <2>3. \A c \in Attempts \ {a} : pc'[c] = pc[c] /\ frame'[c] = frame[c] /\ req'[c] = req[c]
    BY <1>5 DEF Resumes
  <2> QED
    BY <2>1, <2>2, <2>3, ToldOthers
<1>6. ASSUME Crash, NEW c \in Attempts PROVE Told(c)'
  <2>1. conns' = {} /\ frame' = frame /\ req' = req
        /\ (pc'[c] = pc[c] \/ pc'[c] = "lost")
    BY <1>6, <1>1 DEF Crash, TypeOK
  <2>2. CASE pc'[c] = pc[c]
    BY <2>1, <2>2, ToldOthers
  <2>3. CASE pc'[c] = "lost"
    BY <2>1, <2>3, ToldSilent, LabelsList DEF Silent
  <2> QED
    BY <2>1, <2>2, <2>3
<1> QED
  BY <1>1, <1>2, <1>3, <1>4, <1>5, <1>6, NextCases

-----------------------------------------------------------------------------
(* The ledger and the audit trail. *)

LEMMA RecordedStep ==
    ASSUME TrailInv, [Next]_vars
    PROVE  Recorded'
<1>1. TypeOK /\ IInv /\ Recorded
  BY DEF TrailInv, IInv
<1>2. CASE UNCHANGED <<ledger, audit>>
  BY <1>1, <1>2 DEF Recorded, RowScoped, RowAudited, AcceptedRecorded
<1>3. ASSUME NEW a \in Attempts, RejectTransaction(a) PROVE Recorded'
  <2> DEFINE entry == buildAuditEntry(a, "rejected", frame[a].cause, frame[a].owner)
  <2>1. audit' = audit \union {entry} /\ ledger' = ledger
    BY <1>3 DEF RejectTransaction
  <2>2. entry.outcome # "accepted"
    BY DEF buildAuditEntry
  <2> HIDE DEF entry
  <2> QED
    BY <1>1, <2>1, <2>2 DEF Recorded, RowScoped, RowAudited, AcceptedRecorded
<1>4. ASSUME NEW a \in Attempts, pc[a] = "commit", Publish(a) PROVE Recorded'
  <2> DEFINE rf == req[a].ref
  <2>1. audit' = audit \union {Entry(a)}
    BY <1>1, <1>4, PublishEffect
  <2>2. CASE frame[a].reply # "accepted"
    <3>1. ledger' = ledger /\ Entry(a).outcome # "accepted"
      BY <1>1, <1>4, <2>2, PublishEffect DEF Entry, buildAuditEntry
    <3> QED
      BY <1>1, <2>1, <3>1 DEF Recorded, RowScoped, RowAudited, AcceptedRecorded
  <2>3. CASE frame[a].reply = "accepted"
    <3>1. ledger[rf] = NoRow /\ ledger' = [ledger EXCEPT ![rf] = newRow(a)]
      BY <1>1, <1>4, <2>3, PublishEffect
    <3>2. /\ req[a] \in RequestType /\ rf \in Refs
          /\ req[a].account \in AccountIDs /\ req[a].user \in Users
          /\ AccountVisible(req[a].user, req[a].account)
          /\ frame[a].owner = Owner[req[a].account]
      BY <1>1, <1>4, DeltaType DEF IInv, CallsResolved, InTx
    <3>3. newRow(a) # NoRow
      BY <3>2, RowTyped, NoRowAssumption, ConstantsAssumption
    <3>4. /\ newRow(a).owner = Owner[newRow(a).account]
          /\ newRow(a).createdBy \in Admins \union {newRow(a).owner}
      BY <3>2 DEF newRow, AccountVisible
    <3>5. /\ Entry(a).outcome = "accepted" /\ Entry(a).ref = rf
          /\ Entry(a).id = newRow(a).id /\ Entry(a).account = newRow(a).account
          /\ Entry(a).points = newRow(a).points
      BY <2>3 DEF Entry, buildAuditEntry, newRow
    <3>6. ledger'[rf] = newRow(a) /\ \A r \in Refs \ {rf} : ledger'[r] = ledger[r]
      BY <1>1, <3>1, <3>2 DEF TypeOK
    <3>7. \A r \in Refs : RowScoped(r)'
      BY <1>1, <3>4, <3>6 DEF Recorded, RowScoped
    <3>8. \A r \in Refs : RowAudited(r)'
      BY <1>1, <2>1, <3>5, <3>6 DEF Recorded, RowAudited
    <3>9. ASSUME NEW e \in audit' PROVE AcceptedRecorded(e)'
      <4>1. CASE e \in audit
        <5>1. e.outcome = "accepted" => e.ref # rf /\ e.ref \in Refs
          BY <1>1, <3>1, <4>1 DEF Recorded, AcceptedRecorded, TypeOK, EntryType
        <5> QED
          BY <1>1, <3>6, <4>1, <5>1 DEF Recorded, AcceptedRecorded
      <4>2. CASE e = Entry(a)
        <5>1. e.ref = rf /\ e.id = newRow(a).id
          BY <3>5, <4>2
        <5> QED
          BY <3>3, <3>6, <5>1 DEF AcceptedRecorded
      <4> QED
        BY <2>1, <4>1, <4>2
    <3> QED
      BY <3>7, <3>8, <3>9 DEF Recorded
  <2> QED
    BY <2>2, <2>3
<1>5. \/ UNCHANGED <<ledger, audit>>
      \/ \E a \in Attempts : RejectTransaction(a)
      \/ \E a \in Attempts : pc[a] = "commit" /\ Publish(a)
  BY DEF Next, Progress, Quiet, vars, OpenAccount, Receive, LookupAccount, BeginTx, InsertRow,
     FetchOriginal, FetchAccount, AuditDuplicate, UpdateBalance, Recheck, ReadBack, AuditAccepted,
     Commit, Rollback, AdjustBegin, AdjustUpdate, AdjustRecheck, AdjustRead,
     TxStatementFails, PoolStatementFails, CommitFails, AdjustUnacknowledged, Crash, durable
<1> QED
  BY <1>2, <1>3, <1>4, <1>5
-----------------------------------------------------------------------------
(* Theorems *)

THEOREM InitTrail == Init => TrailInv
<1> SUFFICES ASSUME Init PROVE TrailInv
  OBVIOUS
<1>1. Recorded
  BY DEF Init, Recorded, RowScoped, RowAudited
<1>2. ASSUME NEW c \in Attempts PROVE Told(c)
  BY <1>2 DEF Init, Told, ShowsOriginal, HasReadBack, EmptyFrame, Outcomes
<1> QED
  BY <1>1, <1>2, InitIInv DEF TrailInv

(* What the tables say of each other and of the calls holds through every  *)
(* interleaving, failure and crash: the invariant the theorems below read. *)
THEOREM TrailInvariance == Spec => []TrailInv
<1>1. TrailInv /\ [Next]_vars => TrailInv'
  BY TypeStep, CallsResolvedStep, LockStep, StagedStep, AuditStep, RecordedStep, ToldStep
  DEF TrailInv, IInv
<1> QED
  BY <1>1, InitTrail, PTL DEF Spec

(* Every ledger row has its accepted audit row and every accepted audit    *)
(* row its ledger row (ProcessTransaction writes both in one unit of work).*)
THEOREM LedgerIsAudited == Spec => []LedgerAudited
<1>1. TrailInv => LedgerAudited
  BY DEF TrailInv, Recorded, RowAudited, AcceptedRecorded, LedgerAudited
<1> QED
  BY <1>1, TrailInvariance, PTL

(* What an accepted or duplicate response said of the ledger stays true    *)
(* for ever, crashes included (ProcessTransaction).                        *)
THEOREM AcknowledgedIsDurable == Spec => []AcknowledgedDurable
<1>1. TrailInv => AcknowledgedDurable
  BY DEF TrailInv, Told, ShowsOriginal, AcknowledgedDurable
<1> QED
  BY <1>1, TrailInvariance, PTL

(* Accepted, duplicate and rejected responses each have their audit row    *)
(* (ProcessTransaction, rejectTransaction).                                *)
THEOREM RepliesAreAudited == Spec => []RepliedAudited
<1>1. TrailInv => RepliedAudited
  BY DEF TrailInv, Told, RepliedAudited
<1> QED
  BY <1>1, TrailInvariance, PTL

(* No member's call writes another owner's row, or is shown one, although  *)
(* every caller shares the refs (the scoped reads of ProcessTransaction).  *)
THEOREM OwnersApart == Spec => []OwnScope
<1>1. TrailInv => OwnScope
  BY DEF TrailInv, Recorded, RowScoped, Told, OwnScope
<1> QED
  BY <1>1, TrailInvariance, PTL

(* A call that waits for a connection holds nothing, and one that holds a  *)
(* row lock waits for no lock: no cycle of waiting calls, for any number   *)
(* of calls and any pool size (RunInTx).                                   *)
THEOREM NoWaitingCycle == Spec => []NoHoldAndWait
<1>1. TrailInv => NoHoldAndWait
  <2> SUFFICES ASSUME TrailInv PROVE NoHoldAndWait
    OBVIOUS
  <2>1. LockDiscipline /\ \A c \in Attempts : Told(c)
    BY DEF TrailInv, IInv
  <2>2. ASSUME NEW a \in Attempts,
               pc[a] \in {"lookup", "begin", "reject", "adjBegin", "adjRecheck", "adjRead"}
        PROVE  /\ a \notin conns
               /\ \A r \in Refs : inserting[r] # a
               /\ \A acc \in AccountIDs : updating[acc] # a
    <3>1. a \notin conns
      BY <2>1, <2>2 DEF Told, InTx, TxStatements
    <3>2. \A r \in Refs : inserting[r] # a
      BY <2>1, <2>2, NullsAssumption DEF LockDiscipline, RefLocks
    <3>3. \A acc \in AccountIDs : updating[acc] # a
      BY <2>1, <2>2, NullsAssumption DEF LockDiscipline, RowLocks
    <3> QED
      BY <3>1, <3>2, <3>3
  <2>3. ASSUME NEW acc \in AccountIDs, updating[acc] # Nobody
        PROVE  pc[updating[acc]] \notin {"insert", "update"}
    BY <2>1, <2>3 DEF LockDiscipline, RowLocks
  <2> QED
    BY <2>2, <2>3 DEF NoHoldAndWait
<1> QED
  BY <1>1, TrailInvariance, PTL

(* Only its own commit takes a call from commit to its answer. *)
LEMMA AnswerCommits ==
    ASSUME IInv, [Next]_vars, NEW a \in Attempts, pc[a] = "commit", pc'[a] = "replied"
    PROVE  Commit(a)
<1>1. TypeOK
  BY DEF IInv
<1>2. ASSUME NEW b \in Attempts, Resumes(b) PROVE b = a
  BY <1>2 DEF Resumes
<1>3. CASE LookupAccount(a) \/ \E b \in Attempts \ {a} : LookupAccount(b)
  BY <1>1, <1>3, LookupAt
<1>4. CASE \E b \in Attempts, r \in Requests : Receive(b, r)
  BY <1>1, <1>4, ReceiveAt
<1>5. CASE Progress(a) /\ ~LookupAccount(a)
  BY <1>5 DEF Progress, BeginTx, InsertRow, FetchOriginal, FetchAccount, AuditDuplicate,
     UpdateBalance, Recheck, ReadBack, AuditAccepted, Rollback, RejectTransaction,
     AdjustBegin, AdjustUpdate, AdjustRecheck, AdjustRead
<1>6. CASE TxStatementFails(a) \/ PoolStatementFails(a) \/ AdjustUnacknowledged(a)
  BY <1>6 DEF TxStatementFails, PoolStatementFails, AdjustUnacknowledged, TxStatements, AdjustSteps
<1>7. CASE CommitFails(a)
  BY <1>1, <1>7, RaiseAt DEF CommitFails
<1>8. CASE Crash \/ UNCHANGED vars \/ \E acc \in AccountIDs : OpenAccount(acc)
  BY <1>1, <1>8 DEF Crash, vars, OpenAccount, TypeOK
<1> QED
  BY <1>1, <1>2, <1>3, <1>4, <1>5, <1>6, <1>7, <1>8, NextCases

(* The balance an accepted response reports is the one its commit leaves,  *)
(* whatever other calls commit between the read back and the commit        *)
(* (UpdateAccountBalance reads it inside the unit of work).                *)
THEOREM BalanceReportedExactly == Spec => AcceptedBalanceExact
<1> DEFINE Exact(a) ==
             pc[a] = "commit" /\ pc'[a] = "replied" /\ frame[a].reply = "accepted" =>
                 balance'[req[a].account] = frame[a].balance
<1>1. ASSUME TrailInv, [Next]_vars, NEW a \in Attempts,
             pc[a] = "commit", pc'[a] = "replied", frame[a].reply = "accepted"
      PROVE  balance'[req[a].account] = frame[a].balance
  <2>1. IInv /\ Told(a)
    BY <1>1 DEF TrailInv
  <2>2. Commit(a)
    BY <1>1, <2>1, AnswerCommits
  <2>3. balance' = [balance EXCEPT ![req[a].account] = balance[req[a].account] + Delta(a)]
    BY <1>1, <2>1, <2>2, PublishEffect DEF Commit
  <2>4. req[a].account \in AccountIDs
    BY <1>1, <2>1, DeltaType DEF IInv, CallsResolved
  <2>5. balance'[req[a].account] = balance[req[a].account] + Delta(a)
    BY <2>1, <2>3, <2>4 DEF IInv, TypeOK
  <2> QED
    BY <1>1, <2>1, <2>5 DEF Told, HasReadBack
<1>2. TrailInv /\ [Next]_vars => [\A a \in Attempts : Exact(a)]_vars
  BY <1>1
<1> QED
  BY <1>2, TrailInvariance, PTL DEF Spec, AcceptedBalanceExact

(* While every commit is answered, a ledger row belongs to a call that was *)
(* answered accepted, and that asked for its ref.                          *)
Settled ==
    \A r \in Refs : ledger[r] # NoRow =>
        /\ pc[ledger[r].id] = "replied" /\ frame[ledger[r].id].reply = "accepted"
        /\ req[ledger[r].id].ref = r

(* A call that has ended does nothing more. *)
LEMMA EndedStays ==
    ASSUME TypeOK, [Next]_vars, NEW c \in Attempts, pc[c] \in Ended
    PROVE  pc'[c] = pc[c] /\ frame'[c] = frame[c] /\ req'[c] = req[c]
<1>1. CASE \E b \in Attempts : LookupAccount(b)
  BY <1>1, LookupAt DEF Ended
<1>2. CASE \E b \in Attempts, r \in Requests : Receive(b, r)
  BY <1>2, ReceiveAt DEF Ended
<1>3. CASE Progress(c)
  BY <1>3 DEF Progress, LookupAccount, BeginTx, InsertRow, FetchOriginal, FetchAccount,
     AuditDuplicate, UpdateBalance, Recheck, ReadBack, AuditAccepted, Commit, Rollback,
     RejectTransaction, AdjustBegin, AdjustUpdate, AdjustRecheck, AdjustRead, Ended
<1>4. CASE TxStatementFails(c) \/ PoolStatementFails(c) \/ CommitFails(c) \/ AdjustUnacknowledged(c)
  BY <1>4 DEF TxStatementFails, PoolStatementFails, CommitFails, AdjustUnacknowledged,
     TxStatements, AdjustSteps, Ended
<1>5. CASE Crash \/ UNCHANGED vars \/ \E acc \in AccountIDs : OpenAccount(acc)
  BY <1>5 DEF Crash, vars, OpenAccount, TypeOK, Ended
<1>6. ASSUME NEW b \in Attempts, b # c, Resumes(b)
      PROVE  pc'[c] = pc[c] /\ frame'[c] = frame[c] /\ req'[c] = req[c]
  BY <1>6 DEF Resumes
<1> QED
  BY <1>1, <1>2, <1>3, <1>4, <1>5, <1>6, NextCases

LEMMA SettledStep ==
    ASSUME TrailInv, Settled, [Next]_vars, UNCHANGED ledger \/ \E a \in Attempts : Commit(a)
    PROVE  Settled'
<1>1. TypeOK /\ IInv
  BY DEF TrailInv, IInv
<1>2. ASSUME NEW r \in Refs, ledger[r] # NoRow, ledger'[r] = ledger[r]
      PROVE  ledger'[r] # NoRow /\ pc'[ledger'[r].id] = "replied"
             /\ frame'[ledger'[r].id].reply = "accepted" /\ req'[ledger'[r].id].ref = r
  <2>1. ledger[r].id \in Attempts
    BY <1>1, <1>2 DEF TypeOK, RowType
  <2> QED
    BY <1>1, <1>2, <2>1, EndedStays DEF Settled, Ended
<1>3. CASE UNCHANGED ledger
  BY <1>2, <1>3 DEF Settled
<1>4. ASSUME NEW a \in Attempts, Commit(a) PROVE Settled'
  <2>1. /\ pc[a] = "commit" /\ Publish(a) /\ pc'[a] = "replied" /\ UNCHANGED <<frame, req>>
    BY <1>1, <1>4, GotoAt DEF Commit
  <2>2. CASE frame[a].reply # "accepted"
    BY <1>1, <1>3, <2>1, <2>2, PublishEffect
  <2>3. CASE frame[a].reply = "accepted"
    <3>1. ledger' = [ledger EXCEPT ![req[a].ref] = newRow(a)]
      BY <1>1, <2>1, <2>3, PublishEffect
    <3>2. newRow(a).id = a
      BY DEF newRow
    <3>3. \A r \in Refs : ledger'[r] = ledger[r] \/ (r = req[a].ref /\ ledger'[r] = newRow(a))
      BY <1>1, <3>1 DEF TypeOK
    <3> HIDE DEF newRow
    <3> QED
      BY <1>2, <2>1, <2>3, <3>2, <3>3 DEF Settled
  <2> QED
    BY <2>2, <2>3
<1> QED
  BY <1>3, <1>4

(* Rows appear in the ledger by commits only. *)
LEMMA OnlyCommits ==
    ASSUME [Next]_vars
    PROVE  UNCHANGED ledger \/ \E a \in Attempts : Commit(a) \/ CommitFails(a)
BY DEF Next, Progress, Quiet, vars, OpenAccount, Receive, LookupAccount, BeginTx, InsertRow,
   FetchOriginal, FetchAccount, AuditDuplicate, UpdateBalance, Recheck, ReadBack, AuditAccepted,
   Rollback, RejectTransaction, AdjustBegin, AdjustUpdate, AdjustRecheck, AdjustRead,
   TxStatementFails, PoolStatementFails, AdjustUnacknowledged, Crash, durable

(* A row of the ledger never changes, and a new one is the row of a call   *)
(* at its commit, under the ref that call asked for.                       *)
LEMMA RowsGrow ==
    ASSUME IInv, [Next]_vars, NEW r \in Refs
    PROVE  \/ ledger'[r] = ledger[r]
           \/ /\ ledger[r] = NoRow
              /\ \E a \in Attempts :
                    pc[a] = "commit" /\ r = req[a].ref /\ ledger'[r] = newRow(a)
<1>1. ASSUME NEW a \in Attempts, pc[a] = "commit", Publish(a)
      PROVE  \/ ledger'[r] = ledger[r]
             \/ ledger[r] = NoRow /\ r = req[a].ref /\ ledger'[r] = newRow(a)
  <2>1. frame[a].reply = "accepted" =>
          /\ ledger[req[a].ref] = NoRow
          /\ ledger' = [ledger EXCEPT ![req[a].ref] = newRow(a)]
    BY <1>1, PublishEffect
  <2>2. frame[a].reply # "accepted" => ledger' = ledger
    BY <1>1, PublishEffect
  <2> HIDE DEF newRow
  <2> QED
    BY <2>1, <2>2 DEF IInv, TypeOK
<1>2. ASSUME NEW a \in Attempts, Commit(a) \/ CommitFails(a)
      PROVE  pc[a] = "commit" /\ (Publish(a) \/ ledger' = ledger)
  BY <1>2 DEF Commit, CommitFails, durable
<1> QED
  BY <1>1, <1>2, OnlyCommits

(* A call that has begun keeps its request. *)
LEMMA BegunStays ==
    ASSUME TypeOK, [Next]_vars, NEW c \in Attempts, pc[c] # "idle"
    PROVE  pc'[c] # "idle" /\ req'[c] = req[c]
<1>1. CASE \E b \in Attempts : LookupAccount(b)
  BY <1>1, LookupAt
<1>2. CASE \E b \in Attempts, r \in Requests : Receive(b, r)
  BY <1>2, ReceiveAt
<1>3. CASE \E b \in Attempts : Resumes(b)
  BY <1>3 DEF Resumes
<1>4. CASE Crash \/ UNCHANGED vars \/ \E acc \in AccountIDs : OpenAccount(acc)
  BY <1>4 DEF Crash, vars, OpenAccount, TypeOK
<1> QED
  BY <1>1, <1>2, <1>3, <1>4, NextCases

(* Each row of the ledger is what a call that has begun asked for, however *)
(* that call was answered.                                                 *)
Rooted ==
    \A r \in Refs : ledger[r] # NoRow =>
        LET c == ledger[r].id
        IN  /\ pc[c] # "idle" /\ req[c].ref = r
            /\ ledger[r].account = req[c].account /\ ledger[r].points = Delta(c)

LEMMA RootedStep ==
    ASSUME IInv, Rooted, [Next]_vars
    PROVE  Rooted'
<1>1. TypeOK
  BY DEF IInv
<1>2. ASSUME NEW c \in Attempts, pc[c] # "idle"
      PROVE  pc'[c] # "idle" /\ req'[c] = req[c] /\ Delta(c)' = Delta(c)
  BY <1>1, <1>2, BegunStays DEF Delta
<1>3. ASSUME NEW r \in Refs, ledger'[r] # NoRow
      PROVE  LET c == ledger'[r].id
             IN  /\ c \in Attempts /\ pc[c] # "idle" /\ req[c].ref = r
                 /\ ledger'[r].account = req[c].account /\ ledger'[r].points = Delta(c)
  <2>1. CASE ledger'[r] = ledger[r]
    BY <1>1, <1>3, <2>1 DEF Rooted, TypeOK, RowType
  <2>2. ASSUME NEW a \in Attempts, pc[a] = "commit", r = req[a].ref, ledger'[r] = newRow(a)
        PROVE  LET c == ledger'[r].id
               IN  /\ c \in Attempts /\ pc[c] # "idle" /\ req[c].ref = r
                   /\ ledger'[r].account = req[c].account /\ ledger'[r].points = Delta(c)
    BY <2>2 DEF newRow
  <2> QED
    BY <2>1, <2>2, RowsGrow
<1> QED
  BY <1>2, <1>3 DEF Rooted

(* While every COMMIT is answered, so is every call with a row. *)
LEMMA SettledInvariance ==
    ASSUME "commit" \notin Faults
    PROVE  Spec => []Settled
<1>1. Init => Settled
  BY DEF Init, Settled
<1>2. TrailInv /\ Settled /\ [Next]_vars => Settled'
  BY SettledStep, OnlyCommits DEF CommitFails
<1> QED
  BY <1>1, <1>2, TrailInvariance, PTL DEF Spec

(* Unless the answer to a COMMIT is lost, a call answered with an error    *)
(* recorded nothing and its ref stays free for a retry (RunInTx rolls back *)
(* on every error).                                                        *)
THEOREM RejectionRollsBack ==
    ASSUME "commit" \notin Faults
    PROVE  Spec => []RejectedRolledBack
<1>1. Settled => RejectedRolledBack
  BY DEF Settled, RejectedRolledBack
<1> QED
  BY <1>1, SettledInvariance, PTL
=============================================================================
