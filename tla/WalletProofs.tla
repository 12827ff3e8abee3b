---------------------------- MODULE WalletProofs ----------------------------
(***************************************************************************)
(* Theorems about Wallet, for every set of attempts, users, accounts, refs *)
(* and requests, every pool size, every balance limit and every choice of  *)
(* failures.                                                               *)
(***************************************************************************)
EXTENDS Wallet, TLAPS

(* The signed delta of a request is an integer.                            *)
LEMMA DeltaType ==
    ASSUME NEW a \in Attempts, req[a] \in RequestType
    PROVE  /\ Delta(a) \in Int
           /\ req[a].ref \in Refs
           /\ req[a].account \in AccountIDs
           /\ req[a].user \in Users
BY DEF Delta, signedDelta, RequestType

(* buildAuditEntry builds rows of table audit_entries.                     *)
LEMMA EntryTyped ==
    ASSUME NEW a \in Attempts, req[a] \in RequestType,
           NEW outcome \in Outcomes, NEW reason \in Causes \union {"duplicate"},
           NEW owner \in Users \union {NoOwner}
    PROVE  buildAuditEntry(a, outcome, reason, owner) \in EntryType
BY DeltaType DEF buildAuditEntry, EntryType

(* newRow builds rows of table transactions.                               *)
LEMMA RowTyped ==
    ASSUME NEW a \in Attempts, req[a] \in RequestType, frame[a].owner \in Users
    PROVE  newRow(a) \in RowType
BY DeltaType DEF newRow, RowType

(* The steps a call takes through its own locals keep their types. *)
LEMMA LabelsList ==
    Labels = {"idle", "lookup", "begin", "reject", "insert", "fetchOriginal",
              "fetchAccount", "auditDuplicate", "update", "recheck", "readBack",
              "auditAccepted", "commit", "rollback", "adjBegin", "adjUpdate",
              "adjRecheck", "adjRead", "replied", "lost"}
BY DEF Labels, InTx, TxStatements, AdjustSteps, Ended

(* Moving a call to a label keeps pc well typed.                           *)
LEMMA GotoTyped ==
    ASSUME TypeOK, NEW a \in Attempts, NEW label \in Labels, Goto(a, label)
    PROVE  pc' \in [Attempts -> Labels]
BY DEF Goto, TypeOK

Replies == Outcomes \union {"invalid", "unaudited", "failed", "adjusted"}

(* Setting the response of a call keeps its locals well typed.             *)
LEMMA ReplyTyped ==
    ASSUME TypeOK, NEW a \in Attempts, NEW x \in Replies, Reply(a, x)
    PROVE  frame' \in [Attempts -> FrameType]
<1>1. [frame[a] EXCEPT !.reply = x] \in FrameType
  BY DEF TypeOK, FrameType, Replies
<1>2. frame' = [frame EXCEPT ![a] = [frame[a] EXCEPT !.reply = x]]
  BY DEF Reply
<1> QED
  BY <1>1, <1>2 DEF TypeOK

(* An error on its way out keeps a call well typed.                        *)
LEMMA RaiseTyped ==
    ASSUME TypeOK, NEW a \in Attempts, NEW label \in Labels, NEW x \in Causes,
           Raise(a, label, x)
    PROVE  /\ pc' \in [Attempts -> Labels]
           /\ frame' \in [Attempts -> FrameType]
<1>1. [frame[a] EXCEPT !.cause = x] \in FrameType
  BY DEF TypeOK, FrameType
<1>2. frame' = [frame EXCEPT ![a] = [frame[a] EXCEPT !.cause = x]]
  BY DEF Raise
<1> QED
  BY <1>1, <1>2, GotoTyped DEF TypeOK, Raise

(* The freshly migrated database satisfies the inductive invariant.        *)
THEOREM InitIInv == Init => IInv
<1> SUFFICES ASSUME Init PROVE IInv OBVIOUS
<1> USE ConstantsAssumption, NullsAssumption DEF Init
<1>1. TypeOK
  <2>1. EmptyFrame \in FrameType
    BY DEF EmptyFrame, FrameType, Causes, Outcomes
  <2>2. QED
    BY <2>1 DEF TypeOK, Labels
<1>2. CallsResolved
  BY DEF CallsResolved, InTx, TxStatements
<1>3. LockDiscipline
  BY DEF LockDiscipline, RefLocks, RowLocks, LocksHeld, Accepting
<1>4. StagedEntries /\ AuditOnce
  BY DEF StagedEntries, AuditOnce
<1> QED
  BY <1>1, <1>2, <1>3, <1>4 DEF IInv

-----------------------------------------------------------------------------
(* Type correctness of each step. *)

(* The end of a transaction keeps the lock tables well typed.              *)
LEMMA ReleasedTyped ==
    ASSUME TypeOK, NEW a \in Attempts, EndTx(a)
    PROVE  /\ inserting' \in [Refs -> Attempts \union {Nobody}]
           /\ updating' \in [AccountIDs -> Attempts \union {Nobody}]
           /\ staged' \in [Attempts -> SUBSET EntryType]
           /\ conns' \subseteq Attempts
BY DEF TypeOK, EndTx, ReleasedRefs, ReleasedRows

(* A commit publishes well typed rows.                                     *)
LEMMA PublishTyped ==
    ASSUME IInv, NEW a \in Attempts, pc[a] = "commit", Publish(a)
    PROVE  /\ accounts' \subseteq AccountIDs
           /\ balance' \in [AccountIDs -> Int]
           /\ adjusted' \in [AccountIDs -> Int]
           /\ ledger' \in [Refs -> RowType \union {NoRow}]
           /\ audit' \subseteq EntryType
<1> USE DEF IInv, TypeOK, Publish
<1>1. req[a] \in RequestType /\ frame[a].owner \in Users
  BY ConstantsAssumption DEF CallsResolved, InTx, TxStatements, RequestType
<1>2. newRow(a) \in RowType
  BY <1>1, RowTyped
<1>3. Delta(a) \in Int
  BY <1>1, DeltaType
<1> QED
  BY <1>2, <1>3

(* Every step of Next keeps TypeOK.                                        *)
LEMMA TypeStep == IInv /\ [Next]_vars => TypeOK'
<1> SUFFICES ASSUME IInv, [Next]_vars PROVE TypeOK' OBVIOUS
<1>a. TypeOK
  BY DEF IInv
<1>b. ASSUME NEW a \in Attempts, pc[a] # "idle"
      PROVE  /\ req[a] \in RequestType /\ Delta(a) \in Int
             /\ req[a].ref \in Refs /\ req[a].account \in AccountIDs
             /\ req[a].user \in Users
  BY <1>b, DeltaType DEF IInv, CallsResolved
<1>c. ASSUME NEW a \in Attempts
      PROVE  frame[a] \in FrameType /\ frame[a].owner \in Users \union {NoOwner}
             /\ frame[a].cause \in Causes
  BY <1>a DEF TypeOK, FrameType
<1> USE <1>a
<1>1. CASE UNCHANGED vars
  BY <1>1 DEF vars, durable, session, TypeOK
<1>2. CASE \E acc \in AccountIDs : OpenAccount(acc)
  BY <1>2 DEF OpenAccount, TypeOK, session
<1>3. ASSUME NEW a \in Attempts, NEW r \in Requests, Receive(a, r) PROVE TypeOK'
  <2>1. pc' \in [Attempts -> Labels]
    BY <1>3, GotoTyped, LabelsList DEF Receive
  <2>2. frame' \in [Attempts -> FrameType]
    BY <1>3, ReplyTyped DEF Receive, Replies, TypeOK
  <2> QED
    BY <1>3, <2>1, <2>2, ConstantsAssumption DEF Receive, TypeOK, durable, session
<1>4. ASSUME NEW a \in Attempts, LookupAccount(a) PROVE TypeOK'
  <2>1. pc' \in [Attempts -> Labels]
    BY <1>4, GotoTyped, LabelsList DEF LookupAccount, Raise
  <2>2. ASSUME frame' = [frame EXCEPT ![a].owner = Owner[req[a].account]]
        PROVE  frame' \in [Attempts -> FrameType]
    <3>1. Owner[req[a].account] \in Users
      BY <1>4, <1>b, ConstantsAssumption DEF LookupAccount
    <3>2. [frame[a] EXCEPT !.owner = Owner[req[a].account]] \in FrameType
      BY <3>1, <1>c DEF FrameType
    <3>3. frame' = [frame EXCEPT ![a] = [frame[a] EXCEPT !.owner = Owner[req[a].account]]]
      BY <2>2
    <3> QED
      BY <3>2, <3>3 DEF TypeOK
  <2>3. frame' \in [Attempts -> FrameType]
    BY <1>4, <2>2, RaiseTyped, LabelsList DEF LookupAccount, Causes
  <2> QED
    BY <1>4, <2>1, <2>3 DEF LookupAccount, TypeOK, durable, session
<1>5. ASSUME NEW a \in Attempts, BeginTx(a) \/ AdjustBegin(a) PROVE TypeOK'
  <2>1. pc' \in [Attempts -> Labels]
    BY <1>5, GotoTyped, LabelsList DEF BeginTx, AdjustBegin
  <2> QED
    BY <1>5, <2>1 DEF BeginTx, AdjustBegin, TypeOK, durable, session
<1>6. ASSUME NEW a \in Attempts, InsertRow(a) PROVE TypeOK'
  <2>1. pc' \in [Attempts -> Labels]
    BY <1>6, GotoTyped, LabelsList DEF InsertRow
  <2>2. inserting' \in [Refs -> Attempts \union {Nobody}]
    BY <1>6 DEF InsertRow, TypeOK
  <2> QED
    BY <1>6, <2>1, <2>2 DEF InsertRow, TypeOK, durable
<1>7. ASSUME NEW a \in Attempts, FetchOriginal(a) PROVE TypeOK'
  <2> DEFINE row == ledger[req[a].ref]
  <2>1. pc' \in [Attempts -> Labels]
    BY <1>7, GotoTyped, LabelsList DEF FetchOriginal, Raise
  <2>2. ASSUME frame' = [frame EXCEPT ![a].original = row]
        PROVE  frame' \in [Attempts -> FrameType]
    <3>1. row \in RowType \union {NoRow}
      BY <1>7, <1>b DEF FetchOriginal, TypeOK
    <3>2. [frame[a] EXCEPT !.original = row] \in FrameType
      BY <3>1, <1>c DEF FrameType
    <3>3. frame' = [frame EXCEPT ![a] = [frame[a] EXCEPT !.original = row]]
      BY <2>2
    <3> QED
      BY <3>2, <3>3 DEF TypeOK
  <2>3. frame' \in [Attempts -> FrameType]
    BY <1>7, <2>2, RaiseTyped, LabelsList DEF FetchOriginal, Causes
  <2> QED
    BY <1>7, <2>1, <2>3 DEF FetchOriginal, TypeOK, durable, session
<1>8. ASSUME NEW a \in Attempts, NEW b \in Int,
             frame' = [frame EXCEPT ![a].balance = b]
      PROVE  frame' \in [Attempts -> FrameType]
  <2>1. [frame[a] EXCEPT !.balance = b] \in FrameType
    BY <1>c DEF FrameType
  <2>2. frame' = [frame EXCEPT ![a] = [frame[a] EXCEPT !.balance = b]]
    BY <1>8
  <2> QED
    BY <2>1, <2>2 DEF TypeOK
<1>9. ASSUME NEW a \in Attempts, FetchAccount(a) PROVE TypeOK'
  <2>1. pc' \in [Attempts -> Labels]
    BY <1>9, GotoTyped, LabelsList DEF FetchAccount, Raise
  <2>2. balance[req[a].account] \in Int
    BY <1>9, <1>b DEF FetchAccount, TypeOK
  <2>3. frame' \in [Attempts -> FrameType]
    BY <1>9, <1>8, <2>2, RaiseTyped, LabelsList DEF FetchAccount, Causes
  <2> QED
    BY <1>9, <2>1, <2>3 DEF FetchAccount, TypeOK, durable, session
<1>10. ASSUME NEW a \in Attempts, AuditDuplicate(a) PROVE TypeOK'
  <2> DEFINE entry == buildAuditEntry(a, "duplicate", "duplicate", frame[a].owner)
  <2>1. entry \in EntryType
    BY <1>10, <1>b, <1>c, EntryTyped DEF AuditDuplicate, Outcomes
  <2>2. pc' \in [Attempts -> Labels] /\ frame' \in [Attempts -> FrameType]
    BY <1>10, GotoTyped, ReplyTyped, LabelsList DEF AuditDuplicate, Replies, Outcomes
  <2>3. staged' = [staged EXCEPT ![a] = {entry}]
    BY <1>10 DEF AuditDuplicate
  <2> HIDE DEF entry
  <2>4. staged' \in [Attempts -> SUBSET EntryType]
    BY <2>1, <2>3 DEF TypeOK
  <2> QED
    BY <1>10, <2>2, <2>4 DEF AuditDuplicate, TypeOK, durable
<1>11. ASSUME NEW a \in Attempts, UpdateBalance(a) PROVE TypeOK'
  <2>1. pc' \in [Attempts -> Labels]
    BY <1>11, GotoTyped, LabelsList DEF UpdateBalance, Raise
  <2>2. frame' \in [Attempts -> FrameType]
    BY <1>11, RaiseTyped, LabelsList DEF UpdateBalance, Causes, TypeOK
  <2>3. updating' \in [AccountIDs -> Attempts \union {Nobody}]
    BY <1>11 DEF UpdateBalance, TypeOK
  <2> QED
    BY <1>11, <2>1, <2>2, <2>3 DEF UpdateBalance, TypeOK, durable
<1>12. ASSUME NEW a \in Attempts, Recheck(a) PROVE TypeOK'
  BY <1>12, RaiseTyped, LabelsList DEF Recheck, TypeOK, durable, session, Causes
<1>13. ASSUME NEW a \in Attempts, ReadBack(a) PROVE TypeOK'
  <2>1. pc' \in [Attempts -> Labels]
    BY <1>13, GotoTyped, LabelsList DEF ReadBack
  <2>2. balance[req[a].account] + Delta(a) \in Int
    BY <1>13, <1>b DEF ReadBack, TypeOK
  <2>3. frame' \in [Attempts -> FrameType]
    BY <1>13, <1>8, <2>2 DEF ReadBack
  <2> QED
    BY <1>13, <2>1, <2>3 DEF ReadBack, TypeOK, durable, session
<1>14. ASSUME NEW a \in Attempts, AuditAccepted(a) PROVE TypeOK'
  <2> DEFINE entry == buildAuditEntry(a, "accepted", "ok", frame[a].owner)
  <2>1. entry \in EntryType
    BY <1>14, <1>b, <1>c, EntryTyped DEF AuditAccepted, Outcomes, Causes
  <2>2. pc' \in [Attempts -> Labels] /\ frame' \in [Attempts -> FrameType]
    BY <1>14, GotoTyped, ReplyTyped, LabelsList DEF AuditAccepted, Replies, Outcomes
  <2>3. staged' = [staged EXCEPT ![a] = {entry}]
    BY <1>14 DEF AuditAccepted
  <2> HIDE DEF entry
  <2>4. staged' \in [Attempts -> SUBSET EntryType]
    BY <2>1, <2>3 DEF TypeOK
  <2> QED
    BY <1>14, <2>2, <2>4 DEF AuditAccepted, TypeOK, durable
<1>15. ASSUME NEW a \in Attempts, Commit(a) PROVE TypeOK'
  <2>1. pc' \in [Attempts -> Labels]
    BY <1>15, GotoTyped, LabelsList DEF Commit
  <2> QED
    BY <1>15, <2>1, ReleasedTyped, PublishTyped DEF Commit, TypeOK
<1>16. ASSUME NEW a \in Attempts, Rollback(a) PROVE TypeOK'
  <2>1. pc' \in [Attempts -> Labels]
    BY <1>16, GotoTyped, LabelsList DEF Rollback
  <2> QED
    BY <1>16, <2>1, ReleasedTyped DEF Rollback, TypeOK, durable
<1>17. ASSUME NEW a \in Attempts, RejectTransaction(a) PROVE TypeOK'
  <2> DEFINE entry == buildAuditEntry(a, "rejected", frame[a].cause, frame[a].owner)
  <2>1. entry \in EntryType
    BY <1>17, <1>b, <1>c, EntryTyped DEF RejectTransaction, Outcomes
  <2>2. pc' \in [Attempts -> Labels] /\ frame' \in [Attempts -> FrameType]
    BY <1>17, GotoTyped, ReplyTyped, LabelsList DEF RejectTransaction, Replies, Outcomes
  <2>3. audit' = audit \union {entry}
    BY <1>17 DEF RejectTransaction
  <2> QED
    BY <1>17, <2>1, <2>2, <2>3 DEF RejectTransaction, TypeOK, session
<1>18. ASSUME NEW a \in Attempts, pc[a] = "adjUpdate", AdjustApplies(a)
       PROVE  balance' \in [AccountIDs -> Int] /\ adjusted' \in [AccountIDs -> Int]
  BY <1>18, <1>b DEF AdjustApplies, TypeOK
<1>19. ASSUME NEW a \in Attempts, AdjustUpdate(a) \/ AdjustUnacknowledged(a) PROVE TypeOK'
  <2>1. pc' \in [Attempts -> Labels]
    BY <1>19, GotoTyped, LabelsList DEF AdjustUpdate, AdjustUnacknowledged
  <2>2. frame' \in [Attempts -> FrameType]
    BY <1>19, ReplyTyped DEF AdjustUpdate, AdjustUnacknowledged, Replies, TypeOK
  <2>3. balance' \in [AccountIDs -> Int] /\ adjusted' \in [AccountIDs -> Int]
    BY <1>18, <1>19 DEF AdjustUpdate, AdjustUnacknowledged, TypeOK
  <2> QED
    BY <1>19, <2>1, <2>2, <2>3 DEF AdjustUpdate, AdjustUnacknowledged, TypeOK, session
<1>20. ASSUME NEW a \in Attempts, AdjustRecheck(a) \/ AdjustRead(a) PROVE TypeOK'
  <2>1. pc' \in [Attempts -> Labels]
    BY <1>20, GotoTyped, LabelsList DEF AdjustRecheck, AdjustRead
  <2>2. balance[req[a].account] \in Int
    BY <1>20, <1>b DEF AdjustRecheck, AdjustRead, TypeOK
  <2>3. frame' = [frame EXCEPT ![a] = frame'[a]]
    BY <1>20 DEF AdjustRecheck, AdjustRead, SetFrame, TypeOK
  <2>4. frame'[a] \in FrameType
    <3>1. CASE AdjustRecheck(a)
      BY <3>1, <1>c DEF AdjustRecheck, SetFrame, TypeOK, FrameType, Causes
    <3>2. CASE AdjustRead(a)
      BY <3>2, <2>2, <1>c DEF AdjustRead, SetFrame, TypeOK, FrameType
    <3> QED
      BY <1>20, <3>1, <3>2
  <2> QED
    BY <1>20, <2>1, <2>3, <2>4 DEF AdjustRecheck, AdjustRead, TypeOK, durable, session
<1>21. ASSUME NEW a \in Attempts, TxStatementFails(a) PROVE TypeOK'
  BY <1>21, RaiseTyped, LabelsList DEF TxStatementFails, TypeOK, durable, session, Causes
<1>22. ASSUME NEW a \in Attempts, PoolStatementFails(a) PROVE TypeOK'
  <2>1. pc' \in [Attempts -> Labels]
    BY <1>22, GotoTyped, LabelsList DEF PoolStatementFails, Raise
  <2>2. frame' \in [Attempts -> FrameType]
    BY <1>22, ReplyTyped, RaiseTyped, LabelsList DEF PoolStatementFails, Replies, Causes
  <2> QED
    BY <1>22, <2>1, <2>2 DEF PoolStatementFails, TypeOK, durable, session
<1>23. ASSUME NEW a \in Attempts, CommitFails(a) PROVE TypeOK'
  <2>1. pc' \in [Attempts -> Labels] /\ frame' \in [Attempts -> FrameType]
    BY <1>23, RaiseTyped, LabelsList DEF CommitFails, Causes
  <2> QED
    BY <1>23, <2>1, ReleasedTyped, PublishTyped DEF CommitFails, TypeOK, durable
<1>24. CASE Crash
  BY <1>24, LabelsList DEF Crash, TypeOK, durable
<1> QED
  BY <1>1, <1>2, <1>3, <1>4, <1>5, <1>6, <1>7, <1>9, <1>10, <1>11, <1>12, <1>13, <1>14,
     <1>15, <1>16, <1>17, <1>19, <1>20, <1>21, <1>22, <1>23, <1>24
  DEF Next, Progress, Quiet

-----------------------------------------------------------------------------
(* What a step leaves alone, call by call. *)

(* Goto moves its own call and no other.                                   *)
LEMMA GotoAt ==
    ASSUME TypeOK, NEW a \in Attempts, NEW label, Goto(a, label)
    PROVE  pc'[a] = label /\ \A b \in Attempts \ {a} : pc'[b] = pc[b]
BY DEF Goto, TypeOK

(* Reply changes the response of its own call only.                        *)
LEMMA ReplyAt ==
    ASSUME TypeOK, NEW a \in Attempts, NEW x, Reply(a, x)
    PROVE  /\ frame'[a].reply = x
           /\ frame'[a].owner = frame[a].owner
           /\ frame'[a].balance = frame[a].balance
           /\ frame'[a].original = frame[a].original
           /\ frame'[a].cause = frame[a].cause
           /\ \A b \in Attempts \ {a} : frame'[b] = frame[b]
BY DEF Reply, TypeOK, FrameType

(* Raise changes the label and the cause of its own call only.             *)
LEMMA RaiseAt ==
    ASSUME TypeOK, NEW a \in Attempts, NEW label, NEW x, Raise(a, label, x)
    PROVE  /\ pc'[a] = label /\ \A b \in Attempts \ {a} : pc'[b] = pc[b]
           /\ frame'[a].cause = x
           /\ frame'[a].owner = frame[a].owner
           /\ frame'[a].balance = frame[a].balance
           /\ frame'[a].original = frame[a].original
           /\ frame'[a].reply = frame[a].reply
           /\ \A b \in Attempts \ {a} : frame'[b] = frame[b]
BY GotoAt DEF Raise, TypeOK, FrameType

(* A step of call a after it resolved its account, or outside a unit of    *)
(* work: the request and the owner stay, and no other call moves.          *)
Resumes(a) ==
    /\ pc[a] # "idle"
    /\ pc'[a] # "idle"
    /\ pc'[a] \in InTx \union {"begin"} => pc[a] \in InTx \union {"begin"}
    /\ req' = req
    /\ accounts' = accounts
    /\ frame'[a].owner = frame[a].owner
    /\ \A b \in Attempts \ {a} : /\ pc'[b] = pc[b]
                                 /\ frame'[b] = frame[b]
                                 /\ staged'[b] = staged[b]

(* A step of one call leaves the other calls where they are.               *)
LEMMA StepResumes ==
    ASSUME TypeOK, NEW a \in Attempts,
           \/ Progress(a) /\ ~LookupAccount(a)
           \/ TxStatementFails(a) \/ PoolStatementFails(a)
           \/ CommitFails(a) \/ AdjustUnacknowledged(a)
    PROVE  Resumes(a)
<1> USE DEF Resumes, InTx, TxStatements, AdjustSteps
<1>1. CASE BeginTx(a) \/ AdjustBegin(a)
  BY <1>1, GotoAt DEF BeginTx, AdjustBegin, durable, session
<1>2. CASE InsertRow(a)
  BY <1>2, GotoAt DEF InsertRow, durable
<1>3. CASE FetchOriginal(a)
  <2>1. pc[a] = "fetchOriginal" /\ req' = req /\ accounts' = accounts /\ staged' = staged
    BY <1>3 DEF FetchOriginal, durable, session
  <2>2. CASE Raise(a, "rollback", "unknown")
    BY <2>1, <2>2, RaiseAt
  <2>3. CASE Goto(a, "fetchAccount") /\ frame' = [frame EXCEPT ![a].original = ledger[req[a].ref]]
    <3>1. /\ frame'[a].owner = frame[a].owner
          /\ \A b \in Attempts \ {a} : frame'[b] = frame[b]
      BY <2>3 DEF TypeOK, FrameType
    <3> QED
      BY <2>1, <2>3, <3>1, GotoAt
  <2> QED
    BY <1>3, <2>2, <2>3 DEF FetchOriginal
<1>4. CASE FetchAccount(a)
  <2>1. pc[a] = "fetchAccount" /\ req' = req /\ accounts' = accounts /\ staged' = staged
    BY <1>4 DEF FetchAccount, durable, session
  <2>2. CASE Raise(a, "rollback", "unknown")
    BY <2>1, <2>2, RaiseAt
  <2>3. CASE Goto(a, "auditDuplicate") /\ frame' = [frame EXCEPT ![a].balance = balance[req[a].account]]
    <3>1. /\ frame'[a].owner = frame[a].owner
          /\ \A b \in Attempts \ {a} : frame'[b] = frame[b]
      BY <2>3 DEF TypeOK, FrameType
    <3> QED
      BY <2>1, <2>3, <3>1, GotoAt
  <2> QED
    BY <1>4, <2>2, <2>3 DEF FetchAccount
<1>5. CASE AuditDuplicate(a) \/ AuditAccepted(a)
  <2>1. \A b \in Attempts \ {a} : staged'[b] = staged[b]
    BY <1>5 DEF AuditDuplicate, AuditAccepted, TypeOK
  <2> QED
    BY <1>5, <2>1, GotoAt, ReplyAt DEF AuditDuplicate, AuditAccepted, durable
<1>6. CASE UpdateBalance(a)
  <2>1. CASE Raise(a, "rollback", "internal")
    BY <1>6, <2>1, RaiseAt DEF UpdateBalance, durable
  <2>2. CASE UNCHANGED frame /\ (Goto(a, "readBack") \/ Goto(a, "recheck"))
    BY <1>6, <2>2, GotoAt DEF UpdateBalance, durable
  <2> QED
    BY <1>6, <2>1, <2>2 DEF UpdateBalance
<1>7. CASE Recheck(a)
  BY <1>7, RaiseAt DEF Recheck, durable, session
<1>8. CASE ReadBack(a)
  <2>1. /\ frame'[a].owner = frame[a].owner
        /\ \A b \in Attempts \ {a} : frame'[b] = frame[b]
    BY <1>8 DEF ReadBack, TypeOK, FrameType
  <2> QED
    BY <1>8, <2>1, GotoAt DEF ReadBack, durable, session
<1>9. CASE Commit(a)
  BY <1>9, GotoAt DEF Commit, Publish, EndTx, TypeOK
<1>10. CASE Rollback(a)
  BY <1>10, GotoAt DEF Rollback, EndTx, durable, TypeOK
<1>11. CASE RejectTransaction(a)
  BY <1>11, GotoAt, ReplyAt DEF RejectTransaction, session
<1>12. CASE AdjustUpdate(a) \/ AdjustUnacknowledged(a)
  <2>1. \/ Goto(a, "adjRead") /\ UNCHANGED frame
        \/ Goto(a, "adjRecheck") /\ UNCHANGED frame
        \/ Goto(a, "replied") /\ Reply(a, "failed")
    BY <1>12 DEF AdjustUpdate, AdjustUnacknowledged
  <2> QED
    BY <1>12, <2>1, GotoAt, ReplyAt DEF AdjustUpdate, AdjustUnacknowledged, session
<1>13. CASE AdjustRecheck(a) \/ AdjustRead(a)
  <2>1. /\ frame'[a].owner = frame[a].owner
        /\ \A b \in Attempts \ {a} : frame'[b] = frame[b]
    BY <1>13 DEF AdjustRecheck, AdjustRead, SetFrame, TypeOK, FrameType
  <2> QED
    BY <1>13, <2>1, GotoAt DEF AdjustRecheck, AdjustRead, durable, session
<1>14. CASE TxStatementFails(a)
  BY <1>14, RaiseAt DEF TxStatementFails, durable, session
<1>15. CASE PoolStatementFails(a)
  <2>1. CASE pc[a] \in {"lookup", "begin"} /\ Raise(a, "reject", "internal")
    BY <1>15, <2>1, RaiseAt DEF PoolStatementFails, durable, session
  <2>2. CASE \/ pc[a] = "reject" /\ Goto(a, "replied") /\ Reply(a, "unaudited")
             \/ pc[a] \in AdjustSteps /\ Goto(a, "replied") /\ Reply(a, "failed")
    BY <1>15, <2>2, GotoAt, ReplyAt DEF PoolStatementFails, durable, session
  <2> QED
    BY <1>15, <2>1, <2>2 DEF PoolStatementFails
<1>16. CASE CommitFails(a)
  BY <1>16, RaiseAt DEF CommitFails, Publish, EndTx, durable, TypeOK
<1> QED
  BY <1>1, <1>2, <1>3, <1>4, <1>5, <1>6, <1>7, <1>8, <1>9, <1>10, <1>11, <1>12, <1>13,
     <1>14, <1>15, <1>16 DEF Progress

(* The next-state relation, sorted by what the inductive step needs. *)
LEMMA NextCases ==
    ASSUME TypeOK, [Next]_vars
    PROVE  \/ UNCHANGED vars
           \/ \E acc \in AccountIDs : OpenAccount(acc)
           \/ \E a \in Attempts, r \in Requests : Receive(a, r)
           \/ \E a \in Attempts : LookupAccount(a)
           \/ \E a \in Attempts :
                 /\ Resumes(a)
                 /\ \/ Progress(a) /\ ~LookupAccount(a)
                    \/ TxStatementFails(a) \/ PoolStatementFails(a)
                    \/ CommitFails(a) \/ AdjustUnacknowledged(a)
           \/ Crash
<1>1. ASSUME NEW a \in Attempts,
             \/ Progress(a) /\ ~LookupAccount(a)
             \/ TxStatementFails(a) \/ PoolStatementFails(a)
             \/ CommitFails(a) \/ AdjustUnacknowledged(a)
      PROVE  Resumes(a)
  BY <1>1, StepResumes
<1>2. ASSUME NEW a \in Attempts, Progress(a) PROVE LookupAccount(a) \/ ~LookupAccount(a)
  OBVIOUS
<1> QED
  BY <1>1, <1>2 DEF Next, Quiet, Progress

(* What the scoped account read leaves in the locals of its call.          *)
LEMMA LookupAt ==
    ASSUME TypeOK, NEW a \in Attempts, LookupAccount(a)
    PROVE  /\ pc[a] = "lookup"
           /\ \A b \in Attempts \ {a} : pc'[b] = pc[b] /\ frame'[b] = frame[b]
           /\ UNCHANGED <<accounts, balance, adjusted, ledger, audit, inserting,
                          updating, staged, conns, req>>
           /\ frame'[a].reply = frame[a].reply
           /\ frame'[a].original = frame[a].original
           /\ \/ /\ pc'[a] = "begin"
                 /\ frame'[a].owner = Owner[req[a].account]
                 /\ AccountVisible(req[a].user, req[a].account)
              \/ pc'[a] = "reject"
<1>1. /\ pc[a] = "lookup"
      /\ UNCHANGED <<accounts, balance, adjusted, ledger, audit, inserting,
                     updating, staged, conns, req>>
  BY DEF LookupAccount, durable, session
<1>2. CASE /\ AccountVisible(req[a].user, req[a].account)
           /\ Goto(a, "begin")
           /\ frame' = [frame EXCEPT ![a].owner = Owner[req[a].account]]
  <2>1. /\ frame'[a].owner = Owner[req[a].account]
        /\ frame'[a].reply = frame[a].reply
        /\ frame'[a].original = frame[a].original
        /\ \A b \in Attempts \ {a} : frame'[b] = frame[b]
    BY <1>2 DEF TypeOK, FrameType
  <2> QED
    BY <1>1, <1>2, <2>1, GotoAt
<1>3. CASE Raise(a, "reject", "unknown")
  BY <1>1, <1>3, RaiseAt
<1> QED
  BY <1>2, <1>3 DEF LookupAccount

(* What an arriving request leaves in its call.                            *)
LEMMA ReceiveAt ==
    ASSUME TypeOK, NEW a \in Attempts, NEW r \in Requests, Receive(a, r)
    PROVE  /\ pc[a] = "idle"
           /\ pc'[a] \in {"replied", "adjBegin", "lookup"}
           /\ req'[a] = r
           /\ frame'[a].owner = frame[a].owner
           /\ frame'[a].original = frame[a].original
           /\ \A b \in Attempts \ {a} :
                 pc'[b] = pc[b] /\ frame'[b] = frame[b] /\ req'[b] = req[b]
           /\ UNCHANGED <<accounts, balance, adjusted, ledger, audit, inserting,
                          updating, staged, conns>>
<1>1. /\ pc[a] = "idle"
      /\ UNCHANGED <<accounts, balance, adjusted, ledger, audit, inserting,
                     updating, staged, conns>>
      /\ req'[a] = r /\ \A b \in Attempts \ {a} : req'[b] = req[b]
  BY DEF Receive, durable, session, TypeOK
<1>2. CASE Goto(a, "replied") /\ Reply(a, "invalid")
  BY <1>1, <1>2, GotoAt, ReplyAt
<1>3. CASE Goto(a, IF r.kind = "adjust" THEN "adjBegin" ELSE "lookup") /\ UNCHANGED frame
  BY <1>1, <1>3, GotoAt
<1> QED
  BY <1>2, <1>3 DEF Receive

(* Every step of Next keeps CallsResolved.                                 *)
LEMMA CallsResolvedStep == IInv /\ [Next]_vars => CallsResolved'
<1> SUFFICES ASSUME IInv, [Next]_vars PROVE CallsResolved' OBVIOUS
<1>a. TypeOK /\ CallsResolved
  BY DEF IInv
<1>1. CASE UNCHANGED vars
  BY <1>1, <1>a DEF vars, durable, CallsResolved, AccountVisible
<1>2. CASE \E acc \in AccountIDs : OpenAccount(acc)
  BY <1>2, <1>a DEF OpenAccount, CallsResolved, AccountVisible
<1>3. ASSUME NEW a \in Attempts, NEW r \in Requests, Receive(a, r) PROVE CallsResolved'
  BY <1>3, <1>a, ReceiveAt, ConstantsAssumption DEF CallsResolved, AccountVisible, InTx, TxStatements
<1>4. ASSUME NEW a \in Attempts, LookupAccount(a) PROVE CallsResolved'
  BY <1>4, <1>a, LookupAt DEF CallsResolved, AccountVisible, InTx, TxStatements
<1>5. ASSUME NEW a \in Attempts, Resumes(a) PROVE CallsResolved'
  BY <1>5, <1>a DEF CallsResolved, AccountVisible, Resumes
<1>6. CASE Crash
  BY <1>6, <1>a DEF Crash, CallsResolved, AccountVisible, InTx, TxStatements, Ended, durable, TypeOK
<1> QED
  BY <1>a, <1>1, <1>2, <1>3, <1>4, <1>5, <1>6, NextCases

-----------------------------------------------------------------------------
(* The locks. *)

RefHolders == {"update", "recheck", "readBack", "auditAccepted", "commit", "rollback"}
RowHolders == {"readBack", "auditAccepted", "commit", "rollback"}

(* A step that touches no lock, ledger row or balance keeps the discipline *)
(* when its call does not walk away from its locks or past them.           *)
LEMMA LocksKept ==
    ASSUME IInv, NEW a \in Attempts, Resumes(a),
           UNCHANGED <<inserting, updating, ledger, balance>>,
           pc[a] \in RefHolders => pc'[a] \in RefHolders,
           pc[a] \in RowHolders => pc'[a] \in RowHolders,
           pc'[a] \in {"update", "recheck"} => pc[a] \in {"update", "recheck"},
           Accepting(a)' => Accepting(a),
           pc'[a] = "commit" /\ frame'[a].reply # "accepted" =>
               /\ \A r \in Refs : inserting[r] # a
               /\ \A acc \in AccountIDs : updating[acc] # a
    PROVE  LockDiscipline'
<1>1. RefLocks'
  BY NullsAssumption DEF IInv, TypeOK, LockDiscipline, RefLocks, RefHolders, Resumes
<1>2. RowLocks'
  BY NullsAssumption DEF IInv, TypeOK, LockDiscipline, RowLocks, RowHolders, Resumes, Delta, Storable
<1>3. LocksHeld'
  BY DEF IInv, LockDiscipline, LocksHeld, Resumes, Accepting
<1> QED
  BY <1>1, <1>2, <1>3 DEF LockDiscipline

(* The end of a transaction gives up its locks and no others. *)
LEMMA LocksReleased ==
    ASSUME IInv, NEW a \in Attempts, Resumes(a), EndTx(a),
           pc'[a] \in {"reject", "replied"},
           Publish(a) \/ UNCHANGED durable
    PROVE  LockDiscipline'
<1> USE DEF IInv, TypeOK, LockDiscipline, EndTx, ReleasedRefs, ReleasedRows, Publish, durable, Resumes
<1>1. RefLocks'
  BY NullsAssumption DEF RefLocks
<1>2. RowLocks'
  BY NullsAssumption DEF RowLocks, Delta, Storable
<1>3. LocksHeld'
  BY NullsAssumption DEF LocksHeld, Accepting, CallsResolved, RequestType, InTx, TxStatements
<1> QED
  BY <1>1, <1>2, <1>3

(* Every step of Next keeps LockDiscipline.                                *)
LEMMA LockStep == IInv /\ [Next]_vars => LockDiscipline'
<1> SUFFICES ASSUME IInv, [Next]_vars PROVE LockDiscipline' OBVIOUS
<1>a. TypeOK /\ LockDiscipline /\ CallsResolved
  BY DEF IInv
<1>1. CASE UNCHANGED vars
  BY <1>1, <1>a DEF vars, durable, session, LockDiscipline, RefLocks, RowLocks, LocksHeld,
     Accepting, Delta, Storable
<1>2. CASE \E acc \in AccountIDs : OpenAccount(acc)
  BY <1>2, <1>a DEF OpenAccount, session, LockDiscipline, RefLocks, RowLocks, LocksHeld,
     Accepting, Delta, Storable
<1>3. ASSUME NEW a \in Attempts, NEW r \in Requests, Receive(a, r) PROVE LockDiscipline'
  <2>1. /\ \A x \in Refs : inserting[x] # a
        /\ \A acc \in AccountIDs : updating[acc] # a
    BY <1>3, <1>a, ReceiveAt, NullsAssumption DEF LockDiscipline, RefLocks, RowLocks
  <2>2. RefLocks'
    BY <1>3, <1>a, <2>1, ReceiveAt DEF LockDiscipline, RefLocks, TypeOK
  <2>3. RowLocks'
    BY <1>3, <1>a, <2>1, ReceiveAt DEF LockDiscipline, RowLocks, TypeOK, Delta, Storable
  <2>4. LocksHeld'
    BY <1>3, <1>a, ReceiveAt DEF LockDiscipline, LocksHeld, Accepting
  <2> QED
    BY <2>2, <2>3, <2>4 DEF LockDiscipline
<1>4. ASSUME NEW a \in Attempts, LookupAccount(a) PROVE LockDiscipline'
  <2>1. /\ \A x \in Refs : inserting[x] # a
        /\ \A acc \in AccountIDs : updating[acc] # a
    BY <1>4, <1>a, LookupAt, NullsAssumption DEF LockDiscipline, RefLocks, RowLocks
  <2>2. RefLocks'
    BY <1>4, <1>a, <2>1, LookupAt DEF LockDiscipline, RefLocks, TypeOK
  <2>3. RowLocks'
    BY <1>4, <1>a, <2>1, LookupAt DEF LockDiscipline, RowLocks, TypeOK, Delta, Storable
  <2>4. LocksHeld'
    BY <1>4, <1>a, LookupAt DEF LockDiscipline, LocksHeld, Accepting
  <2> QED
    BY <2>2, <2>3, <2>4 DEF LockDiscipline
<1>5. ASSUME NEW a \in Attempts, Resumes(a), BeginTx(a) \/ AdjustBegin(a) PROVE LockDiscipline'
  <2>1. /\ pc[a] \in {"begin", "adjBegin"} /\ pc'[a] \in {"insert", "adjUpdate"}
        /\ UNCHANGED <<inserting, updating, ledger, balance>>
    BY <1>5, <1>a, GotoAt DEF BeginTx, AdjustBegin, durable, session
  <2> QED
    BY <1>5, <2>1, LocksKept DEF RefHolders, RowHolders, Accepting
<1>6. ASSUME NEW a \in Attempts, Resumes(a), InsertRow(a) PROVE LockDiscipline'
  <2>1. CASE ledger[req[a].ref] # NoRow /\ Goto(a, "fetchOriginal") /\ UNCHANGED inserting
    <3>1. /\ pc[a] = "insert" /\ pc'[a] = "fetchOriginal"
          /\ UNCHANGED <<inserting, updating, ledger, balance>>
      BY <1>6, <2>1, <1>a, GotoAt DEF InsertRow, durable
    <3> QED
      BY <1>6, <3>1, LocksKept DEF RefHolders, RowHolders, Accepting
  <2>2. CASE /\ ledger[req[a].ref] = NoRow /\ RefFree(a)
             /\ inserting' = [inserting EXCEPT ![req[a].ref] = a]
             /\ Goto(a, "update")
    <3>1. /\ pc[a] = "insert" /\ pc'[a] = "update"
          /\ UNCHANGED <<updating, ledger, balance>>
          /\ req[a].ref \in Refs
      BY <1>6, <2>2, <1>a, GotoAt, DeltaType DEF InsertRow, durable, CallsResolved
    <3>2. \A acc \in AccountIDs : updating[acc] # a
      BY <3>1, <1>a, NullsAssumption DEF LockDiscipline, RowLocks
    <3>3. RefLocks'
      BY <1>6, <2>2, <3>1, <1>a, NullsAssumption DEF LockDiscipline, RefLocks, TypeOK, Resumes
    <3>4. RowLocks'
      BY <1>6, <3>1, <3>2, <1>a DEF LockDiscipline, RowLocks, TypeOK, Resumes, Delta, Storable
    <3>5. LocksHeld'
      BY <1>6, <2>2, <3>1, <3>2, <1>a, NullsAssumption
      DEF LockDiscipline, LocksHeld, Accepting, Resumes, RefFree, TypeOK
    <3> QED
      BY <3>3, <3>4, <3>5 DEF LockDiscipline
  <2> QED
    BY <1>6, <2>1, <2>2 DEF InsertRow
<1>7. ASSUME NEW a \in Attempts, Resumes(a), FetchOriginal(a) \/ FetchAccount(a) PROVE LockDiscipline'
  <2>1. /\ pc[a] \in {"fetchOriginal", "fetchAccount"}
        /\ pc'[a] \in {"fetchAccount", "auditDuplicate", "rollback"}
        /\ UNCHANGED <<inserting, updating, ledger, balance>>
    BY <1>7, <1>a, GotoAt DEF FetchOriginal, FetchAccount, durable, session, Raise
  <2> QED
    BY <1>7, <2>1, LocksKept DEF RefHolders, RowHolders, Accepting
<1>8. ASSUME NEW a \in Attempts, Resumes(a), AuditDuplicate(a) PROVE LockDiscipline'
  <2>1. /\ pc[a] = "auditDuplicate" /\ pc'[a] = "commit" /\ frame'[a].reply = "duplicate"
        /\ UNCHANGED <<inserting, updating, ledger, balance>>
    BY <1>8, <1>a, GotoAt, ReplyAt DEF AuditDuplicate, durable
  <2>2. /\ \A r \in Refs : inserting[r] # a
        /\ \A acc \in AccountIDs : updating[acc] # a
    BY <2>1, <1>a, NullsAssumption DEF LockDiscipline, RefLocks, RowLocks
  <2> QED
    BY <1>8, <2>1, <2>2, LocksKept DEF RefHolders, RowHolders, Accepting
<1>9. ASSUME NEW a \in Attempts, Resumes(a), UpdateBalance(a) PROVE LockDiscipline'
  <2>1. CASE UNCHANGED updating
    <3>1. /\ pc[a] = "update" /\ pc'[a] \in {"recheck", "rollback"}
          /\ UNCHANGED <<inserting, updating, ledger, balance>>
      <4>1. pc[a] = "update" /\ UNCHANGED <<inserting, updating, ledger, balance>>
        BY <1>9, <2>1 DEF UpdateBalance, durable
      <4>2. Goto(a, "recheck") \/ Goto(a, "rollback")
            \/ (RowFree(a) /\ updating' = [updating EXCEPT ![req[a].account] = a])
        BY <1>9 DEF UpdateBalance, Raise
      <4>3. req[a].account \in AccountIDs
        BY <4>1, <1>a, DeltaType DEF CallsResolved
      <4>4. ~(RowFree(a) /\ updating' = [updating EXCEPT ![req[a].account] = a])
        BY <2>1, <4>3, <1>a, NullsAssumption DEF RowFree, TypeOK
      <4> QED
        BY <4>1, <4>2, <4>4, <1>a, GotoAt
    <3> QED
      BY <1>9, <3>1, LocksKept DEF RefHolders, RowHolders, Accepting
  <2>2. CASE /\ Storable(balance[req[a].account] + Delta(a)) /\ RowFree(a)
             /\ updating' = [updating EXCEPT ![req[a].account] = a]
             /\ Goto(a, "readBack")
             /\ UNCHANGED frame
    <3>1. /\ pc[a] = "update" /\ pc'[a] = "readBack"
          /\ UNCHANGED <<inserting, ledger, balance>>
          /\ req[a].account \in AccountIDs
      BY <1>9, <2>2, <1>a, GotoAt, DeltaType DEF UpdateBalance, durable, CallsResolved
    <3>2. RefLocks'
      BY <1>9, <3>1, <1>a, NullsAssumption DEF LockDiscipline, RefLocks, TypeOK, Resumes
    <3>3. RowLocks'
      BY <1>9, <2>2, <3>1, <1>a, NullsAssumption
      DEF LockDiscipline, RowLocks, TypeOK, Resumes, Delta, Storable
    <3>4. LocksHeld'
      BY <1>9, <2>2, <3>1, <1>a, NullsAssumption
      DEF LockDiscipline, LocksHeld, Accepting, Resumes, RowFree, TypeOK
    <3> QED
      BY <3>2, <3>3, <3>4 DEF LockDiscipline
  <2> QED
    BY <1>9, <2>1, <2>2 DEF UpdateBalance
<1>10. ASSUME NEW a \in Attempts, Resumes(a), Recheck(a) PROVE LockDiscipline'
  <2>1. /\ pc[a] = "recheck" /\ pc'[a] = "rollback"
        /\ UNCHANGED <<inserting, updating, ledger, balance>>
    BY <1>10, <1>a, GotoAt DEF Recheck, durable, session, Raise
  <2> QED
    BY <1>10, <2>1, LocksKept DEF RefHolders, RowHolders, Accepting
<1>11. ASSUME NEW a \in Attempts, Resumes(a), ReadBack(a) PROVE LockDiscipline'
  <2>1. /\ pc[a] = "readBack" /\ pc'[a] = "auditAccepted"
        /\ UNCHANGED <<inserting, updating, ledger, balance>>
    BY <1>11, <1>a, GotoAt DEF ReadBack, durable, session
  <2> QED
    BY <1>11, <2>1, LocksKept DEF RefHolders, RowHolders, Accepting
<1>12. ASSUME NEW a \in Attempts, Resumes(a), AuditAccepted(a) PROVE LockDiscipline'
  <2>1. /\ pc[a] = "auditAccepted" /\ pc'[a] = "commit" /\ frame'[a].reply = "accepted"
        /\ UNCHANGED <<inserting, updating, ledger, balance>>
    BY <1>12, <1>a, GotoAt, ReplyAt DEF AuditAccepted, durable
  <2> QED
    BY <1>12, <2>1, LocksKept DEF RefHolders, RowHolders, Accepting
<1>13. ASSUME NEW a \in Attempts, Resumes(a), Commit(a) \/ Rollback(a) \/ CommitFails(a)
       PROVE  LockDiscipline'
  <2>1. /\ EndTx(a) /\ pc'[a] \in {"reject", "replied"}
        /\ Publish(a) \/ UNCHANGED durable
    BY <1>13, <1>a, GotoAt DEF Commit, Rollback, CommitFails, Raise
  <2> QED
    BY <1>13, <2>1, LocksReleased
<1>14. ASSUME NEW a \in Attempts, Resumes(a), RejectTransaction(a) \/ AdjustRecheck(a) \/ AdjustRead(a)
       PROVE  LockDiscipline'
  <2>1. /\ pc[a] \in {"reject", "adjRecheck", "adjRead"} /\ pc'[a] = "replied"
        /\ UNCHANGED <<inserting, updating, ledger, balance>>
    BY <1>14, <1>a, GotoAt DEF RejectTransaction, AdjustRecheck, AdjustRead, durable, session
  <2> QED
    BY <1>14, <2>1, LocksKept DEF RefHolders, RowHolders, Accepting
<1>15. ASSUME NEW a \in Attempts, Resumes(a), AdjustUpdate(a) \/ AdjustUnacknowledged(a)
       PROVE  LockDiscipline'
  <2>1. /\ pc[a] = "adjUpdate" /\ pc'[a] \in {"adjRead", "adjRecheck", "replied"}
        /\ UNCHANGED <<inserting, updating, ledger>>
    BY <1>15, <1>a, GotoAt DEF AdjustUpdate, AdjustUnacknowledged, session
  <2>2. CASE UNCHANGED balance
    BY <1>15, <2>1, <2>2, LocksKept DEF RefHolders, RowHolders, Accepting
  <2>3. CASE AdjustApplies(a)
    <3>1. RefLocks'
      BY <1>15, <2>1, <1>a, NullsAssumption DEF LockDiscipline, RefLocks, TypeOK, Resumes
    <3>2. \A acc \in AccountIDs : updating[acc] # Nobody => balance'[acc] = balance[acc]
      BY <2>3, <1>a DEF AdjustApplies, RowFree, TypeOK
    <3>3. RowLocks'
      BY <1>15, <2>1, <3>2, <1>a, NullsAssumption
      DEF LockDiscipline, RowLocks, TypeOK, Resumes, Delta, Storable
    <3>4. LocksHeld'
      BY <1>15, <2>1, <1>a DEF LockDiscipline, LocksHeld, Accepting, Resumes
    <3> QED
      BY <3>1, <3>3, <3>4 DEF LockDiscipline
  <2> QED
    BY <1>15, <2>2, <2>3 DEF AdjustUpdate, AdjustUnacknowledged
<1>16. ASSUME NEW a \in Attempts, Resumes(a), TxStatementFails(a) PROVE LockDiscipline'
  <2>1. /\ pc[a] \in TxStatements /\ pc'[a] = "rollback"
        /\ UNCHANGED <<inserting, updating, ledger, balance>>
    BY <1>16, <1>a, GotoAt DEF TxStatementFails, durable, session, Raise
  <2> QED
    BY <1>16, <2>1, LocksKept DEF RefHolders, RowHolders, Accepting
<1>17. ASSUME NEW a \in Attempts, Resumes(a), PoolStatementFails(a) PROVE LockDiscipline'
  <2>1. /\ pc[a] \in {"lookup", "begin", "reject"} \union AdjustSteps
        /\ pc'[a] \in {"reject", "replied"}
        /\ UNCHANGED <<inserting, updating, ledger, balance>>
    BY <1>17, <1>a, GotoAt DEF PoolStatementFails, durable, session, Raise
  <2> QED
    BY <1>17, <2>1, LocksKept DEF RefHolders, RowHolders, Accepting, AdjustSteps
<1>18. CASE Crash
  BY <1>18, <1>a DEF Crash, LockDiscipline, RefLocks, RowLocks, LocksHeld, Accepting, Ended, TypeOK
<1> QED
  BY <1>a, <1>1, <1>2, <1>3, <1>4, <1>5, <1>6, <1>7, <1>8, <1>9, <1>10, <1>11, <1>12, <1>13,
     <1>14, <1>15, <1>16, <1>17, <1>18, NextCases DEF Progress

-----------------------------------------------------------------------------
(* The audit rows. *)

(* Recorded refs stay recorded. *)
LEMMA LedgerGrows ==
    ASSUME IInv, [Next]_vars, NEW r \in Refs, ledger[r] # NoRow
    PROVE  ledger'[r] = ledger[r]
<1>a. TypeOK
  BY DEF IInv
<1>1. ASSUME NEW a \in Attempts, Publish(a) PROVE ledger'[r] = ledger[r]
  BY <1>1, NullsAssumption DEF Publish, IInv, TypeOK, LockDiscipline, RefLocks
<1>2. UNCHANGED ledger \/ \E a \in Attempts : Publish(a)
  BY DEF Next, Progress, Quiet, vars, OpenAccount, Receive, LookupAccount, BeginTx, InsertRow,
     FetchOriginal, FetchAccount, AuditDuplicate, UpdateBalance, Recheck, ReadBack, AuditAccepted,
     Commit, Rollback, RejectTransaction, AdjustBegin, AdjustUpdate, AdjustRecheck, AdjustRead,
     TxStatementFails, PoolStatementFails, CommitFails, AdjustUnacknowledged, Crash, durable
<1> QED
  BY <1>1, <1>2

(* The part of StagedEntries about one call. *)
StagedOf(a) ==
    /\ pc[a] # "commit" => staged[a] = {}
    /\ pc[a] = "commit" =>
          \/ /\ frame[a].reply = "accepted"
             /\ staged[a] = {buildAuditEntry(a, "accepted", "ok", frame[a].owner)}
          \/ /\ frame[a].reply = "duplicate"
             /\ staged[a] = {buildAuditEntry(a, "duplicate", "duplicate", frame[a].owner)}
             /\ ledger[req[a].ref] # NoRow
    /\ pc[a] \in {"fetchOriginal", "fetchAccount", "auditDuplicate"} =>
          /\ ledger[req[a].ref] # NoRow
          /\ \A r \in Refs : inserting[r] # a

(* A step that leaves a call and its ref alone keeps its staged rows.      *)
LEMMA StagedOthers ==
    ASSUME IInv, [Next]_vars, NEW a \in Attempts,
           NEW b \in Attempts, b # a, pc'[b] = pc[b], frame'[b] = frame[b],
           staged'[b] = staged[b], req'[b] = req[b],
           \A r \in Refs : inserting'[r] \in {inserting[r], a, Nobody}
    PROVE  StagedOf(b)'
<1>1. StagedOf(b)
  BY DEF IInv, StagedEntries, StagedOf
<1>2. pc[b] # "idle" => req[b].ref \in Refs
  BY DeltaType DEF IInv, CallsResolved
<1>3. pc[b] # "idle" /\ ledger[req[b].ref] # NoRow => ledger'[req[b].ref] # NoRow
  BY <1>2, LedgerGrows
<1> QED
  BY <1>1, <1>3, NullsAssumption DEF StagedOf, buildAuditEntry, Delta

(* Every step of Next keeps StagedEntries.                                 *)
LEMMA StagedStep == IInv /\ [Next]_vars => StagedEntries'
<1> SUFFICES ASSUME IInv, [Next]_vars, NEW c \in Attempts PROVE StagedOf(c)'
  BY DEF StagedEntries, StagedOf
<1>a. TypeOK /\ StagedOf(c)
  BY DEF IInv, StagedEntries, StagedOf
<1>b. ASSUME NEW a \in Attempts PROVE StagedOf(a)
  BY DEF IInv, StagedEntries, StagedOf
<1>1. CASE UNCHANGED vars
  BY <1>1, <1>a DEF vars, durable, session, StagedOf, buildAuditEntry, Delta
<1>2. CASE \E acc \in AccountIDs : OpenAccount(acc)
  BY <1>2, <1>a DEF OpenAccount, session, StagedOf, buildAuditEntry, Delta
<1>3. ASSUME NEW a \in Attempts, NEW r \in Requests, Receive(a, r) PROVE StagedOf(c)'
  BY <1>3, <1>a, ReceiveAt, StagedOthers DEF StagedOf
<1>4. ASSUME NEW a \in Attempts, LookupAccount(a) PROVE StagedOf(c)'
  BY <1>4, <1>a, LookupAt, StagedOthers DEF StagedOf
<1>5. ASSUME NEW a \in Attempts, Resumes(a), c # a,
             UNCHANGED inserting \/ InsertRow(a) \/ EndTx(a)
      PROVE  StagedOf(c)'
  <2>1. \A r \in Refs : inserting'[r] \in {inserting[r], a, Nobody}
    BY <1>5, <1>a DEF InsertRow, EndTx, ReleasedRefs, TypeOK
  <2> QED
    BY <1>5, <2>1, StagedOthers DEF Resumes
<1>6. ASSUME NEW a \in Attempts, Resumes(a), BeginTx(a) \/ AdjustBegin(a) PROVE StagedOf(c)'
  <2>1. pc'[a] \in {"insert", "adjUpdate"} /\ pc[a] # "commit" /\ UNCHANGED <<inserting, staged>>
    BY <1>6, <1>a, GotoAt DEF BeginTx, AdjustBegin, session
  <2> QED
    BY <1>5, <1>6, <1>a, <2>1 DEF StagedOf
<1>7. ASSUME NEW a \in Attempts, Resumes(a), InsertRow(a) PROVE StagedOf(c)'
  <2>1. /\ UNCHANGED <<staged, req, ledger>> /\ pc[a] = "insert"
        /\ \/ pc'[a] = "update"
           \/ pc'[a] = "fetchOriginal" /\ ledger[req[a].ref] # NoRow /\ UNCHANGED inserting
    BY <1>7, <1>a, GotoAt DEF InsertRow, durable
  <2>2. \A r \in Refs : inserting[r] # a
    BY <2>1, NullsAssumption DEF IInv, LockDiscipline, RefLocks
  <2>3. StagedOf(a)'
    BY <1>b, <2>1, <2>2 DEF StagedOf
  <2> QED
    BY <1>5, <1>7, <2>3
<1>8. ASSUME NEW a \in Attempts, Resumes(a), FetchOriginal(a) \/ FetchAccount(a) PROVE StagedOf(c)'
  <2>1. /\ UNCHANGED <<inserting, staged, req, ledger>>
        /\ pc[a] \in {"fetchOriginal", "fetchAccount"}
        /\ pc'[a] \in {"fetchAccount", "auditDuplicate", "rollback"}
    BY <1>8, <1>a, GotoAt DEF FetchOriginal, FetchAccount, durable, session, Raise
  <2>2. StagedOf(a)'
    BY <1>b, <2>1 DEF StagedOf
  <2> QED
    BY <1>5, <1>8, <2>1, <2>2
<1>9. ASSUME NEW a \in Attempts, Resumes(a), AuditDuplicate(a) PROVE StagedOf(c)'
  <2>1. /\ UNCHANGED <<inserting, req, ledger>>
        /\ pc[a] = "auditDuplicate" /\ pc'[a] = "commit"
        /\ frame'[a].reply = "duplicate" /\ frame'[a].owner = frame[a].owner
    BY <1>9, <1>a, GotoAt, ReplyAt DEF AuditDuplicate, durable
  <2>2. staged'[a] = {buildAuditEntry(a, "duplicate", "duplicate", frame[a].owner)}
    BY <1>9, <1>a DEF AuditDuplicate, TypeOK
  <2>3. StagedOf(a)'
    BY <1>b, <2>1, <2>2 DEF StagedOf, buildAuditEntry, Delta
  <2> QED
    BY <1>5, <1>9, <2>1, <2>3
<1>10. ASSUME NEW a \in Attempts, Resumes(a), UpdateBalance(a) PROVE StagedOf(c)'
  <2>1. pc[a] = "update" /\ UNCHANGED <<inserting, staged>>
    BY <1>10 DEF UpdateBalance
  <2>2. pc'[a] \in {"readBack", "rollback", "recheck"}
    BY <1>10, <1>a, GotoAt DEF UpdateBalance, Raise
  <2>3. StagedOf(a)'
    BY <1>b, <2>1, <2>2 DEF StagedOf
  <2> QED
    BY <1>5, <1>10, <2>1, <2>3
<1>11. ASSUME NEW a \in Attempts, Resumes(a), Recheck(a) \/ ReadBack(a) \/ TxStatementFails(a)
       PROVE  StagedOf(c)'
  <2>1. /\ pc[a] \in TxStatements /\ pc'[a] \in {"rollback", "auditAccepted"}
        /\ UNCHANGED <<inserting, staged>>
    BY <1>11, <1>a, GotoAt DEF Recheck, ReadBack, TxStatementFails, TxStatements, session, Raise
  <2>2. StagedOf(a)'
    BY <1>b, <2>1 DEF StagedOf, TxStatements
  <2> QED
    BY <1>5, <1>11, <2>1, <2>2
<1>12. ASSUME NEW a \in Attempts, Resumes(a), AuditAccepted(a) PROVE StagedOf(c)'
  <2>1. /\ UNCHANGED <<inserting, req>>
        /\ pc'[a] = "commit"
        /\ frame'[a].reply = "accepted" /\ frame'[a].owner = frame[a].owner
    BY <1>12, <1>a, GotoAt, ReplyAt DEF AuditAccepted
  <2>2. staged'[a] = {buildAuditEntry(a, "accepted", "ok", frame[a].owner)}
    BY <1>12, <1>a DEF AuditAccepted, TypeOK
  <2>3. StagedOf(a)'
    BY <2>1, <2>2 DEF StagedOf, buildAuditEntry, Delta
  <2> QED
    BY <1>5, <1>12, <2>1, <2>3
<1>13. ASSUME NEW a \in Attempts, Resumes(a), Commit(a) \/ Rollback(a) \/ CommitFails(a)
       PROVE  StagedOf(c)'
  <2>1. EndTx(a) /\ pc'[a] \in {"reject", "replied"}
    BY <1>13, <1>a, GotoAt DEF Commit, Rollback, CommitFails, Raise
  <2>2. StagedOf(a)'
    BY <2>1, <1>a DEF StagedOf, EndTx, TypeOK
  <2> QED
    BY <1>5, <1>13, <2>1, <2>2
<1>14. ASSUME NEW a \in Attempts, Resumes(a),
              \/ RejectTransaction(a) \/ AdjustRecheck(a) \/ AdjustRead(a)
              \/ AdjustUpdate(a) \/ AdjustUnacknowledged(a) \/ PoolStatementFails(a)
       PROVE  StagedOf(c)'
  <2>1. /\ pc[a] \in {"lookup", "begin", "reject"} \union AdjustSteps
        /\ pc'[a] \in {"reject", "replied"} \union AdjustSteps
        /\ UNCHANGED <<inserting, staged>>
    BY <1>14, <1>a, GotoAt DEF RejectTransaction, AdjustRecheck, AdjustRead, AdjustUpdate,
       AdjustUnacknowledged, PoolStatementFails, Raise, session, AdjustSteps
  <2>2. StagedOf(a)'
    BY <1>b, <2>1 DEF StagedOf, AdjustSteps
  <2> QED
    BY <1>5, <1>14, <2>1, <2>2
<1>15. CASE Crash
  BY <1>15, <1>a DEF Crash, StagedOf, Ended, TypeOK
<1> QED
  BY <1>a, <1>1, <1>2, <1>3, <1>4, <1>6, <1>7, <1>8, <1>9, <1>10, <1>11, <1>12, <1>13,
     <1>14, <1>15, NextCases DEF Progress

(* What a step of call a may add to the audit trail. *)
AuditsOnly(a) ==
    \A e \in audit' :
        \/ e \in audit
        \/ e.id = a /\ pc'[a] = "replied"
        \/ e.id = a /\ pc'[a] = "reject" /\ e.outcome # "rejected"

(* Every step of Next keeps AuditOnce.                                     *)
LEMMA AuditStep == IInv /\ [Next]_vars => AuditOnce'
<1> SUFFICES ASSUME IInv, [Next]_vars PROVE AuditOnce' OBVIOUS
<1>a. TypeOK /\ AuditOnce
  BY DEF IInv
<1>e. \A e \in audit : e.id \in Attempts
  BY <1>a DEF TypeOK, EntryType
<1>1. CASE UNCHANGED vars
  BY <1>1, <1>a DEF vars, durable, AuditOnce
<1>2. CASE \E acc \in AccountIDs : OpenAccount(acc)
  BY <1>2, <1>a DEF OpenAccount, AuditOnce
<1>3. ASSUME NEW a \in Attempts, NEW r \in Requests, Receive(a, r) PROVE AuditOnce'
  BY <1>3, <1>a, <1>e, ReceiveAt DEF AuditOnce, Ended
<1>4. ASSUME NEW a \in Attempts, LookupAccount(a) PROVE AuditOnce'
  BY <1>4, <1>a, <1>e, LookupAt DEF AuditOnce, Ended
<1>5. ASSUME NEW a \in Attempts, Resumes(a), pc[a] \notin Ended,
             pc[a] = "reject" => pc'[a] = "replied",
             AuditsOnly(a)
      PROVE  AuditOnce'
  BY <1>5, <1>a, <1>e DEF AuditOnce, AuditsOnly, Resumes, Ended
<1>6. ASSUME NEW a \in Attempts, Resumes(a),
             \/ BeginTx(a) \/ InsertRow(a) \/ FetchOriginal(a) \/ FetchAccount(a)
             \/ AuditDuplicate(a) \/ UpdateBalance(a) \/ Recheck(a) \/ ReadBack(a)
             \/ AuditAccepted(a) \/ Rollback(a)
             \/ AdjustBegin(a) \/ AdjustUpdate(a) \/ AdjustRecheck(a) \/ AdjustRead(a)
             \/ TxStatementFails(a) \/ AdjustUnacknowledged(a)
      PROVE  AuditOnce'
  <2>1. pc[a] \notin Ended /\ pc[a] # "reject" /\ audit' = audit
    BY <1>6 DEF BeginTx, InsertRow, FetchOriginal, FetchAccount, AuditDuplicate, UpdateBalance,
       Recheck, ReadBack, AuditAccepted, Rollback, AdjustBegin, AdjustUpdate, AdjustRecheck,
       AdjustRead, TxStatementFails, AdjustUnacknowledged, TxStatements, Ended, durable
  <2>2. AuditsOnly(a)
    BY <2>1 DEF AuditsOnly
  <2> QED
    BY <1>5, <1>6, <2>1, <2>2
<1>7. ASSUME NEW a \in Attempts, Resumes(a), PoolStatementFails(a) PROVE AuditOnce'
  <2>1. /\ pc[a] \notin Ended /\ audit' = audit
        /\ pc[a] = "reject" => pc'[a] = "replied"
    BY <1>7, <1>a, GotoAt DEF PoolStatementFails, AdjustSteps, Ended, durable
  <2>2. AuditsOnly(a)
    BY <2>1 DEF AuditsOnly
  <2> QED
    BY <1>5, <1>7, <2>1, <2>2
<1>8. ASSUME NEW a \in Attempts, Resumes(a), RejectTransaction(a) PROVE AuditOnce'
  <2>1. pc[a] = "reject" /\ pc'[a] = "replied"
    BY <1>8, <1>a, GotoAt DEF RejectTransaction
  <2>2. \A e \in audit' : e \in audit \/ e.id = a
    BY <1>8 DEF RejectTransaction, buildAuditEntry
  <2> QED
    BY <1>5, <1>8, <2>1, <2>2 DEF Ended, AuditsOnly
<1>9. ASSUME NEW a \in Attempts, Resumes(a), Commit(a) \/ CommitFails(a) PROVE AuditOnce'
  <2>1. pc[a] = "commit" /\ pc'[a] \in {"replied", "reject"}
    BY <1>9, <1>a, GotoAt DEF Commit, CommitFails, Raise
  <2>2. \A e \in staged[a] : e.id = a /\ e.outcome # "rejected"
    BY <2>1 DEF IInv, StagedEntries, buildAuditEntry
  <2>3. \A e \in audit' : e \in audit \/ e \in staged[a]
    BY <1>9 DEF Commit, CommitFails, Publish, durable
  <2>4. AuditsOnly(a)
    BY <2>1, <2>2, <2>3 DEF AuditsOnly
  <2> QED
    BY <1>5, <1>9, <2>1, <2>4 DEF Ended
<1>10. CASE Crash
  BY <1>10, <1>a, <1>e DEF Crash, AuditOnce, Ended, durable, TypeOK
<1> QED
  BY <1>a, <1>1, <1>2, <1>3, <1>4, <1>6, <1>7, <1>8, <1>9, <1>10, NextCases DEF Progress

-----------------------------------------------------------------------------
(* Theorems. *)

(* The inductive invariant: types, resolved requests, the lock discipline, *)
(* staged audit rows and the audit trail of unfinished calls.              *)
THEOREM Invariance == Spec => []IInv
<1>1. Init => IInv
  BY InitIInv
<1>2. IInv /\ [Next]_vars => IInv'
  BY TypeStep, CallsResolvedStep, LockStep, StagedStep, AuditStep DEF IInv
<1> QED
  BY <1>1, <1>2, PTL DEF Spec

(* Every variable of the wallet keeps its type, whatever the requests and  *)
(* the failures.                                                           *)
THEOREM TypeCorrect == Spec => []TypeOK
<1>1. IInv => TypeOK
  BY DEF IInv
<1> QED
  BY <1>1, Invariance, PTL

(* From the INSERT and the UPDATE of ProcessTransaction to its commit or   *)
(* rollback, the ref and the row belong to one call, and what the          *)
(* statements found is still true.                                         *)
THEOREM LocksSafe == Spec => []LockDiscipline
<1>1. IInv => LockDiscipline
  BY DEF IInv
<1> QED
  BY <1>1, Invariance, PTL

(* A commit of the unit of work is one Accept of the abstract ledger, or   *)
(* the Note of a duplicate: the checks made by earlier statements hold at  *)
(* commit time because of the locks.                                       *)
LEMMA PublishRefines ==
    ASSUME IInv, NEW a \in Attempts, pc[a] = "commit", Publish(a)
    PROVE  Abstract!Next
<1> DEFINE rf == req[a].ref
           acc == req[a].account
<1>1. /\ req[a] \in RequestType /\ rf \in Refs /\ acc \in AccountIDs /\ Delta(a) \in Int
      /\ acc \in accounts
  BY DeltaType DEF IInv, CallsResolved, InTx, AccountVisible
<1>2. ASSUME NEW e, e.id = a PROVE e \notin audit
  BY <1>2 DEF IInv, AuditOnce, Ended
<1>3. CASE frame[a].reply = "accepted"
  <2> DEFINE entry == buildAuditEntry(a, "accepted", "ok", frame[a].owner)
  <2>1. staged[a] = {entry}
    BY <1>3 DEF IInv, StagedEntries
  <2>2. entry.id = a /\ entry.ref = rf /\ entry.outcome = "accepted"
    BY DEF buildAuditEntry
  <2> HIDE DEF entry
  <2>3. entry \notin audit
    BY <1>2, <2>2
  <2>4. audit' = audit \union {entry} /\ UNCHANGED <<accounts, adjusted>>
    BY <2>1 DEF Publish
  <2>5. /\ inserting[rf] = a /\ \A x \in Refs : inserting[x] = a => x = rf
        /\ ledger[rf] = NoRow
    BY <1>1, <1>3, NullsAssumption DEF IInv, LockDiscipline, RefLocks, LocksHeld, Accepting
  <2>6. /\ updating[acc] = a /\ \A x \in AccountIDs : updating[x] = a => x = acc
        /\ balance[acc] + Delta(a) \in 0..MaxBalance
    BY <1>1, <1>3, NullsAssumption DEF IInv, LockDiscipline, RowLocks, LocksHeld, Accepting, Storable
  <2>7. newRow(a) \in RowType /\ newRow(a) # NoRow
    <3>1. frame[a].owner \in Users
      BY <1>1, ConstantsAssumption DEF IInv, CallsResolved, InTx
    <3> QED
      BY <1>1, <3>1, RowTyped, NoRowAssumption
  <2>8. newRow(a).account = acc /\ newRow(a).points = Delta(a) /\ newRow(a).id = a
    BY DEF newRow
  <2>9. ledger' = [ledger EXCEPT ![rf] = newRow(a)] /\ ledger'[rf] = newRow(a)
    BY <1>1, <2>5 DEF Publish, IInv, TypeOK
  <2>10. balance' = [balance EXCEPT ![acc] = balance[acc] + Delta(a)]
    BY <1>1, <2>6 DEF Publish, IInv, TypeOK
  <2>11. Abstract!Accept(rf, ledger'[rf], entry)
    BY <1>1, <2>2, <2>3, <2>4, <2>5, <2>6, <2>7, <2>8, <2>9, <2>10 DEF Abstract!Accept
  <2>12. entry \in audit' \ audit
    BY <2>3, <2>4
  <2> QED
    BY <1>1, <2>11, <2>12 DEF Abstract!Next
<1>4. CASE frame[a].reply # "accepted"
  <2> DEFINE entry == buildAuditEntry(a, "duplicate", "duplicate", frame[a].owner)
  <2>1. staged[a] = {entry} /\ ledger[rf] # NoRow
    BY <1>4 DEF IInv, StagedEntries
  <2>2. entry.id = a /\ entry.ref = rf /\ entry.outcome = "duplicate"
    BY DEF buildAuditEntry
  <2> HIDE DEF entry
  <2>3. entry \notin audit /\ audit' = audit \union {entry}
    BY <1>2, <2>1, <2>2 DEF Publish
  <2>4. ledger' = ledger /\ balance' = balance /\ UNCHANGED <<accounts, adjusted>>
    BY <1>4 DEF Publish, IInv, TypeOK, LockDiscipline, LocksHeld
  <2>5. Abstract!Note(entry)
    BY <2>1, <2>2, <2>3, <2>4 DEF Abstract!Note
  <2> QED
    BY <2>3, <2>5 DEF Abstract!Next
<1> QED
  BY <1>3, <1>4

(* An adjustment is a step of the abstract ledger.                         *)
LEMMA AdjustRefines ==
    ASSUME IInv, NEW a \in Attempts, pc[a] = "adjUpdate", AdjustApplies(a),
           UNCHANGED <<accounts, ledger, audit>>
    PROVE  Abstract!Next
<1> DEFINE acc == req[a].account
<1>1. acc \in AccountIDs /\ Delta(a) \in Int
  BY DeltaType DEF IInv, CallsResolved
<1>2. balance'[acc] - balance[acc] = Delta(a)
  BY <1>1 DEF AdjustApplies, IInv, TypeOK
<1>3. Abstract!Adjust(acc, balance'[acc] - balance[acc])
  BY <1>1, <1>2 DEF Abstract!Adjust, AdjustApplies, Guard, Storable
<1> QED
  BY <1>1, <1>3 DEF Abstract!Next

(* Every step of the wallet is a step of the ledger or a stutter.          *)
LEMMA StepRefines ==
    ASSUME IInv, [Next]_vars
    PROVE  [Abstract!Next]_(Abstract!vars)
<1> USE DEF Abstract!vars
<1>1. CASE UNCHANGED durable
  BY <1>1 DEF durable
<1>2. CASE UNCHANGED vars
  BY <1>2 DEF vars, durable
<1>3. ASSUME NEW acc \in AccountIDs, OpenAccount(acc) PROVE Abstract!Next
  BY <1>3 DEF OpenAccount, Abstract!Next, Abstract!Open
<1>4. ASSUME NEW a \in Attempts, Commit(a) \/ CommitFails(a) PROVE Abstract!Next \/ UNCHANGED durable
  BY <1>4, PublishRefines DEF Commit, CommitFails
<1>5. ASSUME NEW a \in Attempts, RejectTransaction(a) PROVE Abstract!Next
  <2> DEFINE entry == buildAuditEntry(a, "rejected", frame[a].cause, frame[a].owner)
  <2>1. entry.id = a /\ entry.outcome = "rejected"
    BY DEF buildAuditEntry
  <2>2. audit' = audit \union {entry} /\ UNCHANGED <<accounts, balance, adjusted, ledger>>
        /\ pc[a] = "reject"
    BY <1>5 DEF RejectTransaction
  <2> HIDE DEF entry
  <2>3. entry \notin audit
    BY <2>1, <2>2 DEF IInv, AuditOnce
  <2>4. Abstract!Note(entry)
    BY <2>1, <2>2, <2>3 DEF Abstract!Note
  <2> QED
    BY <2>2, <2>3, <2>4 DEF Abstract!Next
<1>6. ASSUME NEW a \in Attempts, AdjustUpdate(a) \/ AdjustUnacknowledged(a)
      PROVE  Abstract!Next \/ UNCHANGED durable
  BY <1>6, AdjustRefines DEF AdjustUpdate, AdjustUnacknowledged, durable
<1>7. ASSUME NEW a \in Attempts,
             \/ LookupAccount(a) \/ BeginTx(a) \/ InsertRow(a) \/ FetchOriginal(a)
             \/ FetchAccount(a) \/ AuditDuplicate(a) \/ UpdateBalance(a) \/ Recheck(a)
             \/ ReadBack(a) \/ AuditAccepted(a) \/ Rollback(a) \/ AdjustBegin(a)
             \/ AdjustRecheck(a) \/ AdjustRead(a) \/ TxStatementFails(a) \/ PoolStatementFails(a)
      PROVE  UNCHANGED durable
  BY <1>7 DEF LookupAccount, BeginTx, InsertRow, FetchOriginal, FetchAccount, AuditDuplicate,
     UpdateBalance, Recheck, ReadBack, AuditAccepted, Rollback, AdjustBegin, AdjustRecheck,
     AdjustRead, TxStatementFails, PoolStatementFails
<1>8. ASSUME NEW a \in Attempts, NEW r \in Requests, Receive(a, r) PROVE UNCHANGED durable
  BY <1>8 DEF Receive
<1>9. Crash => UNCHANGED durable
  BY DEF Crash
<1> QED
  BY <1>1, <1>2, <1>3, <1>4, <1>5, <1>6, <1>7, <1>8, <1>9 DEF Next, Progress, Quiet

(* The wallet implements the abstract ledger: however the statements of    *)
(* concurrent calls interleave and whichever fail, the tables only ever    *)
(* open an account, accept a free ref within the limits of the balance     *)
(* with its audit row, note an attempt, or adjust a balance.               *)
THEOREM Refinement == Spec => ImplementsLedger
<1>1. Init => Abstract!Init
  BY ConstantsAssumption DEF Init, Abstract!Init
<1>2. IInv /\ [Next]_vars => [Abstract!Next]_(Abstract!vars)
  BY StepRefines
<1> QED
  BY <1>1, <1>2, Invariance, PTL DEF Spec, Abstract!Spec, ImplementsLedger

(* No balance ever leaves 0..MaxBalance: what the guarded UPDATE tested is *)
(* what the commit publishes.                                              *)
THEOREM FloorSafe == Spec => []BalanceFloor
<1>1. Init => BalanceFloor
  BY ConstantsAssumption DEF Init, BalanceFloor, Storable
<1>2. BalanceFloor /\ TypeOK /\ [Abstract!Next]_(Abstract!vars) => BalanceFloor'
  <2> SUFFICES ASSUME BalanceFloor, TypeOK, [Abstract!Next]_(Abstract!vars) PROVE BalanceFloor'
    OBVIOUS
  <2>1. CASE UNCHANGED balance
    BY <2>1 DEF BalanceFloor
  <2>2. ASSUME NEW acc \in AccountIDs, NEW d, balance[acc] + d \in 0..MaxBalance,
               balance' = [balance EXCEPT ![acc] = @ + d]
        PROVE  BalanceFloor'
    BY <2>2 DEF BalanceFloor, Storable, TypeOK
  <2> QED
    BY <2>1, <2>2 DEF Abstract!Next, Abstract!vars, Abstract!Open, Abstract!Accept,
       Abstract!Note, Abstract!Adjust, TypeOK
<1>3. IInv /\ [Next]_vars => TypeOK /\ [Abstract!Next]_(Abstract!vars)
  BY StepRefines DEF IInv
<1> QED
  BY <1>1, <1>2, <1>3, Invariance, PTL DEF Spec
=============================================================================
