----------------------------- MODULE LedgerSums ------------------------------
(***************************************************************************)
(* Sums over the rows of the ledger, and the theorem that every balance is *)
(* the sum of the account's rows and of its adjustments.  The sum is the   *)
(* fold of FiniteSetsExt, whose recursion picks the elements in an unknown *)
(* order; the lemmas show that the order does not matter.                  *)
(***************************************************************************)
EXTENDS WalletTrailProofs, FiniteSetTheorems

(* Induction over the subsets of a finite set, as a statement about sets:  *)
(* a set of subsets that contains a subset whenever it contains all its    *)
(* strict subsets contains them all.                                       *)
LEMMA SubsetInduction ==
    ASSUME NEW S, IsFiniteSet(S), NEW G,
           \A s \in SUBSET S : (\A t \in SUBSET s : t # s => t \in G) => s \in G
    PROVE  SUBSET S \subseteq G
<1> DEFINE Bad == (SUBSET S) \ G
<1> SUFFICES ASSUME Bad # {} PROVE FALSE
  OBVIOUS
<1>1. IsWellFoundedOn(StrictSubsetOrdering(S), SUBSET S)
  <2>1. IsWellFoundedOn(StrictSubsetOrdering(S), FiniteSubsetsOf(S))
    BY FS_StrictSubsetOrderingWellFounded
  <2>2. FiniteSubsetsOf(S) = SUBSET S
    BY FS_FiniteSubsetsOfFinite
  <2> QED
    BY <2>1, <2>2
<1>2. \A s \in SUBSET S : \A t \in SUBSET s : t # s => <<t, s>> \in StrictSubsetOrdering(S)
  BY DEF StrictSubsetOrdering
<1>3. PICK s \in Bad : \A t \in Bad : ~(<<t, s>> \in StrictSubsetOrdering(S))
  <2>1. Bad \subseteq SUBSET S
    OBVIOUS
  <2> HIDE DEF Bad
  <2> QED
    BY <1>1, <2>1, WFMin
<1>4. \A t \in SUBSET s : t # s => t \in G
  <2>1. s \in SUBSET S
    OBVIOUS
  <2> SUFFICES ASSUME NEW t \in SUBSET s, t # s PROVE t \in G
    OBVIOUS
  <2>2. <<t, s>> \in StrictSubsetOrdering(S) /\ t \in SUBSET S
    BY <1>2, <2>1
  <2> QED
    BY <1>3, <2>2
<1> QED
  BY <1>3, <1>4

(* The sum of the points of the rows that table led holds under refs S. *)
Total(led, S) == MapThenSumSet(LAMBDA r : led[r].points, S)

Pick(s) == CHOOSE x \in s : TRUE

Body(led, f, s) == IF s = {} THEN 0 ELSE led[Pick(s)].points + f[s \ {Pick(s)}]

Sums(led, S, f) == f = [s \in SUBSET S |-> Body(led, f, s)]

LEMMA TotalIs ==
    ASSUME NEW led, NEW S
    PROVE  Total(led, S) = (CHOOSE f : Sums(led, S, f))[S]
BY DEF Total, Sums, Body, Pick, MapThenSumSet, MapThenFoldSet

LEMMA Picked == ASSUME NEW s, s # {} PROVE Pick(s) \in s /\ s \ {Pick(s)} # s
BY DEF Pick

LEMMA SumsUnique ==
    ASSUME NEW led, NEW S, IsFiniteSet(S), NEW f, Sums(led, S, f), NEW g, Sums(led, S, g)
    PROVE  f[S] = g[S]
<1> DEFINE G == {s \in SUBSET S : f[s] = g[s]}
<1>1. ASSUME NEW s \in SUBSET S, \A t \in SUBSET s : t # s => t \in G
      PROVE  s \in G
  <2>1. f[s] = Body(led, f, s) /\ g[s] = Body(led, g, s)
    BY DEF Sums
  <2>2. CASE s = {}
    BY <2>1, <2>2 DEF Body
  <2>3. CASE s # {}
    <3>1. f[s \ {Pick(s)}] = g[s \ {Pick(s)}]
      BY <1>1, <2>3, Picked
    <3> QED
      BY <2>1, <2>3, <3>1 DEF Body
  <2> QED
    BY <2>2, <2>3
<1>2. SUBSET S \subseteq G
  <2> HIDE DEF G
  <2> QED
    BY <1>1, SubsetInduction
<1> QED
  BY <1>2

(* The sum over S unfolds to the sum over S without the picked ref. *)
LEMMA TotalUnfolds ==
    ASSUME NEW led, NEW S, IsFiniteSet(S)
    PROVE  Total(led, S) = IF S = {} THEN 0
                           ELSE led[Pick(S)].points + Total(led, S \ {Pick(S)})
<1> DEFINE Step(s) == IF s = {} THEN 0
                      ELSE led[Pick(s)].points + Total(led, s \ {Pick(s)})
           G == {s \in SUBSET S : Total(led, s) = Step(s)}
<1>1. ASSUME NEW s \in SUBSET S, \A t \in SUBSET s : t # s => t \in G
      PROVE  s \in G
  <2> DEFINE f == [u \in SUBSET s |-> Step(u)]
  <2>1. ASSUME NEW u \in SUBSET s PROVE f[u] = Body(led, f, u)
    <3>1. CASE u = {}
      BY <3>1 DEF Body
    <3>2. CASE u # {}
      <4> DEFINE t == u \ {Pick(u)}
      <4>1. t \in SUBSET s /\ t # s
        BY <2>1, <3>2, Picked
      <4>2. f[t] = Total(led, t)
        BY <1>1, <4>1
      <4> QED
        BY <2>1, <3>2, <4>2 DEF Body
    <3> QED
      BY <3>1, <3>2
  <2>2. Sums(led, s, f)
    <3> HIDE DEF f
    <3>1. f = [u \in SUBSET s |-> f[u]]
      BY DEF f
    <3> QED
      BY <2>1, <3>1 DEF Sums
  <2>3. IsFiniteSet(s)
    BY FS_Subset
  <2> DEFINE h == CHOOSE g : Sums(led, s, g)
  <2>4. Sums(led, s, h)
    BY <2>2
  <2>5. h[s] = f[s]
    <3> HIDE DEF f, h
    <3> QED
      BY <2>2, <2>3, <2>4, SumsUnique
  <2>6. Total(led, s) = h[s]
    BY TotalIs
  <2> QED
    BY <2>5, <2>6
<1>2. SUBSET S \subseteq G
  <2> HIDE DEF G
  <2> QED
    BY <1>1, SubsetInduction
<1> QED
  BY <1>2

(* Every row among S has a number of points. *)
Summable(led, S) == \A x \in S : led[x].points \in Int

LEMMA TotalInt ==
    ASSUME NEW led, NEW S, IsFiniteSet(S), Summable(led, S)
    PROVE  Total(led, S) \in Int
<1> DEFINE G == {s \in SUBSET S : Total(led, s) \in Int}
<1>1. ASSUME NEW s \in SUBSET S, \A t \in SUBSET s : t # s => t \in G
      PROVE  s \in G
  <2>1. Total(led, s) = IF s = {} THEN 0 ELSE led[Pick(s)].points + Total(led, s \ {Pick(s)})
    BY FS_Subset, TotalUnfolds
  <2>2. s # {} => Pick(s) \in S /\ Total(led, s \ {Pick(s)}) \in Int
    BY <1>1, Picked
  <2> QED
    BY <2>1, <2>2 DEF Summable
<1>2. SUBSET S \subseteq G
  <2> HIDE DEF G
  <2> QED
    BY <1>1, SubsetInduction
<1> QED
  BY <1>2

(* Any ref of S can be taken out of the sum first. *)
LEMMA TotalRemove ==
    ASSUME NEW led, NEW S, IsFiniteSet(S), Summable(led, S), NEW y \in S
    PROVE  Total(led, S) = led[y].points + Total(led, S \ {y})
<1> DEFINE G == {s \in SUBSET S : \A x \in s :
                     Total(led, s) = led[x].points + Total(led, s \ {x})}
<1>1. ASSUME NEW s \in SUBSET S, \A t \in SUBSET s : t # s => t \in G, NEW x \in s
      PROVE  Total(led, s) = led[x].points + Total(led, s \ {x})
  <2> DEFINE c == Pick(s)
             u == s \ {c}
             v == s \ {x}
             w == u \ {x}
  <2>1. c \in s /\ Total(led, s) = led[c].points + Total(led, u)
    BY FS_Subset, TotalUnfolds, Picked
  <2>2. CASE x = c
    BY <2>1, <2>2
  <2>3. CASE x # c
    <3>1. u \in G /\ v \in G /\ x \in u /\ c \in v /\ v \ {c} = w
      BY <1>1, <2>1, <2>3
    <3>2. Total(led, u) = led[x].points + Total(led, w)
      BY <3>1
    <3>3. Total(led, v) = led[c].points + Total(led, w)
      BY <3>1
    <3>4. led[x].points \in Int /\ led[c].points \in Int /\ Total(led, w) \in Int
      BY <2>1, FS_Subset, TotalInt DEF Summable
    <3> HIDE DEF u, v, w, c
    <3>5. Total(led, s) = led[x].points + Total(led, v)
      BY <2>1, <3>2, <3>3, <3>4
    <3> QED
      BY <3>5 DEF v
  <2> QED
    BY <2>2, <2>3
<1>2. SUBSET S \subseteq G
  <2>1. \A s \in SUBSET S : (\A t \in SUBSET s : t # s => t \in G) => s \in G
    BY <1>1
  <2> HIDE DEF G
  <2> QED
    BY <2>1, SubsetInduction
<1> QED
  BY <1>2

(* The sum reads nothing but the rows it sums. *)
LEMMA TotalSame ==
    ASSUME NEW led, NEW led2, NEW S, IsFiniteSet(S), \A x \in S : led2[x] = led[x]
    PROVE  Total(led2, S) = Total(led, S)
<1> DEFINE G == {s \in SUBSET S : Total(led2, s) = Total(led, s)}
<1>1. ASSUME NEW s \in SUBSET S, \A t \in SUBSET s : t # s => t \in G
      PROVE  s \in G
  <2>1. Total(led, s) = IF s = {} THEN 0 ELSE led[Pick(s)].points + Total(led, s \ {Pick(s)})
    BY FS_Subset, TotalUnfolds
  <2>2. Total(led2, s) = IF s = {} THEN 0 ELSE led2[Pick(s)].points + Total(led2, s \ {Pick(s)})
    BY FS_Subset, TotalUnfolds
  <2>3. s # {} => Pick(s) \in S /\ Total(led2, s \ {Pick(s)}) = Total(led, s \ {Pick(s)})
    BY <1>1, Picked
  <2> QED
    BY <2>1, <2>2, <2>3
<1>2. SUBSET S \subseteq G
  <2> HIDE DEF G
  <2> QED
    BY <1>1, SubsetInduction
<1> QED
  BY <1>2

(* A new row adds its points to the sum. *)
LEMMA TotalAdd ==
    ASSUME NEW led, NEW led2, NEW S, IsFiniteSet(S), NEW y, y \notin S,
           \A x \in S : led2[x] = led[x], Summable(led2, S \union {y})
    PROVE  Total(led2, S \union {y}) = led2[y].points + Total(led, S)
<1>1. IsFiniteSet(S \union {y}) /\ (S \union {y}) \ {y} = S
  BY FS_AddElement
<1>2. Total(led2, S \union {y}) = led2[y].points + Total(led2, S)
  BY <1>1, TotalRemove
<1> QED
  BY <1>2, TotalSame

-----------------------------------------------------------------------------
(* Every account has finitely many rows, and its balance is their sum plus *)
(* its adjustments.                                                        *)
Conserved ==
    Conservation /\ \A acc \in AccountIDs : IsFiniteSet(LedgerRows(acc))

LEMMA SumIsTotal == \A acc : LedgerSum(acc) = Total(ledger, LedgerRows(acc))
BY DEF LedgerSum, Total

LEMMA SumIsTotalNext == \A acc : LedgerSum(acc)' = Total(ledger', LedgerRows(acc)')
BY DEF LedgerSum, Total, LedgerRows, MapThenSumSet, MapThenFoldSet

LEMMA RowsSummable ==
    ASSUME TypeOK, NEW acc
    PROVE  Summable(ledger, LedgerRows(acc))
BY DEF TypeOK, RowType, LedgerRows, Summable

(* An accepted call moves its account by the points of its one new row.    *)
LEMMA AcceptConserves ==
    ASSUME IInv, Conserved, NEW a \in Attempts, pc[a] = "commit", Publish(a),
           frame[a].reply = "accepted", NEW acc \in AccountIDs
    PROVE  /\ IsFiniteSet(LedgerRows(acc)')
           /\ balance'[acc] = adjusted'[acc] + LedgerSum(acc)'
<1> DEFINE rf == req[a].ref
           S  == LedgerRows(acc)
           row == newRow(a)
<1>1. /\ ledger[rf] = NoRow
      /\ ledger' = [ledger EXCEPT ![rf] = row]
      /\ balance' = [balance EXCEPT ![req[a].account] = balance[req[a].account] + Delta(a)]
      /\ adjusted' = adjusted
  BY PublishEffect DEF Publish
<1>2. /\ TypeOK /\ req[a] \in RequestType /\ rf \in Refs /\ req[a].account \in AccountIDs
      /\ Delta(a) \in Int /\ frame[a].owner \in Users
  BY DeltaType, ConstantsAssumption DEF IInv, CallsResolved, InTx
<1>3. row \in RowType /\ row # NoRow /\ row.account = req[a].account /\ row.points = Delta(a)
  BY <1>2, RowTyped, NoRowAssumption DEF newRow
<1> HIDE DEF row
<1>4. ledger'[rf] = row /\ \A r \in Refs \ {rf} : ledger'[r] = ledger[r]
  BY <1>1, <1>2 DEF TypeOK
<1>5. rf \notin S /\ \A x \in S : ledger'[x] = ledger[x]
  BY <1>1, <1>4 DEF LedgerRows
<1>6. IsFiniteSet(S) /\ Summable(ledger, S) /\ Total(ledger, S) \in Int
      /\ balance[acc] = adjusted[acc] + Total(ledger, S)
  BY <1>2, RowsSummable, TotalInt, SumIsTotal DEF Conserved, Conservation
<1>7. CASE acc = req[a].account
  <2>1. LedgerRows(acc)' = S \union {rf}
    BY <1>2, <1>3, <1>4, <1>7 DEF LedgerRows
  <2>2. Summable(ledger', S \union {rf})
    BY <1>2, <1>3, <1>4, <1>5, <1>6 DEF Summable
  <2>3. Total(ledger', S \union {rf}) = Delta(a) + Total(ledger, S)
    <3> HIDE DEF S, rf
    <3> QED
      BY <1>3, <1>4, <1>5, <1>6, <2>2, TotalAdd
  <2>4. balance'[acc] = balance[acc] + Delta(a)
    BY <1>1, <1>2, <1>7 DEF TypeOK
  <2>5. balance[acc] \in Int /\ adjusted[acc] \in Int
    BY <1>2 DEF TypeOK
  <2>6. IsFiniteSet(LedgerRows(acc)')
    BY <1>6, <2>1, FS_AddElement
  <2>7. LedgerSum(acc)' = Delta(a) + Total(ledger, S)
    BY <2>1, <2>3, SumIsTotalNext
  <2> HIDE DEF S
  <2> QED
    BY <1>1, <1>2, <1>6, <2>4, <2>5, <2>6, <2>7
<1>8. CASE acc # req[a].account
  <2>1. LedgerRows(acc)' = S
    BY <1>1, <1>2, <1>3, <1>4, <1>8 DEF LedgerRows
  <2>2. Total(ledger', S) = Total(ledger, S)
    <3> HIDE DEF S
    <3> QED
      BY <1>5, <1>6, TotalSame
  <2>3. balance'[acc] = balance[acc]
    BY <1>1, <1>2, <1>8 DEF TypeOK
  <2> QED
    BY <1>1, <1>6, <2>1, <2>2, <2>3, SumIsTotalNext
<1> QED
  BY <1>7, <1>8

LEMMA AdjustConserves ==
    ASSUME TypeOK, Conserved, NEW a \in Attempts, AdjustApplies(a), ledger' = ledger,
           req[a].account \in AccountIDs, Delta(a) \in Int
    PROVE  Conserved'
<1>1. \A acc : LedgerRows(acc)' = LedgerRows(acc) /\ LedgerSum(acc)' = LedgerSum(acc)
  <2>1. \A acc : LedgerRows(acc)' = LedgerRows(acc)
    BY DEF LedgerRows
  <2> QED
    BY <2>1, SumIsTotal, SumIsTotalNext
<1>2. ASSUME NEW acc \in AccountIDs
      PROVE  balance'[acc] - balance[acc] = adjusted'[acc] - adjusted[acc]
             /\ balance'[acc] \in Int /\ adjusted'[acc] \in Int
  BY DEF AdjustApplies, TypeOK
<1>3. ASSUME NEW acc \in AccountIDs PROVE LedgerSum(acc) \in Int
  BY RowsSummable, TotalInt, SumIsTotal DEF Conserved
<1>4. ASSUME NEW acc \in AccountIDs PROVE balance'[acc] = adjusted'[acc] + LedgerSum(acc)
  <2>1. balance[acc] = adjusted[acc] + LedgerSum(acc) /\ balance[acc] \in Int /\ adjusted[acc] \in Int
    BY DEF Conserved, Conservation, TypeOK
  <2> QED
    BY <1>2, <1>3, <2>1
<1> QED
  BY <1>1, <1>4 DEF Conserved, Conservation

LEMMA ConservedStep ==
    ASSUME IInv, Conserved, [Next]_vars
    PROVE  Conserved'
<1>1. TypeOK
  BY DEF IInv
<1>2. CASE UNCHANGED <<ledger, balance, adjusted>>
  <2>1. \A acc : LedgerRows(acc)' = LedgerRows(acc)
    BY <1>2 DEF LedgerRows
  <2>2. \A acc : LedgerSum(acc)' = LedgerSum(acc)
    BY <1>2, <2>1, SumIsTotal, SumIsTotalNext
  <2> QED
    BY <1>2, <2>1, <2>2 DEF Conserved, Conservation
<1>3. ASSUME NEW a \in Attempts, pc[a] = "commit", Publish(a) PROVE Conserved'
  <2>1. CASE frame[a].reply = "accepted"
    BY <1>3, <2>1, AcceptConserves DEF Conserved, Conservation
  <2>2. CASE frame[a].reply # "accepted"
    BY <1>2, <1>3, <2>2, PublishEffect DEF Publish
  <2> QED
    BY <2>1, <2>2
<1>4. ASSUME NEW a \in Attempts, pc[a] = "adjUpdate", AdjustApplies(a), ledger' = ledger
      PROVE  Conserved'
  <2>1. req[a].account \in AccountIDs /\ Delta(a) \in Int
    BY <1>4, DeltaType DEF IInv, CallsResolved
  <2> QED
    BY <1>1, <1>4, <2>1, AdjustConserves
<1>5. ASSUME NEW a \in Attempts, Commit(a) \/ CommitFails(a) PROVE Conserved'
  BY <1>2, <1>3, <1>5 DEF Commit, CommitFails, durable
<1>6. ASSUME NEW a \in Attempts, AdjustUpdate(a) \/ AdjustUnacknowledged(a) PROVE Conserved'
  BY <1>2, <1>4, <1>6 DEF AdjustUpdate, AdjustUnacknowledged
<1>7. \/ UNCHANGED <<ledger, balance, adjusted>>
      \/ \E a \in Attempts : \/ Commit(a) \/ CommitFails(a)
                               \/ AdjustUpdate(a) \/ AdjustUnacknowledged(a)
  BY DEF Next, Progress, Quiet, vars, OpenAccount, Receive, LookupAccount, BeginTx, InsertRow,
     FetchOriginal, FetchAccount, AuditDuplicate, UpdateBalance, Recheck, ReadBack, AuditAccepted,
     Rollback, RejectTransaction, AdjustBegin, AdjustRecheck, AdjustRead,
     TxStatementFails, PoolStatementFails, Crash, durable
<1> QED
  BY <1>2, <1>5, <1>6, <1>7

LEMMA InitConserved == Init => Conserved
<1> SUFFICES ASSUME Init PROVE Conserved
  OBVIOUS
<1>1. \A acc : LedgerRows(acc) = {}
  BY DEF Init, LedgerRows
<1>2. IsFiniteSet({}) /\ Total(ledger, {}) = 0
  BY FS_EmptySet, TotalUnfolds
<1>3. \A acc : LedgerSum(acc) = 0
  BY <1>1, <1>2, SumIsTotal
<1>4. \A acc \in AccountIDs : balance[acc] = adjusted[acc] /\ adjusted[acc] \in Int
  BY ConstantsAssumption DEF Init
<1> QED
  BY <1>1, <1>2, <1>3, <1>4 DEF Conserved, Conservation

(* For any accounts, refs and concurrent calls, whatever fails: a balance  *)
(* is the sum of the account's ledger rows and of its adjustments, so no   *)
(* accepted ref counts twice or not at all (the ledger insert and the      *)
(* balance update are one unit of work).                                   *)
THEOREM BalancesConserved == Spec => []Conservation
<1>1. Conserved /\ IInv /\ [Next]_vars => Conserved'
  BY ConservedStep
<1> QED
  BY <1>1, InitConserved, Invariance, PTL DEF Spec, Conserved
=============================================================================
