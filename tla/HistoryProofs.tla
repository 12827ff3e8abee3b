--------------------------- MODULE HistoryProofs ----------------------------
(***************************************************************************)
(* Theorems about History, for every number of calls, walks, refs and      *)
(* users, every page size and every precision of the clock.                *)
(***************************************************************************)
EXTENDS History, FiniteSetTheorems, TLAPS

(* What is parsed from a stored text is formatted to the same text. *)
LEMMA RoundTrip == \A x \in Texts : ParseTime(x) \in Ticks /\ FormatTime(ParseTime(x)) = x
  BY DEF Texts, ParseTime

LEMMA TextsTyped == Texts \subseteq [0..Digits -> Int]
<1> SUFFICES ASSUME NEW t \in Ticks, NEW i \in 0..Digits
             PROVE  FormatTime(t)[i] \in Int /\ DOMAIN FormatTime(t) = 0..Digits
  BY DEF Texts, FormatTime
<1>1. t \in Nat /\ Digits \in Nat /\ Base \in Nat \ {0}
  BY HistoryAssumption DEF Ticks
<1>2. Base^Digits \in Nat \ {0} /\ Base^(Digits - i) \in Nat \ {0}
  BY <1>1, PowersAssumption
<1>3. t \div Base^Digits \in Int /\ (t \div Base^(Digits - i)) % Base \in Int
  <2>1. ASSUME NEW p \in Nat \ {0} PROVE t \div p \in Int /\ (t \div p) % Base \in Int
    BY <1>1, <2>1
  <2> QED
    BY <1>2, <2>1
<1> QED
  BY <1>1, <1>3 DEF FormatTime, Digit

(* The order of texts is transitive. *)
LEMMA TextLessTransitive ==
    ASSUME NEW x \in Texts, NEW y \in Texts, NEW z \in Texts,
           TextLess(x, y), TextLess(y, z)
    PROVE  TextLess(x, z)
<1>1. PICK i \in 0..Digits : x[i] < y[i] /\ \A k \in 0..(i - 1) : x[k] = y[k]
  BY DEF TextLess
<1>2. PICK j \in 0..Digits : y[j] < z[j] /\ \A k \in 0..(j - 1) : y[k] = z[k]
  BY DEF TextLess
<1>3. \A k \in 0..Digits : x[k] \in Int /\ y[k] \in Int /\ z[k] \in Int
  BY TextsTyped
<1>4. Digits \in Nat
  BY HistoryAssumption
<1>5. CASE i <= j
  <2>1. x[i] < z[i] /\ \A k \in 0..(i - 1) : x[k] = z[k]
    BY <1>1, <1>2, <1>3, <1>4, <1>5
  <2> QED
    BY <2>1 DEF TextLess
<1>6. CASE j < i
  <2>1. x[j] < z[j] /\ \A k \in 0..(j - 1) : x[k] = z[k]
    BY <1>1, <1>2, <1>3, <1>4, <1>6
  <2> QED
    BY <2>1 DEF TextLess
<1> QED
  BY <1>4, <1>5, <1>6

(* A row that a cursor has passed comes before every row it seeks. *)
Passed(cursor, row) ==
    \/ TextLess(cursor.recordedAt, row.recordedAt)
    \/ row.recordedAt = cursor.recordedAt /\ row.ref <= cursor.ref

LEMMA PassedBeforeSought ==
    ASSUME NEW c \in CursorType, NEW p \in RowType, NEW q \in RowType,
           Passed(c, p), Seek(c, q)
    PROVE  RowBefore(p, q)
<1>1. c # NoCursor
  BY NoCursorAssumption
<1>2. c.ref \in Int /\ p.ref \in Int /\ q.ref \in Int
  <2>1. c.ref \in Refs /\ p.ref \in Refs /\ q.ref \in Refs
    BY DEF CursorType, RowType
  <2>2. Refs \subseteq Int
    BY HistoryAssumption
  <2> QED
    BY <2>1, <2>2
<1>3. c.recordedAt \in Texts /\ p.recordedAt \in Texts /\ q.recordedAt \in Texts
  BY DEF CursorType, RowType
<1> QED
  BY <1>1, <1>2, <1>3, TextLessTransitive DEF Passed, Seek, RowBefore

-----------------------------------------------------------------------------
(* What makes a walk complete and in order while it goes on: every row of  *)
(* its goal is shown or still sought by its cursor, and every row shown    *)
(* has been passed by it.                                                  *)

WalkInv(w) ==
    walks[w].state \in {"walking", "done"} =>
        /\ walks[w].goal \subseteq Visible(walks[w].user)
        /\ Seen(w) \subseteq Visible(walks[w].user)
        /\ walks[w].state = "done" => walks[w].goal \subseteq Seen(w)
        /\ walks[w].state = "walking" =>
              \A row \in walks[w].goal :
                  row \in Seen(w) \/ walks[w].cursor = BadCursor \/ Seek(walks[w].cursor, row)
        /\ walks[w].state = "walking" =>
              \A p \in Seen(w) : walks[w].cursor \in CursorType /\ Passed(walks[w].cursor, p)
        /\ \A p \in walks[w].earlier, q \in walks[w].page : RowBefore(p, q)

WalksInv == \A w \in Walkers : WalkInv(w)

IInv == TypeOK /\ WalksInv

LEMMA InitIInv == Init => IInv
<1> SUFFICES ASSUME Init PROVE IInv
  OBVIOUS
<1>1. PICK at \in [Loaded -> 0..now] :
        table = {[ref |-> r, owner |-> LoadedOwner[r], recordedAt |-> FormatTime(at[r])] :
                     r \in Loaded}
  BY DEF Init
<1>2. now \in Ticks /\ 0..now \subseteq Ticks
  BY HistoryAssumption DEF Init, Ticks
<1>3. table \subseteq RowType
  BY <1>1, <1>2, HistoryAssumption DEF RowType, Texts
<1>4. audit \subseteq EntryType
  <2>1. \A row \in table : row.ref \in Refs /\ row.ref \in Nat /\ row.owner \in Members
    BY <1>3, HistoryAssumption DEF RowType
  <2> QED
    BY <2>1 DEF Init, EntryType, Outcomes
<1>5. calls \in [Attempts -> CallType] /\ walks \in [Walkers -> WalkType]
  BY DEF Init, CallType, WalkType, Idle, NewWalk
<1>6. nextID \in Nat
  BY HistoryAssumption DEF Init
<1>7. WalksInv
  BY DEF Init, NewWalk, WalksInv, WalkInv
<1> QED
  BY <1>2, <1>3, <1>4, <1>5, <1>6, <1>7 DEF IInv, TypeOK

LEMMA NowText == TypeOK => FormatTime(now) \in Texts
  BY DEF TypeOK, Texts

(* The steps of the wallet keep the types and add to the table only.       *)
LEMMA CallSteps ==
    ASSUME TypeOK, NEW a \in Attempts,
           \/ \E request \in Requests : Submit(a, request)
           \/ Insert(a) \/ Commit(a) \/ Reject(a)
    PROVE  TypeOK' /\ table \subseteq table' /\ walks' = walks
<1>1. CASE \E request \in Requests : Submit(a, request)
  <2>1. PICK request \in Requests : Submit(a, request)
    BY <1>1
  <2>2. request.ref \in Refs /\ request.owner \in Members \union {NoOwner}
    BY HistoryAssumption
  <2>3. calls' \in [Attempts -> CallType]
    BY <2>1, <2>2, NowText DEF Submit, TypeOK, CallType
  <2> QED
    BY <2>1, <2>3 DEF Submit, TypeOK
<1>2. CASE Insert(a)
  <2>1. calls[a] \in [state: {"begun"}, ref: Refs, owner: Members \union {NoOwner}, at: Texts]
    BY <1>2 DEF Insert, TypeOK, CallType
  <2>2. calls' \in [Attempts -> CallType]
    BY <1>2, <2>1 DEF Insert, TypeOK, CallType
  <2> QED
    BY <1>2, <2>2 DEF Insert, TypeOK
<1>3. CASE Commit(a)
  <2>1. calls[a] \in [state: {"inserted"}, ref: Refs, owner: Members, at: Texts, id: Nat,
                      outcome: {"accepted", "duplicate"}]
    BY <1>3 DEF Commit, TypeOK, CallType
  <2>2. table' \subseteq RowType /\ table \subseteq table'
    BY <1>3, <2>1 DEF Commit, TypeOK, RowType
  <2>3. audit' \subseteq EntryType
    BY <1>3, <2>1 DEF Commit, TypeOK, EntryType, Outcomes
  <2>4. calls' \in [Attempts -> CallType]
    BY <1>3 DEF Commit, TypeOK, CallType
  <2> QED
    BY <1>3, <2>2, <2>3, <2>4 DEF Commit, TypeOK
<1>4. CASE Reject(a)
  <2>1. calls[a].ref \in Refs /\ calls[a].owner \in Members \union {NoOwner}
    BY <1>4 DEF Reject, TypeOK, CallType
  <2>2. audit' \subseteq EntryType
    BY <1>4, <2>1 DEF Reject, TypeOK, EntryType, Outcomes
  <2>3. calls' \in [Attempts -> CallType]
    BY <1>4 DEF Reject, TypeOK, CallType
  <2> QED
    BY <1>4, <2>2, <2>3 DEF Reject, TypeOK
<1> QED
  BY <1>1, <1>2, <1>3, <1>4

(* A walk loses nothing when the table grows.                              *)
LEMMA WalksKept ==
    ASSUME WalksInv, table \subseteq table', walks' = walks
    PROVE  WalksInv'
<1> SUFFICES ASSUME NEW w \in Walkers PROVE WalkInv(w)'
  BY DEF WalksInv
<1>1. WalkInv(w) /\ Seen(w)' = Seen(w)
  BY DEF WalksInv, Seen
<1>2. Visible(walks[w].user) \subseteq Visible(walks[w].user)'
  BY DEF Visible
<1> QED
  BY <1>1, <1>2 DEF WalkInv

LEMMA StartSteps ==
    ASSUME IInv, NEW w \in Walkers, NEW request \in WalkRequests, StartWalk(w, request)
    PROVE  IInv'
<1> DEFINE k == [state |-> "walking", user |-> request.user, size |-> request.size,
                 cursor |-> request.cursor, page |-> {}, earlier |-> {},
                 goal |-> Visible(request.user)]
<1>1. /\ request.user \in Users /\ request.size \in Int
      /\ request.cursor \in {NoCursor, BadCursor}
  BY HistoryAssumption
<1>2. Visible(request.user) \in SUBSET RowType /\ Visible(request.user)' = Visible(request.user)
  BY DEF StartWalk, Visible, IInv, TypeOK
<1>3. k \in WalkType
  BY <1>1, <1>2 DEF WalkType
<1>4. walks' = [walks EXCEPT ![w] = k] /\ walks'[w] = k
  BY DEF StartWalk, IInv, TypeOK
<1>5. TypeOK'
  BY <1>3, <1>4 DEF StartWalk, IInv, TypeOK
<1>6. ASSUME NEW v \in Walkers PROVE WalkInv(v)'
  <2>1. CASE v # w
    <3>1. walks'[v] = walks[v] /\ table' = table /\ Seen(v)' = Seen(v)
      BY <1>4, <2>1 DEF StartWalk, Seen
    <3>2. WalkInv(v) /\ Visible(walks[v].user)' = Visible(walks[v].user)
      BY <3>1 DEF IInv, WalksInv, Visible
    <3> QED
      BY <3>1, <3>2 DEF WalkInv
  <2>2. CASE v = w
    <3>1. Seen(w)' = {} /\ k.earlier = {}
      BY <1>4 DEF Seen
    <3>2. \A row \in k.goal : k.cursor = BadCursor \/ Seek(k.cursor, row)
      BY <1>1 DEF Seek
    <3> QED
      BY <1>2, <1>4, <2>2, <3>1, <3>2 DEF WalkInv
  <2> QED
    BY <2>1, <2>2
<1> QED
  BY <1>5, <1>6 DEF IInv, WalksInv

LEMMA RefuseSteps ==
    ASSUME IInv, NEW w \in Walkers, RefusePage(w)
    PROVE  IInv'
<1>1. TypeOK'
  BY DEF RefusePage, IInv, TypeOK, WalkType
<1>2. ASSUME NEW v \in Walkers PROVE WalkInv(v)'
  <2>1. CASE v = w
    BY <2>1 DEF RefusePage, IInv, TypeOK, WalkType, WalkInv
  <2>2. CASE v # w
    <3>1. walks'[v] = walks[v] /\ table' = table /\ Seen(v)' = Seen(v)
      BY <2>2 DEF RefusePage, IInv, TypeOK, Seen
    <3>2. WalkInv(v) /\ Visible(walks[v].user)' = Visible(walks[v].user)
      BY <3>1 DEF IInv, WalksInv, Visible
    <3> QED
      BY <3>1, <3>2 DEF WalkInv
  <2> QED
    BY <2>1, <2>2
<1> QED
  BY <1>1, <1>2 DEF IInv, WalksInv

(* A page: rows the cursor seeks, all of them or a first part whose last   *)
(* row becomes the cursor.                                                 *)
LEMMA PageSteps ==
    ASSUME IInv, NEW w \in Walkers, ListPage(w)
    PROVE  IInv'
<1> DEFINE k     == walks[w]
           limit == clampPageSize(k.size)
           rows  == {row \in Visible(k.user) : Seek(k.cursor, row)}
           Answer(p0, s0, c0) ==
               walks' = [walks EXCEPT ![w].state = s0, ![w].cursor = c0,
                                      ![w].page = p0, ![w].earlier = Seen(w)]
<1>1. /\ k.state = "walking" /\ k.cursor # BadCursor
      /\ k \in [state: {"walking", "done", "invalid"}, user: Users, size: Int,
                cursor: CursorType \union {NoCursor, BadCursor},
                page: SUBSET RowType, earlier: SUBSET RowType, goal: SUBSET RowType]
      /\ WalkInv(w)
  BY DEF ListPage, IInv, TypeOK, WalkType, WalksInv
<1>2. /\ rows \in SUBSET RowType
      /\ UNCHANGED <<now, table, audit, nextID, calls>>
      /\ walks \in [Walkers -> WalkType]
  BY DEF ListPage, Visible, IInv, TypeOK
<1>3. PICK pg \in SUBSET rows, st \in {"walking", "done"},
           cur \in CursorType \union {NoCursor, BadCursor} :
        /\ Answer(pg, st, cur)
        /\ st = "done" => pg = rows
        /\ st = "walking" =>
              /\ cur \in CursorType
              /\ \E last \in pg : /\ cur.recordedAt = last.recordedAt
                                  /\ cur.ref = last.ref
                                  /\ \A p \in pg \ {last} : RowBefore(p, last)
                                  /\ \A q \in rows \ pg : RowBefore(last, q)
  <2>1. PICK fetched \in SUBSET rows :
          /\ FirstRows(rows, limit + 1, fetched)
          /\ \/ /\ Cardinality(fetched) <= limit
                /\ Answer(fetched, "done", k.cursor)
             \/ /\ Cardinality(fetched) > limit
                /\ \E page \in SUBSET fetched : \E last \in page :
                      /\ FirstRows(fetched, limit, page)
                      /\ Last(page, last)
                      /\ Answer(page, "walking", encodeTransactionCursor(last))
    BY DEF ListPage
  <2>2. CASE Cardinality(fetched) <= limit /\ Answer(fetched, "done", k.cursor)
    <3>1. limit \in Nat
      BY <1>1, HistoryAssumption DEF clampPageSize
    <3> HIDE DEF limit, rows, Answer
    <3>2. Cardinality(fetched) # limit + 1
      BY <2>2, <3>1
    <3>3. fetched = rows
      BY <2>1, <3>2 DEF FirstRows
    <3> QED
      BY <1>1, <2>2, <3>3
  <2>3. CASE \E page \in SUBSET fetched : \E last \in page :
                /\ FirstRows(fetched, limit, page)
                /\ Last(page, last)
                /\ Answer(page, "walking", encodeTransactionCursor(last))
    <3>0. PICK page \in SUBSET fetched : \E last \in page :
                /\ FirstRows(fetched, limit, page)
                /\ Last(page, last)
                /\ Answer(page, "walking", encodeTransactionCursor(last))
      BY <2>3
    <3>1. PICK last \in page :
                /\ FirstRows(fetched, limit, page)
                /\ Last(page, last)
                /\ Answer(page, "walking", encodeTransactionCursor(last))
      BY <3>0
    <3>2. last \in RowType
      BY <1>2
    <3>3. /\ encodeTransactionCursor(last).recordedAt = last.recordedAt
          /\ encodeTransactionCursor(last).ref = last.ref
          /\ encodeTransactionCursor(last) \in CursorType
      BY <3>2, RoundTrip DEF encodeTransactionCursor, CursorType, RowType
    <3>4. \A q \in rows \ page : RowBefore(last, q)
      BY <2>1, <3>1 DEF FirstRows
    <3>5. \A p \in page \ {last} : RowBefore(p, last)
      BY <3>1 DEF Last
    <3>6. page \in SUBSET rows
      OBVIOUS
    <3> HIDE DEF rows, Answer
    <3> QED
      BY <3>1, <3>3, <3>4, <3>5, <3>6
  <2> QED
    BY <2>1, <2>2, <2>3
<1>4. /\ walks'[w].state = st /\ walks'[w].cursor = cur
      /\ walks'[w].page = pg /\ walks'[w].earlier = Seen(w)
      /\ walks'[w].user = k.user /\ walks'[w].goal = k.goal /\ walks'[w].size = k.size
      /\ \A v \in Walkers \ {w} : walks'[v] = walks[v]
      /\ DOMAIN walks' = Walkers
  BY <1>1, <1>2, <1>3
<1>5. walks' \in [Walkers -> WalkType]
  <2>1. pg \in SUBSET RowType
    BY <1>2
  <2>2. Seen(w) \in SUBSET RowType
    BY <1>1 DEF Seen
  <2>3. [k EXCEPT !.state = st, !.cursor = cur, !.page = pg, !.earlier = Seen(w)] \in WalkType
    BY <1>1, <2>1, <2>2 DEF WalkType
  <2> QED
    BY <1>2, <1>3, <2>3
<1>6. TypeOK'
  BY <1>2, <1>5 DEF IInv, TypeOK
<1>8. Seen(w)' = Seen(w) \union pg
  BY <1>4 DEF Seen
<1>9. Visible(walks[w].user)' = Visible(k.user) /\ pg \subseteq Visible(k.user)
  BY <1>2, <1>3, <1>4 DEF Visible
<1>10. \A p \in Seen(w), q \in rows : RowBefore(p, q)
  <2> SUFFICES ASSUME NEW p \in Seen(w), NEW q \in rows PROVE RowBefore(p, q)
    OBVIOUS
  <2>1. k.cursor \in CursorType /\ Passed(k.cursor, p) /\ Seek(k.cursor, q)
    BY <1>1 DEF WalkInv
  <2>2. p \in RowType /\ q \in RowType
    BY <1>1, <1>2 DEF WalkInv, Visible, IInv, TypeOK
  <2> QED
    BY <2>1, <2>2, PassedBeforeSought
<1> HIDE DEF rows, Answer
<1>11. WalkInv(w)'
  <2>1. walks'[w].goal \subseteq Visible(walks[w].user)'
    BY <1>1, <1>4, <1>9 DEF WalkInv
  <2>2. Seen(w)' \subseteq Visible(walks[w].user)'
    BY <1>1, <1>8, <1>9 DEF WalkInv
  <2>3. \A row \in k.goal : row \in Seen(w) \/ row \in rows
    BY <1>1 DEF WalkInv, rows
  <2>4. st = "done" => k.goal \subseteq Seen(w)'
    BY <1>3, <1>8, <2>3
  <2>5. ASSUME st = "walking", NEW row \in k.goal, row \notin Seen(w)'
        PROVE  Seek(cur, row)
    <3>1. row \in rows \ pg
      BY <1>8, <2>3, <2>5
    <3>2. PICK last \in pg : /\ cur.recordedAt = last.recordedAt
                             /\ cur.ref = last.ref
                             /\ \A q \in rows \ pg : RowBefore(last, q)
      BY <1>3, <2>5
    <3>3. row.ref \in Int /\ last.ref \in Int
      <4>1. row.ref \in Refs /\ last.ref \in Refs /\ Refs \subseteq Int
        BY <1>2, <3>1, HistoryAssumption DEF RowType
      <4> QED
        BY <4>1
    <3>4. RowBefore(last, row)
      BY <3>1, <3>2
    <3>5. \/ TextLess(row.recordedAt, cur.recordedAt)
          \/ row.recordedAt = cur.recordedAt /\ last.ref < row.ref
      BY <3>2, <3>4 DEF RowBefore
    <3>6. last.ref < row.ref => row.ref > cur.ref
      BY <3>2, <3>3
    <3> QED
      BY <3>5, <3>6 DEF Seek
  <2>6. ASSUME st = "walking", NEW p \in Seen(w)'
        PROVE  cur \in CursorType /\ Passed(cur, p)
    <3>1. PICK last \in pg : /\ cur.recordedAt = last.recordedAt
                             /\ cur.ref = last.ref
                             /\ \A q \in pg \ {last} : RowBefore(q, last)
      BY <1>3, <2>6
    <3>2. last \in rows /\ last.ref \in Int
      <4>1. last \in RowType
        BY <1>2
      <4>2. last.ref \in Refs /\ Refs \subseteq Int
        BY <4>1, HistoryAssumption DEF RowType
      <4> QED
        BY <4>2
    <3>3. CASE p = last
      BY <1>3, <2>6, <3>1, <3>2, <3>3 DEF Passed
    <3>4. CASE p # last
      <4>1. RowBefore(p, last)
        BY <1>8, <1>10, <3>1, <3>2, <3>4
      <4>2. p.ref \in Int
        <5>1. p \in RowType
          BY <2>2, <1>4, <1>6 DEF Visible, TypeOK
        <5>2. p.ref \in Refs /\ Refs \subseteq Int
          BY <5>1, HistoryAssumption DEF RowType
        <5> QED
          BY <5>2
      <4> QED
        BY <1>3, <2>6, <3>1, <3>2, <4>1, <4>2 DEF Passed, RowBefore
    <3> QED
      BY <3>3, <3>4
  <2>7. \A p \in walks'[w].earlier, q \in walks'[w].page : RowBefore(p, q)
    BY <1>4, <1>10
  <2> QED
    BY <1>4, <2>1, <2>2, <2>4, <2>5, <2>6, <2>7 DEF WalkInv
<1>12. ASSUME NEW v \in Walkers, v # w PROVE WalkInv(v)'
  <2>1. walks'[v] = walks[v] /\ table' = table /\ Seen(v)' = Seen(v)
    BY <1>2, <1>4, <1>12 DEF Seen
  <2>2. WalkInv(v) /\ Visible(walks[v].user)' = Visible(walks[v].user)
    BY <2>1 DEF IInv, WalksInv, Visible
  <2> QED
    BY <2>1, <2>2 DEF WalkInv
<1> QED
  BY <1>6, <1>11, <1>12 DEF IInv, WalksInv

LEMMA StepIInv == IInv /\ [Next]_vars => IInv'
<1> SUFFICES ASSUME IInv, [Next]_vars PROVE IInv'
  OBVIOUS
<1>1. ASSUME NEW a \in Attempts,
             \/ \E request \in Requests : Submit(a, request)
             \/ Insert(a) \/ Commit(a) \/ Reject(a)
      PROVE  IInv'
  BY <1>1, CallSteps, WalksKept DEF IInv
<1>2. CASE Tick
  <2>1. TypeOK' /\ table' = table /\ walks' = walks
    BY <1>2, HistoryAssumption DEF Tick, IInv, TypeOK, Ticks
  <2> QED
    BY <2>1, WalksKept DEF IInv
<1>3. CASE UNCHANGED vars
  <2>1. TypeOK' /\ table' = table /\ walks' = walks
    BY <1>3 DEF vars, IInv, TypeOK
  <2> QED
    BY <2>1, WalksKept DEF IInv
<1> QED
  BY <1>1, <1>2, <1>3, StartSteps, RefuseSteps, PageSteps DEF Next, Finished

THEOREM Invariance == Spec => []IInv
  BY InitIInv, StepIInv, PTL DEF Spec

(* Rows, entries, calls and walks have their types (List, Create).         *)
THEOREM TypeCorrect == Spec => []TypeOK
<1>1. IInv => TypeOK
  BY DEF IInv
<1> QED
  BY <1>1, Invariance, PTL

(* A finished walk has shown all there was when it began (List).           *)
THEOREM Complete == Spec => []WalkComplete
<1>1. IInv => WalkComplete
  BY DEF IInv, WalksInv, WalkInv, WalkComplete
<1> QED
  BY <1>1, Invariance, PTL

(* A walk shows its rows in the order of the query, each of them once, and *)
(* only those its caller may see (List).                                   *)
THEOREM InOrder == Spec => []WalkInOrder
<1>1. IInv => WalkInOrder
  BY DEF IInv, WalksInv, WalkInv, WalkInOrder
<1> QED
  BY <1>1, Invariance, PTL
-----------------------------------------------------------------------------
(* What makes the trail of a ref tell its story: rows and accepted entries *)
(* come in pairs, ids are drawn in the order of the inserts, and an open   *)
(* call that found the ref free is the only one that holds it.             *)

First(f, r) == f \in audit /\ f.outcome = "accepted" /\ f.ref = r

Holds(a, r) ==
    calls[a].state = "inserted" /\ calls[a].outcome = "accepted" /\ calls[a].ref = r

PairsInv ==
    /\ \A p, q \in table : p.ref = q.ref => p = q
    /\ \A row \in table : \E f \in audit : First(f, row.ref)
    /\ \A f \in audit : f.outcome = "accepted" =>
          \E row \in table : row.ref = f.ref /\ row.owner = f.owner
    /\ \A e, f \in audit : First(e, f.ref) /\ First(f, f.ref) => e = f

OrderInv ==
    \A e \in audit :
        /\ e.id < nextID
        /\ e.outcome = "duplicate" => \E f \in audit : First(f, e.ref) /\ f.id < e.id

OpenInv(a) ==
    calls[a].state = "inserted" =>
        /\ calls[a].id < nextID
        /\ calls[a].outcome = "accepted" =>
              /\ ~Recorded(calls[a].ref)
              /\ \A b \in Attempts : Holds(b, calls[a].ref) => b = a
        /\ calls[a].outcome = "duplicate" =>
              \E f \in audit : First(f, calls[a].ref) /\ f.id < calls[a].id

TrailInv == PairsInv /\ OrderInv /\ \A a \in Attempts : OpenInv(a)

LEMMA InitTrail == Init => TrailInv
<1> SUFFICES ASSUME Init PROVE TrailInv
  OBVIOUS
<1>1. PICK at \in [Loaded -> 0..now] :
        table = {[ref |-> r, owner |-> LoadedOwner[r], recordedAt |-> FormatTime(at[r])] :
                     r \in Loaded}
  BY DEF Init
<1>2. \A row \in table : row.ref \in Nat /\ row.ref < FirstID
  BY <1>1, HistoryAssumption
<1>3. \A p, q \in table : p.ref = q.ref => p = q
  BY <1>1
<1> DEFINE entry(row) == [id |-> row.ref, ref |-> row.ref, owner |-> row.owner,
                          outcome |-> "accepted"]
<1>4. audit = {entry(row) : row \in table} /\ nextID = FirstID
  BY DEF Init
<1>5. \A row \in table : entry(row) \in audit /\ entry(row).outcome = "accepted"
                         /\ entry(row).ref = row.ref
  BY <1>4
<1>6. \A f \in audit : \E row \in table : f = entry(row)
  BY <1>4
<1>7. \A f \in audit : \E row \in table :
          f = entry(row) /\ f.ref = row.ref /\ f.owner = row.owner /\ f.id = row.ref
          /\ f.outcome = "accepted"
  BY <1>6
<1> HIDE DEF entry
<1>8. PairsInv
  BY <1>3, <1>5, <1>7 DEF PairsInv, First
<1>9. OrderInv
  BY <1>2, <1>4, <1>7 DEF OrderInv
<1>10. \A a \in Attempts : OpenInv(a)
  BY DEF Init, Idle, OpenInv
<1> QED
  BY <1>8, <1>9, <1>10 DEF TrailInv

(* An open call keeps what it found while others insert, and while entries *)
(* and rows of other refs appear.                                          *)
LEMMA OpenKept ==
    ASSUME IInv, TrailInv, NEW a \in Attempts,
           calls' = calls \/ (calls'[a] = calls[a] /\ \A b \in Attempts :
                                 calls'[b] = calls[b] \/ calls'[b].state # "inserted"),
           audit \subseteq audit', nextID' \in Nat, nextID <= nextID',
           calls[a].state = "inserted" /\ calls[a].outcome = "accepted" =>
               \A row \in table' : row \in table \/ row.ref # calls[a].ref
    PROVE  OpenInv(a)'
<1>1. OpenInv(a) /\ nextID \in Nat /\ calls'[a] = calls[a]
  BY DEF TrailInv, IInv, TypeOK
<1> SUFFICES ASSUME calls[a].state = "inserted"
             PROVE  OpenInv(a)'
  BY <1>1 DEF OpenInv
<1>2. calls[a].id \in Nat
  BY DEF IInv, TypeOK, CallType
<1>3. \A b \in Attempts : Holds(b, calls[a].ref)' => Holds(b, calls[a].ref)
  BY <1>1 DEF Holds
<1>4. calls[a].outcome = "accepted" => ~Recorded(calls[a].ref)'
  BY <1>1 DEF OpenInv, Recorded
<1>5. \A f : First(f, calls[a].ref) => First(f, calls[a].ref)'
  BY <1>1 DEF First
<1>6. calls[a].id < nextID'
  BY <1>1, <1>2 DEF OpenInv
<1> QED
  BY <1>1, <1>3, <1>4, <1>5, <1>6 DEF OpenInv

LEMMA InsertTrail ==
    ASSUME IInv, TrailInv, NEW a \in Attempts, Insert(a)
    PROVE  TrailInv'
<1> DEFINE rf == calls[a].ref
<1>1. /\ calls[a].state = "begun" /\ ~Holding(rf)
      /\ UNCHANGED <<now, table, audit>> /\ nextID' = nextID + 1 /\ nextID \in Nat
      /\ calls' = [calls EXCEPT ![a] =
                      [state |-> "inserted", ref |-> rf, owner |-> calls[a].owner,
                       at |-> calls[a].at, id |-> nextID,
                       outcome |-> IF Recorded(rf) THEN "duplicate" ELSE "accepted"]]
  BY DEF Insert, IInv, TypeOK
<1>2. /\ calls'[a].state = "inserted" /\ calls'[a].ref = rf /\ calls'[a].id = nextID
      /\ calls'[a].outcome = IF Recorded(rf) THEN "duplicate" ELSE "accepted"
      /\ \A b \in Attempts \ {a} : calls'[b] = calls[b]
  BY <1>1 DEF IInv, TypeOK
<1>3. PairsInv'
  BY <1>1 DEF TrailInv, PairsInv, First
<1>4. OrderInv'
  <2>1. \A e \in audit : e.id \in Nat
    BY DEF IInv, TypeOK, EntryType
  <2> QED
    BY <1>1, <2>1 DEF TrailInv, OrderInv, First
<1>5. \A r : Recorded(r)' <=> Recorded(r)
  BY <1>1 DEF Recorded
<1>6. OpenInv(a)'
  <2>1. calls'[a].id < nextID'
    BY <1>1, <1>2
  <2>2. CASE Recorded(rf)
    <3>1. PICK row \in table : row.ref = rf
      BY <2>2 DEF Recorded
    <3>2. PICK f \in audit : First(f, rf)
      BY <3>1 DEF TrailInv, PairsInv
    <3>3. f.id < nextID /\ f \in audit'
      BY <1>1 DEF TrailInv, OrderInv
    <3>4. First(f, rf)'
      BY <1>1, <3>2, <3>3 DEF First
    <3> QED
      BY <1>2, <2>1, <2>2, <3>3, <3>4 DEF OpenInv
  <2>3. CASE ~Recorded(rf)
    <3>1. \A b \in Attempts : Holds(b, rf)' => b = a
      BY <1>1, <1>2 DEF Holds, Holding
    <3> QED
      BY <1>2, <1>5, <2>1, <2>3, <3>1 DEF OpenInv
  <2> QED
    BY <2>2, <2>3
<1>7. ASSUME NEW c \in Attempts, c # a PROVE OpenInv(c)'
  <2>1. OpenInv(c) /\ calls'[c] = calls[c]
    BY <1>2, <1>7 DEF TrailInv
  <2> SUFFICES ASSUME calls[c].state = "inserted" PROVE OpenInv(c)'
    BY <2>1 DEF OpenInv
  <2>2. calls[c].id \in Nat
    BY DEF IInv, TypeOK, CallType
  <2>3. calls[c].outcome = "accepted" => ~ Holds(a, calls[c].ref)'
    BY <1>1, <1>2, <2>1, <1>7 DEF Holds, Holding
  <2>4. \A b \in Attempts \ {a} : Holds(b, calls[c].ref)' => Holds(b, calls[c].ref)
    BY <1>2, <2>1 DEF Holds
  <2>5. \A f : First(f, calls[c].ref) => First(f, calls[c].ref)'
    BY <1>1, <2>1 DEF First
  <2>6. calls[c].id < nextID'
    BY <1>1, <2>1, <2>2 DEF OpenInv
  <2> QED
    BY <1>1, <1>5, <2>1, <2>3, <2>4, <2>5, <2>6 DEF OpenInv
<1> QED
  BY <1>3, <1>4, <1>6, <1>7 DEF TrailInv

LEMMA CommitTrail ==
    ASSUME IInv, TrailInv, NEW a \in Attempts, Commit(a)
    PROVE  TrailInv'
<1> DEFINE c     == calls[a]
           entry == [id |-> c.id, ref |-> c.ref, owner |-> c.owner, outcome |-> c.outcome]
           new   == [ref |-> c.ref, owner |-> c.owner, recordedAt |-> c.at]
<1>1. /\ c.state = "inserted" /\ audit' = audit \union {entry}
      /\ table' = IF c.outcome = "accepted" THEN table \union {new} ELSE table
      /\ nextID' = nextID /\ nextID \in Nat
      /\ calls' = [calls EXCEPT ![a] = [state |-> "ended"]]
  BY DEF Commit, IInv, TypeOK
<1>2. /\ c.outcome \in {"accepted", "duplicate"} /\ OpenInv(a)
  BY <1>1 DEF TrailInv, IInv, TypeOK, CallType
<1>3. /\ entry.id = c.id /\ entry.ref = c.ref /\ entry.owner = c.owner
      /\ entry.outcome = c.outcome /\ new.ref = c.ref /\ new.owner = c.owner
  OBVIOUS
<1>4. calls'[a].state = "ended" /\ \A b \in Attempts \ {a} : calls'[b] = calls[b]
  BY <1>1 DEF IInv, TypeOK
<1> HIDE DEF entry, new
<1>5. PairsInv'
  <2>1. CASE c.outcome = "duplicate"
    BY <1>1, <1>3, <2>1 DEF TrailInv, PairsInv, First
  <2>2. CASE c.outcome = "accepted"
    <3>1. \A row \in table : row.ref # c.ref
      BY <1>1, <1>2, <2>2 DEF OpenInv, Recorded
    <3>2. \A f \in audit : f.outcome = "accepted" => f.ref # c.ref
      BY <3>1 DEF TrailInv, PairsInv
    <3>3. audit' = audit \union {entry} /\ table' = table \union {new}
      BY <1>1, <2>2
    <3>4. \A p, q \in table' : p.ref = q.ref => p = q
      BY <1>3, <3>1, <3>3 DEF TrailInv, PairsInv
    <3>5. \A row \in table' : \E f \in audit' : First(f, row.ref)'
      BY <1>3, <2>2, <3>3 DEF TrailInv, PairsInv, First
    <3>6. \A f \in audit' : f.outcome = "accepted" =>
            \E row \in table' : row.ref = f.ref /\ row.owner = f.owner
      BY <1>3, <3>3 DEF TrailInv, PairsInv
    <3>7. \A e, f \in audit' : First(e, f.ref)' /\ First(f, f.ref)' => e = f
      BY <1>3, <3>2, <3>3 DEF TrailInv, PairsInv, First
    <3> QED
      BY <3>4, <3>5, <3>6, <3>7 DEF PairsInv
  <2> QED
    BY <1>2, <2>1, <2>2
<1>6. OrderInv'
  <2>1. \A f, r : First(f, r) => First(f, r)'
    BY <1>1 DEF First
  <2>2. ASSUME NEW e \in audit
        PROVE  e.id < nextID' /\ (e.outcome = "duplicate" =>
                                   \E f \in audit' : First(f, e.ref)' /\ f.id < e.id)
    BY <1>1, <2>1 DEF TrailInv, OrderInv
  <2>3. ASSUME NEW e, e = entry
        PROVE  e.id < nextID' /\ (e.outcome = "duplicate" =>
                                   \E f \in audit' : First(f, e.ref)' /\ f.id < e.id)
    <3>1. e.id = c.id /\ e.ref = c.ref /\ e.outcome = c.outcome
      BY <1>3, <2>3
    <3>2. e.id < nextID'
      BY <1>1, <1>2, <3>1 DEF OpenInv
    <3>3. ASSUME e.outcome = "duplicate"
          PROVE  \E f \in audit' : First(f, e.ref)' /\ f.id < e.id
      <4>1. PICK f \in audit : First(f, e.ref) /\ f.id < e.id
        BY <1>1, <1>2, <3>1, <3>3 DEF OpenInv
      <4> QED
        BY <1>1, <2>1, <4>1
    <3> QED
      BY <3>2, <3>3
  <2>4. ASSUME NEW e \in audit'
        PROVE  e.id < nextID' /\ (e.outcome = "duplicate" =>
                                   \E f \in audit' : First(f, e.ref)' /\ f.id < e.id)
    BY <1>1, <2>2, <2>3
  <2> QED
    BY <2>4 DEF OrderInv
<1>7. ASSUME NEW b \in Attempts PROVE OpenInv(b)'
  <2>1. CASE b = a
    BY <1>4, <2>1 DEF OpenInv
  <2>2. CASE b # a
    <3>1. calls[b].state = "inserted" /\ calls[b].outcome = "accepted" =>
              \A row \in table' : row \in table \/ row.ref # calls[b].ref
      <4>1. calls[b].state = "inserted" /\ calls[b].outcome = "accepted"
            /\ c.outcome = "accepted" => c.ref # calls[b].ref
        BY <1>1, <1>2, <2>2 DEF OpenInv, Holds
      <4> QED
        BY <1>1, <1>3, <4>1
    <3>2. /\ calls'[b] = calls[b] /\ audit \subseteq audit' /\ nextID' \in Nat /\ nextID <= nextID'
          /\ \A d \in Attempts : calls'[d] = calls[d] \/ calls'[d].state # "inserted"
      BY <1>1, <1>4, <2>2
    <3> QED
      BY <3>1, <3>2, OpenKept
  <2> QED
    BY <2>1, <2>2
<1> QED
  BY <1>5, <1>6, <1>7 DEF TrailInv

LEMMA RejectTrail ==
    ASSUME IInv, TrailInv, NEW a \in Attempts, Reject(a)
    PROVE  TrailInv'
<1> DEFINE entry == [id |-> nextID, ref |-> calls[a].ref, owner |-> calls[a].owner,
                     outcome |-> "rejected"]
<1>1. /\ audit' = audit \union {entry} /\ table' = table
      /\ nextID' = nextID + 1 /\ nextID \in Nat
      /\ calls' = [calls EXCEPT ![a] = [state |-> "ended"]]
  BY DEF Reject, IInv, TypeOK
<1>2. entry.id = nextID /\ entry.outcome = "rejected"
  OBVIOUS
<1>3. calls'[a].state = "ended" /\ \A b \in Attempts \ {a} : calls'[b] = calls[b]
  BY <1>1 DEF IInv, TypeOK
<1> HIDE DEF entry
<1>4. PairsInv'
  BY <1>1, <1>2 DEF TrailInv, PairsInv, First
<1>5. OrderInv'
  <2>1. \A e \in audit : e.id \in Nat
    BY DEF IInv, TypeOK, EntryType
  <2>2. \A e \in audit : e.id < nextID' /\ (e.outcome = "duplicate" =>
                              \E f \in audit' : First(f, e.ref)' /\ f.id < e.id)
    BY <1>1, <2>1 DEF TrailInv, OrderInv, First
  <2> QED
    BY <1>1, <1>2, <2>2 DEF OrderInv
<1>6. ASSUME NEW b \in Attempts PROVE OpenInv(b)'
  <2>1. CASE b = a
    BY <1>3, <2>1 DEF OpenInv
  <2>2. CASE b # a
    <3>1. /\ calls'[b] = calls[b] /\ audit \subseteq audit' /\ nextID' \in Nat /\ nextID <= nextID'
          /\ \A d \in Attempts : calls'[d] = calls[d] \/ calls'[d].state # "inserted"
          /\ \A row \in table' : row \in table
      BY <1>1, <1>3, <2>2
    <3> QED
      BY <3>1, OpenKept
  <2> QED
    BY <2>1, <2>2
<1> QED
  BY <1>4, <1>5, <1>6 DEF TrailInv

LEMMA StepTrail ==
    ASSUME IInv, TrailInv, [Next]_vars
    PROVE  TrailInv'
<1>1. ASSUME NEW a \in Attempts, NEW request \in Requests, Submit(a, request)
      PROVE  TrailInv'
  <2>1. /\ calls[a].state = "idle" /\ calls'[a].state = "begun"
        /\ \A b \in Attempts \ {a} : calls'[b] = calls[b]
        /\ table' = table /\ audit' = audit /\ nextID' = nextID /\ nextID \in Nat
    BY <1>1 DEF Submit, Idle, IInv, TypeOK
  <2>2. PairsInv' /\ OrderInv'
    BY <2>1 DEF TrailInv, PairsInv, OrderInv, First
  <2>3. ASSUME NEW b \in Attempts PROVE OpenInv(b)'
    <3>1. CASE b = a
      BY <2>1, <3>1 DEF OpenInv
    <3>2. CASE b # a
      BY <2>1, <3>2, OpenKept
    <3> QED
      BY <3>1, <3>2
  <2> QED
    BY <2>2, <2>3 DEF TrailInv
<1>2. CASE UNCHANGED <<table, audit, nextID, calls>>
  <2>1. PairsInv' /\ OrderInv'
    BY <1>2 DEF TrailInv, PairsInv, OrderInv, First
  <2>2. \A b \in Attempts : OpenInv(b)'
    BY <1>2 DEF TrailInv, OpenInv, Holds, Recorded, First
  <2> QED
    BY <2>1, <2>2 DEF TrailInv
<1>3. \/ \E a \in Attempts, request \in Requests : Submit(a, request)
      \/ \E a \in Attempts : Insert(a) \/ Commit(a) \/ Reject(a)
      \/ UNCHANGED <<table, audit, nextID, calls>>
  BY DEF Next, Tick, StartWalk, RefusePage, ListPage, Finished, vars
<1> QED
  BY <1>1, <1>2, <1>3, InsertTrail, CommitTrail, RejectTrail

(* The trail of a ref, read by its owner or an administrator, holds one    *)
(* accepted entry when the ref is recorded and none otherwise, before      *)
(* every duplicate of it: for any number of calls, refs and users, in      *)
(* whatever order they insert and commit (ListByTransactionRef).           *)
THEOREM TrailIsTold == Spec => []TrailTells
<1>1. ASSUME IInv, TrailInv PROVE TrailTells
  <2> SUFFICES ASSUME NEW r \in Refs,
                      NEW u \in Admins \union {row.owner : row \in {p \in table : p.ref = r}}
               PROVE  LET rows  == {row \in table : row.ref = r}
                          trail == ListByTransactionRef(u, r)
                          accepted == {e \in trail : e.outcome = "accepted"}
                      IN  /\ Cardinality(accepted) = Cardinality(rows)
                          /\ \A e \in trail : e.outcome = "duplicate" =>
                                \E first \in accepted : first.id < e.id
    BY DEF TrailTells
  <2> DEFINE rows  == {row \in table : row.ref = r}
             trail == ListByTransactionRef(u, r)
             accepted == {e \in trail : e.outcome = "accepted"}
  <2>1. PairsInv /\ OrderInv
    BY <1>1 DEF TrailInv
  <2>2. \A f : First(f, r) => f \in accepted
    <3> SUFFICES ASSUME NEW f, First(f, r) PROVE u \in Admins \/ f.owner = u
      BY DEF First, ListByTransactionRef, AuditVisible
    <3>1. PICK row \in table : row.ref = r /\ row.owner = f.owner
      BY <2>1 DEF PairsInv, First
    <3> QED
      BY <2>1, <3>1 DEF PairsInv
  <2>3. \A f \in accepted : First(f, r)
    BY DEF First, ListByTransactionRef, AuditVisible
  <2>4. Cardinality(accepted) = Cardinality(rows)
    <3>1. CASE rows = {}
      <4>1. accepted = {}
        BY <2>1, <2>3, <3>1 DEF PairsInv, First
      <4> QED
        BY <3>1, <4>1
    <3>2. CASE rows # {}
      <4>1. PICK row \in rows : TRUE
        BY <3>2
      <4>2. rows = {row}
        BY <2>1, <4>1 DEF PairsInv
      <4>3. PICK f \in audit : First(f, r)
        BY <2>1, <4>1 DEF PairsInv
      <4>4. accepted = {f}
        <5>1. \A e \in accepted : e = f
          BY <2>1, <2>3, <4>3 DEF PairsInv, First
        <5> HIDE DEF accepted
        <5> QED
          BY <2>2, <4>3, <5>1
      <4> QED
        BY <4>2, <4>4, FS_Singleton
    <3> QED
      BY <3>1, <3>2
  <2>5. \A e \in trail : e.outcome = "duplicate" => \E first \in accepted : first.id < e.id
    <3>1. \A e \in trail : e \in audit /\ e.ref = r
      BY DEF ListByTransactionRef, AuditVisible
    <3> HIDE DEF trail, accepted
    <3> QED
      BY <2>1, <2>2, <3>1 DEF OrderInv
  <2> QED
    BY <2>4, <2>5
<1>2. TrailInv /\ IInv /\ [Next]_vars => TrailInv'
  BY StepTrail
<1> QED
  BY <1>1, <1>2, InitTrail, Invariance, PTL DEF Spec
=============================================================================
