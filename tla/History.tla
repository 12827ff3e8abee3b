------------------------------ MODULE History -------------------------------
(***************************************************************************)
(* Reading what the wallet recorded: the keyset pages of                   *)
(* TransactionRepository.List, walked by callers while calls go on         *)
(* recording, and the audit trail of a ref.                                *)
(*                                                                         *)
(* A call stamps its time when it starts and its row is seen when it       *)
(* commits, so rows do not appear in the order of their times.  Times are  *)
(* columns of text, and the database compares text.                        *)
(***************************************************************************)
EXTENDS Integers, FiniteSets

CONSTANTS
    Attempts,        \* calls of the wallet
    Refs,            \* idempotency keys, in the order of their texts
    Members, Admins, \* users
    Digits, Base,    \* digits of the fraction of a second, and their base
    FirstTick, LastTick,   \* the clock runs from here to there
    Loaded, LoadedOwner,   \* refs recorded before FirstTick, and their owners
    FirstID,         \* next id of audit_entries at FirstTick
    Requests,        \* the ref and the owner of the account of each call
    Walkers,         \* walks through the pages
    WalkRequests,    \* user, page size and first cursor of the walks
    defaultPageSize, maxPageSize,
    NoOwner, NoCursor, BadCursor

Users == Members \union Admins
Ticks == 0..LastTick

ASSUME HistoryAssumption ==
    /\ Refs \subseteq Nat /\ Loaded \subseteq Refs
    /\ LoadedOwner \in [Loaded -> Members]
    /\ Requests \subseteq [ref: Refs, owner: Members \union {NoOwner}]
    /\ FirstID \in Nat /\ \A r \in Loaded : r < FirstID
    /\ Digits \in Nat /\ Base \in Nat \ {0} /\ LastTick \in Nat
    /\ WalkRequests \subseteq [user: Users, size: Int, cursor: {NoCursor, BadCursor}]
    /\ defaultPageSize \in Nat \ {0}
    /\ maxPageSize \in Nat \ {0}
    /\ FirstTick \in Ticks

(* Arithmetic that the provers do not know.  *)
ASSUME PowersAssumption == \A n \in 0..Digits : Base^n \in Nat \ {0}

-----------------------------------------------------------------------------
(* Times as text.  A text is its seconds, which have a fixed width, at     *)
(* index 0 and then the characters of the fraction: RFC3339Nano drops      *)
(* trailing zeros, and the Z that ends the text is greater than any digit  *)
(* and than the point.                                                     *)

Digit(t, i) == (t \div Base^(Digits - i)) % Base

FormatTime(t) ==
    [i \in 0..Digits |->
        IF i = 0 THEN t \div Base^Digits
        ELSE IF \E j \in i..Digits : Digit(t, j) # 0 THEN Digit(t, i)
        ELSE Base]

Texts == {FormatTime(t) : t \in Ticks}

ParseTime(text) == CHOOSE t \in Ticks : FormatTime(t) = text

TextLess(s, t) ==
    \E i \in 0..Digits : s[i] < t[i] /\ \A j \in 0..(i - 1) : s[j] = t[j]

-----------------------------------------------------------------------------

VARIABLES
    now,       \* the clock
    table,     \* table transactions
    audit,     \* table audit_entries
    nextID,    \* sequence of audit_entries.id
    calls,     \* calls of the wallet, as far as they are seen here
    walks      \* the callers of List

vars == <<now, table, audit, nextID, calls, walks>>

RowType == [ref: Refs, owner: Members, recordedAt: Texts]
Outcomes == {"accepted", "duplicate", "rejected"}
EntryType == [id: Nat, ref: Refs, owner: Members \union {NoOwner}, outcome: Outcomes]
CursorType == [recordedAt: Texts, ref: Refs]

Recorded(r) == \E row \in table : row.ref = r

(* ORDER BY recorded_at DESC, ref *)
RowBefore(p, q) ==
    \/ TextLess(q.recordedAt, p.recordedAt)
    \/ p.recordedAt = q.recordedAt /\ p.ref < q.ref

ASSUME NoCursorAssumption == NoCursor \notin CursorType /\ BadCursor \notin CursorType

-----------------------------------------------------------------------------
(* TransactionRepository.List *)

clampPageSize(n) ==
    IF n <= 0 THEN defaultPageSize ELSE IF n > maxPageSize THEN maxPageSize ELSE n

Visible(u) == {row \in table : u \in Admins \/ row.owner = u}

(* Fault for mutation: the seek forgets that times may be equal. *)
SeekByTime(cursor, row) ==
    cursor = NoCursor \/ TextLess(row.recordedAt, cursor.recordedAt)

(* Fault for mutation: the seek includes the row of the cursor. *)
SeekInclusive(cursor, row) ==
    \/ cursor = NoCursor
    \/ TextLess(row.recordedAt, cursor.recordedAt)
    \/ row.recordedAt = cursor.recordedAt /\ row.ref >= cursor.ref

(* Strictly after the cursor, in the order of the rows. *)
Seek(cursor, row) ==
    \/ cursor = NoCursor
    \/ TextLess(row.recordedAt, cursor.recordedAt)
    \/ row.recordedAt = cursor.recordedAt /\ row.ref > cursor.ref

(* ORDER BY .. LIMIT n: the n rows before all others, or all there are. *)
FirstRows(rows, n, page) ==
    /\ page \subseteq rows
    /\ \A p \in page, q \in rows \ page : RowBefore(p, q)
    /\ Cardinality(page) = n \/ (page = rows /\ Cardinality(page) < n)

Last(page, row) == row \in page /\ \A p \in page \ {row} : RowBefore(p, row)

(* Faults for mutation: the cursor holds whole seconds, or part of a text. *)
encodeToTheSecond(row) ==
    [recordedAt |-> FormatTime((ParseTime(row.recordedAt) \div Base^Digits) * Base^Digits),
     ref |-> row.ref]

encodeCutText(row) ==
    [recordedAt |-> [i \in {0} |-> row.recordedAt[i]], ref |-> row.ref]

(* scanTransaction parsed the text of the row, and it is formatted again. *)
encodeTransactionCursor(row) ==
    [recordedAt |-> FormatTime(ParseTime(row.recordedAt)), ref |-> row.ref]

-----------------------------------------------------------------------------
(* AuditEntryRepository: List, ListByTransactionRef, in the order of ids. *)

AuditVisible(u) == {e \in audit : u \in Admins \/ e.owner = u}
ListByTransactionRef(u, r) == {e \in AuditVisible(u) : e.ref = r}

-----------------------------------------------------------------------------
(* Steps of the wallet, as seen by readers (module Wallet has them in      *)
(* full).                                                                  *)

Idle == [state |-> "idle"]

Submit(a, request) ==
    /\ calls[a] = Idle
    /\ calls' = [calls EXCEPT ![a] =
         [state |-> "begun", ref |-> request.ref, owner |-> request.owner,
          at |-> FormatTime(now)]]
    /\ UNCHANGED <<now, table, audit, nextID, walks>>

Holding(r) ==
    \E b \in Attempts : /\ calls[b].state = "inserted"
                        /\ calls[b].ref = r /\ calls[b].outcome = "accepted"

(* Fault for mutation: the ref is not held by an open transaction. *)
InsertUnguarded(a) ==
    /\ calls[a].state = "begun"
    /\ calls[a].owner # NoOwner
    /\ LET r == calls[a].ref
           found == Recorded(r)
       IN  /\ calls' = [calls EXCEPT ![a] =
                [state |-> "inserted", ref |-> r, owner |-> calls[a].owner,
                 at |-> calls[a].at, id |-> nextID,
                 outcome |-> IF found THEN "duplicate" ELSE "accepted"]]
    /\ nextID' = nextID + 1
    /\ UNCHANGED <<now, table, audit, walks>>

(* The row, or the finding that there is one, and the audit row of it: not *)
(* seen before the commit, but the audit row has its id.                   *)
Insert(a) ==
    /\ calls[a].state = "begun"
    /\ calls[a].owner # NoOwner
    /\ LET r == calls[a].ref
           found == Recorded(r)
       IN  /\ ~Holding(r)
           /\ calls' = [calls EXCEPT ![a] =
                [state |-> "inserted", ref |-> r, owner |-> calls[a].owner,
                 at |-> calls[a].at, id |-> nextID,
                 outcome |-> IF found THEN "duplicate" ELSE "accepted"]]
    /\ nextID' = nextID + 1
    /\ UNCHANGED <<now, table, audit, walks>>

Commit(a) ==
    /\ calls[a].state = "inserted"
    /\ LET c == calls[a]
       IN  /\ audit' = audit \union
                {[id |-> c.id, ref |-> c.ref, owner |-> c.owner, outcome |-> c.outcome]}
           /\ table' = IF c.outcome = "accepted"
                       THEN table \union
                              {[ref |-> c.ref, owner |-> c.owner, recordedAt |-> c.at]}
                       ELSE table
    /\ calls' = [calls EXCEPT ![a] = [state |-> "ended"]]
    /\ UNCHANGED <<now, nextID, walks>>

(* Rolled back, for whatever cause, and noted on the pool; an account that *)
(* was not found leaves no owner.                                          *)
Reject(a) ==
    /\ calls[a].state \in {"begun", "inserted"}
    /\ audit' = audit \union
         {[id |-> nextID, ref |-> calls[a].ref, owner |-> calls[a].owner,
           outcome |-> "rejected"]}
    /\ nextID' = nextID + 1
    /\ calls' = [calls EXCEPT ![a] = [state |-> "ended"]]
    /\ UNCHANGED <<now, table, walks>>

Tick ==
    /\ now < LastTick
    /\ now' = now + 1
    /\ UNCHANGED <<table, audit, nextID, calls, walks>>

-----------------------------------------------------------------------------
(* Steps of a caller of List, who keeps the page it got last.  goal (what  *)
(* there was to see when the walk began) and earlier (the rows of the      *)
(* pages before the last one) are history variables.                       *)

NewWalk == [state |-> "idle"]

StartWalk(w, request) ==
    /\ walks[w] = NewWalk
    /\ walks' = [walks EXCEPT ![w] =
         [state |-> "walking", user |-> request.user, size |-> request.size,
          cursor |-> request.cursor, page |-> {}, earlier |-> {},
          goal |-> Visible(request.user)]]
    /\ UNCHANGED <<now, table, audit, nextID, calls>>

(* Validate and decodeTransactionCursor. *)
RefusePage(w) ==
    /\ walks[w].state = "walking"
    /\ walks[w].size < 0 \/ walks[w].cursor = BadCursor
    /\ walks' = [walks EXCEPT ![w].state = "invalid"]
    /\ UNCHANGED <<now, table, audit, nextID, calls>>

Seen(w) == walks[w].earlier \union walks[w].page

(* One query for a row more than the page holds: when it is there, the     *)
(* page goes back with a cursor, otherwise the walk is over.               *)
ListPage(w) ==
    /\ walks[w].state = "walking"
    /\ walks[w].size >= 0 /\ walks[w].cursor # BadCursor
    /\ LET limit == clampPageSize(walks[w].size)
           rows  == {row \in Visible(walks[w].user) : Seek(walks[w].cursor, row)}
           Answer(page, state, cursor) ==
               walks' = [walks EXCEPT ![w].state = state, ![w].cursor = cursor,
                                      ![w].page = page, ![w].earlier = Seen(w)]
       IN  \E fetched \in SUBSET rows :
              /\ FirstRows(rows, limit + 1, fetched)
              /\ \/ /\ Cardinality(fetched) <= limit
                    /\ Answer(fetched, "done", walks[w].cursor)
                 \/ /\ Cardinality(fetched) > limit
                    /\ \E page \in SUBSET fetched : \E last \in page :
                          /\ FirstRows(fetched, limit, page)
                          /\ Last(page, last)
                          /\ Answer(page, "walking", encodeTransactionCursor(last))
    /\ UNCHANGED <<now, table, audit, nextID, calls>>

Finished ==
    /\ \A a \in Attempts : calls[a].state = "ended"
    /\ \A w \in Walkers : walks[w].state \in {"done", "invalid"}
    /\ UNCHANGED vars

-----------------------------------------------------------------------------

Init ==
    /\ now = FirstTick
    /\ \E at \in [Loaded -> 0..now] :
          table = {[ref |-> r, owner |-> LoadedOwner[r], recordedAt |-> FormatTime(at[r])] :
                       r \in Loaded}
    /\ audit = {[id |-> row.ref, ref |-> row.ref, owner |-> row.owner,
                 outcome |-> "accepted"] : row \in table}
    /\ nextID = FirstID
    /\ calls = [a \in Attempts |-> Idle]
    /\ walks = [w \in Walkers |-> NewWalk]

Next ==
    \/ \E a \in Attempts :
          \/ \E request \in Requests : Submit(a, request)
          \/ Insert(a) \/ Commit(a) \/ Reject(a)
    \/ Tick
    \/ \E w \in Walkers :
          \/ \E request \in WalkRequests : StartWalk(w, request)
          \/ RefusePage(w) \/ ListPage(w)
    \/ Finished

Spec == Init /\ [][Next]_vars

(* The caller goes on asking for the next page. *)
Fairness == \A w \in Walkers : WF_vars(RefusePage(w) \/ ListPage(w))
FairSpec == Spec /\ Fairness

-----------------------------------------------------------------------------
(* Properties *)

CallType ==
    [state: {"idle", "ended"}]
    \union [state: {"begun"}, ref: Refs, owner: Members \union {NoOwner}, at: Texts]
    \union [state: {"inserted"}, ref: Refs, owner: Members, at: Texts, id: Nat,
            outcome: {"accepted", "duplicate"}]

WalkType ==
    [state: {"idle"}]
    \union [state: {"walking", "done", "invalid"}, user: Users, size: Int,
            cursor: CursorType \union {NoCursor, BadCursor},
            page: SUBSET RowType, earlier: SUBSET RowType, goal: SUBSET RowType]

TypeOK ==
    /\ now \in Ticks
    /\ table \subseteq RowType
    /\ audit \subseteq EntryType
    /\ nextID \in Nat
    /\ calls \in [Attempts -> CallType]
    /\ walks \in [Walkers -> WalkType]

(* A walk that comes to its end has shown every row the caller could see   *)
(* when it began, whatever was committed meanwhile, however times compare  *)
(* as text and however many rows share one (List,                          *)
(* encodeTransactionCursor).                                               *)
WalkComplete ==
    \A w \in Walkers : walks[w].state = "done" => walks[w].goal \subseteq Seen(w)

(* No walk shows a row twice, although rows are committed with times that  *)
(* lie before and after the pages already shown; every page comes after    *)
(* all the pages before it, and shows no other member's rows (List).       *)
WalkInOrder ==
    \A w \in Walkers : walks[w].state \in {"walking", "done"} =>
        /\ \A p \in walks[w].earlier, q \in walks[w].page : RowBefore(p, q)
        /\ Seen(w) \subseteq Visible(walks[w].user)

(* A caller who follows the cursors comes to the last page, or is told     *)
(* that the cursor is none: no page leads back to itself, although rows    *)
(* share their times and more are committed meanwhile (List,               *)
(* decodeTransactionCursor).                                               *)
WalkEnds ==
    \A w \in Walkers : walks[w].state = "walking" ~> walks[w].state \in {"done", "invalid"}

(* The trail of a ref, read by its owner or by an administrator, has one   *)
(* accepted entry when the ref is recorded and none otherwise, and it      *)
(* stands before every duplicate, although ids are drawn before entries    *)
(* are committed (ListByTransactionRef).                                   *)
TrailTells ==
    \A r \in Refs :
        LET rows == {row \in table : row.ref = r}
        IN  \A u \in Admins \union {row.owner : row \in rows} :
              LET trail == ListByTransactionRef(u, r)
                  accepted == {e \in trail : e.outcome = "accepted"}
              IN  /\ Cardinality(accepted) = Cardinality(rows)
                  /\ \A e \in trail : e.outcome = "duplicate" =>
                        \E first \in accepted : first.id < e.id

(* transactionRepository.go: "rows come back newest-first"; time.go: the   *)
(* text form is "lexicographically sortable".  It is not: the Z of a text  *)
(* that ends early is greater than the digits of a longer one.             *)
NewestFirst ==
    \A w \in Walkers : walks[w].state \in {"walking", "done"} =>
        \A p \in walks[w].earlier, q \in walks[w].page :
            ParseTime(p.recordedAt) >= ParseTime(q.recordedAt)
=============================================================================
