---------------------------- MODULE PointsLedger ----------------------------
(***************************************************************************)
(* What the wallet promises its callers, without requests, connections,    *)
(* locks or transactions: the durable tables change in four ways only, and *)
(* each way is one indivisible step.  Wallet.tla is shown to implement     *)
(* this specification.                                                     *)
(***************************************************************************)
EXTENDS Integers

CONSTANTS Refs,        \* idempotency keys
          AccountIDs,  \* account ids that may ever be used
          NoRow,       \* the ref has not been recorded
          MaxBalance   \* largest value of the balance column (BIGINT)

VARIABLES accounts,    \* ids of the rows of table accounts
          balance,     \* accounts.balance, 0 where there is no row
          adjusted,    \* sum of the off-ledger adjustments of the account
          ledger,      \* table transactions, by its unique ref
          audit        \* table audit_entries

vars == <<accounts, balance, adjusted, ledger, audit>>

Init ==
    /\ accounts \subseteq AccountIDs
    /\ balance \in [AccountIDs -> 0..MaxBalance]
    /\ adjusted = balance
    /\ ledger = [r \in Refs |-> NoRow]
    /\ audit = {}

(* A new account starts with no points. *)
Open(acc) ==
    /\ acc \notin accounts
    /\ accounts' = accounts \union {acc}
    /\ UNCHANGED <<balance, adjusted, ledger, audit>>

(* Recording a ref for the first time, moving the points and writing the   *)
(* accepted audit row are one step, and only when the balance stays within *)
(* its limits.                                                             *)
Accept(r, row, entry) ==
    /\ ledger[r] = NoRow /\ row # NoRow
    /\ row.account \in accounts
    /\ balance[row.account] + row.points \in 0..MaxBalance
    /\ entry.id = row.id /\ entry.ref = r /\ entry.outcome = "accepted"
    /\ entry \notin audit
    /\ ledger' = [ledger EXCEPT ![r] = row]
    /\ balance' = [balance EXCEPT ![row.account] = @ + row.points]
    /\ audit' = audit \union {entry}
    /\ UNCHANGED <<accounts, adjusted>>

(* A duplicate or rejected attempt leaves a trace and nothing else; a      *)
(* duplicate is one only when its ref is already recorded.                 *)
Note(entry) ==
    /\ entry \notin audit
    /\ \/ entry.outcome = "rejected"
       \/ entry.outcome = "duplicate" /\ ledger[entry.ref] # NoRow
    /\ audit' = audit \union {entry}
    /\ UNCHANGED <<accounts, balance, adjusted, ledger>>

(* An administrator moves a balance without a ledger row. *)
Adjust(acc, d) ==
    /\ acc \in accounts
    /\ balance[acc] + d \in 0..MaxBalance
    /\ balance' = [balance EXCEPT ![acc] = @ + d]
    /\ adjusted' = [adjusted EXCEPT ![acc] = @ + d]
    /\ UNCHANGED <<accounts, ledger, audit>>

(* The row, the entry and the amount are the ones the step itself leaves   *)
(* behind: any row may be recorded, as long as the rest agrees with it.    *)
Next ==
    \/ \E acc \in AccountIDs : Open(acc)
    \/ \E r \in Refs, entry \in audit' \ audit : Accept(r, ledger'[r], entry)
    \/ \E entry \in audit' \ audit : Note(entry)
    \/ \E acc \in AccountIDs : Adjust(acc, balance'[acc] - balance[acc])

Spec == Init /\ [][Next]_vars
=============================================================================
