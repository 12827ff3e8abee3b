------------------------------- MODULE Batch --------------------------------
(***************************************************************************)
(* Loading a file of transactions: the CLI parses it, sorts the rows and   *)
(* sends one request; the server checks it, sorts again by the times it    *)
(* was sent and runs the elements one after the other as calls of the      *)
(* wallet (module Wallet); the CLI prints a summary of the answer.         *)
(*                                                                         *)
(* An operator who got no answer, or was told of failures, runs the        *)
(* command again, so batches of the same file may run beside each other.   *)
(***************************************************************************)
EXTENDS Wallet, Sequences

CONSTANTS
    Files,           \* contents of the CSV files
    Ingesters,       \* users whose tokens the CLI is given
    Runs,            \* runs of the command, in the order they are started
    MaxBatch,        \* maxBatchSize
    Res,             \* ticks of time.Time in one second of RFC3339
    NoSummary

(* A record with its parsed fields; wellFormed is FALSE when ParseCSV finds *)
(* no five fields, no integer points or no RFC3339 time.  at = 0 is a blank *)
(* cell.                                                                    *)
RecordType ==
    [ref: Refs, account: AccountIDs, kind: Kinds \ {"adjust"}, points: Int,
     at: Nat, wellFormed: BOOLEAN]

FileType == [header: BOOLEAN, records: Seq(RecordType)]

Element(user, row) ==
    [user |-> user, ref |-> row.ref, account |-> row.account,
     kind |-> row.kind, points |-> row.points]

ASSUME BatchAssumption ==
    /\ Files \subseteq FileType
    /\ Ingesters \subseteq Users
    /\ Runs \subseteq Nat
    /\ MaxBatch \in Nat
    /\ Res \in Nat \ {0}

(* A call of the wallet made for line i of a file is named after the run. *)
ASSUME ElementsAssumption ==
    \A f \in Files : \A i \in DOMAIN f.records :
        /\ \A n \in Runs : <<n, i>> \in Attempts
        /\ \A u \in Ingesters \intersect Admins : Element(u, f.records[i]) \in Requests

VARIABLES
    job,      \* the file and the token's user every run is given
    cli,      \* run -> state of the command
    summary,  \* run -> what it printed
    batch,    \* run -> state of its batch at the server
    results   \* run -> results of the batch so far

command == <<job, cli, summary>>
server == <<batch, results>>
bvars == <<vars, command, server>>

CLIStates == {"idle", "waiting", "preview", "badHeader", "failed", "summarised"}
CLIEnded == CLIStates \ {"idle", "waiting"}
BatchStates == {"none", "applying", "answered", "refused", "dead"}
BatchOutcomes == {"accepted", "duplicate", "rejected"}

-----------------------------------------------------------------------------
(* The file as the CLI and the server see it.  A row is named by its line. *)

(* ParseCSV: rows that parse are sent, the others are local errors. *)
Sent(f) == {i \in DOMAIN f.records : f.records[i].wellFormed}
LocalErrors(f) == DOMAIN f.records \ Sent(f)

(* Fault for mutation: the rows are sent as they stand in the file. *)
UnsortedBefore(f, i, j) == i < j

(* SortRows. *)
RowBefore(f, i, j) ==
    LET t(k) == f.records[k].at
    IN  t(i) < t(j) \/ (t(i) = t(j) /\ i < j)

(* BuildRequest: Format(time.RFC3339) drops what is below a second. *)
WireTime(f, i) == (f.records[i].at \div Res) * Res

(* ProcessTransactionBatch: a stable sort of the request, by time only. *)
ElementBefore(f, i, j) ==
    \/ WireTime(f, i) < WireTime(f, j)
    \/ WireTime(f, i) = WireTime(f, j) /\ RowBefore(f, i, j)

Applied(n) == {results[n][k].line : k \in DOMAIN results[n]}
Remaining(n) == Sent(job.file) \ Applied(n)

(* Fault for mutation: the elements are handed to goroutines. *)
AnyOrder(n, i) == i \in Remaining(n)

(* The element the loop has come to. *)
Current(n, i) ==
    /\ i \in Remaining(n)
    /\ \A j \in Remaining(n) \ {i} : ElementBefore(job.file, i, j)

-----------------------------------------------------------------------------
(* The summary the command prints. *)

Tally(n, outcome) ==
    Cardinality({k \in DOMAIN results[n] : results[n][k].outcome = outcome})

(* Fault for mutation: the rows that were sent are numbered, not the lines. *)
LineAmongSent(f, ref) ==
    Cardinality({j \in Sent(f) : \A i \in Sent(f) : f.records[i].ref = ref => j <= i})

(* lineByRef: a later row with the same ref overwrites an earlier one. *)
lineByRef(f, ref) ==
    CHOOSE i \in Sent(f) :
        /\ f.records[i].ref = ref
        /\ \A j \in Sent(f) \ {i} : f.records[j].ref = ref => RowBefore(f, j, i)

(* A rejection: the row it is about and the line it is printed with. *)
Rejection(line, printed) == [line |-> line, printed |-> printed]

DryRunSummary(f) ==
    [sent |-> Cardinality(Sent(f)), accepted |-> 0, duplicates |-> 0, rejected |-> 0,
     localErrors |-> Cardinality(LocalErrors(f)),
     rejections |-> {Rejection(i, i) : i \in LocalErrors(f)}]

Summarize(n) ==
    LET f == job.file
        rejectedLines == {results[n][k].line : k \in
            {j \in DOMAIN results[n] : results[n][j].outcome = "rejected"}}
    IN  IF batch[n] = "refused"
        THEN [DryRunSummary(f) EXCEPT
                !.rejected = Cardinality(Sent(f)),
                !.rejections = @ \union {Rejection(i, i) : i \in Sent(f)}]
        ELSE [DryRunSummary(f) EXCEPT
                !.accepted = Tally(n, "accepted"),
                !.duplicates = Tally(n, "duplicate"),
                !.rejected = Tally(n, "rejected"),
                !.rejections = @ \union
                    {Rejection(i, lineByRef(f, f.records[i].ref)) : i \in rejectedLines}]

-----------------------------------------------------------------------------
(* Steps of the command *)

BatchInit ==
    /\ Init
    /\ job \in [file: Files, user: Ingesters]
    /\ cli = [n \in Runs |-> "idle"]
    /\ summary = [n \in Runs |-> NoSummary]
    /\ batch = [n \in Runs |-> "none"]
    /\ results = [n \in Runs |-> <<>>]

(* runIngest up to Send: a bad header ends it, a dry run only previews.    *)
(* The operator starts it again when the run before has ended.             *)
RunIngest(n) ==
    /\ cli[n] = "idle"
    /\ \A m \in Runs : m < n => cli[m] \in CLIEnded
    /\ \/ /\ ~job.file.header
          /\ cli' = [cli EXCEPT ![n] = "badHeader"]
          /\ UNCHANGED summary
       \/ /\ job.file.header
          /\ cli' = [cli EXCEPT ![n] = "preview"]
          /\ summary' = [summary EXCEPT ![n] = DryRunSummary(job.file)]
       \/ /\ job.file.header
          /\ cli' = [cli EXCEPT ![n] = "waiting"]
          /\ UNCHANGED summary
    /\ UNCHANGED <<vars, job, server>>

(* Send gets an answer, and runIngest prints its summary. *)
ReadAnswer(n) ==
    /\ cli[n] = "waiting"
    /\ batch[n] \in {"answered", "refused"}
    /\ cli' = [cli EXCEPT ![n] = "summarised"]
    /\ summary' = [summary EXCEPT ![n] = Summarize(n)]
    /\ UNCHANGED <<vars, job, server>>

(* Send fails: the connection broke, before or after the server began.     *)
(* The server may not notice and go on.                                    *)
LoseAnswer(n) ==
    /\ cli[n] = "waiting"
    /\ cli' = [cli EXCEPT ![n] = "failed"]
    /\ UNCHANGED <<vars, job, summary, server>>

-----------------------------------------------------------------------------
(* Steps of the server *)

(* The adaptor's admin check and the batch's Validate; the middlewares may *)
(* refuse any request before that (a limit, a token gone stale).           *)
Deliver(n) ==
    /\ cli[n] \in {"waiting", "failed"}
    /\ batch[n] = "none"
    /\ \/ /\ job.user \in Admins
          /\ Cardinality(Sent(job.file)) \in 1..MaxBatch
          /\ batch' = [batch EXCEPT ![n] = "applying"]
       \/ batch' = [batch EXCEPT ![n] = "refused"]
    /\ UNCHANGED <<vars, command, results>>

(* The loop calls ProcessTransaction for the next element. *)
ApplyNext(n) ==
    /\ batch[n] = "applying"
    /\ \E i \in Remaining(n) :
          Current(n, i) /\ Receive(<<n, i>>, Element(job.user, job.file.records[i]))
    /\ UNCHANGED <<command, server>>

Append1(n, i, outcome) ==
    results' = [results EXCEPT ![n] = Append(@, [line |-> i, outcome |-> outcome])]

(* Faults for mutation: no case for an error, none for a duplicate. *)
CollectWithoutErrorCase(n) ==
    /\ batch[n] = "applying"
    /\ \E i \in Remaining(n) :
          /\ Current(n, i) /\ pc[<<n, i>>] = "replied"
          /\ Append1(n, i, frame[<<n, i>>].reply)
    /\ UNCHANGED <<vars, command, batch>>

CollectWithoutDuplicateCase(n) ==
    /\ batch[n] = "applying"
    /\ \E i \in Remaining(n) :
          /\ Current(n, i) /\ pc[<<n, i>>] = "replied"
          /\ Append1(n, i, IF frame[<<n, i>>].reply \in {"accepted", "duplicate"}
                           THEN "accepted" ELSE "rejected")
    /\ UNCHANGED <<vars, command, batch>>

(* The call has returned: any error is a rejection of this element alone. *)
CollectResult(n) ==
    /\ batch[n] = "applying"
    /\ \E i \in Remaining(n) :
          /\ Current(n, i) /\ pc[<<n, i>>] = "replied"
          /\ Append1(n, i, IF frame[<<n, i>>].reply \in {"accepted", "duplicate"}
                           THEN frame[<<n, i>>].reply ELSE "rejected")
    /\ UNCHANGED <<vars, command, batch>>

Respond(n) ==
    /\ batch[n] = "applying"
    /\ Remaining(n) = {}
    /\ batch' = [batch EXCEPT ![n] = "answered"]
    /\ UNCHANGED <<vars, command, results>>

(* The server dies in the middle of a call or between two elements. *)
ServerCrash ==
    /\ "crash" \in Faults
    /\ \E n \in Runs : batch[n] = "applying"
    /\ Crash \/ UNCHANGED vars
    /\ batch' = [n \in Runs |-> IF batch[n] = "applying" THEN "dead" ELSE batch[n]]
    /\ UNCHANGED <<command, results>>

(* A step of the call an element makes, or its failure. *)
CallStep(a) ==
    /\ Progress(a) \/ TxStatementFails(a) \/ PoolStatementFails(a) \/ CommitFails(a)
    /\ UNCHANGED <<command, server>>

Finished ==
    /\ \A n \in Runs : cli[n] \in CLIEnded /\ batch[n] # "applying"
    /\ UNCHANGED bvars

BatchNext ==
    \/ \E n \in Runs :
          \/ RunIngest(n) \/ ReadAnswer(n) \/ LoseAnswer(n)
          \/ Deliver(n) \/ ApplyNext(n) \/ CollectResult(n) \/ Respond(n)
    \/ ServerCrash
    \/ \E a \in Attempts : CallStep(a)
    \/ Finished

BatchSpec == BatchInit /\ [][BatchNext]_bvars

-----------------------------------------------------------------------------
(* Properties *)

ResultType == [line: Nat, outcome: BatchOutcomes]

BatchTypeOK ==
    /\ job \in [file: Files, user: Ingesters]
    /\ cli \in [Runs -> CLIStates]
    /\ DOMAIN summary = Runs
    /\ batch \in [Runs -> BatchStates]
    /\ results \in [Runs -> Seq(ResultType)]

(* A batch is applied in the order of the file's own times, line by line   *)
(* where they are equal, although the request carries whole seconds only   *)
(* and the server sorts it again (SortRows, BuildRequest,                  *)
(* ProcessTransactionBatch): what has been answered came before all that   *)
(* is left.                                                                *)
InChronology ==
    \A n \in Runs :
        LET at(i) == job.file.records[i].at
            earlier(i, j) == at(i) < at(j) \/ (at(i) = at(j) /\ i < j)
            line(k) == results[n][k].line
        IN  \A k \in DOMAIN results[n] :
                /\ \A l \in DOMAIN results[n] : k < l => earlier(line(k), line(l))
                /\ \A j \in Remaining(n) : earlier(line(k), j)

(* What the operator reads is what happened: every row of the file is      *)
(* counted once, the rows counted as accepted are exactly the ledger rows  *)
(* this run created, those counted as duplicates are recorded by somebody  *)
(* else, and a refused batch or a dry run created none (Summarize,         *)
(* ProcessTransactionBatch).                                               *)
SummaryTrue ==
    \A n \in Runs : cli[n] \in {"summarised", "preview"} =>
        LET f == job.file
            s == summary[n]
            own == {r \in Refs : ledger[r] # NoRow /\ \E i \in Sent(f) : ledger[r].id = <<n, i>>}
        IN  /\ s.sent + s.localErrors = Len(f.records)
            /\ cli[n] = "summarised" => s.sent = s.accepted + s.duplicates + s.rejected
            /\ s.accepted = Cardinality(own)
            /\ \A k \in DOMAIN results[n] : results[n][k].outcome = "duplicate" =>
                  LET ref == f.records[results[n][k].line].ref
                  IN  ledger[ref] # NoRow /\ ledger[ref].id # <<n, results[n][k].line>>

(* Every rejected row and every unreadable one is reported once, and with  *)
(* the line it stands on: only where its ref stands on several lines the   *)
(* line printed is another one of that ref (lineByRef), although           *)
(* cmd/cli/README.md:120 promises "its originating line number".           *)
RejectionsReported ==
    \A n \in Runs : cli[n] = "summarised" =>
        LET f == job.file
            s == summary[n]
        IN  /\ Cardinality(s.rejections) = s.rejected + s.localErrors
            /\ \A x \in s.rejections : x.line # x.printed =>
                  /\ {x.line, x.printed} \subseteq Sent(f)
                  /\ f.records[x.line].ref = f.records[x.printed].ref

(* A row the wallet can take, what it is to move, and the balance the file *)
(* leaves behind it in the order of its times.                             *)
Acceptable(f, i) ==
    /\ f.records[i].kind \in {"earn", "spend"} /\ f.records[i].points > 0
    /\ f.records[i].account \in accounts

Due(f) ==
    [i \in DOMAIN f.records |->
        [points |-> signedDelta(f.records[i].kind, f.records[i].points)]]

FundedBy(f, i) ==
    {j \in Sent(f) : /\ Acceptable(f, j) /\ f.records[j].account = f.records[i].account
                     /\ j = i \/ RowBefore(f, j, i)}

BalanceAfter(f, i) ==
    InitBalance[f.records[i].account] + MapThenSumSet(LAMBDA j : Due(f)[j].points, FundedBy(f, i))

Affordable(f) ==
    /\ \A i, j \in Sent(f) : i # j => f.records[i].ref # f.records[j].ref
    /\ \A i \in Sent(f) : Acceptable(f, i) => Storable(BalanceAfter(f, i))

(* No statement failed under any element: what happened before is crashes, *)
(* lost answers and overlapping runs.                                      *)
NoElementFailed ==
    \A a \in Attempts : frame[a].cause # "internal" /\ frame[a].reply # "unaudited"

(* A file that can be paid for in the order of its times is loaded in      *)
(* full, however often it is sent: no row is rejected for want of points   *)
(* while another run, a crash or a lost answer left part of it recorded,   *)
(* and a run that is answered leaves every row in the ledger               *)
(* (ProcessTransactionBatch: "an earn must land before the spend it        *)
(* funds").                                                                *)
FileSettled ==
    NoElementFailed =>
        \A n \in Runs : batch[n] \in {"applying", "answered"} /\ Affordable(job.file) =>
            \A k \in DOMAIN results[n] :
                LET i == results[n][k].line
                    row == job.file.records[i]
                IN  Acceptable(job.file, i) =>
                       /\ results[n][k].outcome # "rejected"
                       /\ ledger[row.ref].points = signedDelta(row.kind, row.points)
=============================================================================
