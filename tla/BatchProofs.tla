---------------------------- MODULE BatchProofs -----------------------------
(***************************************************************************)
(* Theorems about Batch, for every set of files, runs and tokens, every    *)
(* limit, and every resolution of the times on the wire.                   *)
(***************************************************************************)
EXTENDS Batch, LedgerSums

(* Cutting times down to seconds keeps their order, weakly. *)
LEMMA SecondsMonotone ==
    ASSUME NEW s \in Nat, NEW t \in Nat, s <= t
    PROVE  (s \div Res) * Res <= (t \div Res) * Res
<1> DEFINE p == s \div Res
           q == t \div Res
<1>1. Res \in Nat \ {0}
  BY BatchAssumption
<1>2. p \in Nat /\ q \in Nat
  BY <1>1
<1>3. p * Res <= s /\ t < (q + 1) * Res
  BY <1>1
<1> HIDE DEF p, q
<1>4. p * Res < (q + 1) * Res
  BY <1>1, <1>2, <1>3
<1>5. p <= q
  BY <1>1, <1>2, <1>4
<1>6. p * Res <= q * Res
  BY <1>1, <1>2, <1>5
<1> QED
  BY <1>6 DEF p, q

(* The order of the server's sort is the order of the file's times. *)
LEMMA OrderKept ==
    ASSUME NEW f \in Files, NEW i \in DOMAIN f.records, NEW j \in DOMAIN f.records,
           ElementBefore(f, i, j)
    PROVE  /\ i \in Nat /\ j \in Nat
           /\ f.records[i].at \in Nat /\ f.records[j].at \in Nat
           /\ \/ f.records[i].at < f.records[j].at
              \/ f.records[i].at = f.records[j].at /\ i < j
<1> DEFINE s == f.records[i].at
           t == f.records[j].at
<1>1. f.records \in Seq(RecordType)
  BY BatchAssumption DEF FileType
<1>2. i \in Nat /\ j \in Nat /\ s \in Nat /\ t \in Nat
  <2>1. i \in 1..Len(f.records) /\ j \in 1..Len(f.records) /\ Len(f.records) \in Nat
    BY <1>1
  <2>2. f.records[i] \in RecordType /\ f.records[j] \in RecordType
    BY <1>1, <2>1
  <2> QED
    BY <2>1, <2>2 DEF RecordType
<1>3. CASE (s \div Res) * Res < (t \div Res) * Res
  <2>1. (s \div Res) * Res \in Int /\ (t \div Res) * Res \in Int
    BY <1>2, BatchAssumption
  <2>2. t <= s => (t \div Res) * Res <= (s \div Res) * Res
    BY <1>2, SecondsMonotone
  <2> HIDE DEF s, t
  <2>3. s < t
    <3> DEFINE p == (s \div Res) * Res
               q == (t \div Res) * Res
    <3>1. p \in Int /\ q \in Int /\ p < q /\ (t <= s => q <= p)
      BY <1>3, <2>1, <2>2
    <3> HIDE DEF p, q
    <3> QED
      BY <3>1, <1>2
  <2> QED
    BY <2>3, <1>2 DEF s, t
<1>4. CASE RowBefore(f, i, j)
  BY <1>2, <1>4 DEF RowBefore
<1> QED
  BY <1>3, <1>4 DEF ElementBefore, WireTime

-----------------------------------------------------------------------------

(* An accepted batch came with an administrator's token, and its results   *)
(* are about rows that were sent.                                          *)
Admitted ==
    /\ \A n \in Runs : batch[n] = "applying" => job.user \in Admins
    /\ \A n \in Runs : \A k \in DOMAIN results[n] : results[n][k].line \in Sent(job.file)

BatchInv == BatchTypeOK /\ Admitted /\ InChronology

THEOREM BatchInitInv == BatchInit => BatchInv
<1> SUFFICES ASSUME BatchInit PROVE BatchInv
  OBVIOUS
<1>1. \A n \in Runs : results[n] = <<>>
  BY DEF BatchInit
<1>2. BatchTypeOK
  BY DEF BatchInit, BatchTypeOK, CLIStates, BatchStates
<1>3. Admitted
  BY <1>1 DEF BatchInit, Admitted
<1>4. InChronology
  BY <1>1 DEF InChronology
<1> QED
  BY <1>2, <1>3, <1>4 DEF BatchInv

(* Appending the current element: what was there stays, and the new result *)
(* comes after all of it and before all that is left.                      *)
LEMMA CollectKeeps ==
    ASSUME BatchInv, NEW n \in Runs, CollectResult(n)
    PROVE  BatchTypeOK' /\ Admitted' /\ InChronology'
<1> DEFINE line(m, k) == results[m][k].line
           at(i) == job.file.records[i].at
           earlier(i, j) == at(i) < at(j) \/ (at(i) = at(j) /\ i < j)
<1>1. PICK i \in Remaining(n) :
        /\ Current(n, i)
        /\ \E o \in BatchOutcomes : Append1(n, i, o)
  <2>1. PICK i \in Remaining(n) :
          /\ Current(n, i)
          /\ Append1(n, i, IF frame[<<n, i>>].reply \in {"accepted", "duplicate"}
                           THEN frame[<<n, i>>].reply ELSE "rejected")
    BY DEF CollectResult
  <2> QED
    BY <2>1 DEF BatchOutcomes
<1>2. PICK o \in BatchOutcomes : Append1(n, i, o)
  BY <1>1
<1>3. UNCHANGED <<vars, command, batch>>
  BY DEF CollectResult
<1>4. /\ job \in [file: Files, user: Ingesters] /\ job.file \in Files
      /\ results \in [Runs -> Seq(ResultType)]
  BY DEF BatchInv, BatchTypeOK
<1>5. /\ i \in Sent(job.file) /\ i \notin Applied(n)
      /\ i \in DOMAIN job.file.records /\ i \in Nat
  <2>1. job.file.records \in Seq(RecordType)
    BY <1>4, BatchAssumption DEF FileType
  <2> QED
    BY <2>1 DEF Remaining, Sent
<1>6. /\ results' = [results EXCEPT ![n] = Append(@, [line |-> i, outcome |-> o])]
      /\ results' \in [Runs -> Seq(ResultType)]
  <2>1. [line |-> i, outcome |-> o] \in ResultType
    BY <1>5 DEF ResultType
  <2> QED
    BY <1>2, <1>4, <2>1 DEF Append1
<1>7. ASSUME NEW m \in Runs, m # n
      PROVE  results'[m] = results[m] /\ Remaining(m)' = Remaining(m)
  BY <1>3, <1>4, <1>6, <1>7 DEF Remaining, Applied, command
<1> DEFINE len == Len(results[n])
<1>8. /\ len \in Nat /\ DOMAIN results[n] = 1..len
      /\ DOMAIN results'[n] = 1..(len + 1)
      /\ \A k \in 1..len : results'[n][k] = results[n][k]
      /\ results'[n][len + 1].line = i
  BY <1>4, <1>6
<1>9. Remaining(n)' = Remaining(n) \ {i}
  BY <1>3, <1>8 DEF Remaining, Applied, command
<1>10. BatchTypeOK'
  BY <1>3, <1>6 DEF BatchInv, BatchTypeOK, command
<1>11. Admitted'
  BY <1>3, <1>5, <1>7, <1>8 DEF BatchInv, Admitted, command
<1>12. \A j \in Remaining(n) \ {i} : earlier(i, j)
  <2> TAKE j \in Remaining(n) \ {i}
  <2>1. j \in DOMAIN job.file.records
    BY DEF Remaining, Sent
  <2>2. ElementBefore(job.file, i, j)
    BY <1>1 DEF Current
  <2> QED
    BY <1>4, <1>5, <2>1, <2>2, OrderKept
<1>13. InChronology'
  <2> SUFFICES ASSUME NEW m \in Runs, NEW k \in DOMAIN results'[m]
               PROVE  /\ \A l \in DOMAIN results'[m] :
                            k < l => earlier(results'[m][k].line, results'[m][l].line)
                      /\ \A j \in Remaining(m)' : earlier(results'[m][k].line, j)
    BY <1>3 DEF InChronology, command
  <2>1. /\ \A x, y \in DOMAIN results[m] : x < y => earlier(line(m, x), line(m, y))
        /\ \A x \in DOMAIN results[m], j \in Remaining(m) : earlier(line(m, x), j)
    BY DEF BatchInv, InChronology
  <2> HIDE DEF earlier
  <2>2. CASE m # n
    BY <1>7, <2>1, <2>2
  <2>3. CASE m = n /\ k = len + 1
    BY <1>8, <1>9, <1>12, <2>3
  <2>4. CASE m = n /\ k \in 1..len
    <3>1. ASSUME NEW l \in DOMAIN results'[m], k < l
          PROVE  earlier(results'[m][k].line, results'[m][l].line)
      <4>1. CASE l \in 1..len
        BY <1>8, <2>1, <2>4, <3>1, <4>1
      <4>2. CASE l = len + 1
        BY <1>8, <2>1, <2>4, <4>2
      <4> QED
        BY <1>8, <2>4, <4>1, <4>2
    <3> QED
      BY <1>8, <1>9, <2>1, <2>4, <3>1
  <2> QED
    BY <1>8, <2>2, <2>3, <2>4
<1> QED
  BY <1>10, <1>11, <1>13

(* Every step of the batch is a step of the wallet or leaves it alone.     *)
LEMMA BatchStepIsWalletStep ==
    ASSUME BatchInv, BatchNext
    PROVE  [Next]_vars
<1>1. CASE \E n \in Runs : ApplyNext(n)
  <2>1. PICK n \in Runs : ApplyNext(n)
    BY <1>1
  <2>2. PICK i \in Remaining(n) :
          Receive(<<n, i>>, Element(job.user, job.file.records[i]))
    BY <2>1 DEF ApplyNext
  <2>3. job.user \in Ingesters \intersect Admins /\ job.file \in Files
    BY <2>1 DEF ApplyNext, BatchInv, BatchTypeOK, Admitted
  <2>4. i \in DOMAIN job.file.records
    BY DEF Remaining, Sent
  <2>5. <<n, i>> \in Attempts /\ Element(job.user, job.file.records[i]) \in Requests
    BY <2>3, <2>4, ElementsAssumption
  <2> QED
    BY <2>2, <2>5 DEF Next
<1>2. CASE ServerCrash
  BY <1>2 DEF ServerCrash, Next
<1>3. CASE \E a \in Attempts : CallStep(a)
  BY <1>3 DEF CallStep, Next
<1>4. CASE \E n \in Runs : \/ RunIngest(n) \/ ReadAnswer(n) \/ LoseAnswer(n)
                          \/ Deliver(n) \/ CollectResult(n) \/ Respond(n)
  BY <1>4 DEF RunIngest, ReadAnswer, LoseAnswer, Deliver, CollectResult, Respond
<1>5. CASE Finished
  BY <1>5 DEF Finished, bvars
<1> QED
  BY <1>1, <1>2, <1>3, <1>4, <1>5 DEF BatchNext

LEMMA BatchStep == BatchInv /\ [BatchNext]_bvars => BatchInv'
<1> SUFFICES ASSUME BatchInv, [BatchNext]_bvars PROVE BatchInv'
  OBVIOUS
<1> USE DEF command, server
<1>1. ASSUME NEW n \in Runs, CollectResult(n) PROVE BatchInv'
  BY <1>1, CollectKeeps DEF BatchInv
<1>2. CASE UNCHANGED <<job, results>>
  <2>1. Admitted' /\ InChronology' /\ BatchTypeOK' =>  BatchInv'
    BY DEF BatchInv
  <2>2. InChronology'
    BY <1>2 DEF BatchInv, InChronology, Remaining, Applied
  <2>3. ASSUME UNCHANGED <<command, server>> PROVE BatchInv'
    BY <2>2, <2>3 DEF BatchInv, BatchTypeOK, Admitted
  <2>4. ASSUME NEW n \in Runs, RunIngest(n) \/ ReadAnswer(n) \/ LoseAnswer(n)
        PROVE  BatchTypeOK' /\ Admitted'
    <3>1. batch' = batch /\ DOMAIN summary' = Runs
      BY <2>4 DEF RunIngest, ReadAnswer, LoseAnswer, BatchInv, BatchTypeOK
    <3>2. cli' \in [Runs -> CLIStates]
      BY <2>4 DEF RunIngest, ReadAnswer, LoseAnswer, BatchInv, BatchTypeOK, CLIStates
    <3> QED
      BY <1>2, <3>1, <3>2 DEF BatchInv, BatchTypeOK, Admitted
  <2>5. ASSUME NEW n \in Runs, Deliver(n) \/ Respond(n)
        PROVE  BatchTypeOK' /\ Admitted'
    <3>1. batch' \in [Runs -> BatchStates] /\ UNCHANGED <<cli, summary>>
      BY <2>5 DEF Deliver, Respond, BatchInv, BatchTypeOK, BatchStates
    <3>2. \A m \in Runs : batch'[m] = "applying" => job.user \in Admins
      BY <2>5 DEF Deliver, Respond, BatchInv, BatchTypeOK, Admitted
    <3> QED
      BY <1>2, <3>1, <3>2 DEF BatchInv, BatchTypeOK, Admitted
  <2>6. ASSUME ServerCrash PROVE BatchTypeOK' /\ Admitted'
    BY <1>2, <2>6 DEF ServerCrash, BatchInv, BatchTypeOK, BatchStates, Admitted
  <2> QED
    BY <1>1, <2>1, <2>2, <2>3, <2>4, <2>5, <2>6
    DEF BatchNext, ApplyNext, CallStep, Finished, bvars
<1>3. CASE ~ UNCHANGED <<job, results>>
  <2>1. \E n \in Runs : CollectResult(n)
    BY <1>3 DEF BatchNext, RunIngest, ReadAnswer, LoseAnswer, Deliver, ApplyNext,
                Respond, ServerCrash, CallStep, Finished, bvars
  <2> QED
    BY <1>1, <2>1
<1> QED
  BY <1>2, <1>3

(* The types, the admission of a batch and its order hold always.          *)
THEOREM BatchInvariance == BatchSpec => []BatchInv
<1>1. BatchInit => BatchInv
  BY BatchInitInv
<1>2. BatchInv /\ [BatchNext]_bvars => BatchInv'
  BY BatchStep
<1> QED
  BY <1>1, <1>2, PTL DEF BatchSpec

(* Files, summaries and results have their types (RunIngest, Collect).     *)
THEOREM BatchTypeCorrect == BatchSpec => []BatchTypeOK
<1>1. BatchInv => BatchTypeOK
  BY DEF BatchInv
<1> QED
  BY <1>1, BatchInvariance, PTL

(* A batch is applied in the order of its file's times, whatever fraction  *)
(* of them the wire drops (SortRows, BuildRequest,                         *)
(* ProcessTransactionBatch).                                               *)
THEOREM BatchOrdered == BatchSpec => []InChronology
<1>1. BatchInv => InChronology
  BY DEF BatchInv
<1> QED
  BY <1>1, BatchInvariance, PTL

(* Batches are calls of the wallet and nothing else: what is proved of the *)
(* wallet holds beside any number of batches.                              *)
THEOREM BatchImplementsWallet == BatchSpec => Spec
<1>1. BatchInit => Init
  BY DEF BatchInit
<1>2. BatchInv /\ [BatchNext]_bvars => [Next]_vars
  <2>1. BatchInv /\ UNCHANGED bvars => UNCHANGED vars
    BY DEF bvars
  <2> QED
    BY <2>1, BatchStepIsWalletStep
<1> QED
  BY <1>1, <1>2, BatchInvariance, PTL DEF BatchSpec, Spec

(* No order or overlap of batches leaves a balance below zero              *)
(* (UpdateAccountBalance under ProcessTransactionBatch).                   *)
THEOREM BatchFloor == BatchSpec => []BalanceFloor
  BY BatchImplementsWallet, FloorSafe, PTL

-----------------------------------------------------------------------------
(* The elements of a batch as calls of the wallet *)

OutcomeOf(reply) == IF reply \in {"accepted", "duplicate"} THEN reply ELSE "rejected"

(* A call that has begun is an element of a batch that was let in, with the *)
(* request of its line.                                                     *)
ElementCall(a) ==
    pc[a] # "idle" =>
        \E n \in Runs, i \in Sent(job.file) :
            /\ a = <<n, i>>
            /\ batch[n] \notin {"none", "refused"}
            /\ job.user \in Admins
            /\ req[a] = Element(job.user, job.file.records[i])

(* A result is the answer of the call of its line. *)
Collected(n) ==
    \A k \in DOMAIN results[n] :
        /\ pc[<<n, results[n][k].line>>] = "replied"
        /\ results[n][k].outcome = OutcomeOf(frame[<<n, results[n][k].line>>].reply)

(* How far the command, its batch and the results have come together. *)
Printed(n) ==
    /\ batch[n] \in {"none", "refused"} => results[n] = <<>>
    /\ batch[n] = "answered" => Remaining(n) = {}
    /\ cli[n] \in {"idle", "preview", "badHeader"} => batch[n] = "none"
    /\ cli[n] = "preview" => summary[n] = DryRunSummary(job.file)
    /\ cli[n] = "summarised" =>
          batch[n] \in {"answered", "refused"} /\ summary[n] = Summarize(n)

BatchTrail ==
    /\ \A a \in Attempts : ElementCall(a)
    /\ \A n \in Runs : Collected(n) /\ Printed(n)

(* Everything a step of a batch may rely on. *)
AllInv == BatchInv /\ TrailInv /\ Rooted /\ BatchTrail

(* No call begins in these steps, and none changes its request. *)
CallsStay ==
    req' = req /\ \A a \in Attempts : pc'[a] = "idle" <=> pc[a] = "idle"

LEMMA CallStepStays ==
    ASSUME TypeOK, NEW a \in Attempts, CallStep(a)
    PROVE  CallsStay
<1>1. CASE LookupAccount(a)
  BY <1>1, LookupAt DEF CallsStay
<1>2. CASE ~LookupAccount(a)
  <2>1. Resumes(a)
    BY <1>2, StepResumes DEF CallStep
  <2> QED
    BY <2>1 DEF Resumes, CallsStay
<1> QED
  BY <1>1, <1>2

(* What a step of a batch is, for the invariants of its calls. *)
LEMMA BatchCases ==
    ASSUME BatchInv, TypeOK, BatchNext
    PROVE  \/ \E n \in Runs : \E i \in Remaining(n) :
                 /\ batch[n] = "applying" /\ job.user \in Admins
                 /\ <<n, i>> \in Attempts /\ Element(job.user, job.file.records[i]) \in Requests
                 /\ Current(n, i) /\ Receive(<<n, i>>, Element(job.user, job.file.records[i]))
                 /\ UNCHANGED <<command, server>>
           \/ CallsStay /\ (Crash \/ UNCHANGED vars \/ \E a \in Attempts : CallStep(a))
<1>1. CASE \E n \in Runs : ApplyNext(n)
  <2>1. PICK n \in Runs : ApplyNext(n)
    BY <1>1
  <2>2. PICK i \in Remaining(n) :
          Current(n, i) /\ Receive(<<n, i>>, Element(job.user, job.file.records[i]))
    BY <2>1 DEF ApplyNext
  <2>3. /\ batch[n] = "applying" /\ UNCHANGED <<command, server>>
        /\ job.user \in Ingesters \intersect Admins /\ job.file \in Files
    BY <2>1 DEF ApplyNext, BatchInv, BatchTypeOK, Admitted
  <2>4. i \in DOMAIN job.file.records
    BY DEF Remaining, Sent
  <2>5. <<n, i>> \in Attempts /\ Element(job.user, job.file.records[i]) \in Requests
    BY <2>3, <2>4, ElementsAssumption
  <2> QED
    BY <2>2, <2>3, <2>5
<1>2. CASE ServerCrash
  BY <1>2 DEF ServerCrash, Crash, TypeOK, vars, CallsStay, Ended
<1>3. CASE \E a \in Attempts : CallStep(a)
  BY <1>3, CallStepStays
<1>4. CASE \E n \in Runs : \/ RunIngest(n) \/ ReadAnswer(n) \/ LoseAnswer(n)
                          \/ Deliver(n) \/ CollectResult(n) \/ Respond(n)
  BY <1>4 DEF RunIngest, ReadAnswer, LoseAnswer, Deliver, CollectResult, Respond, vars, CallsStay
<1>5. CASE Finished
  BY <1>5 DEF Finished, bvars, vars, CallsStay
<1> QED
  BY <1>1, <1>2, <1>3, <1>4, <1>5 DEF BatchNext

(* The file is chosen once, and a batch that was let in stays let in. *)
LEMMA BatchMoves ==
    ASSUME BatchTypeOK, BatchNext
    PROVE  /\ job' = job
           /\ \A n \in Runs :
                 batch[n] \notin {"none", "refused"} => batch'[n] \notin {"none", "refused"}
           /\ \A n \in Runs : results'[n] = results[n] \/ CollectResult(n)
<1>1. job' = job
  BY DEF BatchNext, RunIngest, ReadAnswer, LoseAnswer, Deliver, ApplyNext, CollectResult,
     Respond, ServerCrash, CallStep, Finished, bvars, command
<1>2. ASSUME NEW n \in Runs, batch[n] \notin {"none", "refused"}
      PROVE  batch'[n] \notin {"none", "refused"}
  <2>1. CASE \E m \in Runs : Deliver(m) \/ Respond(m)
    BY <1>2, <2>1 DEF Deliver, Respond, BatchTypeOK
  <2>2. CASE ServerCrash
    BY <1>2, <2>2 DEF ServerCrash
  <2>3. CASE batch' = batch
    BY <1>2, <2>3
  <2> QED
    BY <2>1, <2>2, <2>3 DEF BatchNext, RunIngest, ReadAnswer, LoseAnswer, ApplyNext,
       CollectResult, CallStep, Finished, bvars, server
<1>3. ASSUME NEW n \in Runs PROVE results'[n] = results[n] \/ CollectResult(n)
  <2>1. ASSUME NEW m \in Runs, CollectResult(m) PROVE results'[n] = results[n] \/ m = n
    <3>1. PICK i, o : Append1(m, i, o)
      BY <2>1 DEF CollectResult
    <3> QED
      BY <1>3, <3>1 DEF Append1, BatchTypeOK
  <2>2. CASE results' = results
    BY <2>2
  <2> QED
    BY <2>1, <2>2 DEF BatchNext, RunIngest, ReadAnswer, LoseAnswer, Deliver, ApplyNext,
       Respond, ServerCrash, CallStep, Finished, bvars, server
<1> QED
  BY <1>1, <1>2, <1>3

LEMMA ElementCallStep ==
    ASSUME AllInv, BatchNext, NEW a \in Attempts
    PROVE  ElementCall(a)'
<1>1. TypeOK /\ BatchTypeOK /\ BatchInv /\ ElementCall(a)
  BY DEF AllInv, BatchInv, TrailInv, IInv, BatchTrail
<1>2. /\ job' = job
      /\ \A n \in Runs :
            batch[n] \notin {"none", "refused"} => batch'[n] \notin {"none", "refused"}
  BY <1>1, BatchMoves
<1>3. CASE CallsStay
  BY <1>1, <1>2, <1>3 DEF CallsStay, ElementCall
<1>4. ASSUME NEW n \in Runs, NEW i \in Remaining(n), batch[n] = "applying", job.user \in Admins,
             <<n, i>> \in Attempts, Element(job.user, job.file.records[i]) \in Requests,
             Receive(<<n, i>>, Element(job.user, job.file.records[i])),
             UNCHANGED <<command, server>>
      PROVE  ElementCall(a)'
  <2>1. i \in Sent(job.file)
    BY DEF Remaining
  <2>2. CASE a = <<n, i>>
    <3>1. req'[a] = Element(job.user, job.file.records[i])
      BY <1>1, <1>4, <2>2, ReceiveAt
    <3> QED
      BY <1>2, <1>4, <2>1, <2>2, <3>1 DEF ElementCall
  <2>3. CASE a # <<n, i>>
    <3>1. pc'[a] = pc[a] /\ req'[a] = req[a]
      BY <1>1, <1>4, <2>3, ReceiveAt
    <3> QED
      BY <1>1, <1>2, <3>1 DEF ElementCall
  <2> QED
    BY <2>2, <2>3
<1> QED
  BY <1>1, <1>3, <1>4, BatchCases

(* The call of a line of the file has a name. *)
LEMMA LineNamed ==
    ASSUME BatchTypeOK, NEW n \in Runs, NEW i \in Sent(job.file)
    PROVE  <<n, i>> \in Attempts /\ i \in DOMAIN job.file.records /\ job.file \in Files
BY ElementsAssumption DEF BatchTypeOK, Sent

LEMMA CollectedStep ==
    ASSUME AllInv, BatchNext, NEW n \in Runs
    PROVE  Collected(n)'
<1>1. /\ TypeOK /\ BatchTypeOK /\ BatchInv /\ Collected(n)
      /\ \A k \in DOMAIN results[n] : results[n][k].line \in Sent(job.file)
  BY DEF AllInv, BatchInv, TrailInv, IInv, BatchTrail, Admitted
<1>2. [Next]_vars
  BY <1>1, BatchStepIsWalletStep
<1>3. ASSUME NEW k \in DOMAIN results[n]
      PROVE  /\ pc'[<<n, results[n][k].line>>] = "replied"
             /\ results[n][k].outcome = OutcomeOf(frame'[<<n, results[n][k].line>>].reply)
  <2> DEFINE a == <<n, results[n][k].line>>
  <2>1. a \in Attempts /\ pc[a] = "replied" /\ results[n][k].outcome = OutcomeOf(frame[a].reply)
    BY <1>1, LineNamed DEF Collected
  <2>2. pc'[a] = "replied" /\ frame'[a] = frame[a]
    BY <1>1, <1>2, <2>1, EndedStays DEF Ended
  <2> QED
    BY <2>1, <2>2
<1>4. CASE results'[n] = results[n]
  BY <1>3, <1>4 DEF Collected
<1>5. CASE CollectResult(n)
  <2>1. PICK i \in Remaining(n) : pc[<<n, i>>] = "replied" /\ Append1(n, i, OutcomeOf(frame[<<n, i>>].reply))
    BY <1>5 DEF CollectResult, OutcomeOf
  <2>2. results'[n] = Append(results[n], [line |-> i, outcome |-> OutcomeOf(frame[<<n, i>>].reply)])
    BY <1>1, <2>1 DEF Append1, BatchTypeOK
  <2> DEFINE len == Len(results[n])
             row == [line |-> i, outcome |-> OutcomeOf(frame[<<n, i>>].reply)]
  <2>3. row.line = i /\ row.outcome = OutcomeOf(frame[<<n, i>>].reply)
    OBVIOUS
  <2>4. /\ len \in Nat /\ DOMAIN results[n] = 1..len /\ DOMAIN results'[n] = 1..(len + 1)
        /\ \A k \in 1..len : results'[n][k] = results[n][k]
        /\ results'[n][len + 1] = row
    <3>1. results[n] \in Seq(ResultType)
      BY <1>1 DEF BatchTypeOK
    <3> HIDE DEF row
    <3> QED
      BY <2>2, <3>1 DEF row
  <2>5. pc' = pc /\ frame' = frame
    BY <1>5 DEF CollectResult, vars
  <2>6. ASSUME NEW k \in DOMAIN results'[n]
        PROVE  /\ pc'[<<n, results'[n][k].line>>] = "replied"
               /\ results'[n][k].outcome = OutcomeOf(frame'[<<n, results'[n][k].line>>].reply)
    <3> HIDE DEF row, len
    <3>1. CASE k \in 1..len
      <4>1. results'[n][k] = results[n][k] /\ k \in DOMAIN results[n]
        BY <2>4, <3>1
      <4> QED
        BY <1>3, <4>1
    <3>2. CASE k = len + 1
      BY <2>1, <2>3, <2>4, <2>5, <3>2
    <3> QED
      BY <2>4, <2>6, <3>1, <3>2
  <2> QED
    BY <2>6 DEF Collected
<1> QED
  BY <1>1, <1>4, <1>5, BatchMoves

LEMMA PrintedStep ==
    ASSUME AllInv, BatchNext, NEW n \in Runs
    PROVE  Printed(n)'
<1>1. /\ BatchTypeOK /\ Printed(n) /\ batch[n] \in BatchStates /\ cli[n] \in CLIStates
      /\ job' = job /\ (results'[n] = results[n] \/ CollectResult(n))
  BY BatchMoves DEF AllInv, BatchInv, BatchTypeOK, BatchTrail
<1>2. results'[n] = results[n] => Remaining(n)' = Remaining(n)
  BY <1>1 DEF Remaining, Applied
<1>3. results'[n] = results[n] /\ batch'[n] = batch[n] => Summarize(n)' = Summarize(n)
  BY <1>1 DEF Summarize, Tally
<1>4. CASE batch'[n] = batch[n] /\ cli'[n] = cli[n] /\ summary'[n] = summary[n] /\ results'[n] = results[n]
  BY <1>1, <1>2, <1>3, <1>4 DEF Printed
<1>5. CASE CollectResult(n)
  <2>1. batch[n] = "applying" /\ UNCHANGED <<cli, summary, batch>>
    BY <1>5 DEF CollectResult, command
  <2> QED
    BY <1>1, <2>1 DEF Printed
<1>6. CASE RunIngest(n)
  <2>1. /\ cli[n] = "idle" /\ UNCHANGED <<batch, results>>
        /\ \/ cli'[n] \in {"badHeader", "waiting"}
           \/ cli'[n] = "preview" /\ summary'[n] = DryRunSummary(job.file)
    BY <1>1, <1>6 DEF RunIngest, server, BatchTypeOK
  <2> QED
    BY <1>1, <1>2, <2>1 DEF Printed
<1>7. CASE ReadAnswer(n)
  <2>1. /\ batch[n] \in {"answered", "refused"} /\ UNCHANGED <<batch, results>>
        /\ cli'[n] = "summarised" /\ summary'[n] = Summarize(n)
    BY <1>1, <1>7 DEF ReadAnswer, server, BatchTypeOK
  <2> QED
    BY <1>1, <1>2, <1>3, <2>1 DEF Printed
<1>8. CASE LoseAnswer(n)
  <2>1. cli'[n] = "failed" /\ UNCHANGED <<batch, results>>
    BY <1>1, <1>8 DEF LoseAnswer, server, BatchTypeOK
  <2> QED
    BY <1>1, <1>2, <2>1 DEF Printed
<1>9. CASE Deliver(n)
  <2>1. /\ cli[n] \in {"waiting", "failed"} /\ batch[n] = "none" /\ UNCHANGED <<cli, summary, results>>
        /\ batch'[n] \in {"applying", "refused"}
    BY <1>1, <1>9 DEF Deliver, command, BatchTypeOK
  <2> QED
    BY <1>1, <2>1 DEF Printed
<1>10. CASE Respond(n)
  <2>1. /\ batch[n] = "applying" /\ Remaining(n) = {} /\ UNCHANGED <<cli, summary, results>>
        /\ batch'[n] = "answered"
    BY <1>1, <1>10 DEF Respond, command, BatchTypeOK
  <2> QED
    BY <1>1, <1>2, <2>1 DEF Printed
<1>11. CASE ServerCrash
  <2>1. /\ UNCHANGED <<cli, summary, results>>
        /\ batch'[n] = IF batch[n] = "applying" THEN "dead" ELSE batch[n]
    BY <1>11 DEF ServerCrash, command
  <2>2. CASE batch[n] = "applying"
    BY <1>1, <2>1, <2>2 DEF Printed
  <2> QED
    BY <1>4, <2>1, <2>2
<1>12. ASSUME NEW m \in Runs, m # n,
              \/ RunIngest(m) \/ ReadAnswer(m) \/ LoseAnswer(m)
              \/ Deliver(m) \/ CollectResult(m) \/ Respond(m)
       PROVE  UNCHANGED <<batch[n], cli[n], summary[n], results[n]>>
  <2>1. CASE CollectResult(m)
    <3>1. PICK i, o : Append1(m, i, o)
      BY <2>1 DEF CollectResult
    <3> QED
      BY <1>1, <1>12, <2>1, <3>1 DEF CollectResult, Append1, command, BatchTypeOK
  <2>2. CASE RunIngest(m) \/ ReadAnswer(m) \/ LoseAnswer(m)
    BY <1>1, <1>12, <2>2 DEF RunIngest, ReadAnswer, LoseAnswer, server, BatchTypeOK
  <2>3. CASE Deliver(m) \/ Respond(m)
    BY <1>1, <1>12, <2>3 DEF Deliver, Respond, command, BatchTypeOK
  <2> QED
    BY <1>12, <2>1, <2>2, <2>3
<1>13. CASE Finished \/ (\E m \in Runs : ApplyNext(m)) \/ (\E a \in Attempts : CallStep(a))
  BY <1>4, <1>13 DEF Finished, ApplyNext, CallStep, bvars, command, server
<1> QED
  BY <1>4, <1>5, <1>6, <1>7, <1>8, <1>9, <1>10, <1>11, <1>12, <1>13 DEF BatchNext

LEMMA TrailStep == TrailInv /\ [Next]_vars => TrailInv'
BY TypeStep, CallsResolvedStep, LockStep, StagedStep, AuditStep, RecordedStep, ToldStep
DEF TrailInv, IInv

LEMMA AllStutter ==
    ASSUME AllInv, UNCHANGED bvars
    PROVE  BatchTrail'
<1>1. ASSUME NEW a \in Attempts PROVE ElementCall(a)'
  BY DEF AllInv, BatchTrail, ElementCall, bvars, vars, command, server
<1>2. ASSUME NEW n \in Runs PROVE Collected(n)'
  BY DEF AllInv, BatchTrail, Collected, bvars, vars, command, server
<1>3. ASSUME NEW n \in Runs PROVE Printed(n)'
  <2>1. Remaining(n)' = Remaining(n) /\ Summarize(n)' = Summarize(n)
    BY DEF Remaining, Applied, Summarize, Tally, bvars, command, server
  <2> QED
    BY <2>1 DEF AllInv, BatchTrail, Printed, bvars, command, server
<1> QED
  BY <1>1, <1>2, <1>3 DEF BatchTrail

LEMMA AllStep == AllInv /\ [BatchNext]_bvars => AllInv'
<1> SUFFICES ASSUME AllInv, [BatchNext]_bvars PROVE AllInv'
  OBVIOUS
<1>1. BatchInv' /\ [Next]_vars
  BY BatchStep, BatchStepIsWalletStep DEF AllInv, bvars
<1>2. TrailInv' /\ Rooted'
  BY <1>1, TrailStep, RootedStep DEF AllInv, TrailInv
<1>3. BatchTrail'
  BY AllStutter, ElementCallStep, CollectedStep, PrintedStep DEF BatchTrail
<1> QED
  BY <1>1, <1>2, <1>3 DEF AllInv

LEMMA InitAll == BatchInit => AllInv
<1> SUFFICES ASSUME BatchInit PROVE AllInv
  OBVIOUS
<1>1. BatchInv /\ TrailInv
  BY BatchInitInv, InitTrail DEF BatchInit
<1>2. Rooted
  BY DEF BatchInit, Init, Rooted
<1>3. BatchTrail
  BY DEF BatchInit, Init, BatchTrail, ElementCall, Collected, Printed
<1> QED
  BY <1>1, <1>2, <1>3 DEF AllInv

(* The invariants of the wallet and of the batches hold together. *)
THEOREM BatchAllInvariance == BatchSpec => []AllInv
BY InitAll, AllStep, PTL DEF BatchSpec

-----------------------------------------------------------------------------
(* Counting *)

(* A set is as large as its image under a function that tells its elements *)
(* apart.                                                                  *)
LEMMA ImageCount ==
    ASSUME NEW S, IsFiniteSet(S), NEW g,
           \A x, y \in S : g[x] = g[y] => x = y
    PROVE  /\ IsFiniteSet({g[x] : x \in S})
           /\ Cardinality({g[x] : x \in S}) = Cardinality(S)
<1> DEFINE T == {g[x] : x \in S}
           h == [x \in S |-> g[x]]
<1>1. h \in Bijection(S, T)
  BY DEF Bijection, Injection, Surjection, IsInjective
<1>2. ExistsBijection(S, T)
  BY <1>1 DEF ExistsBijection
<1> QED
  BY <1>2, FS_Bijection

(* The lines of a file are those that are sent and the local errors. *)
LEMMA FileCounts ==
    ASSUME NEW f \in Files
    PROVE  /\ IsFiniteSet(Sent(f)) /\ IsFiniteSet(LocalErrors(f))
           /\ Cardinality(Sent(f)) \in Nat /\ Cardinality(LocalErrors(f)) \in Nat
           /\ Cardinality(Sent(f)) + Cardinality(LocalErrors(f)) = Len(f.records)
<1> DEFINE D == DOMAIN f.records
           S == Sent(f)
<1>1. D = 1..Len(f.records) /\ Len(f.records) \in Nat
  <2>1. f.records \in Seq(RecordType)
    BY BatchAssumption DEF FileType
  <2> QED
    BY <2>1
<1>2. IsFiniteSet(D) /\ Cardinality(D) = Len(f.records)
  BY <1>1, FS_Interval
<1>3. S \in SUBSET D /\ D \intersect S = S
  BY DEF Sent
<1>4. IsFiniteSet(S)
  BY <1>2, <1>3, FS_Subset
<1>5. IsFiniteSet(D \ S) /\ Cardinality(D \ S) = Cardinality(D) - Cardinality(S)
  <2> HIDE DEF D, S
  <2>1. Cardinality(D \ S) = Cardinality(D) - Cardinality(D \intersect S)
    BY <1>2, FS_Difference
  <2>2. IsFiniteSet(D \ S)
    BY <1>2, FS_Difference
  <2> QED
    BY <1>3, <2>1, <2>2
<1>6. Cardinality(S) \in Nat /\ Cardinality(D \ S) \in Nat
  BY <1>4, <1>5, FS_CardinalityType
<1>7. LocalErrors(f) = D \ S
  BY DEF LocalErrors
<1> HIDE DEF D, S
<1>8. Cardinality(S) + Cardinality(D \ S) = Len(f.records)
  BY <1>1, <1>2, <1>5, <1>6
<1> QED
  BY <1>4, <1>5, <1>6, <1>7, <1>8 DEF S

(* The lines whose elements had an outcome. *)
LinesOf(n, outcome) ==
    {results[n][k].line : k \in {j \in DOMAIN results[n] : results[n][j].outcome = outcome}}

(* Every line is answered once, so a tally counts lines. *)
LEMMA TallyCounts ==
    ASSUME BatchInv, NEW n \in Runs, NEW outcome
    PROVE  /\ IsFiniteSet(LinesOf(n, outcome))
           /\ Cardinality(LinesOf(n, outcome)) = Tally(n, outcome)
           /\ Tally(n, outcome) \in Nat
<1> DEFINE K == {j \in DOMAIN results[n] : results[n][j].outcome = outcome}
           g == [k \in DOMAIN results[n] |-> results[n][k].line]
           L == {g[k] : k \in K}
<1>1. results[n] \in Seq(ResultType) /\ job.file \in Files
  BY DEF BatchInv, BatchTypeOK
<1>2. DOMAIN results[n] = 1..Len(results[n]) /\ Len(results[n]) \in Nat
  BY <1>1
<1>3. IsFiniteSet(K)
  <2>1. \A m \in Nat : IsFiniteSet(1..m)
    BY FS_Interval
  <2>2. IsFiniteSet(DOMAIN results[n]) /\ K \in SUBSET DOMAIN results[n]
    BY <1>2, <2>1
  <2> HIDE DEF K
  <2> QED
    BY <2>2, FS_Subset
<1>4. ASSUME NEW x \in K, NEW y \in K, g[x] = g[y] PROVE x = y
  <2>1. results[n][x].line = results[n][y].line /\ x \in Nat /\ y \in Nat
    BY <1>2, <1>4
  <2>2. results[n][x].line \in Sent(job.file)
    BY DEF BatchInv, Admitted
  <2>3. job.file.records[results[n][x].line].at \in Nat /\ results[n][x].line \in Nat
    <3> DEFINE i == results[n][x].line
    <3>1. job.file.records \in Seq(RecordType)
      BY <1>1, BatchAssumption DEF FileType
    <3>2. i \in DOMAIN job.file.records
      BY <2>2 DEF Sent
    <3> HIDE DEF i
    <3>3. i \in Nat /\ job.file.records[i] \in RecordType
      BY <3>1, <3>2
    <3>4. job.file.records[i].at \in Nat
      BY <3>3 DEF RecordType
    <3> QED
      BY <3>3, <3>4 DEF i
  <2>4. x < y \/ y < x => FALSE
    BY <2>1, <2>3 DEF BatchInv, InChronology
  <2> QED
    BY <2>1, <2>4
<1>5. L = LinesOf(n, outcome) /\ Cardinality(K) = Tally(n, outcome)
  BY DEF LinesOf, Tally
<1>6. IsFiniteSet(L) /\ Cardinality(L) = Cardinality(K)
  <2> HIDE DEF K, g
  <2> QED
    BY <1>3, <1>4, ImageCount
<1>7. Cardinality(K) \in Nat
  BY <1>3, FS_CardinalityType
<1> QED
  BY <1>5, <1>6, <1>7

(* Every row that is answered is accepted, a duplicate or rejected. *)
LEMMA TalliesSum ==
    ASSUME AllInv, NEW n \in Runs, Remaining(n) = {}
    PROVE  Cardinality(Sent(job.file)) =
               Tally(n, "accepted") + Tally(n, "duplicate") + Tally(n, "rejected")
<1> DEFINE A == LinesOf(n, "accepted")
           D == LinesOf(n, "duplicate")
           R == LinesOf(n, "rejected")
<1>1. BatchInv /\ results[n] \in Seq(ResultType) /\ Collected(n)
      /\ \A k \in DOMAIN results[n] : results[n][k].line \in Sent(job.file)
  BY DEF AllInv, BatchInv, BatchTypeOK, Admitted, BatchTrail
<1>2. \A k \in DOMAIN results[n] : results[n][k].outcome \in BatchOutcomes
  <2>1. \A k \in DOMAIN results[n] : results[n][k] \in ResultType
    BY <1>1
  <2> QED
    BY <2>1 DEF ResultType
<1>3. Sent(job.file) = (A \union D) \union R
  BY <1>1, <1>2 DEF Remaining, Applied, LinesOf, BatchOutcomes
<1>4. ASSUME NEW k \in DOMAIN results[n], NEW l \in DOMAIN results[n],
             results[n][k].line = results[n][l].line
      PROVE  results[n][k].outcome = results[n][l].outcome
  BY <1>1, <1>4 DEF Collected
<1>5. A \intersect D = {} /\ (A \union D) \intersect R = {}
  BY <1>4 DEF LinesOf
<1>6. /\ IsFiniteSet(A) /\ IsFiniteSet(D) /\ IsFiniteSet(R)
      /\ Cardinality(A) = Tally(n, "accepted") /\ Tally(n, "accepted") \in Nat
      /\ Cardinality(D) = Tally(n, "duplicate") /\ Tally(n, "duplicate") \in Nat
      /\ Cardinality(R) = Tally(n, "rejected") /\ Tally(n, "rejected") \in Nat
  BY <1>1, TallyCounts
<1> HIDE DEF A, D, R
<1>7. Cardinality({}) = 0
  BY FS_EmptySet
<1>8. IsFiniteSet(A \union D) /\ Cardinality(A \union D) = Cardinality(A) + Cardinality(D)
  <2>1. /\ IsFiniteSet(A \union D)
        /\ Cardinality(A \union D) = Cardinality(A) + Cardinality(D) - Cardinality(A \intersect D)
    BY <1>6, FS_Union
  <2> QED
    BY <1>5, <1>6, <1>7, <2>1
<1>9. Cardinality((A \union D) \union R) = Cardinality(A \union D) + Cardinality(R)
  <2> DEFINE E == A \union D
  <2>1. IsFiniteSet(E) /\ Cardinality(E) \in Nat /\ E \intersect R = {}
    BY <1>5, <1>6, <1>8
  <2> HIDE DEF E
  <2>2. Cardinality(E \union R) = Cardinality(E) + Cardinality(R) - Cardinality(E \intersect R)
    BY <1>6, <2>1, FS_Union
  <2>3. Cardinality(E \union R) = Cardinality(E) + Cardinality(R)
    BY <1>6, <1>7, <2>1, <2>2
  <2> QED
    BY <2>3 DEF E
<1> QED
  BY <1>3, <1>6, <1>8, <1>9

-----------------------------------------------------------------------------
(* What the command prints *)

(* The ledger rows that elements of run n created. *)
Own(n) == {r \in Refs : ledger[r] # NoRow /\ \E i \in Sent(job.file) : ledger[r].id = <<n, i>>}

(* A row of the run's own comes from a line that was answered accepted. *)
LEMMA OwnRow ==
    ASSUME AllInv, Settled, NEW n \in Runs, NEW r \in Own(n), NEW i \in Sent(job.file),
           ledger[r].id = <<n, i>>
    PROVE  /\ batch[n] \notin {"none", "refused"}
           /\ frame[<<n, i>>].reply = "accepted"
           /\ r = job.file.records[i].ref
<1>1. <<n, i>> \in Attempts
  BY LineNamed DEF AllInv, BatchInv
<1>2. /\ pc[<<n, i>>] = "replied" /\ frame[<<n, i>>].reply = "accepted"
      /\ req[<<n, i>>].ref = r
  BY DEF Settled, Own
<1>3. PICK m \in Runs, j \in Sent(job.file) :
        /\ <<n, i>> = <<m, j>> /\ batch[m] \notin {"none", "refused"}
        /\ req[<<n, i>>] = Element(job.user, job.file.records[j])
  BY <1>1, <1>2 DEF AllInv, BatchTrail, ElementCall
<1> QED
  BY <1>2, <1>3 DEF Element

(* What the result of a line says of the call of that line. *)
LEMMA ResultSays ==
    ASSUME AllInv, NEW n \in Runs, NEW k \in DOMAIN results[n], NEW a, a = <<n, results[n][k].line>>
    PROVE  /\ results[n][k].line \in Sent(job.file) /\ a \in Attempts
           /\ pc[a] = "replied" /\ results[n][k].outcome = OutcomeOf(frame[a].reply)
           /\ req[a] = Element(job.user, job.file.records[results[n][k].line])
           /\ req[a].ref = job.file.records[results[n][k].line].ref
           /\ req[a].ref \in Refs /\ Told(a)
<1> DEFINE i == results[n][k].line
<1>1. i \in Sent(job.file) /\ pc[a] = "replied" /\ results[n][k].outcome = OutcomeOf(frame[a].reply)
  BY DEF AllInv, BatchInv, Admitted, BatchTrail, Collected
<1>2. a \in Attempts
  BY <1>1, LineNamed DEF AllInv, BatchInv
<1>3. req[a] = Element(job.user, job.file.records[i])
  <2>1. PICK m \in Runs, j \in Sent(job.file) :
          a = <<m, j>> /\ req[a] = Element(job.user, job.file.records[j])
    BY <1>1, <1>2 DEF AllInv, BatchTrail, ElementCall
  <2> QED
    BY <2>1
<1>4. req[a] \in RequestType /\ Told(a)
  BY <1>1, <1>2 DEF AllInv, TrailInv, IInv, CallsResolved
<1> QED
  BY <1>1, <1>2, <1>3, <1>4 DEF Element, RequestType

(* The rows of the run's own are as many as its accepted lines. *)
LEMMA OwnCounts ==
    ASSUME AllInv, Settled, NEW n \in Runs, Remaining(n) = {}
    PROVE  Cardinality(Own(n)) = Tally(n, "accepted")
<1> DEFINE L == LinesOf(n, "accepted")
           g == [i \in DOMAIN job.file.records |-> job.file.records[i].ref]
<1>1. ASSUME NEW i \in L
      PROVE  /\ i \in Sent(job.file) /\ i \in DOMAIN job.file.records
             /\ g[i] \in Own(n) /\ ledger[g[i]].id = <<n, i>>
  <2>1. PICK k \in DOMAIN results[n] : results[n][k].outcome = "accepted" /\ i = results[n][k].line
    BY <1>1 DEF LinesOf
  <2> DEFINE a == <<n, i>>
  <2>2. /\ i \in Sent(job.file) /\ pc[a] = "replied" /\ "accepted" = OutcomeOf(frame[a].reply)
        /\ req[a].ref = job.file.records[i].ref /\ req[a].ref \in Refs /\ Told(a)
    BY <2>1, ResultSays
  <2>3. frame[a].reply = "accepted"
    BY <2>2 DEF OutcomeOf
  <2>4. ledger[req[a].ref] = newRow(a) /\ newRow(a) # NoRow /\ newRow(a).id = a
    BY <2>2, <2>3 DEF Told, newRow
  <2>5. i \in DOMAIN job.file.records
    BY <2>2 DEF Sent
  <2> QED
    BY <2>2, <2>4, <2>5 DEF Own
<1>2. \A x, y \in L : g[x] = g[y] => x = y
  BY <1>1
<1>3. ASSUME NEW r \in Own(n) PROVE \E i \in L : g[i] = r
  <2>1. PICK i \in Sent(job.file) : ledger[r].id = <<n, i>>
    BY DEF Own
  <2>2. frame[<<n, i>>].reply = "accepted" /\ r = job.file.records[i].ref
    BY <2>1, OwnRow
  <2>3. PICK k \in DOMAIN results[n] : results[n][k].line = i
    BY DEF Remaining, Applied
  <2>4. results[n][k].outcome = OutcomeOf(frame[<<n, i>>].reply)
    BY <2>3, ResultSays
  <2>5. i \in L /\ i \in DOMAIN job.file.records
    BY <2>2, <2>3, <2>4 DEF LinesOf, OutcomeOf, Sent
  <2> QED
    BY <2>2, <2>5
<1>4. Own(n) = {g[i] : i \in L}
  BY <1>1, <1>3
<1>5. IsFiniteSet(L) /\ Cardinality(L) = Tally(n, "accepted")
  BY TallyCounts DEF AllInv
<1>6. Cardinality({g[i] : i \in L}) = Cardinality(L)
  <2> HIDE DEF L, g
  <2> QED
    BY <1>2, <1>5, ImageCount
<1> QED
  BY <1>4, <1>5, <1>6

(* The parts of a summary *)
LEMMA SummaryParts ==
    ASSUME NEW n, NEW f, f = job.file
    PROVE  /\ DryRunSummary(f).sent = Cardinality(Sent(f))
           /\ DryRunSummary(f).localErrors = Cardinality(LocalErrors(f))
           /\ DryRunSummary(f).accepted = 0
           /\ Summarize(n).sent = Cardinality(Sent(f))
           /\ Summarize(n).localErrors = Cardinality(LocalErrors(f))
           /\ batch[n] = "refused" =>
                 /\ Summarize(n).accepted = 0 /\ Summarize(n).duplicates = 0
                 /\ Summarize(n).rejected = Cardinality(Sent(f))
                 /\ Summarize(n).rejections =
                       {Rejection(i, i) : i \in LocalErrors(f)} \union {Rejection(i, i) : i \in Sent(f)}
           /\ batch[n] # "refused" =>
                 /\ Summarize(n).accepted = Tally(n, "accepted")
                 /\ Summarize(n).duplicates = Tally(n, "duplicate")
                 /\ Summarize(n).rejected = Tally(n, "rejected")
                 /\ Summarize(n).rejections =
                       {Rejection(i, i) : i \in LocalErrors(f)} \union
                       {Rejection(i, lineByRef(f, f.records[i].ref)) : i \in LinesOf(n, "rejected")}
BY DEF DryRunSummary, Summarize, LinesOf

LEMMA SummariesTrue == AllInv /\ Settled => SummaryTrue
<1> SUFFICES ASSUME AllInv, Settled, NEW n \in Runs, cli[n] \in {"summarised", "preview"}
             PROVE  /\ summary[n].sent + summary[n].localErrors = Len(job.file.records)
                    /\ cli[n] = "summarised" =>
                          summary[n].sent =
                            summary[n].accepted + summary[n].duplicates + summary[n].rejected
                    /\ summary[n].accepted = Cardinality(Own(n))
                    /\ \A k \in DOMAIN results[n] : results[n][k].outcome = "duplicate" =>
                          LET ref == job.file.records[results[n][k].line].ref
                          IN  ledger[ref] # NoRow /\ ledger[ref].id # <<n, results[n][k].line>>
  BY DEF SummaryTrue, Own
<1>1. Printed(n) /\ BatchInv /\ job.file \in Files
  BY DEF AllInv, BatchTrail, BatchInv, BatchTypeOK
<1>2. /\ Cardinality(Sent(job.file)) \in Nat
      /\ Cardinality(Sent(job.file)) + Cardinality(LocalErrors(job.file)) = Len(job.file.records)
  BY <1>1, FileCounts
<1>3. batch[n] \in {"none", "refused"} => Cardinality(Own(n)) = 0
  <2>1. batch[n] \in {"none", "refused"} => Own(n) = {}
    BY OwnRow DEF Own
  <2> QED
    BY <2>1, FS_EmptySet
<1>4. ASSUME NEW k \in DOMAIN results[n], results[n][k].outcome = "duplicate"
      PROVE  LET ref == job.file.records[results[n][k].line].ref
             IN  ledger[ref] # NoRow /\ ledger[ref].id # <<n, results[n][k].line>>
  <2> DEFINE a == <<n, results[n][k].line>>
             ref == job.file.records[results[n][k].line].ref
  <2>1. /\ pc[a] = "replied" /\ "duplicate" = OutcomeOf(frame[a].reply)
        /\ req[a].ref = ref /\ ref \in Refs /\ Told(a)
    BY <1>4, ResultSays
  <2>2. frame[a].reply = "duplicate"
    BY <2>1 DEF OutcomeOf
  <2>3. ledger[ref] # NoRow
    BY <2>1, <2>2 DEF Told, ShowsOriginal
  <2>4. ledger[ref].id # a
    BY <2>1, <2>2, <2>3 DEF Settled
  <2> QED
    BY <2>3, <2>4
<1>5. CASE cli[n] = "preview"
  BY <1>1, <1>2, <1>3, <1>4, <1>5, SummaryParts DEF Printed
<1>6. CASE cli[n] = "summarised" /\ batch[n] = "refused"
  <2>1. summary[n] = Summarize(n)
    BY <1>1, <1>6 DEF Printed
  <2>2. /\ summary[n].sent = Cardinality(Sent(job.file))
        /\ summary[n].localErrors = Cardinality(LocalErrors(job.file))
        /\ summary[n].accepted = 0 /\ summary[n].duplicates = 0
        /\ summary[n].rejected = Cardinality(Sent(job.file))
    BY <1>6, <2>1, SummaryParts
  <2>3. summary[n].accepted = Cardinality(Own(n))
    BY <1>3, <1>6, <2>2
  <2>4. summary[n].sent = summary[n].accepted + summary[n].duplicates + summary[n].rejected
    BY <1>2, <2>2
  <2>5. summary[n].sent + summary[n].localErrors = Len(job.file.records)
    BY <1>2, <2>2
  <2> QED
    BY <1>4, <2>3, <2>4, <2>5
<1>7. CASE cli[n] = "summarised" /\ batch[n] = "answered"
  <2>1. summary[n] = Summarize(n) /\ Remaining(n) = {}
    BY <1>1, <1>7 DEF Printed
  <2>2. /\ summary[n].sent = Cardinality(Sent(job.file))
        /\ summary[n].localErrors = Cardinality(LocalErrors(job.file))
        /\ summary[n].accepted = Tally(n, "accepted") /\ summary[n].duplicates = Tally(n, "duplicate")
        /\ summary[n].rejected = Tally(n, "rejected")
    BY <1>7, <2>1, SummaryParts
  <2>3. /\ Cardinality(Own(n)) = Tally(n, "accepted")
        /\ Cardinality(Sent(job.file)) =
               Tally(n, "accepted") + Tally(n, "duplicate") + Tally(n, "rejected")
    BY <2>1, OwnCounts, TalliesSum
  <2> QED
    BY <1>2, <1>4, <2>2, <2>3
<1> QED
  BY <1>1, <1>5, <1>6, <1>7 DEF Printed

(* What an operator reads adds up and is what happened: each row of the    *)
(* file is counted once, and accepted are exactly the ledger rows of this  *)
(* run (Summarize, ProcessTransactionBatch). A COMMIT whose answer is lost *)
(* would leave a row that is reported rejected, hence the hypothesis.      *)
THEOREM SummaryIsTrue ==
    ASSUME "commit" \notin Faults
    PROVE  BatchSpec => []SummaryTrue
BY SummariesTrue, BatchAllInvariance, BatchImplementsWallet, SettledInvariance, PTL

(* The fields of a row have their types. *)
LEMMA RowFacts ==
    ASSUME NEW f \in Files, NEW i \in Sent(f)
    PROVE  /\ i \in DOMAIN f.records /\ i \in Nat /\ f.records[i].at \in Nat
           /\ f.records[i].ref \in Refs /\ f.records[i].account \in AccountIDs
           /\ f.records[i].kind \in Kinds \ {"adjust"} /\ f.records[i].points \in Int
<1>1. f.records \in Seq(RecordType) /\ i \in DOMAIN f.records
  BY BatchAssumption DEF FileType, Sent
<1>2. f.records[i] \in RecordType /\ i \in Nat
  BY <1>1
<1> QED
  BY <1>1, <1>2 DEF RecordType

(* Two rows of a file are in order. *)
LEMMA RowsOrdered ==
    ASSUME NEW f \in Files, NEW i \in Sent(f), NEW j \in Sent(f), i # j
    PROVE  RowBefore(f, i, j) \/ RowBefore(f, j, i)
<1>1. i \in Nat /\ j \in Nat /\ f.records[i].at \in Nat /\ f.records[j].at \in Nat
  BY RowFacts
<1> QED
  BY <1>1 DEF RowBefore

(* Of several rows one is the last. *)
LEMMA LastRow ==
    ASSUME NEW f \in Files, NEW S \in SUBSET Sent(f), S # {}
    PROVE  \E i \in S : \A j \in S \ {i} : RowBefore(f, j, i)
<1> DEFINE HasLast(s) == \E i \in s : \A j \in s \ {i} : RowBefore(f, j, i)
           G == {s \in SUBSET S : s = {} \/ HasLast(s)}
<1>1. ASSUME NEW s \in SUBSET S, \A t \in SUBSET s : t # s => t \in G, s # {}
      PROVE  HasLast(s)
  <2>1. PICK x \in s : TRUE
    BY <1>1
  <2> DEFINE t == s \ {x}
  <2>2. t = {} \/ HasLast(t)
    <3>1. t \in SUBSET s /\ t # s
      BY <2>1
    <3>2. t \in G
      BY <1>1, <3>1
    <3> QED
      BY <3>2
  <2>3. CASE HasLast(t)
    <3>1. PICK i \in t : \A j \in t \ {i} : RowBefore(f, j, i)
      BY <2>3
    <3>2. CASE RowBefore(f, x, i)
      BY <3>1, <3>2
    <3>3. CASE RowBefore(f, i, x)
      <4>1. ASSUME NEW j \in t \ {i} PROVE RowBefore(f, j, x)
        <5>1. /\ {i, j, x} \subseteq Nat
              /\ {f.records[i].at, f.records[j].at, f.records[x].at} \subseteq Nat
          BY <2>1, RowFacts
        <5>2. RowBefore(f, j, i)
          BY <3>1
        <5> QED
          BY <3>3, <5>1, <5>2 DEF RowBefore
      <4> QED
        BY <2>1, <3>3, <4>1
    <3> QED
      BY <2>1, <3>2, <3>3, RowsOrdered
  <2> QED
    BY <2>1, <2>2, <2>3
<1>2. IsFiniteSet(S)
  BY FileCounts, FS_Subset
<1>3. ASSUME NEW s \in SUBSET S, \A t \in SUBSET s : t # s => t \in G
      PROVE  s \in G
  <2> HIDE DEF HasLast
  <2> QED
    BY <1>1, <1>3
<1>4. SUBSET S \subseteq G
  <2> HIDE DEF G
  <2> QED
    BY <1>2, <1>3, SubsetInduction
<1> QED
  BY <1>4

(* A row is printed with a line on which its ref stands.                   *)
LEMMA PrintedLine ==
    ASSUME NEW f \in Files, NEW i \in Sent(f)
    PROVE  /\ lineByRef(f, f.records[i].ref) \in Sent(f)
           /\ f.records[lineByRef(f, f.records[i].ref)].ref = f.records[i].ref
<1> DEFINE S == {x \in Sent(f) : f.records[x].ref = f.records[i].ref}
           IsLast(x) == /\ f.records[x].ref = f.records[i].ref
                        /\ \A j \in Sent(f) \ {x} :
                              f.records[j].ref = f.records[i].ref => RowBefore(f, j, x)
<1>1. PICK x \in S : \A j \in S \ {x} : RowBefore(f, j, x)
  BY LastRow
<1>2. x \in Sent(f) /\ IsLast(x)
  BY <1>1
<1>3. lineByRef(f, f.records[i].ref) = CHOOSE y \in Sent(f) : IsLast(y)
  BY DEF lineByRef
<1>4. \A y : IsLast(y) => f.records[y].ref = f.records[i].ref
  OBVIOUS
<1> HIDE DEF IsLast
<1> QED
  BY <1>2, <1>3, <1>4

LEMMA RejectionsTold == AllInv => RejectionsReported
<1> SUFFICES ASSUME AllInv, NEW n \in Runs, cli[n] = "summarised"
             PROVE  LET f == job.file
                        s == summary[n]
                    IN  /\ Cardinality(s.rejections) = s.rejected + s.localErrors
                        /\ \A x \in s.rejections : x.line # x.printed =>
                              /\ {x.line, x.printed} \subseteq Sent(f)
                              /\ f.records[x.line].ref = f.records[x.printed].ref
  BY DEF RejectionsReported
<1> DEFINE f == job.file
           E == LocalErrors(f)
           R == IF batch[n] = "refused" THEN Sent(f) ELSE LinesOf(n, "rejected")
           at(i) == IF batch[n] = "refused" THEN i ELSE lineByRef(f, f.records[i].ref)
           ge == [i \in E |-> Rejection(i, i)]
           gr == [i \in R |-> Rejection(i, at(i))]
           EP == {ge[i] : i \in E}
           RP == {gr[i] : i \in R}
<1>1. /\ batch[n] \in {"answered", "refused"} /\ summary[n] = Summarize(n) /\ BatchInv
      /\ f \in Files
      /\ \A k \in DOMAIN results[n] : results[n][k].line \in Sent(f)
  BY DEF AllInv, BatchTrail, Printed, BatchInv, BatchTypeOK, Admitted
<1>2. R \subseteq Sent(f)
  BY <1>1 DEF LinesOf
<1>3. IsFiniteSet(E) /\ Cardinality(E) \in Nat /\ summary[n].localErrors = Cardinality(E)
  BY <1>1, FileCounts, SummaryParts
<1>4. IsFiniteSet(R) /\ Cardinality(R) \in Nat /\ summary[n].rejected = Cardinality(R)
  BY <1>1, FileCounts, TallyCounts, SummaryParts
<1>5. summary[n].rejections = EP \union RP
  <2>1. CASE batch[n] = "refused"
    <3>1. summary[n].rejections =
             {Rejection(i, i) : i \in LocalErrors(f)} \union {Rejection(i, i) : i \in Sent(f)}
      BY <1>1, <2>1, SummaryParts
    <3>2. RP = {Rejection(i, i) : i \in Sent(f)} /\ EP = {Rejection(i, i) : i \in LocalErrors(f)}
      BY <2>1
    <3> QED
      BY <3>1, <3>2
  <2>2. CASE batch[n] # "refused"
    <3>1. summary[n].rejections =
             {Rejection(i, i) : i \in LocalErrors(f)} \union
             {Rejection(i, lineByRef(f, f.records[i].ref)) : i \in LinesOf(n, "rejected")}
      BY <1>1, <2>2, SummaryParts
    <3>2. /\ RP = {Rejection(i, lineByRef(f, f.records[i].ref)) : i \in LinesOf(n, "rejected")}
          /\ EP = {Rejection(i, i) : i \in LocalErrors(f)}
      BY <2>2
    <3> QED
      BY <3>1, <3>2
  <2> QED
    BY <2>1, <2>2
<1>6. \A i \in E : ge[i].line = i /\ ge[i].printed = i
  BY DEF Rejection
<1>7. \A i \in R : gr[i].line = i /\ gr[i].printed = at(i)
  BY DEF Rejection
<1>8. IsFiniteSet(EP) /\ Cardinality(EP) = Cardinality(E)
  <2> HIDE DEF E, ge
  <2> QED
    BY <1>3, <1>6, ImageCount
<1>9. IsFiniteSet(RP) /\ Cardinality(RP) = Cardinality(R)
  <2> HIDE DEF R, gr, at
  <2> QED
    BY <1>4, <1>7, ImageCount
<1>10. EP \intersect RP = {}
  <2>1. E \intersect R = {}
    BY <1>2 DEF LocalErrors
  <2> HIDE DEF E, R, ge, gr
  <2> QED
    BY <1>6, <1>7, <2>1
<1>11. Cardinality(EP \union RP) = Cardinality(EP) + Cardinality(RP)
  <2> HIDE DEF EP, RP, E, R
  <2>1. Cardinality(EP \union RP) = Cardinality(EP) + Cardinality(RP) - Cardinality(EP \intersect RP)
    BY <1>8, <1>9, FS_Union
  <2>2. Cardinality(EP \intersect RP) = 0
    BY <1>10, FS_EmptySet
  <2> QED
    BY <1>3, <1>4, <1>8, <1>9, <2>1, <2>2
<1>12. Cardinality(summary[n].rejections) = summary[n].rejected + summary[n].localErrors
  <2> HIDE DEF EP, RP, E, R
  <2> QED
    BY <1>3, <1>4, <1>5, <1>8, <1>9, <1>11
<1>13. ASSUME NEW x \in summary[n].rejections, x.line # x.printed
       PROVE  /\ {x.line, x.printed} \subseteq Sent(f)
              /\ f.records[x.line].ref = f.records[x.printed].ref
  <2> HIDE DEF ge, gr
  <2>1. PICK i \in R : x.line = i /\ x.printed = at(i)
    BY <1>5, <1>6, <1>7, <1>13
  <2>2. i \in Sent(f) /\ x.printed = lineByRef(f, f.records[i].ref)
    BY <1>2, <1>13, <2>1
  <2> QED
    BY <1>1, <2>1, <2>2, PrintedLine
<1> QED
  BY <1>12, <1>13

(* Every rejected or unreadable row is reported once, with its line or,    *)
(* when its ref stands on several, with another one of them (Summarize,    *)
(* lineByRef).                                                             *)
THEOREM RejectionsAreReported == BatchSpec => []RejectionsReported
  BY RejectionsTold, BatchAllInvariance, PTL

-----------------------------------------------------------------------------
(* Files that can be paid for *)

(* No call adjusts a balance off the ledger. *)
Undisturbed == adjusted = InitBalance /\ \A a \in Attempts : pc[a] \notin AdjustSteps

(* A call that goes on has passed Validate. *)
Vetted == \A a \in Attempts : pc[a] \notin {"idle", "replied"} => Valid(req[a])

(* A failure shows until the call ends, and after. *)
FailureShows ==
    \A a \in Attempts :
        /\ frame[a].cause = "internal" => pc[a] \in {"rollback", "reject"} \union Ended
        /\ frame[a].reply = "unaudited" => pc[a] \in Ended

(* A row of the ledger is one that the wallet takes. *)
RowsVetted ==
    \A r \in Refs : ledger[r] # NoRow =>
        Valid(req[ledger[r].id]) /\ ledger[r].account \in accounts

(* The way of a call that is accepted, or finds its row recorded. *)
Course ==
    {"lookup", "begin", "insert", "fetchOriginal", "fetchAccount", "auditDuplicate",
     "update", "readBack", "auditAccepted", "commit", "lost"}

OnCourse(a) ==
    pc[a] \in Course \/ (pc[a] = "replied" /\ frame[a].reply \in {"accepted", "duplicate"})

Loaded(i) == ledger[job.file.records[i].ref] # NoRow

(* A call begins when all rows before its own are in the ledger, and stays *)
(* on its course.                                                          *)
Settling(n, i) ==
    pc[<<n, i>>] # "idle" =>
        /\ \A j \in Sent(job.file) : Acceptable(job.file, j) /\ RowBefore(job.file, j, i) => Loaded(j)
        /\ Acceptable(job.file, i) => OnCourse(<<n, i>>)

SettleInv ==
    NoElementFailed /\ Affordable(job.file) =>
        \A n \in Runs, i \in Sent(job.file) : Settling(n, i)

Plain == Undisturbed /\ Vetted /\ FailureShows /\ RowsVetted

LoadInv == AllInv /\ Conserved /\ Plain /\ SettleInv

(* An element arrives. *)
LEMMA ElementArrives ==
    ASSUME TypeOK, NEW a \in Attempts, NEW r \in Requests, r.kind # "adjust", Receive(a, r)
    PROVE  /\ frame'[a].cause = frame[a].cause
           /\ \/ Valid(r) /\ pc'[a] = "lookup" /\ frame'[a].reply = frame[a].reply
              \/ ~Valid(r) /\ pc'[a] = "replied" /\ frame'[a].reply = "invalid"
<1>1. CASE ~Valid(r) /\ Goto(a, "replied") /\ Reply(a, "invalid")
  BY <1>1, GotoAt, ReplyAt
<1>2. CASE Valid(r) /\ Goto(a, "lookup") /\ UNCHANGED frame
  BY <1>2, GotoAt
<1> QED
  BY <1>1, <1>2 DEF Receive

(* A call moves alone. *)
LEMMA OthersKept ==
    ASSUME TypeOK, NEW a \in Attempts, CallStep(a)
    PROVE  /\ pc[a] \notin {"idle"} \union Ended
           /\ accounts' = accounts /\ req' = req
           /\ \A b \in Attempts \ {a} : pc'[b] = pc[b] /\ frame'[b] = frame[b]
<1>1. pc[a] \notin {"idle"} \union Ended
  BY DEF CallStep, Progress, LookupAccount, BeginTx, InsertRow, FetchOriginal, FetchAccount,
     AuditDuplicate, UpdateBalance, Recheck, ReadBack, AuditAccepted, Commit, Rollback,
     RejectTransaction, AdjustBegin, AdjustUpdate, AdjustRecheck, AdjustRead,
     TxStatementFails, PoolStatementFails, CommitFails, TxStatements, AdjustSteps, Ended
<1>2. CASE LookupAccount(a)
  BY <1>1, <1>2, LookupAt
<1>3. CASE ~LookupAccount(a)
  <2>1. Resumes(a)
    BY <1>3, StepResumes DEF CallStep
  <2> QED
    BY <1>1, <2>1 DEF Resumes
<1> QED
  BY <1>2, <1>3

(* A call that is no adjustment does not turn into one. *)
LEMMA NoAdjustment ==
    ASSUME TypeOK, NEW a \in Attempts, CallStep(a), pc[a] \notin AdjustSteps
    PROVE  pc'[a] \notin AdjustSteps /\ adjusted' = adjusted
<1> USE DEF AdjustSteps
<1>1. CASE LookupAccount(a)
  BY <1>1, LookupAt
<1>2. CASE BeginTx(a) \/ InsertRow(a) \/ AuditDuplicate(a) \/ ReadBack(a) \/ AuditAccepted(a)
           \/ Rollback(a) \/ RejectTransaction(a)
  BY <1>2, GotoAt DEF BeginTx, InsertRow, AuditDuplicate, ReadBack, AuditAccepted, Rollback,
     RejectTransaction, durable
<1>3. CASE FetchOriginal(a) \/ FetchAccount(a)
  BY <1>3, GotoAt, RaiseAt DEF FetchOriginal, FetchAccount, durable
<1>4. CASE UpdateBalance(a) \/ Recheck(a)
  BY <1>4, GotoAt, RaiseAt DEF UpdateBalance, Recheck, durable
<1>5. CASE Commit(a)
  BY <1>5, GotoAt DEF Commit, Publish
<1>6. CASE TxStatementFails(a) \/ PoolStatementFails(a) \/ CommitFails(a)
  BY <1>6, GotoAt, RaiseAt DEF TxStatementFails, PoolStatementFails, CommitFails, Publish, durable
<1>7. ~AdjustBegin(a) /\ ~AdjustUpdate(a) /\ ~AdjustRecheck(a) /\ ~AdjustRead(a)
  BY DEF AdjustBegin, AdjustUpdate, AdjustRecheck, AdjustRead
<1> QED
  BY <1>1, <1>2, <1>3, <1>4, <1>5, <1>6, <1>7 DEF CallStep, Progress

(* Where a step leaves a failure: on the way to the end. *)
LEMMA FailureAt ==
    ASSUME TypeOK, NEW a \in Attempts, CallStep(a), FailureShows, pc[a] \notin AdjustSteps
    PROVE  /\ frame'[a].cause = "internal" => pc'[a] \in {"rollback", "reject"} \union Ended
           /\ frame'[a].reply = "unaudited" => pc'[a] \in Ended
           /\ frame[a].cause = "internal" => frame'[a].cause = "internal"
<1> USE DEF Ended
<1>1. CASE LookupAccount(a)
  <2>1. CASE Goto(a, "begin") /\ frame' = [frame EXCEPT ![a].owner = Owner[req[a].account]]
    <3>1. frame'[a].cause = frame[a].cause /\ frame'[a].reply = frame[a].reply
      BY <2>1 DEF TypeOK, FrameType
    <3> QED
      BY <1>1, <3>1, GotoAt DEF LookupAccount, FailureShows
  <2>2. CASE Raise(a, "reject", "unknown")
    BY <1>1, <2>2, RaiseAt DEF LookupAccount, FailureShows
  <2> QED
    BY <1>1, <2>1, <2>2 DEF LookupAccount
<1>2. CASE BeginTx(a) \/ InsertRow(a)
  BY <1>2 DEF BeginTx, InsertRow, FailureShows
<1>3. CASE FetchOriginal(a)
  <2>1. CASE frame' = [frame EXCEPT ![a].original = ledger[req[a].ref]]
    <3>1. frame'[a].cause = frame[a].cause /\ frame'[a].reply = frame[a].reply
      BY <2>1 DEF TypeOK, FrameType
    <3> QED
      BY <1>3, <3>1 DEF FetchOriginal, FailureShows
  <2> QED
    BY <1>3, <2>1, RaiseAt DEF FetchOriginal, FailureShows
<1>4. CASE FetchAccount(a) \/ ReadBack(a)
  <2>1. ASSUME NEW b, frame' = [frame EXCEPT ![a].balance = b]
        PROVE  frame'[a].cause = frame[a].cause /\ frame'[a].reply = frame[a].reply
    BY <2>1 DEF TypeOK, FrameType
  <2> QED
    BY <1>4, <2>1, RaiseAt DEF FetchAccount, ReadBack, FailureShows
<1>5. CASE AuditDuplicate(a) \/ AuditAccepted(a)
  BY <1>5, ReplyAt DEF AuditDuplicate, AuditAccepted, FailureShows
<1>6. CASE UpdateBalance(a) \/ Recheck(a)
  BY <1>6, RaiseAt DEF UpdateBalance, Recheck, FailureShows
<1>7. CASE Commit(a) \/ Rollback(a)
  BY <1>7, GotoAt DEF Commit, Rollback, FailureShows
<1>8. CASE RejectTransaction(a)
  BY <1>8, GotoAt, ReplyAt DEF RejectTransaction, FailureShows
<1>9. CASE TxStatementFails(a) \/ CommitFails(a)
  BY <1>9, RaiseAt DEF TxStatementFails, CommitFails, TxStatements, FailureShows
<1>10. CASE PoolStatementFails(a)
  BY <1>10, GotoAt, ReplyAt, RaiseAt DEF PoolStatementFails, FailureShows
<1>11. ~AdjustBegin(a) /\ ~AdjustUpdate(a) /\ ~AdjustRecheck(a) /\ ~AdjustRead(a)
  BY DEF AdjustBegin, AdjustUpdate, AdjustRecheck, AdjustRead, AdjustSteps
<1> QED
  BY <1>1, <1>2, <1>3, <1>4, <1>5, <1>6, <1>7, <1>8, <1>9, <1>10, <1>11 DEF CallStep, Progress

LEMMA RowsVettedStep ==
    ASSUME AllInv, Plain, BatchNext, [Next]_vars, accounts' = accounts
    PROVE  RowsVetted'
<1>1. TypeOK /\ IInv /\ Rooted
  BY DEF AllInv, TrailInv, IInv
<1>2. ASSUME NEW r \in Refs, ledger'[r] # NoRow
      PROVE  Valid(req'[ledger'[r].id]) /\ ledger'[r].account \in accounts
  <2>1. CASE ledger'[r] = ledger[r]
    <3>1. ledger[r] # NoRow /\ ledger[r].id \in Attempts /\ pc[ledger[r].id] # "idle"
      BY <1>1, <1>2, <2>1 DEF Rooted, TypeOK, RowType
    <3>2. req'[ledger[r].id] = req[ledger[r].id]
      BY <1>1, <3>1, BegunStays
    <3> QED
      BY <2>1, <3>1, <3>2 DEF Plain, RowsVetted
  <2>2. ASSUME NEW a \in Attempts, pc[a] = "commit", ledger'[r] = newRow(a)
        PROVE  Valid(req'[ledger'[r].id]) /\ ledger'[r].account \in accounts
    <3>1. Valid(req[a]) /\ req[a].account \in accounts /\ req'[a] = req[a]
      BY <1>1, <2>2, BegunStays DEF Plain, Vetted, IInv, CallsResolved, InTx, AccountVisible
    <3> QED
      BY <2>2, <3>1 DEF newRow
  <2> QED
    BY <1>1, <2>1, <2>2, RowsGrow
<1> QED
  BY <1>2 DEF RowsVetted

(* In a batch, the rest of the wallet stays as simple as that. *)
LEMMA PlainStep ==
    ASSUME AllInv, Plain, BatchNext
    PROVE  Plain' /\ accounts' = accounts
<1>1. TypeOK /\ BatchInv /\ job.file \in Files /\ [Next]_vars
  BY BatchStepIsWalletStep DEF AllInv, TrailInv, IInv, BatchInv, BatchTypeOK
<1>2. ASSUME NEW n \in Runs, NEW i \in Remaining(n), <<n, i>> \in Attempts,
             Element(job.user, job.file.records[i]) \in Requests,
             Receive(<<n, i>>, Element(job.user, job.file.records[i]))
      PROVE  Undisturbed' /\ Vetted' /\ FailureShows' /\ accounts' = accounts
  <2> DEFINE a == <<n, i>>
             r == Element(job.user, job.file.records[i])
  <2>1. r.kind # "adjust"
    BY <1>1, RowFacts DEF Element, Remaining
  <2>2. /\ pc[a] = "idle" /\ req'[a] = r /\ UNCHANGED <<accounts, adjusted>>
        /\ \A b \in Attempts \ {a} : pc'[b] = pc[b] /\ frame'[b] = frame[b] /\ req'[b] = req[b]
    BY <1>1, <1>2, ReceiveAt
  <2>3. /\ frame'[a].cause = frame[a].cause
        /\ \/ Valid(r) /\ pc'[a] = "lookup" /\ frame'[a].reply = frame[a].reply
           \/ ~Valid(r) /\ pc'[a] = "replied" /\ frame'[a].reply = "invalid"
    BY <1>1, <1>2, <2>1, ElementArrives
  <2>4. frame[a].cause # "internal" /\ frame[a].reply # "unaudited"
    BY <2>2, <1>2 DEF Plain, FailureShows, Ended
  <2> HIDE DEF r, a
  <2>5. Undisturbed'
    BY <2>2, <2>3 DEF Plain, Undisturbed, AdjustSteps
  <2>6. Vetted'
    BY <2>2, <2>3 DEF Plain, Vetted
  <2>7. FailureShows'
    BY <2>2, <2>3, <2>4 DEF Plain, FailureShows
  <2> QED
    BY <2>2, <2>5, <2>6, <2>7
<1>3. ASSUME NEW a \in Attempts, CallStep(a)
      PROVE  Undisturbed' /\ Vetted' /\ FailureShows' /\ accounts' = accounts
  <2>1. /\ pc[a] \notin {"idle"} \union Ended /\ accounts' = accounts /\ req' = req
        /\ \A b \in Attempts \ {a} : pc'[b] = pc[b] /\ frame'[b] = frame[b]
    BY <1>1, <1>3, OthersKept
  <2>2. pc[a] \notin AdjustSteps
    BY DEF Plain, Undisturbed
  <2>3. pc'[a] \notin AdjustSteps /\ adjusted' = adjusted
    BY <1>1, <1>3, <2>2, NoAdjustment
  <2>4. /\ frame'[a].cause = "internal" => pc'[a] \in {"rollback", "reject"} \union Ended
        /\ frame'[a].reply = "unaudited" => pc'[a] \in Ended
    BY <1>1, <1>3, <2>2, FailureAt DEF Plain
  <2>5. Undisturbed'
    BY <2>1, <2>3 DEF Plain, Undisturbed
  <2>6. Vetted'
    BY <2>1 DEF Plain, Vetted, Ended
  <2>7. FailureShows'
    BY <2>1, <2>4 DEF Plain, FailureShows
  <2> QED
    BY <2>1, <2>5, <2>6, <2>7
<1>4. ASSUME Crash PROVE Undisturbed' /\ Vetted' /\ FailureShows' /\ accounts' = accounts
  <2>1. /\ UNCHANGED <<accounts, adjusted, req, frame>>
        /\ \A a \in Attempts : pc'[a] = pc[a] \/ (pc'[a] = "lost" /\ pc[a] \notin Ended \union {"idle"})
    BY <1>4 DEF Crash, durable
  <2> QED
    BY <2>1 DEF Plain, Undisturbed, Vetted, FailureShows, AdjustSteps, Ended
<1>5. ASSUME UNCHANGED vars PROVE Undisturbed' /\ Vetted' /\ FailureShows' /\ accounts' = accounts
  BY <1>5 DEF vars, durable, Plain, Undisturbed, Vetted, FailureShows
<1>6. Undisturbed' /\ Vetted' /\ FailureShows' /\ accounts' = accounts
  BY <1>1, <1>2, <1>3, <1>4, <1>5, BatchCases
<1> QED
  BY <1>1, <1>6, RowsVettedStep DEF Plain

(* A failure is not forgotten. *)
LEMMA FailureStays ==
    ASSUME AllInv, Plain, BatchNext, NoElementFailed'
    PROVE  NoElementFailed
<1>1. TypeOK /\ BatchInv /\ [Next]_vars
  BY BatchStepIsWalletStep DEF AllInv, TrailInv, IInv
<1> SUFFICES ASSUME NEW a \in Attempts, frame[a].cause = "internal" \/ frame[a].reply = "unaudited"
             PROVE  frame'[a].cause = "internal" \/ frame'[a].reply = "unaudited"
  BY DEF NoElementFailed
<1>2. CASE pc[a] \in Ended
  BY <1>1, <1>2, EndedStays
<1>3. CASE pc[a] \notin Ended
  <2>1. frame[a].cause = "internal" /\ pc[a] \in {"rollback", "reject"}
    BY <1>3 DEF Plain, FailureShows
  <2>2. ASSUME NEW b \in Attempts, CallStep(b) PROVE frame'[a].cause = "internal"
    <3>1. CASE b = a
      <4>1. pc[a] \notin AdjustSteps
        BY <2>1 DEF AdjustSteps
      <4> QED
        BY <1>1, <2>1, <2>2, <3>1, <4>1, FailureAt DEF Plain
    <3>2. CASE b # a
      BY <1>1, <2>1, <2>2, <3>2, OthersKept
    <3> QED
      BY <3>1, <3>2
  <2>3. ASSUME NEW b \in Attempts, NEW r \in Requests, Receive(b, r) PROVE frame'[a] = frame[a]
    BY <1>1, <2>1, <2>3, ReceiveAt
  <2>4. Crash \/ UNCHANGED vars => frame'[a] = frame[a]
    BY DEF Crash, vars
  <2> QED
    BY <1>1, <2>1, <2>2, <2>3, <2>4, BatchCases
<1> QED
  BY <1>2, <1>3

(* A sum over lines is the sum over their refs, when every line has one of *)
(* its own and both move the same points.                                  *)
LEMMA TotalRenamed ==
    ASSUME NEW led, NEW due, NEW S, IsFiniteSet(S), NEW g,
           \A x, y \in S : g[x] = g[y] => x = y,
           Summable(due, S), \A x \in S : led[g[x]].points = due[x].points
    PROVE  Total(led, {g[x] : x \in S}) = Total(due, S)
<1> DEFINE Image(s) == {g[x] : x \in s}
           G == {s \in SUBSET S : Total(led, Image(s)) = Total(due, s)}
<1>1. ASSUME NEW s \in SUBSET S, \A t \in SUBSET s : t # s => t \in G
      PROVE  s \in G
  <2>1. IsFiniteSet(s)
    BY FS_Subset
  <2>2. IsFiniteSet(Image(s))
    BY <2>1, ImageCount
  <2>3. Summable(led, Image(s))
    BY DEF Summable
  <2>4. CASE s = {}
    <3>1. Image(s) = {}
      BY <2>4
    <3> HIDE DEF Image
    <3>2. Total(led, {}) = 0 /\ Total(due, {}) = 0
      BY FS_EmptySet, TotalUnfolds
    <3> QED
      BY <2>4, <3>1, <3>2
  <2>5. CASE s # {}
    <3> DEFINE c == Pick(s)
               t == s \ {c}
    <3>1. c \in s /\ t # s /\ t \in SUBSET s
      BY <2>5, Picked
    <3>2. Image(s) \ {g[c]} = Image(t)
      BY <3>1
    <3>3. Total(led, Image(t)) = Total(due, t)
      BY <1>1, <3>1
    <3>4. g[c] \in Image(s)
      BY <3>1
    <3>5. Total(led, Image(s)) = led[g[c]].points + Total(led, Image(s) \ {g[c]})
      <4> HIDE DEF Image, c
      <4> QED
        BY <2>2, <2>3, <3>4, TotalRemove
    <3>6. Total(due, s) = due[c].points + Total(due, t)
      BY <2>1, <2>5, TotalUnfolds
    <3>7. led[g[c]].points = due[c].points
      BY <3>1
    <3> HIDE DEF Image, t, c
    <3>8. Total(led, Image(s)) = Total(due, s)
      BY <3>2, <3>3, <3>5, <3>6, <3>7
    <3> QED
      BY <3>8
  <2> QED
    BY <2>4, <2>5
<1>2. SUBSET S \subseteq G
  <2> HIDE DEF G
  <2> QED
    BY <1>1, SubsetInduction
<1>3. S \in G
  BY <1>2
<1> QED
  BY <1>3

(* Whose row a row of the ledger is. *)
LEMMA RowOfLine ==
    ASSUME AllInv, Plain, NEW r \in Refs, ledger[r] # NoRow
    PROVE  \E n \in Runs, j \in Sent(job.file) :
              /\ pc[<<n, j>>] # "idle" /\ Acceptable(job.file, j)
              /\ job.file.records[j].ref = r
              /\ ledger[r].account = job.file.records[j].account
              /\ ledger[r].points = signedDelta(job.file.records[j].kind, job.file.records[j].points)
<1> DEFINE c == ledger[r].id
<1>1. c \in Attempts
  BY DEF AllInv, TrailInv, IInv, TypeOK, RowType
<1>2. /\ pc[c] # "idle" /\ req[c].ref = r
      /\ ledger[r].account = req[c].account /\ ledger[r].points = Delta(c)
  BY DEF AllInv, Rooted
<1>4. PICK n \in Runs, j \in Sent(job.file) :
        c = <<n, j>> /\ req[c] = Element(job.user, job.file.records[j])
  BY <1>1, <1>2 DEF AllInv, BatchTrail, ElementCall
<1>5. /\ ledger[r].account = job.file.records[j].account
      /\ ledger[r].points = signedDelta(job.file.records[j].kind, job.file.records[j].points)
      /\ job.file.records[j].ref = r
  BY <1>2, <1>4 DEF Delta, Element
<1>6. Valid(req[c]) /\ ledger[r].account \in accounts
  BY DEF Plain, RowsVetted
<1>7. job.file.records[j].kind # "adjust"
  BY RowFacts DEF AllInv, BatchInv, BatchTypeOK
<1>8. Acceptable(job.file, j)
  BY <1>4, <1>5, <1>6, <1>7 DEF Acceptable, Valid, Element
<1> QED
  BY <1>2, <1>4, <1>5, <1>8

(* When an element tests the balance, the balance is what the rows before  *)
(* its own leave, whoever loaded them.                                     *)
LEMMA TestedBalance ==
    ASSUME LoadInv, NoElementFailed, Affordable(job.file),
           NEW n \in Runs, NEW i \in Sent(job.file), NEW a, a = <<n, i>>,
           pc[a] = "update", Acceptable(job.file, i)
    PROVE  Guard(a) /\ Storable(balance[req[a].account] + Delta(a))
<1> DEFINE f == job.file
           row == f.records[i]
           acc == row.account
           B == {j \in Sent(f) : Acceptable(f, j) /\ f.records[j].account = acc /\ RowBefore(f, j, i)}
           g == [j \in DOMAIN f.records |-> f.records[j].ref]
           due == Due(f)
<1>1. /\ AllInv /\ Plain /\ Conserved /\ BatchTypeOK /\ TypeOK /\ IInv /\ f \in Files
      /\ \A m \in Runs, j \in Sent(f) : Settling(m, j)
  BY DEF LoadInv, SettleInv, AllInv, BatchInv, BatchTypeOK, TrailInv, IInv
<1>2. a \in Attempts
  BY <1>1, LineNamed
<1>3. req[a] = Element(job.user, row) /\ req[a].account = acc /\ req[a].ref = row.ref
      /\ Delta(a) = signedDelta(row.kind, row.points)
  <2>1. PICK m \in Runs, j \in Sent(f) : a = <<m, j>> /\ req[a] = Element(job.user, f.records[j])
    BY <1>1, <1>2 DEF AllInv, BatchTrail, ElementCall
  <2>2. req[a] = Element(job.user, row)
    BY <2>1
  <2> QED
    BY <2>2 DEF Element, Delta
<1>4. i \in DOMAIN f.records /\ acc \in AccountIDs /\ row.ref \in Refs /\ row.points \in Int
  BY <1>1, RowFacts
<1>5. ledger[row.ref] = NoRow
  <2>1. inserting[row.ref] = a
    BY <1>1, <1>2, <1>3 DEF IInv, LockDiscipline, LocksHeld
  <2> QED
    BY <1>1, <1>2, <1>4, <2>1, NullsAssumption DEF IInv, LockDiscipline, RefLocks
<1>6. ASSUME NEW j \in B
      PROVE  /\ j \in DOMAIN f.records /\ g[j] \in LedgerRows(acc)
             /\ ledger[g[j]].points = due[j].points /\ due[j].points \in Int
  <2>1. j \in Sent(f) /\ j \in DOMAIN f.records /\ f.records[j].ref \in Refs
        /\ f.records[j].points \in Int
    BY <1>1, RowFacts
  <2>2. ledger[f.records[j].ref] # NoRow
    BY <1>1 DEF Settling, Loaded
  <2>3. PICK k \in Sent(f) :
          /\ f.records[k].ref = f.records[j].ref
          /\ ledger[f.records[j].ref].account = f.records[k].account
          /\ ledger[f.records[j].ref].points = signedDelta(f.records[k].kind, f.records[k].points)
    BY <1>1, <2>1, <2>2, RowOfLine
  <2>4. k = j
    BY <2>1, <2>3 DEF Affordable
  <2>5. due[j].points = signedDelta(f.records[j].kind, f.records[j].points)
    BY <2>1 DEF Due
  <2>6. signedDelta(f.records[j].kind, f.records[j].points) \in Int
    BY <2>1 DEF signedDelta
  <2> QED
    BY <2>1, <2>2, <2>3, <2>4, <2>5, <2>6 DEF LedgerRows
<1>7. ASSUME NEW r \in LedgerRows(acc) PROVE \E j \in B : g[j] = r
  <2>1. r \in Refs /\ ledger[r] # NoRow /\ ledger[r].account = acc
    BY DEF LedgerRows
  <2>2. PICK m \in Runs, j \in Sent(f) :
          /\ pc[<<m, j>>] # "idle" /\ Acceptable(f, j)
          /\ f.records[j].ref = r /\ ledger[r].account = f.records[j].account
    BY <1>1, <2>1, RowOfLine
  <2>3. j # i
    BY <1>5, <2>1, <2>2
  <2>4. ~RowBefore(f, i, j)
    BY <1>1, <1>5, <2>2 DEF Settling, Loaded
  <2>5. RowBefore(f, j, i)
    BY <1>1, <2>3, <2>4, RowsOrdered
  <2>6. j \in DOMAIN f.records
    BY DEF Sent
  <2> QED
    BY <2>1, <2>2, <2>5, <2>6
<1>8. LedgerRows(acc) = {g[j] : j \in B}
  BY <1>6, <1>7
<1>9. i \notin B
  <2>1. i \in Nat /\ f.records[i].at \in Nat
    BY <1>1, RowFacts
  <2> QED
    BY <2>1 DEF RowBefore
<1>10. FundedBy(f, i) = B \union {i}
  BY DEF FundedBy
<1>11. IsFiniteSet(B) /\ IsFiniteSet(B \union {i})
  <2>1. IsFiniteSet(Sent(f)) /\ B \in SUBSET Sent(f)
    BY <1>1, FileCounts
  <2> HIDE DEF B
  <2>2. IsFiniteSet(B)
    BY <2>1, FS_Subset
  <2> QED
    BY <2>2, FS_AddElement
<1>12. due[i].points = Delta(a) /\ Delta(a) \in Int
  BY <1>3, <1>4 DEF Due, signedDelta
<1>13. Summable(due, B) /\ Summable(due, B \union {i})
  BY <1>6, <1>12 DEF Summable
<1>14. \A x, y \in B : g[x] = g[y] => x = y
  BY <1>6 DEF Affordable
<1>15. LedgerSum(acc) = Total(due, B)
  <2>1. Total(ledger, {g[j] : j \in B}) = Total(due, B)
    <3> HIDE DEF B, g, due
    <3> QED
      BY <1>6, <1>11, <1>13, <1>14, TotalRenamed
  <2> QED
    BY <1>8, <2>1, SumIsTotal
<1>16. Total(due, B \union {i}) = Delta(a) + Total(due, B)
  <2> HIDE DEF B, due
  <2>1. Total(due, B \union {i}) = due[i].points + Total(due, B)
    BY <1>9, <1>11, <1>13, TotalAdd
  <2> QED
    BY <1>12, <2>1
<1>17. BalanceAfter(f, i) = InitBalance[acc] + Total(due, B \union {i})
  BY <1>10 DEF BalanceAfter, Total
<1>18. balance[acc] = InitBalance[acc] + LedgerSum(acc)
  BY <1>1, <1>4 DEF Conserved, Conservation, Plain, Undisturbed
<1>19. InitBalance[acc] \in Int /\ Total(due, B) \in Int
  <2>1. InitBalance[acc] \in Int
    BY <1>4, ConstantsAssumption
  <2> HIDE DEF B, due
  <2> QED
    BY <2>1, <1>11, <1>13, TotalInt
<1>20. balance[acc] + Delta(a) = BalanceAfter(f, i)
  <2> HIDE DEF B, due, acc, f
  <2> QED
    BY <1>12, <1>15, <1>16, <1>17, <1>18, <1>19
<1>21. Storable(BalanceAfter(f, i)) /\ acc \in accounts
  BY DEF Affordable, Acceptable
<1> HIDE DEF f, acc
<1>22. Storable(balance[acc] + Delta(a)) /\ balance[acc] + Delta(a) >= 0
  <2>1. Storable(balance[acc] + Delta(a))
    BY <1>20, <1>21
  <2> QED
    BY <2>1, ConstantsAssumption DEF Storable
<1> QED
  BY <1>3, <1>21, <1>22 DEF Guard

(* The element that loads an acceptable row of such a file goes its way:   *)
(* it is not turned away at any statement.                                 *)
LEMMA CourseKept ==
    ASSUME LoadInv, NoElementFailed, Affordable(job.file),
           NEW n \in Runs, NEW i \in Sent(job.file), NEW a, a = <<n, i>>,
           Acceptable(job.file, i), OnCourse(a), CallStep(a), frame'[a].cause # "internal"
    PROVE  pc'[a] \in Course \/ (pc'[a] = "replied" /\ frame'[a].reply \in {"accepted", "duplicate"})
<1>1. AllInv /\ BatchTypeOK /\ TypeOK /\ IInv
  BY DEF LoadInv, AllInv, BatchInv, TrailInv, IInv
<1>2. a \in Attempts
  BY <1>1, LineNamed
<1>3. pc[a] \notin {"idle"} \union Ended
  BY <1>1, <1>2, OthersKept
<1>4. pc[a] \in Course \ {"lost"}
  BY <1>3 DEF OnCourse, Ended
<1>5. /\ job.user \in Admins /\ req[a] = Element(job.user, job.file.records[i])
      /\ req[a].user \in Admins /\ req[a].account \in accounts
  <2>1. PICK m \in Runs, j \in Sent(job.file) :
          /\ a = <<m, j>> /\ job.user \in Admins
          /\ req[a] = Element(job.user, job.file.records[j])
    BY <1>1, <1>2, <1>3 DEF AllInv, BatchTrail, ElementCall
  <2>2. req[a] = Element(job.user, job.file.records[i])
    BY <2>1
  <2> QED
    BY <2>1, <2>2 DEF Element, Acceptable
<1>6. AccountVisible(req[a].user, req[a].account)
  BY <1>5 DEF AccountVisible
<1> USE DEF Course
<1>7. CASE LookupAccount(a)
  <2>1. Goto(a, "begin")
    BY <1>6, <1>7 DEF LookupAccount
  <2> QED
    BY <1>1, <1>2, <2>1, GotoAt
<1>8. CASE BeginTx(a) \/ InsertRow(a) \/ AuditDuplicate(a) \/ ReadBack(a) \/ AuditAccepted(a)
  BY <1>1, <1>2, <1>8, GotoAt DEF BeginTx, InsertRow, AuditDuplicate, ReadBack, AuditAccepted
<1>9. CASE FetchOriginal(a) \/ FetchAccount(a)
  <2>1. \A row : TransactionVisible(req[a].user, row)
    BY <1>5 DEF TransactionVisible
  <2>2. \E label \in {"fetchAccount", "auditDuplicate"} : Goto(a, label)
    BY <1>6, <1>9, <2>1 DEF FetchOriginal, FetchAccount
  <2> QED
    BY <1>1, <1>2, <2>2, GotoAt
<1>10. CASE UpdateBalance(a)
  <2>1. pc[a] = "update"
    BY <1>10 DEF UpdateBalance
  <2>2. Guard(a) /\ Storable(balance[req[a].account] + Delta(a))
    BY <2>1, TestedBalance
  <2>3. Goto(a, "readBack")
    BY <1>10, <2>2 DEF UpdateBalance
  <2> QED
    BY <1>1, <1>2, <2>3, GotoAt
<1>11. CASE Commit(a)
  <2>1. pc[a] = "commit" /\ Goto(a, "replied") /\ frame' = frame
    BY <1>11 DEF Commit
  <2>2. frame[a].reply \in {"accepted", "duplicate"}
    BY <1>1, <1>2, <2>1 DEF IInv, StagedEntries
  <2> QED
    BY <1>1, <1>2, <2>1, <2>2, GotoAt
<1>12. ~TxStatementFails(a) /\ ~PoolStatementFails(a) /\ ~CommitFails(a)
  BY <1>1, <1>2, <1>4, RaiseAt DEF TxStatementFails, PoolStatementFails, CommitFails, AdjustSteps
<1>13. ~Recheck(a) /\ ~Rollback(a) /\ ~RejectTransaction(a) /\ ~AdjustBegin(a)
       /\ ~AdjustUpdate(a) /\ ~AdjustRecheck(a) /\ ~AdjustRead(a)
  BY <1>4 DEF Recheck, Rollback, RejectTransaction, AdjustBegin, AdjustUpdate, AdjustRecheck, AdjustRead
<1> QED
  BY <1>7, <1>8, <1>9, <1>10, <1>11, <1>12, <1>13 DEF CallStep, Progress

(* What a file asks for does not change while the accounts do not, and a   *)
(* row that is loaded stays.                                               *)
LEMMA FileStays ==
    ASSUME AllInv, BatchNext, [Next]_vars, job' = job, accounts' = accounts
    PROVE  /\ \A i : Acceptable(job.file, i)' <=> Acceptable(job.file, i)
           /\ Affordable(job.file)' <=> Affordable(job.file)
           /\ \A i \in Sent(job.file) : Loaded(i) => Loaded(i)'
<1>1. TypeOK /\ IInv /\ BatchTypeOK
  BY DEF AllInv, BatchInv, TrailInv, IInv
<1>2. \A i : Acceptable(job.file, i)' <=> Acceptable(job.file, i)
  BY DEF Acceptable
<1>3. \A i : FundedBy(job.file, i)' = FundedBy(job.file, i)
  BY DEF FundedBy, Acceptable
<1>4. \A i : BalanceAfter(job.file, i)' = BalanceAfter(job.file, i)
  BY <1>3 DEF BalanceAfter, MapThenSumSet, MapThenFoldSet
<1>5. Affordable(job.file)' <=> Affordable(job.file)
  BY <1>2, <1>4 DEF Affordable
<1>6. ASSUME NEW i \in Sent(job.file), Loaded(i) PROVE Loaded(i)'
  <2> DEFINE r == job.file.records[i].ref
  <2>1. r \in Refs
    BY <1>1, RowFacts DEF BatchTypeOK
  <2>2. ledger[r] # NoRow
    BY <1>6 DEF Loaded
  <2>3. ledger'[r] = ledger[r]
    <3> HIDE DEF r
    <3> QED
      BY <1>1, <2>1, <2>2, RowsGrow
  <2> QED
    BY <2>2, <2>3 DEF Loaded
<1> QED
  BY <1>2, <1>5, <1>6

(* A call of such a file that was accepted or found its row has its row in *)
(* the ledger.                                                             *)
LEMMA AnsweredIsLoaded ==
    ASSUME AllInv, NEW n \in Runs, NEW i \in Sent(job.file), pc[<<n, i>>] = "replied",
           frame[<<n, i>>].reply \in {"accepted", "duplicate"}
    PROVE  Loaded(i)
<1> DEFINE a == <<n, i>>
<1>1. a \in Attempts
  BY LineNamed DEF AllInv, BatchInv
<1>2. req[a].ref = job.file.records[i].ref
  <2>1. PICK m \in Runs, j \in Sent(job.file) :
          a = <<m, j>> /\ req[a] = Element(job.user, job.file.records[j])
    BY <1>1 DEF AllInv, BatchTrail, ElementCall
  <2>2. req[a] = Element(job.user, job.file.records[i])
    BY <2>1
  <2> QED
    BY <2>2 DEF Element
<1> HIDE DEF a
<1>3. Told(a)
  BY <1>1 DEF AllInv, TrailInv
<1>4. pc[a] = "replied" /\ frame[a].reply \in {"accepted", "duplicate"}
  BY DEF a
<1>5. ledger[req[a].ref] # NoRow
  BY <1>3, <1>4 DEF Told, ShowsOriginal
<1> QED
  BY <1>2, <1>5 DEF Loaded

(* When the loop comes to a row, the rows before it are in the ledger.     *)
LEMMA EarlierLoaded ==
    ASSUME LoadInv, NoElementFailed, Affordable(job.file),
           NEW n \in Runs, NEW i \in Remaining(n), Current(n, i),
           NEW j \in Sent(job.file), Acceptable(job.file, j), RowBefore(job.file, j, i)
    PROVE  Loaded(j)
<1> DEFINE f == job.file
<1>1. AllInv /\ BatchInv /\ f \in Files /\ i \in Sent(f)
  BY DEF LoadInv, AllInv, BatchInv, BatchTypeOK, Remaining
<1>2. /\ i \in DOMAIN f.records /\ j \in DOMAIN f.records /\ i \in Nat /\ j \in Nat
      /\ f.records[i].at \in Nat /\ f.records[j].at \in Nat
  BY <1>1, RowFacts
<1>3. i # j
  BY <1>2 DEF RowBefore
<1>4. ASSUME j \in Remaining(n) PROVE FALSE
  <2>1. ElementBefore(f, i, j)
    BY <1>3, <1>4 DEF Current
  <2>2. f.records[i].at < f.records[j].at \/ (f.records[i].at = f.records[j].at /\ i < j)
    BY <1>1, <1>2, <2>1, OrderKept
  <2> HIDE DEF f
  <2> QED
    BY <1>2, <2>2 DEF f, RowBefore
<1>5. PICK k \in DOMAIN results[n] : results[n][k].line = j
  BY <1>4 DEF Remaining, Applied
<1>6. pc[<<n, j>>] = "replied"
  BY <1>1, <1>5 DEF AllInv, BatchTrail, Collected
<1>7. OnCourse(<<n, j>>)
  BY <1>6 DEF LoadInv, SettleInv, Settling
<1>8. frame[<<n, j>>].reply \in {"accepted", "duplicate"}
  BY <1>6, <1>7 DEF OnCourse, Course
<1> QED
  BY <1>1, <1>6, <1>8, AnsweredIsLoaded

(* The loop goes on and the calls go on: each row keeps to its course.     *)
LEMMA SettleStep ==
    ASSUME LoadInv, BatchNext
    PROVE  SettleInv'
<1>1. AllInv /\ Plain /\ BatchInv /\ BatchTypeOK /\ TypeOK /\ [Next]_vars
  BY BatchStepIsWalletStep DEF LoadInv, AllInv, BatchInv, TrailInv, IInv
<1>2. accounts' = accounts /\ job' = job
  BY <1>1, PlainStep, BatchMoves
<1> SUFFICES ASSUME NoElementFailed', Affordable(job.file)',
                    NEW n \in Runs, NEW i \in Sent(job.file), pc'[<<n, i>>] # "idle"
             PROVE  /\ \A j \in Sent(job.file) :
                          Acceptable(job.file, j) /\ RowBefore(job.file, j, i) => Loaded(j)'
                    /\ Acceptable(job.file, i) =>
                          \/ pc'[<<n, i>>] \in Course
                          \/ pc'[<<n, i>>] = "replied"
                             /\ frame'[<<n, i>>].reply \in {"accepted", "duplicate"}
  <2>1. \A j : Acceptable(job.file, j)' <=> Acceptable(job.file, j)
    BY <1>1, <1>2, FileStays
  <2>2. Sent(job.file)' = Sent(job.file)
        /\ \A i, j : RowBefore(job.file, j, i)' <=> RowBefore(job.file, j, i)
    BY <1>2 DEF Sent, RowBefore
  <2> QED
    BY <1>2, <2>1, <2>2 DEF SettleInv, Settling, OnCourse
<1> DEFINE a == <<n, i>>
<1>3. NoElementFailed /\ Affordable(job.file)
  BY <1>1, <1>2, FailureStays, FileStays
<1>4. a \in Attempts /\ Settling(n, i)
  BY <1>1, <1>3, LineNamed DEF LoadInv, SettleInv
<1>6. ASSUME pc[a] # "idle", pc'[a] = pc[a], frame'[a] = frame[a]
      PROVE  Acceptable(job.file, i) => pc'[a] \in Course
               \/ (pc'[a] = "replied" /\ frame'[a].reply \in {"accepted", "duplicate"})
  BY <1>4, <1>6 DEF Settling, OnCourse
<1>7. \A j \in Sent(job.file) : Loaded(j) => Loaded(j)'
  BY <1>1, <1>2, FileStays
<1>8. ASSUME CallsStay
      PROVE  \A j \in Sent(job.file) :
                Acceptable(job.file, j) /\ RowBefore(job.file, j, i) => Loaded(j)'
  BY <1>4, <1>7, <1>8 DEF CallsStay, Settling
<1>9. ASSUME NEW b \in Attempts, CallStep(b)
      PROVE  Acceptable(job.file, i) => pc'[a] \in Course
               \/ (pc'[a] = "replied" /\ frame'[a].reply \in {"accepted", "duplicate"})
  <2>1. /\ pc[b] # "idle"
        /\ \A c \in Attempts \ {b} : pc'[c] = pc[c] /\ frame'[c] = frame[c]
    BY <1>1, <1>9, OthersKept
  <2>2. CASE a # b
    <3>1. pc'[a] = pc[a] /\ frame'[a] = frame[a]
      BY <1>4, <2>1, <2>2
    <3> QED
      BY <1>6, <3>1
  <2>3. CASE a = b
    <3>1. ASSUME Acceptable(job.file, i) PROVE OnCourse(a)
      BY <1>4, <2>1, <2>3, <3>1 DEF Settling
    <3>2. frame'[a].cause # "internal"
      BY <1>4 DEF NoElementFailed
    <3> HIDE DEF a
    <3>3. a = <<n, i>>
      BY DEF a
    <3> QED
      BY <1>3, <1>9, <2>3, <3>1, <3>2, <3>3, CourseKept
  <2> QED
    BY <2>2, <2>3
<1>10. ASSUME Crash
       PROVE  Acceptable(job.file, i) => pc'[a] \in Course
               \/ (pc'[a] = "replied" /\ frame'[a].reply \in {"accepted", "duplicate"})
  <2>1. pc'[a] = pc[a] \/ pc'[a] = "lost"
    BY <1>4, <1>10 DEF Crash
  <2>2. frame'[a] = frame[a]
    BY <1>10 DEF Crash
  <2>3. "lost" \in Course
    BY DEF Course
  <2> QED
    BY <1>6, <2>1, <2>2, <2>3
<1>11. CASE UNCHANGED vars
  BY <1>6, <1>8, <1>11 DEF vars, CallsStay
<1>12. CASE CallsStay /\ (Crash \/ \E b \in Attempts : CallStep(b))
  BY <1>8, <1>9, <1>10, <1>12
<1>13. ASSUME NEW m \in Runs, NEW k \in Remaining(m), Current(m, k), <<m, k>> \in Attempts,
              Element(job.user, job.file.records[k]) \in Requests,
              Receive(<<m, k>>, Element(job.user, job.file.records[k]))
       PROVE  /\ \A j \in Sent(job.file) :
                    Acceptable(job.file, j) /\ RowBefore(job.file, j, i) => Loaded(j)'
              /\ Acceptable(job.file, i) =>
                    pc'[a] \in Course
                    \/ (pc'[a] = "replied" /\ frame'[a].reply \in {"accepted", "duplicate"})
  <2> DEFINE r == Element(job.user, job.file.records[k])
  <2>1. CASE a # <<m, k>>
    <3>1. pc'[a] = pc[a] /\ frame'[a] = frame[a]
      BY <1>1, <1>4, <1>13, <2>1, ReceiveAt
    <3> QED
      BY <1>4, <1>6, <1>7, <3>1 DEF Settling
  <2>2. CASE a = <<m, k>>
    <3>1. n = m /\ i = k
      BY <2>2
    <3>2. ASSUME NEW j \in Sent(job.file), Acceptable(job.file, j), RowBefore(job.file, j, i)
          PROVE  Loaded(j)'
      <4>1. Loaded(j)
        BY <1>3, <1>13, <3>1, <3>2, EarlierLoaded
      <4> QED
        BY <1>7, <4>1
    <3>3. ASSUME Acceptable(job.file, i) PROVE pc'[a] \in Course
      <4>1. r.kind \in {"earn", "spend"} /\ r.points > 0
        BY <3>1, <3>3 DEF Acceptable, Element
      <4>2. Valid(r) /\ r.kind # "adjust"
        BY <4>1 DEF Valid
      <4> HIDE DEF r
      <4>3. r \in Requests /\ Receive(a, r)
        BY <1>13, <2>2 DEF r
      <4>4. pc'[a] = "lookup"
        BY <1>1, <1>4, <4>2, <4>3, ElementArrives
      <4> QED
        BY <4>4 DEF Course
    <3> QED
      BY <3>2, <3>3
  <2> QED
    BY <2>1, <2>2
<1> QED
  BY <1>1, <1>11, <1>12, <1>13, BatchCases

LEMMA LoadStep == LoadInv /\ [BatchNext]_bvars => LoadInv'
<1> SUFFICES ASSUME LoadInv, [BatchNext]_bvars PROVE LoadInv'
  OBVIOUS
<1>1. AllInv /\ IInv /\ BatchInv
  BY DEF LoadInv, AllInv, TrailInv
<1>2. AllInv'
  BY <1>1, AllStep
<1>3. Conserved'
  BY <1>1, BatchStepIsWalletStep, ConservedStep DEF LoadInv, bvars
<1>4. CASE BatchNext
  BY <1>1, <1>2, <1>3, <1>4, PlainStep, SettleStep DEF LoadInv
<1>5. CASE UNCHANGED bvars
  <2>1. UNCHANGED vars /\ job' = job
    BY <1>5 DEF bvars, command
  <2>2. Plain'
    BY <2>1 DEF LoadInv, Plain, Undisturbed, Vetted, FailureShows, RowsVetted, Valid, vars, durable
  <2>3. SettleInv' <=> SettleInv
    <3>1. \A i : Acceptable(job.file, i)' <=> Acceptable(job.file, i)
      BY <2>1 DEF Acceptable, vars, durable
    <3>2. \A i : FundedBy(job.file, i)' = FundedBy(job.file, i)
      BY <2>1, <3>1 DEF FundedBy
    <3>3. \A i : BalanceAfter(job.file, i)' = BalanceAfter(job.file, i)
      BY <2>1, <3>2 DEF BalanceAfter, MapThenSumSet, MapThenFoldSet
    <3>4. Affordable(job.file)' <=> Affordable(job.file)
      BY <2>1, <3>1, <3>3 DEF Affordable
    <3>5. NoElementFailed' <=> NoElementFailed
      BY <2>1 DEF NoElementFailed, vars
    <3>6. \A n, i : Settling(n, i)' <=> Settling(n, i)
      BY <2>1, <3>1 DEF Settling, Loaded, OnCourse, vars, durable
    <3> QED
      BY <2>1, <3>4, <3>5, <3>6 DEF SettleInv
  <2> QED
    BY <1>2, <1>3, <2>2, <2>3 DEF LoadInv
<1> QED
  BY <1>4, <1>5

(* A file that can be paid for in the order of its times is loaded in      *)
(* full, whatever crashes, lost answers and overlapping runs come between: *)
(* each element finds the rows before it in the ledger, so the balance it  *)
(* tests is the one the file leaves there (ProcessTransactionBatch).       *)
THEOREM FilesSettle == BatchSpec => []FileSettled
<1>1. BatchInit => LoadInv
  <2>1. BatchInit => AllInv /\ Conserved
    BY InitAll, InitConserved DEF BatchInit
  <2>2. BatchInit => Plain
    BY DEF BatchInit, Init, Plain, Undisturbed, Vetted, FailureShows, RowsVetted, EmptyFrame,
       AdjustSteps
  <2>3. ASSUME BatchInit, NEW n \in Runs, NEW i \in Sent(job.file) PROVE pc[<<n, i>>] = "idle"
    <3>1. <<n, i>> \in Attempts
      BY <2>1, <2>3, LineNamed DEF AllInv, BatchInv
    <3> QED
      BY <2>3, <3>1 DEF BatchInit, Init
  <2>4. BatchInit => SettleInv
    BY <2>3 DEF SettleInv, Settling
  <2> QED
    BY <2>1, <2>2, <2>4 DEF LoadInv
<1>2. LoadInv /\ [BatchNext]_bvars => LoadInv'
  BY LoadStep
<1>3. LoadInv => FileSettled
  <2> SUFFICES ASSUME LoadInv, NoElementFailed, NEW n \in Runs, Affordable(job.file),
                      NEW k \in DOMAIN results[n], Acceptable(job.file, results[n][k].line)
               PROVE  LET i == results[n][k].line
                          row == job.file.records[i]
                      IN  /\ results[n][k].outcome # "rejected"
                          /\ ledger[row.ref].points = signedDelta(row.kind, row.points)
    BY DEF FileSettled
  <2> DEFINE i == results[n][k].line
             row == job.file.records[i]
  <2>1. AllInv /\ Plain /\ i \in Sent(job.file) /\ job.file \in Files
    BY DEF LoadInv, AllInv, BatchInv, BatchTypeOK, Admitted
  <2>2. pc[<<n, i>>] = "replied" /\ results[n][k].outcome = OutcomeOf(frame[<<n, i>>].reply)
    BY <2>1 DEF AllInv, BatchTrail, Collected
  <2>3. frame[<<n, i>>].reply \in {"accepted", "duplicate"}
    BY <2>1, <2>2 DEF LoadInv, SettleInv, Settling, OnCourse, Course
  <2>4. results[n][k].outcome # "rejected"
    BY <2>2, <2>3 DEF OutcomeOf
  <2>5. row.ref \in Refs /\ ledger[row.ref] # NoRow
    BY <2>1, <2>2, <2>3, AnsweredIsLoaded, RowFacts DEF Loaded
  <2>6. PICK j \in Sent(job.file) :
          /\ job.file.records[j].ref = row.ref
          /\ ledger[row.ref].points = signedDelta(job.file.records[j].kind, job.file.records[j].points)
    BY <2>1, <2>5, RowOfLine
  <2>7. j = i
    BY <2>1, <2>6 DEF Affordable
  <2> QED
    BY <2>4, <2>6, <2>7
<1> QED
  BY <1>1, <1>2, <1>3, PTL DEF BatchSpec
=============================================================================
