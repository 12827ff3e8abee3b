--------------------------- MODULE StartupProofs ----------------------------
(***************************************************************************)
(* Proofs about Startup, for any number of processes, hosts, versions,     *)
(* statements, clients and faults: types, the migrations, and what a       *)
(* server has while it takes and runs calls.                               *)
(***************************************************************************)
EXTENDS Startup, TLAPS

Up == {"listen", "unhooked", "serving", "draining"}
Migrated == Up \union {"redis"}
InTx == {"apply", "commit"}
Serves == {"unhooked", "serving", "draining"}

(* What the state of a process says of the database: the versions before   *)
(* its own are recorded, its transaction holds the first statements of its *)
(* own, and the version it has inserted is not recorded by anybody else.   *)
ProcInv(p) ==
    LET r == proc[p]
    IN  /\ r.pc \in {"ping", "table", "create"} => r.version = 1
        /\ r.pc \in {"ping", "table", "create", "check"} => r.next = 1
        /\ r.pc \in {"check"} \union InTx \union Migrated => 1..(r.version - 1) \subseteq applied
        /\ r.pc \in Migrated => r.version > Versions
        /\ r.pc \in Up => r.limited \/ Local
        /\ r.pc \in InTx =>
              /\ r.version <= Versions
              /\ r.next \in 1..(Statements[r.version] + 1)
              /\ \A s \in Statement :
                    s \in r.tx.done <=> (s[1] = r.version /\ s[2] \in 1..(r.next - 1))
        /\ r.pc = "commit" =>
              r.version \notin applied /\ r.tx.recorded /\ r.next = Statements[r.version] + 1
        /\ r.pc \notin InTx => r.tx = NoTx

(* No two processes have inserted the same version. *)
OneRecords ==
    \A p, q \in Processes :
        p # q /\ proc[p].pc = "commit" /\ proc[q].pc = "commit" =>
            proc[p].version # proc[q].version

(* A call runs in a process that serves, or that drains. *)
CallsServed ==
    \A c \in Calls : calls[c] # NoProcess => proc[calls[c]].pc \in Serves

IInv ==
    /\ TypeOK /\ MigratedWhole /\ OneRecords /\ CallsServed
    /\ \A p \in Processes : ProcInv(p)

(* A step of p starts no call, and leaves p none unless it serves at pc. *)
KeepsCalls(p, pc) ==
    /\ calls' \in [Calls -> Processes \union {NoProcess}]
    /\ \A c \in Calls : calls'[c] # NoProcess =>
          calls'[c] = calls[c] /\ (calls[c] = p => pc \in Serves)

ProcType ==
    [pc: {"off", "ping", "table", "create", "check", "apply", "commit", "redis", "listen",
          "unhooked", "serving", "draining", "exited", "failed"},
     version: 1..(Versions + 1), next: Nat,
     tx: [done: SUBSET Statement, recorded: BOOLEAN], limited: BOOLEAN]

LEMMA StatementTyped ==
    ASSUME NEW s \in Statement
    PROVE  s[1] \in 1..Versions /\ s[2] \in 1..Statements[s[1]]
BY StartupAssumption DEF Statement

LEMMA FreshTyped ==
    ASSUME NEW pc \in {"off", "ping", "failed"}
    PROVE  Fresh(pc) \in ProcType
<1>1. 1 \in 1..(Versions + 1) /\ 1 \in Nat
  BY StartupAssumption
<1>2. NoTx \in [done: SUBSET Statement, recorded: BOOLEAN]
  BY DEF NoTx
<1> QED
  BY <1>1, <1>2 DEF Fresh, ProcType

LEMMA InitIInv == Init => IInv
<1> SUFFICES ASSUME Init PROVE IInv
  OBVIOUS
<1>1. TypeOK
  <2>1. proc \in [Processes -> ProcType]
    BY FreshTyped DEF Init
  <2>2. ASSUME NEW p \in Processes
        PROVE  port[Host[p]] # p /\ proc[p].pc = "off" /\ proc[p].tx = NoTx
    BY StartupAssumption DEF Init, Fresh
  <2>3. faults \in 0..MaxFaults
    BY StartupAssumption DEF Init
  <2>4. runs \in [Statement -> Nat] /\ table \in BOOLEAN /\ applied \subseteq 1..Versions
    BY DEF Init
  <2>5. port \in [Hosts -> Processes \union {NoProcess}]
    BY DEF Init
  <2>6. calls \in [Calls -> Processes \union {NoProcess}]
    BY DEF Init
  <2> QED
    BY <2>1, <2>2, <2>3, <2>4, <2>5, <2>6 DEF TypeOK, ProcType
<1>2. MigratedWhole
  BY DEF Init, MigratedWhole
<1>3. OneRecords /\ CallsServed /\ \A p \in Processes : ProcInv(p)
  BY DEF Init, OneRecords, CallsServed, ProcInv, Fresh, InTx, Migrated, Up
<1> QED
  BY <1>1, <1>2, <1>3 DEF IInv

(* A step of one process that leaves the database alone.                   *)
LEMMA LocalStep ==
    ASSUME IInv, NEW p \in Processes, NEW r \in ProcType,
           proc' = [proc EXCEPT ![p] = r], UNCHANGED <<applied, runs>>,
           table' \in BOOLEAN, faults' \in 0..MaxFaults,
           KeepsCalls(p, r.pc),
           port' \in [Hosts -> Processes \union {NoProcess}],
           port'[Host[p]] = p <=> r.pc \in {"unhooked", "serving"},
           \A q \in Processes \ {p} : port'[Host[q]] = q <=> port[Host[q]] = q,
           ProcInv(p)',
           r.pc = "commit" => \A q \in Processes \ {p} :
               proc[q].pc = "commit" => proc[q].version # r.version
    PROVE  IInv'
<1>1. proc'[p] = r /\ \A q \in Processes \ {p} : proc'[q] = proc[q]
  BY DEF IInv, TypeOK
<1>2. r.tx # NoTx => r.pc \in {"apply", "commit"}
  BY <1>1 DEF ProcInv, InTx
<1>3. TypeOK'
  <2>1. proc' \in [Processes -> ProcType]
    BY DEF IInv, TypeOK, ProcType
  <2>2. \A q \in Processes :
          /\ port'[Host[q]] = q <=> proc'[q].pc \in {"unhooked", "serving"}
          /\ proc'[q].tx # NoTx => proc'[q].pc \in {"apply", "commit"}
    BY <1>1, <1>2 DEF IInv, TypeOK
  <2> QED
    BY <2>1, <2>2 DEF IInv, TypeOK, ProcType, KeepsCalls
<1>4. MigratedWhole'
  BY DEF IInv, MigratedWhole
<1>5. OneRecords'
  BY <1>1 DEF IInv, OneRecords
<1>6. ASSUME NEW q \in Processes PROVE ProcInv(q)'
  <2>1. CASE q # p
    BY <1>1, <2>1 DEF IInv, ProcInv
  <2> QED
    BY <2>1
<1>7. CallsServed'
  BY <1>1 DEF IInv, TypeOK, CallsServed, KeepsCalls
<1> QED
  BY <1>3, <1>4, <1>5, <1>6, <1>7 DEF IInv

(* A process that ends, or begins anew, and listens no more. *)
LEMMA FreshStep ==
    ASSUME IInv, NEW p \in Processes, NEW pc \in {"failed", "ping"},
           proc' = [proc EXCEPT ![p] = Fresh(pc)], UNCHANGED <<applied, runs>>,
           table' \in BOOLEAN, faults' \in 0..MaxFaults,
           Cut(p) \/ (UNCHANGED calls /\ proc[p].pc \notin Serves),
           \/ ClosePort(p)
           \/ UNCHANGED port /\ proc[p].pc \notin {"unhooked", "serving"}
    PROVE  IInv'
<1>1. Fresh(pc) \in ProcType /\ Fresh(pc).pc = pc
  BY FreshTyped DEF Fresh
<1>2. ProcInv(p)'
  <2>1. proc'[p] = Fresh(pc)
    BY DEF IInv, TypeOK
  <2> QED
    BY <2>1 DEF ProcInv, Fresh, InTx, Migrated, Up
<1>3. /\ port' \in [Hosts -> Processes \union {NoProcess}]
      /\ port'[Host[p]] # p
      /\ \A q \in Processes \ {p} : port'[Host[q]] = q <=> port[Host[q]] = q
  <2>1. CASE ClosePort(p)
    <3>0. port \in [Hosts -> Processes \union {NoProcess}]
      BY DEF IInv, TypeOK
    <3>1. \A q \in Processes : Host[q] \in Hosts /\ q # NoProcess
      BY StartupAssumption
    <3>2. \A h \in Hosts : port'[h] = IF port[h] = p THEN NoProcess ELSE port[h]
      BY <2>1 DEF ClosePort
    <3>3. port' \in [Hosts -> Processes \union {NoProcess}]
      BY <2>1, <3>0 DEF ClosePort
    <3> QED
      BY <3>1, <3>2, <3>3
  <2>2. CASE UNCHANGED port /\ proc[p].pc \notin {"unhooked", "serving"}
    BY <2>2 DEF IInv, TypeOK
  <2> QED
    BY <2>1, <2>2
<1>4. KeepsCalls(p, pc)
  <2>1. /\ calls \in [Calls -> Processes \union {NoProcess}] /\ p # NoProcess
        /\ \A c \in Calls : calls[c] = p => proc[p].pc \in Serves
    BY StartupAssumption DEF IInv, TypeOK, CallsServed
  <2> QED
    BY <2>1 DEF KeepsCalls, Cut
<1> QED
  BY <1>1, <1>2, <1>3, <1>4, LocalStep

LEMMA FaultCounted == ASSUME IInv, NEW f, Fault(f) PROVE faults' \in 0..MaxFaults
BY StartupAssumption DEF Fault, IInv, TypeOK

(* A process that goes on to another point, with its other fields as they  *)
(* are.                                                                    *)
LEMMA GoStep ==
    ASSUME IInv, NEW p \in Processes,
           NEW pc \in {"table", "create", "check", "apply", "redis", "listen", "unhooked",
                       "serving", "draining", "exited"},
           Go(p, pc), UNCHANGED <<applied, runs>>,
           table' \in BOOLEAN, faults' \in 0..MaxFaults,
           KeepsCalls(p, pc),
           port' \in [Hosts -> Processes \union {NoProcess}],
           port'[Host[p]] = p <=> pc \in {"unhooked", "serving"},
           \A q \in Processes \ {p} : port'[Host[q]] = q <=> port[Host[q]] = q,
           ProcInv(p)'
    PROVE  IInv'
<1> DEFINE r == [proc[p] EXCEPT !.pc = pc]
<1>1. r \in ProcType /\ r.pc = pc
  BY DEF IInv, TypeOK, ProcType
<1>2. proc' = [proc EXCEPT ![p] = r]
  BY DEF Go
<1> HIDE DEF r
<1> QED
  BY <1>1, <1>2, LocalStep

LEMMA CallsLeft ==
    ASSUME IInv, NEW p \in Processes, NEW pc, UNCHANGED calls,
           proc[p].pc \in Serves => pc \in Serves
    PROVE  KeepsCalls(p, pc)
BY DEF IInv, TypeOK, CallsServed, KeepsCalls

(* NewClient and Migrate, up to the transaction. *)
LEMMA BeforeTx ==
    ASSUME IInv, NEW p \in Processes,
           Start(p) \/ Ping(p) \/ LookForTable(p) \/ CreateTable(p) \/ StatementFails(p)
    PROVE  IInv'
<1>1. /\ proc \in [Processes -> ProcType] /\ ProcInv(p)
      /\ port[Host[p]] = p <=> proc[p].pc \in {"unhooked", "serving"}
      /\ table \in BOOLEAN /\ faults \in 0..MaxFaults
      /\ port \in [Hosts -> Processes \union {NoProcess}]
      /\ calls \in [Calls -> Processes \union {NoProcess}]
  BY DEF IInv, TypeOK, ProcType
<1>2. CASE Start(p)
  BY <1>1, <1>2, FreshStep DEF Start, db, Serves
<1>3. CASE StatementFails(p)
  BY <1>1, <1>3, FreshStep, FaultCounted DEF StatementFails, db, Fatal, Serves
<1>4. ASSUME NEW pc \in {"table", "create", "check"}, Go(p, pc),
             proc[p].pc \in {"ping", "table", "create"},
             UNCHANGED <<applied, runs, port, calls, faults>>, table' \in BOOLEAN,
             pc = "check" => proc[p].version = 1
      PROVE  IInv'
  <2>1. /\ proc'[p].pc = pc /\ proc'[p].tx = NoTx
        /\ proc'[p].version = proc[p].version /\ proc'[p].next = proc[p].next
    BY <1>1, <1>4 DEF Go, ProcInv, InTx, ProcType
  <2>3. proc[p].next = 1 /\ (pc = "create" => proc[p].version = 1)
        /\ (pc = "table" => proc[p].version = 1)
    BY <1>1, <1>4 DEF ProcInv
  <2>4. pc = "check" => 1..(proc'[p].version - 1) \subseteq applied'
    BY <1>4, <2>1
  <2>2. ProcInv(p)'
    BY <1>4, <2>1, <2>3, <2>4 DEF ProcInv, InTx, Migrated, Up
  <2>5. KeepsCalls(p, pc)
    BY <1>4, CallsLeft DEF Serves
  <2> QED
    BY <1>1, <1>4, <2>2, <2>5, GoStep
<1>5. CASE Ping(p)
  BY <1>1, <1>4, <1>5 DEF Ping, db
<1>6. CASE LookForTable(p)
  BY <1>1, <1>4, <1>6 DEF LookForTable, db, ProcInv
<1>7. CASE CreateTable(p)
  <2>1. CASE ~table /\ table' = TRUE /\ Go(p, "check")
    BY <1>1, <1>4, <1>7, <2>1 DEF CreateTable, ProcInv
  <2>2. CASE table /\ Fatal(p) /\ UNCHANGED table
    BY <1>1, <1>7, <2>2, FreshStep DEF CreateTable, Fatal, Serves
  <2> QED
    BY <1>7, <2>1, <2>2 DEF CreateTable
<1> QED
  BY <1>2, <1>3, <1>5, <1>6, <1>7

(* The transaction of a version, up to its commit. *)
LEMMA TxSteps ==
    ASSUME IInv, NEW p \in Processes, Check(p) \/ Exec(p) \/ Record(p)
    PROVE  IInv'
<1> DEFINE r == proc[p]
           v == proc[p].version
<1>1. /\ proc \in [Processes -> ProcType] /\ ProcInv(p) /\ r \in ProcType
      /\ port[Host[p]] = p <=> proc[p].pc \in {"unhooked", "serving"}
      /\ table \in BOOLEAN /\ faults \in 0..MaxFaults /\ applied \subseteq 1..Versions
      /\ port \in [Hosts -> Processes \union {NoProcess}]
      /\ calls \in [Calls -> Processes \union {NoProcess}]
  BY DEF IInv, TypeOK, ProcType
<1>2. v \in Int /\ Versions \in Nat /\ r.next \in Nat /\ v >= 1
  BY <1>1, StartupAssumption DEF ProcType
<1>3. UNCHANGED <<table, applied, runs, port, calls, faults>>
  BY DEF Check, Exec, Record, db
<1>4. ASSUME NEW s \in ProcType, proc' = [proc EXCEPT ![p] = s],
             r.pc \in {"check", "apply"}, s.pc \in {"check", "apply", "commit", "redis"},
             ProcInv(p)',
             s.pc = "commit" => \A q \in Processes \ {p} :
                 proc[q].pc = "commit" => proc[q].version # s.version
      PROVE  IInv'
  <2>1. KeepsCalls(p, s.pc)
    BY <1>3, <1>4, CallsLeft DEF Serves
  <2> QED
    BY <1>1, <1>3, <1>4, <2>1, LocalStep
<1>5. CASE Check(p)
  <2>1. CASE v > Versions /\ Go(p, "redis")
    <3> DEFINE s == [r EXCEPT !.pc = "redis"]
    <3>1. s \in ProcType /\ proc' = [proc EXCEPT ![p] = s] /\ s.pc = "redis"
      BY <1>1, <2>1 DEF Go, ProcType
    <3>2. proc'[p] = s /\ s.version = v /\ s.tx = r.tx
      BY <1>1, <3>1 DEF ProcType
    <3>3. ProcInv(p)'
      BY <1>1, <1>3, <1>5, <2>1, <3>1, <3>2 DEF Check, ProcInv, InTx, Migrated, Up
    <3> HIDE DEF s
    <3> QED
      BY <1>4, <1>5, <3>1, <3>3 DEF Check
  <2>2. CASE v <= Versions /\ v \in applied /\ NextVersion(p)
    <3> DEFINE s == [r EXCEPT !.pc = "check", !.version = v + 1, !.next = 1, !.tx = NoTx]
    <3>0. v + 1 \in 1..(Versions + 1) /\ NoTx \in [done: SUBSET Statement, recorded: BOOLEAN]
      BY <1>2, <2>2 DEF NoTx
    <3>1. s \in ProcType /\ s.pc = "check" /\ s.version = v + 1 /\ s.tx = NoTx /\ s.next = 1
      BY <1>1, <3>0 DEF ProcType
    <3>2. proc' = [proc EXCEPT ![p] = s] /\ proc'[p] = s
      BY <1>1, <2>2 DEF NextVersion
    <3>3. 1..v \subseteq applied
      BY <2>2 DEF IInv, MigratedWhole
    <3>5. (v + 1) - 1 = v /\ applied' = applied
      BY <1>2, <1>3
    <3> HIDE DEF s
    <3>4. ProcInv(p)'
      BY <3>1, <3>2, <3>3, <3>5 DEF ProcInv, InTx, Migrated, Up
    <3> QED
      BY <1>4, <1>5, <3>1, <3>2, <3>4 DEF Check
  <2>3. CASE v <= Versions /\ v \notin applied /\ Go(p, "apply")
    <3> DEFINE s == [r EXCEPT !.pc = "apply"]
    <3>1. s \in ProcType /\ proc' = [proc EXCEPT ![p] = s] /\ s.pc = "apply"
      BY <1>1, <2>3 DEF Go, ProcType
    <3>2. proc'[p] = s /\ s.version = v /\ s.tx = r.tx /\ s.next = r.next
      BY <1>1, <3>1 DEF ProcType
    <3>3. r.tx = NoTx /\ r.next = 1 /\ 1..(v - 1) \subseteq applied
      BY <1>1, <1>5 DEF ProcInv, Check, InTx
    <3>4. Statements[v] \in Nat
      BY <1>2, <2>3, StartupAssumption
    <3> HIDE DEF s
    <3>6. ASSUME NEW x \in Statement
          PROVE  x \in s.tx.done <=> (x[1] = s.version /\ x[2] \in 1..(s.next - 1))
      <4>1. s.tx.done = {} /\ s.next - 1 = 0 /\ 1..0 = {}
        BY <3>2, <3>3 DEF NoTx
      <4> QED
        BY <4>1
    <3>7. s.next \in 1..(Statements[s.version] + 1) /\ s.version <= Versions
      BY <2>3, <3>2, <3>3, <3>4
    <3>5. ProcInv(p)'
      BY <1>3, <3>1, <3>2, <3>3, <3>6, <3>7 DEF ProcInv, InTx, Migrated, Up
    <3> QED
      BY <1>4, <1>5, <3>1, <3>5 DEF Check
  <2> QED
    BY <1>5, <2>1, <2>2, <2>3 DEF Check
<1>6. CASE Fatal(p) /\ r.pc = "apply"
  BY <1>1, <1>3, <1>6, FreshStep DEF Fatal, Serves
<1>7. CASE Exec(p) /\ ~Fatal(p)
  <2> DEFINE c == Current(p)
             s == [r EXCEPT !.next = r.next + 1, !.tx.done = @ \union {c}]
  <2>1. /\ r.pc = "apply" /\ r.next <= Statements[v]
        /\ v <= Versions /\ 1..(v - 1) \subseteq applied
        /\ r.next \in 1..(Statements[v] + 1)
        /\ \A x \in Statement : x \in r.tx.done <=> (x[1] = v /\ x[2] \in 1..(r.next - 1))
    BY <1>1, <1>7 DEF Exec, ProcInv, InTx
  <2>2. c = <<v, r.next>> /\ c \in Statement /\ Statements[v] \in Nat
    BY <1>2, <2>1, StartupAssumption DEF Current, Statement
  <2>3. s \in ProcType /\ s.pc = "apply" /\ s.version = v /\ s.next = r.next + 1
        /\ s.tx.done = r.tx.done \union {c}
    <3>1. r.tx \in [done: SUBSET Statement, recorded: BOOLEAN] /\ r.next + 1 \in Nat
      BY <1>1, <1>2 DEF ProcType
    <3> DEFINE t == [r.tx EXCEPT !.done = @ \union {c}]
    <3>2. t \in [done: SUBSET Statement, recorded: BOOLEAN] /\ t.done = r.tx.done \union {c}
      BY <2>2, <3>1
    <3>3. s = [r EXCEPT !.next = r.next + 1, !.tx = t]
      BY <1>1 DEF ProcType
    <3> HIDE DEF t, s, c
    <3> QED
      BY <1>1, <2>1, <3>1, <3>2, <3>3 DEF ProcType
  <2>4. proc' = [proc EXCEPT ![p] = s] /\ proc'[p] = s
    BY <1>1, <1>7 DEF Exec
  <2>5. ASSUME NEW x \in Statement
        PROVE  x \in s.tx.done <=> (x[1] = v /\ x[2] \in 1..(s.next - 1))
    <3>1. x[1] \in Int /\ x[2] \in Int /\ x = <<x[1], x[2]>>
      BY StartupAssumption DEF Statement
    <3>2. x = c <=> (x[1] = v /\ x[2] = r.next)
      BY <2>2, <3>1
    <3>3. x[2] \in 1..(s.next - 1) <=> (x[2] \in 1..(r.next - 1) \/ x[2] = r.next)
      BY <1>2, <2>1, <2>3, <3>1
    <3> QED
      BY <2>1, <2>3, <3>2, <3>3
  <2>6. ProcInv(p)'
    BY <1>2, <1>3, <2>1, <2>2, <2>3, <2>4, <2>5 DEF ProcInv, InTx, Migrated, Up
  <2> HIDE DEF s
  <2> QED
    BY <1>4, <2>1, <2>3, <2>4, <2>6
<1>8. CASE Record(p) /\ ~Fatal(p)
  <2> DEFINE s == [r EXCEPT !.pc = "commit", !.tx.recorded = TRUE]
  <2>1. /\ r.pc = "apply" /\ r.next > Statements[v] /\ v \notin applied
        /\ \A q \in Others(p) : ~(proc[q].version = v /\ proc[q].tx.recorded)
        /\ v <= Versions /\ 1..(v - 1) \subseteq applied
        /\ r.next \in 1..(Statements[v] + 1)
        /\ \A x \in Statement : x \in r.tx.done <=> (x[1] = v /\ x[2] \in 1..(r.next - 1))
    BY <1>1, <1>8 DEF Record, ProcInv, InTx
  <2>2. Statements[v] \in Nat
    BY <1>2, <2>1, StartupAssumption
  <2>3. s \in ProcType /\ s.pc = "commit" /\ s.version = v /\ s.next = r.next
        /\ s.tx.done = r.tx.done /\ s.tx.recorded
    BY <1>1 DEF ProcType
  <2>4. proc' = [proc EXCEPT ![p] = s] /\ proc'[p] = s
    BY <1>1, <1>8 DEF Record
  <2>5. ProcInv(p)'
    BY <1>2, <1>3, <2>1, <2>2, <2>3, <2>4 DEF ProcInv, InTx, Migrated, Up
  <2>6. ASSUME NEW q \in Processes \ {p}, proc[q].pc = "commit"
        PROVE  proc[q].version # v
    BY <2>1, <2>6 DEF Others, IInv, ProcInv
  <2> HIDE DEF s
  <2> QED
    BY <1>4, <2>1, <2>3, <2>4, <2>5, <2>6
<1> QED
  BY <1>5, <1>6, <1>7, <1>8 DEF Exec, Record

(* The commit: the statements of the transaction take effect, each for the *)
(* first time.                                                             *)
LEMMA CommitStep ==
    ASSUME IInv, NEW p \in Processes, Commit(p)
    PROVE  IInv'
<1> DEFINE v == proc[p].version
<1>1. /\ proc \in [Processes -> ProcType] /\ ProcInv(p) /\ proc[p] \in ProcType
      /\ runs \in [Statement -> Nat] /\ applied \subseteq 1..Versions
      /\ table \in BOOLEAN /\ faults \in 0..MaxFaults
  BY DEF IInv, TypeOK, ProcType
<1>2. /\ proc[p].pc = "commit" /\ v \in 1..Versions /\ v \notin applied
      /\ 1..(v - 1) \subseteq applied
      /\ \A s \in Statement : s \in proc[p].tx.done <=> s[1] = v
  <2>1. /\ proc[p].pc = "commit" /\ v <= Versions /\ v \notin applied
        /\ 1..(v - 1) \subseteq applied /\ proc[p].next = Statements[v] + 1
        /\ \A s \in Statement :
              s \in proc[p].tx.done <=> (s[1] = v /\ s[2] \in 1..(proc[p].next - 1))
    BY <1>1 DEF Commit, ProcInv, InTx
  <2>2. v \in 1..Versions /\ Statements[v] \in Nat
    BY <1>1, <2>1, StartupAssumption DEF ProcType
  <2>3. proc[p].next - 1 = Statements[v]
    BY <2>1, <2>2
  <2> QED
    BY <2>1, <2>2, <2>3, StatementTyped
<1>3. /\ applied' = applied \union {v}
      /\ runs' = [s \in Statement |-> IF s[1] = v THEN runs[s] + 1 ELSE runs[s]]
      /\ UNCHANGED <<table, port, calls>> /\ faults' \in 0..MaxFaults
  BY <1>1, <1>2, FaultCounted DEF Commit, TakesEffect
<1>4. /\ proc'[p] \in ProcType /\ proc'[p].pc \in {"check", "failed"}
      /\ proc'[p].tx = NoTx
      /\ proc'[p].pc = "check" => proc'[p].version = v + 1 /\ proc'[p].next = 1
      /\ \A q \in Processes \ {p} : proc'[q] = proc[q]
      /\ proc' \in [Processes -> ProcType]
  <2>1. CASE NextVersion(p)
    <3> DEFINE s == [proc[p] EXCEPT !.pc = "check", !.version = v + 1, !.next = 1, !.tx = NoTx]
    <3>0. v + 1 \in 1..(Versions + 1) /\ NoTx \in [done: SUBSET Statement, recorded: BOOLEAN]
      BY <1>2, StartupAssumption DEF NoTx
    <3>1. s \in ProcType /\ s.pc = "check" /\ s.tx = NoTx /\ s.version = v + 1 /\ s.next = 1
      BY <1>1, <3>0 DEF ProcType
    <3>2. proc' = [proc EXCEPT ![p] = s]
      BY <2>1 DEF NextVersion
    <3> HIDE DEF s
    <3> QED
      BY <1>1, <3>1, <3>2
  <2>2. CASE Fatal(p)
    <3>1. Fresh("failed") \in ProcType /\ Fresh("failed").pc = "failed"
          /\ Fresh("failed").tx = NoTx
      BY FreshTyped DEF Fresh
    <3> QED
      BY <1>1, <2>2, <3>1 DEF Fatal
  <2> QED
    BY <2>1, <2>2 DEF Commit
<1>5. TypeOK'
  <2>0. \A s \in Statement : (IF s[1] = v THEN runs[s] + 1 ELSE runs[s]) \in Nat
    BY <1>1
  <2>1. runs' \in [Statement -> Nat] /\ applied' \subseteq 1..Versions
    BY <1>1, <1>2, <1>3, <2>0
  <2>2. \A q \in Processes :
          /\ port'[Host[q]] = q <=> proc'[q].pc \in {"unhooked", "serving"}
          /\ proc'[q].tx # NoTx => proc'[q].pc \in {"apply", "commit"}
    BY <1>2, <1>3, <1>4 DEF IInv, TypeOK
  <2> QED
    BY <1>1, <1>3, <1>4, <2>1, <2>2 DEF IInv, TypeOK, ProcType
<1>6. MigratedWhole'
  <2>1. ASSUME NEW s \in Statement
        PROVE  runs'[s] = (IF s[1] \in applied' THEN 1 ELSE 0)
    BY <1>1, <1>2, <1>3 DEF IInv, MigratedWhole
  <2>2. ASSUME NEW w \in applied' PROVE 1..w \subseteq applied'
    <3>1. CASE w = v
      <4>1. 1..v = 1..(v - 1) \union {v}
        BY <1>2, StartupAssumption
      <4> QED
        BY <1>2, <1>3, <3>1, <4>1
    <3>2. CASE w # v
      BY <1>3, <2>2, <3>2 DEF IInv, MigratedWhole
    <3> QED
      BY <3>1, <3>2
  <2> QED
    BY <2>1, <2>2 DEF MigratedWhole
<1>7. OneRecords'
  BY <1>4 DEF IInv, OneRecords
<1>8. ASSUME NEW q \in Processes PROVE ProcInv(q)'
  <2>1. CASE q = p
    <3>1. 1..v \subseteq applied' /\ (v + 1) - 1 = v
      BY <1>2, <1>3, <1>6 DEF MigratedWhole
    <3> QED
      BY <1>4, <2>1, <3>1 DEF ProcInv, InTx, Migrated, Up
  <2>2. CASE q # p
    <3>1. ProcInv(q) /\ proc'[q] = proc[q] /\ applied \subseteq applied'
      BY <1>3, <1>4, <2>2 DEF IInv
    <3>2. proc[q].pc = "commit" => proc[q].version \notin applied'
      BY <1>2, <1>3, <2>2, <3>1 DEF IInv, OneRecords, ProcInv
    <3> QED
      BY <3>1, <3>2 DEF ProcInv
  <2> QED
    BY <2>1, <2>2
<1>9. CallsServed'
  <2>1. \A q \in Processes : proc[q].pc \in Serves => proc'[q].pc \in Serves
    BY <1>2, <1>4 DEF Serves
  <2> QED
    BY <1>3, <2>1 DEF IInv, TypeOK, CallsServed
<1> QED
  BY <1>5, <1>6, <1>7, <1>8, <1>9 DEF IInv

(* Redis, the port, the signal and the end of a process. *)
LEMMA MainSteps ==
    ASSUME IInv, NEW p \in Processes,
           \/ RedisPing(p) \/ Listen(p) \/ Notify(p) \/ Die(p) \/ Signal(p)
           \/ CloseDrained(p) \/ CloseTimedOut(p)
    PROVE  IInv'
<1>1. /\ proc \in [Processes -> ProcType] /\ ProcInv(p) /\ proc[p] \in ProcType
      /\ port[Host[p]] = p <=> proc[p].pc \in {"unhooked", "serving"}
      /\ table \in BOOLEAN /\ faults \in 0..MaxFaults
      /\ port \in [Hosts -> Processes \union {NoProcess}]
      /\ calls \in [Calls -> Processes \union {NoProcess}]
      /\ \A q \in Processes : Host[q] \in Hosts
  BY StartupAssumption DEF IInv, TypeOK, ProcType
<1>2. /\ UNCHANGED <<table, applied, runs>> /\ faults' \in 0..MaxFaults
  BY <1>1, FaultCounted
     DEF RedisPing, Listen, Notify, Die, Signal, CloseDrained, CloseTimedOut, db
<1>3. ASSUME NEW pc, UNCHANGED calls, proc[p].pc \in Serves => pc \in Serves
      PROVE  KeepsCalls(p, pc)
  BY <1>3, CallsLeft
<1>4. ASSUME ClosePort(p)
      PROVE  /\ port' \in [Hosts -> Processes \union {NoProcess}]
             /\ port'[Host[p]] # p
             /\ \A q \in Processes \ {p} : port'[Host[q]] = q <=> port[Host[q]] = q
  BY <1>1, <1>4, StartupAssumption DEF ClosePort
<1>5. ASSUME NEW pc \in {"listen", "unhooked", "serving", "draining", "exited"}, Go(p, pc),
             proc[p].pc \in Migrated, pc = "listen" => Local,
             pc # "listen" => proc[p].pc \in Up
      PROVE  ProcInv(p)'
  <2>1. /\ proc'[p].pc = pc /\ proc'[p].tx = proc[p].tx
        /\ proc'[p].version = proc[p].version /\ proc'[p].limited = proc[p].limited
    BY <1>1, <1>5 DEF Go, ProcType
  <2> QED
    BY <1>1, <1>2, <1>5, <2>1 DEF ProcInv, InTx, Migrated, Up
<1>6. CASE Fatal(p) /\ (ClosePort(p) \/ (UNCHANGED port /\ proc[p].pc \notin {"unhooked", "serving"}))
           /\ (Cut(p) \/ (UNCHANGED calls /\ proc[p].pc \notin Serves))
  BY <1>1, <1>2, <1>6, FreshStep DEF Fatal
<1>7. CASE RedisPing(p) /\ ~Fatal(p)
  <2>1. CASE proc' = [proc EXCEPT ![p].pc = "listen", ![p].limited = TRUE]
    <3> DEFINE s == [proc[p] EXCEPT !.pc = "listen", !.limited = TRUE]
    <3>1. /\ s \in ProcType /\ s.pc = "listen" /\ s.limited
          /\ s.version = proc[p].version /\ s.tx = proc[p].tx
      BY <1>1 DEF ProcType
    <3>2. proc' = [proc EXCEPT ![p] = s] /\ proc'[p] = s
      BY <1>1, <2>1
    <3>3. ProcInv(p)'
      BY <1>1, <1>2, <1>7, <3>1, <3>2 DEF RedisPing, ProcInv, InTx, Migrated, Up
    <3>4. KeepsCalls(p, s.pc)
      BY <1>3, <1>7 DEF RedisPing, Serves
    <3> HIDE DEF s
    <3> QED
      BY <1>1, <1>2, <1>7, <3>1, <3>2, <3>3, <3>4, LocalStep DEF RedisPing
  <2>2. CASE Local /\ Go(p, "listen")
    <3>1. ProcInv(p)'
      BY <1>5, <1>7, <2>2 DEF RedisPing, Migrated
    <3>2. KeepsCalls(p, "listen")
      BY <1>3, <1>7 DEF RedisPing, Serves
    <3> QED
      BY <1>1, <1>2, <1>7, <2>2, <3>1, <3>2, GoStep DEF RedisPing
  <2> QED
    BY <1>7, <2>1, <2>2 DEF RedisPing
<1>8. CASE Listen(p) /\ port[Host[p]] = NoProcess
  <2>1. /\ port' = [port EXCEPT ![Host[p]] = p] /\ port[Host[p]] = NoProcess
        /\ Go(p, "unhooked") /\ proc[p].pc = "listen" /\ UNCHANGED calls
    BY <1>8 DEF Listen
  <2>2. /\ port' \in [Hosts -> Processes \union {NoProcess}] /\ port'[Host[p]] = p
        /\ \A q \in Processes \ {p} : port'[Host[q]] = q <=> port[Host[q]] = q
    BY <1>1, <2>1, StartupAssumption
  <2>3. ProcInv(p)'
    BY <1>5, <2>1 DEF Migrated, Up
  <2>4. KeepsCalls(p, "unhooked")
    BY <1>3, <2>1 DEF Serves
  <2> QED
    BY <1>1, <1>2, <2>1, <2>2, <2>3, <2>4, GoStep
<1>9. CASE Notify(p)
  <2>1. ProcInv(p)'
    BY <1>5, <1>9 DEF Notify, Migrated, Up
  <2>2. KeepsCalls(p, "serving")
    BY <1>3, <1>9 DEF Notify, Serves
  <2> QED
    BY <1>1, <1>2, <1>9, <2>1, <2>2, GoStep DEF Notify
<1>10. CASE Signal(p)
  <2>1. ProcInv(p)'
    BY <1>5, <1>10 DEF Signal, Migrated, Up
  <2>2. KeepsCalls(p, "draining")
    BY <1>3, <1>10 DEF Signal, Serves
  <2> QED
    BY <1>1, <1>2, <1>4, <1>10, <2>1, <2>2, GoStep DEF Signal
<1>11. CASE CloseDrained(p) \/ CloseTimedOut(p)
  <2>1. Go(p, "exited") /\ proc[p].pc = "draining" /\ UNCHANGED port
    BY <1>11 DEF CloseDrained, CloseTimedOut
  <2>2. ProcInv(p)'
    BY <1>5, <2>1 DEF Migrated, Up
  <2>3. KeepsCalls(p, "exited")
    <3>1. calls \in [Calls -> Processes \union {NoProcess}] /\ p # NoProcess
      BY StartupAssumption DEF IInv, TypeOK
    <3>2. \A c \in Calls : calls'[c] # p /\ calls'[c] \in {calls[c], NoProcess}
      BY <1>11, <3>1 DEF CloseDrained, CloseTimedOut, Cut, Running
    <3>3. calls' \in [Calls -> Processes \union {NoProcess}]
      BY <1>11, <3>1 DEF CloseDrained, CloseTimedOut, Cut
    <3> QED
      BY <3>2, <3>3 DEF KeepsCalls
  <2> QED
    BY <1>1, <1>2, <2>1, <2>2, <2>3, GoStep
<1>12. CASE Die(p)
  BY <1>6, <1>12 DEF Die
<1>13. CASE RedisPing(p) /\ Fatal(p)
  BY <1>6, <1>13 DEF RedisPing, Serves
<1>14. CASE Listen(p) /\ port[Host[p]] # NoProcess
  BY <1>6, <1>14 DEF Listen, Serves
<1> QED
  BY <1>7, <1>8, <1>9, <1>10, <1>11, <1>12, <1>13, <1>14

(* Calls come and go. *)
LEMMA CallSteps ==
    ASSUME IInv, NEW c \in Calls,
           Finish(c) \/ \E p \in Processes : Accept(c, p)
    PROVE  IInv'
<1>1. UNCHANGED <<proc, table, applied, runs, port, faults>>
  BY DEF Finish, Accept, db
<1>2. /\ calls' \in [Calls -> Processes \union {NoProcess}]
      /\ CallsServed'
  <2>1. CASE Finish(c)
    BY <1>1, <2>1 DEF Finish, IInv, TypeOK, CallsServed
  <2>2. ASSUME NEW p \in Processes, Accept(c, p)
        PROVE  calls' \in [Calls -> Processes \union {NoProcess}] /\ CallsServed'
    <3>1. proc[p].pc \in Serves
      BY <2>2 DEF Accept, IInv, TypeOK, Serves
    <3> QED
      BY <1>1, <2>2, <3>1 DEF Accept, IInv, TypeOK, CallsServed
  <2> QED
    BY <2>1, <2>2
<1>3. TypeOK' /\ MigratedWhole' /\ OneRecords'
  BY <1>1, <1>2 DEF IInv, TypeOK, MigratedWhole, OneRecords
<1>4. \A q \in Processes : ProcInv(q)'
  BY <1>1 DEF IInv, ProcInv
<1> QED
  BY <1>2, <1>3, <1>4 DEF IInv

LEMMA StepIInv == IInv /\ [Next]_vars => IInv'
<1> SUFFICES ASSUME IInv, [Next]_vars PROVE IInv'
  OBVIOUS
<1>1. CASE UNCHANGED vars
  <2>1. TypeOK' /\ MigratedWhole' /\ OneRecords' /\ CallsServed'
    BY <1>1 DEF vars, db, IInv, TypeOK, MigratedWhole, OneRecords, CallsServed
  <2>2. \A q \in Processes : ProcInv(q)'
    BY <1>1 DEF vars, db, IInv, ProcInv
  <2> QED
    BY <2>1, <2>2 DEF IInv
<1> QED
  BY <1>1, BeforeTx, TxSteps, CommitStep, MainSteps, CallSteps
     DEF Next, MigrateStep, MainStep

THEOREM Invariance == Spec => []IInv
  BY InitIInv, StepIInv, PTL DEF Spec

(* Processes, tables, ports and calls have their types, a process holds    *)
(* its port exactly while it takes calls (NewDependencies, main).          *)
THEOREM TypeCorrect == Spec => []TypeOK
<1>1. IInv => TypeOK
  BY DEF IInv
<1> QED
  BY <1>1, Invariance, PTL

(* However many processes migrate at once and wherever they fail, every    *)
(* version is applied as a whole, once, and in order (Migrate).            *)
THEOREM Whole == Spec => []MigratedWhole
<1>1. IInv => MigratedWhole
  BY DEF IInv
<1> QED
  BY <1>1, Invariance, PTL

(* Calls are taken and run only with the whole schema in place, outside    *)
(* local with a rate limiter, and before the pool is closed                *)
(* (NewDependencies, setupRPCServer, main).                                *)
THEOREM Ready == Spec => []ServesReady
<1>1. IInv => ServesReady
  <2> SUFFICES ASSUME IInv, NEW p \in Processes, port[Host[p]] = p \/ Running(p) # {}
               PROVE  /\ proc[p].pc \in {"unhooked", "serving", "draining"}
                      /\ applied = 1..Versions /\ (proc[p].limited \/ Local)
    BY DEF ServesReady
  <2>1. proc[p].pc \in Serves
    <3>1. CASE port[Host[p]] = p
      BY <3>1 DEF IInv, TypeOK, Serves
    <3>2. CASE Running(p) # {}
      <4>1. PICK c \in Calls : calls[c] = p
        BY <3>2 DEF Running
      <4> QED
        BY <4>1, StartupAssumption DEF IInv, CallsServed
    <3> QED
      BY <3>1, <3>2
  <2>2. proc[p].version \in 1..(Versions + 1) /\ applied \subseteq 1..Versions
    BY DEF IInv, TypeOK
  <2>3. /\ 1..(proc[p].version - 1) \subseteq applied /\ proc[p].version > Versions
        /\ proc[p].limited \/ Local
    BY <2>1 DEF IInv, ProcInv, Migrated, Up, Serves
  <2>4. proc[p].version - 1 = Versions
    <3>1. Versions \in Int /\ proc[p].version \in Int /\ proc[p].version <= Versions + 1
      BY <2>2, StartupAssumption
    <3> QED
      BY <2>3, <3>1
  <2> QED
    BY <2>1, <2>2, <2>3, <2>4 DEF Serves
<1> QED
  BY <1>1, Invariance, PTL
=============================================================================
