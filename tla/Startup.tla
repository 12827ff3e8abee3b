------------------------------ MODULE Startup -------------------------------
(***************************************************************************)
(* From start to stop of the servers of one database: NewClient, Migrate,  *)
(* the Redis of the rate limiter, the listener, the calls that are served  *)
(* and the shutdown that drains them.  Several processes start at once, on *)
(* one host or on different ones, fail, die and are started again.         *)
(*                                                                         *)
(* Names that a transaction creates are locked until it ends; who creates  *)
(* the same one waits, and fails when it is there.                         *)
(***************************************************************************)
EXTENDS Integers, FiniteSets

CONSTANTS
    Processes, Hosts, Host,   \* Host[p]: where p runs
    Versions,        \* number of embedded migrations
    Statements,      \* Statements[v]: number of statements of migration v
    Creates,         \* the statements <<v, i>> that create a name
    Local,           \* the environment is local
    Calls,           \* clients: each sends one call after the other
    Faults,          \* subset of {"db", "redis", "crash", "signal", "timeout"}
    MaxFaults,       \* bound of their number
    NoProcess

ASSUME StartupAssumption ==
    /\ Host \in [Processes -> Hosts] /\ NoProcess \notin Processes
    /\ Versions \in Nat /\ Statements \in [1..Versions -> Nat]
    /\ Local \in BOOLEAN /\ MaxFaults \in Nat
    /\ Faults \subseteq {"db", "redis", "crash", "signal", "timeout"}

Statement == UNION {{v} \X (1..Statements[v]) : v \in 1..Versions}

VARIABLES
    proc,      \* the processes
    table,     \* table schema_migrations exists
    applied,   \* its rows
    runs,      \* how often each statement took effect
    port,      \* the process that listens on the port of each host
    calls,     \* the process that runs the call of each client
    faults     \* number of faults so far

vars == <<proc, table, applied, runs, port, calls, faults>>
db == <<table, applied, runs>>

NoTx == [done |-> {}, recorded |-> FALSE]
Fresh(pc) == [pc |-> pc, version |-> 1, next |-> 1, tx |-> NoTx, limited |-> FALSE]

Fault(f) == f \in Faults /\ faults < MaxFaults /\ faults' = faults + 1
Running(p) == {c \in Calls : calls[c] = p}

Go(p, pc) == proc' = [proc EXCEPT ![p].pc = pc]

(* log.Fatal: the process ends, its transaction is rolled back. *)
Fatal(p) == proc' = [proc EXCEPT ![p] = Fresh("failed")]

-----------------------------------------------------------------------------
(* NewClient and Migrate *)

Start(p) ==
    /\ proc[p].pc \in {"off", "failed", "exited"}
    /\ proc' = [proc EXCEPT ![p] = Fresh("ping")]
    /\ UNCHANGED <<db, port, calls, faults>>

Ping(p) ==
    /\ proc[p].pc = "ping"
    /\ Go(p, "table")
    /\ UNCHANGED <<db, port, calls, faults>>

(* Fault for mutation: CREATE TABLE without IF NOT EXISTS. *)
LookNowhere(p) ==
    /\ proc[p].pc = "table"
    /\ Go(p, "create")
    /\ UNCHANGED <<db, port, calls, faults>>

(* CREATE TABLE IF NOT EXISTS looks first, *)
LookForTable(p) ==
    /\ proc[p].pc = "table"
    /\ Go(p, IF table THEN "check" ELSE "create")
    /\ UNCHANGED <<db, port, calls, faults>>

(* and fails when the table has come into being since. *)
CreateTable(p) ==
    /\ proc[p].pc = "create"
    /\ \/ ~table /\ table' = TRUE /\ Go(p, "check")
       \/ table /\ Fatal(p) /\ UNCHANGED table
    /\ UNCHANGED <<applied, runs, port, calls, faults>>

NextVersion(p) ==
    proc' = [proc EXCEPT ![p].pc = "check", ![p].version = @ + 1, ![p].next = 1, ![p].tx = NoTx]

(* The next version that is not recorded, in order. *)
Check(p) ==
    /\ proc[p].pc = "check"
    /\ LET v == proc[p].version
       IN  \/ v > Versions /\ Go(p, "redis")
           \/ v <= Versions /\ v \in applied /\ NextVersion(p)
           \/ v <= Versions /\ v \notin applied /\ Go(p, "apply")
    /\ UNCHANGED <<db, port, calls, faults>>

Others(p) == {q \in Processes \ {p} : proc[q].pc \in {"apply", "commit"}}

Current(p) == <<proc[p].version, proc[p].next>>

(* Fault for mutation: statements are not in a transaction. *)
ExecDirectly(p) ==
    /\ proc[p].pc = "apply"
    /\ proc[p].next <= Statements[proc[p].version]
    /\ LET s == Current(p)
       IN  \/ /\ s \in Creates /\ runs[s] > 0
              /\ Fatal(p) /\ UNCHANGED runs
           \/ /\ s \notin Creates \/ runs[s] = 0
              /\ runs' = [runs EXCEPT ![s] = @ + 1]
              /\ proc' = [proc EXCEPT ![p].next = @ + 1]
    /\ UNCHANGED <<table, applied, port, calls, faults>>

(* tx.ExecContext: waits for a name that another transaction creates. *)
Exec(p) ==
    /\ proc[p].pc = "apply"
    /\ proc[p].next <= Statements[proc[p].version]
    /\ LET s == Current(p)
       IN  \/ /\ s \in Creates /\ runs[s] > 0
              /\ Fatal(p)
           \/ /\ s \notin Creates \/ (runs[s] = 0 /\ \A q \in Others(p) : s \notin proc[q].tx.done)
              /\ proc' = [proc EXCEPT ![p].next = @ + 1, ![p].tx.done = @ \union {s}]
    /\ UNCHANGED <<db, port, calls, faults>>

(* INSERT INTO schema_migrations, whose key is the version. *)
Record(p) ==
    /\ proc[p].pc = "apply"
    /\ LET v == proc[p].version
       IN  /\ proc[p].next > Statements[v]
           /\ \A q \in Others(p) : ~(proc[q].version = v /\ proc[q].tx.recorded)
           /\ \/ v \in applied /\ Fatal(p)
              \/ /\ v \notin applied
                 /\ proc' = [proc EXCEPT ![p].pc = "commit", ![p].tx.recorded = TRUE]
    /\ UNCHANGED <<db, port, calls, faults>>

TakesEffect(p) ==
    /\ runs' = [s \in DOMAIN runs |-> IF s \in proc[p].tx.done THEN runs[s] + 1 ELSE runs[s]]
    /\ applied' = applied \union {proc[p].version}

(* tx.Commit; an error of it does not tell whether it took effect. *)
Commit(p) ==
    /\ proc[p].pc = "commit"
    /\ \/ TakesEffect(p) /\ NextVersion(p) /\ UNCHANGED faults
       \/ Fault("db") /\ TakesEffect(p) /\ Fatal(p)
    /\ UNCHANGED <<table, port, calls>>

(* Fault for mutation: a version that fails is passed over. *)
VersionPassedOver(p) ==
    /\ proc[p].pc = "apply"
    /\ Fault("db")
    /\ NextVersion(p)
    /\ UNCHANGED <<db, port, calls>>

(* Any statement, or the ping, may fail. *)
StatementFails(p) ==
    /\ proc[p].pc \in {"ping", "table", "create", "check", "apply", "commit"}
    /\ Fault("db")
    /\ Fatal(p)
    /\ UNCHANGED <<db, port, calls>>

-----------------------------------------------------------------------------
(* The rest of NewDependencies, setupRPCServer, main *)

RedisPing(p) ==
    /\ proc[p].pc = "redis"
    /\ \/ /\ proc' = [proc EXCEPT ![p].pc = "listen", ![p].limited = TRUE]
          /\ UNCHANGED faults
       \/ /\ Fault("redis")
          /\ IF Local THEN Go(p, "listen") ELSE Fatal(p)
    /\ UNCHANGED <<db, port, calls>>

(* Fault for mutation: the error of net.Listen is dropped. *)
ListenUnchecked(p) ==
    /\ proc[p].pc = "listen"
    /\ port' = [port EXCEPT ![Host[p]] = IF @ = NoProcess THEN p ELSE @]
    /\ Go(p, "unhooked")
    /\ UNCHANGED <<db, calls, faults>>

(* The port is bound and served before anybody waits for a signal. *)
Listen(p) ==
    /\ proc[p].pc = "listen"
    /\ \/ port[Host[p]] = NoProcess /\ port' = [port EXCEPT ![Host[p]] = p] /\ Go(p, "unhooked")
       \/ port[Host[p]] # NoProcess /\ Fatal(p) /\ UNCHANGED port
    /\ UNCHANGED <<db, calls, faults>>

Notify(p) ==
    /\ proc[p].pc = "unhooked"
    /\ Go(p, "serving")
    /\ UNCHANGED <<db, port, calls, faults>>

ClosePort(p) == port' = [h \in Hosts |-> IF port[h] = p THEN NoProcess ELSE port[h]]

Cut(p) == calls' = [c \in Calls |-> IF calls[c] = p THEN NoProcess ELSE calls[c]]

(* A process dies, or gets a signal that it does not wait for. *)
Die(p) ==
    /\ proc[p].pc \notin {"off", "failed", "exited"}
    /\ Fault("crash") \/ (Fault("signal") /\ proc[p].pc \notin {"serving", "draining"})
    /\ Fatal(p) /\ ClosePort(p) /\ Cut(p)
    /\ UNCHANGED db

(* Fault for mutation: the listener stays open until the calls are done. *)
SignalKeepsListening(p) ==
    /\ proc[p].pc = "serving"
    /\ Fault("signal")
    /\ Go(p, "draining")
    /\ UNCHANGED <<db, port, calls>>

(* SIGTERM: Shutdown closes the listener. *)
Signal(p) ==
    /\ proc[p].pc = "serving"
    /\ Fault("signal")
    /\ Go(p, "draining") /\ ClosePort(p)
    /\ UNCHANGED <<db, calls>>

(* deps.Close once the calls are done *)
CloseDrained(p) ==
    /\ proc[p].pc = "draining"
    /\ Running(p) = {}
    /\ Go(p, "exited")
    /\ UNCHANGED <<db, port, calls, faults>>

(* or the time of shutdownCtx is over. *)
CloseTimedOut(p) ==
    /\ proc[p].pc = "draining"
    /\ Fault("timeout")
    /\ Go(p, "exited") /\ Cut(p)
    /\ UNCHANGED <<db, port>>

Accept(c, p) ==
    /\ calls[c] = NoProcess
    /\ port[Host[p]] = p
    /\ calls' = [calls EXCEPT ![c] = p]
    /\ UNCHANGED <<proc, db, port, faults>>

Finish(c) ==
    /\ calls[c] # NoProcess
    /\ calls' = [calls EXCEPT ![c] = NoProcess]
    /\ UNCHANGED <<proc, db, port, faults>>

-----------------------------------------------------------------------------

Init ==
    /\ proc = [p \in Processes |-> Fresh("off")]
    /\ table = FALSE /\ applied = {}
    /\ runs = [s \in Statement |-> 0]
    /\ port = [h \in Hosts |-> NoProcess]
    /\ calls = [c \in Calls |-> NoProcess]
    /\ faults = 0

MigrateStep(p) ==
    LookForTable(p) \/ CreateTable(p) \/ Check(p) \/ Exec(p) \/ Record(p) \/ Commit(p)
MainStep(p) == Ping(p) \/ RedisPing(p) \/ Listen(p) \/ Notify(p) \/ CloseDrained(p)

Next ==
    \/ \E p \in Processes :
          \/ Start(p) \/ MigrateStep(p) \/ MainStep(p)
          \/ StatementFails(p) \/ Die(p) \/ Signal(p) \/ CloseTimedOut(p)
          \/ \E c \in Calls : Accept(c, p)
    \/ \E c \in Calls : Finish(c)

Spec == Init /\ [][Next]_vars

(* Processes run, calls end, and who is down is started again.             *)
Fairness ==
    /\ \A p \in Processes :
          WF_vars(Start(p)) /\ WF_vars(MigrateStep(p)) /\ WF_vars(MainStep(p))
    /\ \A c \in Calls : WF_vars(Finish(c))
FairSpec == Spec /\ Fairness

-----------------------------------------------------------------------------
(* Properties *)

TypeOK ==
    /\ proc \in [Processes ->
          [pc: {"off", "ping", "table", "create", "check", "apply", "commit", "redis", "listen",
                "unhooked", "serving", "draining", "exited", "failed"},
           version: 1..(Versions + 1), next: Nat,
           tx: [done: SUBSET Statement, recorded: BOOLEAN], limited: BOOLEAN]]
    /\ table \in BOOLEAN /\ applied \subseteq 1..Versions
    /\ runs \in [Statement -> Nat]
    /\ port \in [Hosts -> Processes \union {NoProcess}]
    /\ \A p \in Processes :
          /\ port[Host[p]] = p <=> proc[p].pc \in {"unhooked", "serving"}
          /\ proc[p].tx # NoTx => proc[p].pc \in {"apply", "commit"}
    /\ calls \in [Calls -> Processes \union {NoProcess}]
    /\ faults \in 0..MaxFaults

(* A version that is recorded has run to its end exactly once, one that is *)
(* not has left nothing, and none is recorded before the ones that come    *)
(* before it: however many processes found it missing, and wherever they   *)
(* failed or died (Migrate, "safe to run at every startup").               *)
MigratedWhole ==
    /\ \A s \in Statement : runs[s] = (IF s[1] \in applied THEN 1 ELSE 0)
    /\ \A v \in applied : 1..v \subseteq applied

(* Who takes calls, or still runs some, has the whole schema, outside      *)
(* local a rate limiter, and a pool that is not closed yet: however it     *)
(* came to serve, and however it was told to stop (NewDependencies, main,  *)
(* "before tearing down the DB pool they depend on").                      *)
ServesReady ==
    \A p \in Processes : port[Host[p]] = p \/ Running(p) # {} =>
        /\ proc[p].pc \in {"unhooked", "serving", "draining"}
        /\ applied = 1..Versions
        /\ proc[p].limited \/ Local

(* A drain ends, even if no time were set for it, although clients go on   *)
(* sending: who drains takes no more calls, so those it runs become fewer  *)
(* (main, "stop accepting new connections, let outstanding ledger writes   *)
(* finish, then close the pool").                                          *)
DrainEnds ==
    \A p \in Processes : proc[p].pc = "draining" ~> proc[p].pc # "draining"

(* Although a start that races another one for the schema or the port      *)
(* fails, every host comes to be served, and again after every fault       *)
(* (Migrate, setupRPCServer).                                              *)
HostsServed ==
    \A h \in Hosts : []<>(\E p \in Processes : Host[p] = h /\ proc[p].pc = "serving")
=============================================================================
