------------------------------ MODULE Gateway -------------------------------
(***************************************************************************)
(* The way of a request to its service: the IP limiter, the authorization  *)
(* middleware, the user limiter and the adaptor, in the order in which     *)
(* setupRPCServer mounts them.  Servers share the buckets of the limiters  *)
(* in Redis; one lock guards them all.  Token buckets and lock belong to   *)
(* libraries and are modelled from how the limiters use them.              *)
(***************************************************************************)
EXTENDS Integers, FiniteSets

CONSTANTS
    Servers,         \* processes of the server
    Requests,        \* requests of clients, each sent once
    Offers,          \* what a request may contain
    Faults,          \* subset of {"redis", "crash", "pause"}
    MaxTime,         \* bound of the clock
    authRateCapacity, authRateRefill, userRateCapacity, userRateRefill,
    NoMethod,        \* a body without a method that can be read
    NoToken, BadToken, \* no token, and one that does not validate
    NoHolder, NoCaller

ASSUME GatewayAssumption ==
    /\ Faults \subseteq {"redis", "crash", "pause"} /\ MaxTime \in Nat
    /\ authRateCapacity \in Nat \ {0} /\ authRateRefill \in Nat \ {0}
    /\ userRateCapacity \in Nat \ {0} /\ userRateRefill \in Nat \ {0}

Time == 0..MaxTime

-----------------------------------------------------------------------------
(* permissions.go and policy.go; records are maps from names. *)

RolePermissions ==
    [member |-> {"account:read:own", "account:write:own", "audit:read:own",
                 "transaction:read:own", "user:read:own", "wallet:transact:own",
                 "auth:logout"},
     admin  |-> {"account:read:all", "account:write:all", "audit:read:all",
                 "transaction:read:all", "user:read:all", "wallet:transact:all",
                 "wallet:batch:all", "auth:logout"}]

(* A token that validates was issued to a user, and users are stored with  *)
(* one of the two roles only (userRepositoryValidations.go:17).            *)
ASSUME TokenAssumption ==
    \A offer \in Offers :
        offer.token \in {NoToken, BadToken} \/ offer.token.role \in DOMAIN RolePermissions

(* The null values are no request and no caller. *)
ASSUME NullAssumption ==
    /\ NoHolder \notin Requests
    /\ \A offer \in Offers :
          /\ NoCaller # <<"ip", offer.ip>>
          /\ offer.token \notin {NoToken, BadToken} => NoCaller # <<"user", offer.token.user>>

public == {"Login", "Register"}

(* Fault for mutation: a balance is adjusted like a name. *)
byMethodLikeNames ==
    [ProcessTransaction |-> {"wallet:transact:all"},
     EarnPoints |-> {"wallet:transact:own", "wallet:transact:all"},
     ProcessTransactionBatch |-> {"wallet:batch:all"},
     UpdateAccountName |-> {"account:write:own", "account:write:all"},
     UpdateAccountBalance |-> {"account:write:own", "account:write:all"}]

byMethod ==
    [ProcessTransaction         |-> {"wallet:transact:all"},
     EarnPoints                 |-> {"wallet:transact:own", "wallet:transact:all"},
     SpendPoints                |-> {"wallet:transact:own", "wallet:transact:all"},
     ProcessTransactionBatch    |-> {"wallet:batch:all"},
     FetchMyAccounts            |-> {"account:read:own", "account:read:all"},
     GetAccountByID             |-> {"account:read:own", "account:read:all"},
     GetAccountBalance          |-> {"account:read:own", "account:read:all"},
     UpdateAccountName          |-> {"account:write:own", "account:write:all"},
     UpdateAccountBalance       |-> {"account:write:all"},
     OpenAccount                |-> {"account:write:own", "account:write:all"},
     Logout                     |-> {"auth:logout"},
     FetchTransactionAuditTrail |-> {"audit:read:own", "audit:read:all"}]

Authorize(permissions, method) ==
    method \in DOMAIN byMethod /\ byMethod[method] \cap permissions # {}

(* Adaptors that look at the role of the claim themselves. *)
adminOnly == {"ProcessTransactionBatch", "UpdateAccountBalance"}

(* setupRPCServer.go: what the IP limiter throttles. *)
publicAuthMethodsLoginOnly == {"Login"}    \* fault for mutation

publicAuthMethods == {"Login", "Register"}

-----------------------------------------------------------------------------

VARIABLES
    now,       \* the clock
    bucket,    \* Redis: state of the token buckets, by key
    lock,      \* Redis: the request that holds rate_limiter_lock
    reqs       \* the requests

vars == <<now, bucket, lock, reqs>>

Idle == [pc |-> "idle"]
Nothing == [last |-> 0, available |-> 0]
Started(q) == reqs[q].pc # "idle"
Critical == {"read", "write", "unlock"}

Capacity(limiter) == IF limiter = "ip" THEN authRateCapacity ELSE userRateCapacity
Refill(limiter) == IF limiter = "ip" THEN authRateRefill ELSE userRateRefill

TTLOfCapacity(limiter) == Capacity(limiter)     \* fault for mutation

TTL(limiter) == Refill(limiter) * Capacity(limiter)

(* Whom a limiter holds to account, and the bucket it uses for that. *)
Caller(r) ==
    IF r.limiter = "ip" THEN <<"ip", r.offer.ip>> ELSE <<"user", r.offer.token.user>>

(* Faults for mutation: one key for all callers, and one branch copied. *)
KeyOfLimiter(r) == <<r.limiter, "">>
KeyCopied(r) == IF r.limiter = "ip" THEN <<"ip", r.offer.ip>> ELSE <<"ip", r.offer.token.user>>

BucketKey(r) ==
    IF r.limiter = "ip" THEN <<"ip", r.offer.ip>> ELSE <<"user", r.offer.token.user>>

-----------------------------------------------------------------------------
(* A request reaches a server: the IP limiter reads its method.            *)

Arrive(q, s, offer) ==
    /\ reqs[q] = Idle
    /\ reqs' = [reqs EXCEPT ![q] =
         [pc |-> IF offer.method \in publicAuthMethods THEN "lock" ELSE "authorize",
          limiter |-> "ip", server |-> s, offer |-> offer,
          found |-> Nothing, at |-> 0, spent |-> NoCaller,
          answer |-> "none"]]
    /\ UNCHANGED <<now, bucket, lock>>

Answer(q, answer) == reqs' = [reqs EXCEPT ![q].pc = "answered", ![q].answer = answer]

(* The limiter lets the request pass. *)
Passed(q) ==
    reqs' = [reqs EXCEPT ![q].pc = IF reqs[q].limiter = "ip" THEN "authorize" ELSE "dispatch"]

-----------------------------------------------------------------------------
(* RateLimiter.Limit: lock, read and refill, take, unlock.                 *)

Lock(q) ==
    /\ reqs[q].pc = "lock"
    /\ lock = NoHolder
    /\ lock' = q
    /\ reqs' = [reqs EXCEPT ![q].pc = "read"]
    /\ UNCHANGED <<now, bucket>>

(* The tries are used up, or Redis does not answer. *)
LockFails(q) ==
    /\ reqs[q].pc = "lock"
    /\ lock # NoHolder \/ "redis" \in Faults
    /\ Answer(q, "internal")
    /\ UNCHANGED <<now, bucket, lock>>

Refilled(s, limiter) ==
    LET elapsed == now - s.last
        tokens  == elapsed \div Refill(limiter)
    IN  IF tokens = 0 THEN [last |-> s.last, available |-> s.available]
        ELSE IF tokens + s.available < Capacity(limiter)
        THEN [last |-> now - (elapsed % Refill(limiter)), available |-> tokens + s.available]
        ELSE [last |-> now, available |-> Capacity(limiter)]

(* A bucket whose state is not there, or not any more, is full. *)
ReadBucket(r) ==
    IF BucketKey(r) \in DOMAIN bucket /\ now < bucket[BucketKey(r)].expires
    THEN Refilled(bucket[BucketKey(r)], r.limiter)
    ELSE [last |-> now, available |-> Capacity(r.limiter)]

Read(q) ==
    /\ reqs[q].pc = "read"
    /\ LET b == ReadBucket(reqs[q])
       IN  \/ /\ b.available > 0
              /\ reqs' = [reqs EXCEPT ![q].pc = "write", ![q].found = b, ![q].at = now]
           \/ /\ b.available = 0
              /\ reqs' = [reqs EXCEPT ![q].pc = "unlock", ![q].answer = "rate_limited",
                                      ![q].at = now]
           \/ /\ "redis" \in Faults
              /\ reqs' = [reqs EXCEPT ![q].pc = "unlock", ![q].answer = "internal"]
    /\ UNCHANGED <<now, bucket, lock>>

Put(key, state) ==
    bucket' = [k \in DOMAIN bucket \union {key} |-> IF k = key THEN state ELSE bucket[k]]

(* A token is taken; with a fault it is not, or nobody learns that it is. *)
Write(q) ==
    /\ reqs[q].pc = "write"
    /\ LET r == reqs[q]
           spent == Put(BucketKey(r),
                        [last |-> r.found.last, available |-> r.found.available - 1,
                         expires |-> now + TTL(r.limiter)])
       IN  \/ /\ spent
              /\ \E answer \in {"none", "internal"} :
                    /\ answer = "none" \/ "redis" \in Faults
                    /\ reqs' = [reqs EXCEPT ![q].pc = "unlock", ![q].found = Nothing,
                                            ![q].spent = Caller(r), ![q].answer = answer]
           \/ /\ "redis" \in Faults
              /\ UNCHANGED bucket
              /\ reqs' = [reqs EXCEPT ![q].pc = "unlock", ![q].found = Nothing,
                                      ![q].answer = "internal"]
    /\ UNCHANGED <<now, lock>>

(* The requests of a process share one lock object, which remembers only   *)
(* the last of them that got the lock.                                     *)
Releases(q) == lock # NoHolder /\ reqs[lock].server = reqs[q].server

(* What becomes of a request whose unlock fails is left open. *)
Unlock(q) ==
    /\ reqs[q].pc = "unlock"
    /\ LET proceed == IF reqs[q].answer = "none" THEN Passed(q) ELSE Answer(q, reqs[q].answer)
       IN  \/ Releases(q) /\ lock' = NoHolder /\ proceed
           \/ /\ ~Releases(q) \/ "redis" \in Faults
              /\ proceed \/ Answer(q, "lost")
              /\ UNCHANGED lock
    /\ UNCHANGED <<now, bucket>>

KeepLock ==                                     \* fault for mutation
    /\ lock # NoHolder
    /\ reqs[lock].pc \notin Critical /\ reqs[lock].answer # "lost"
    /\ lock' = NoHolder
    /\ UNCHANGED <<now, bucket, reqs>>

(* A lock that nobody will release expires; also that of a holder who is   *)
(* slower than the lock lives.                                             *)
ExpireLock ==
    /\ lock # NoHolder
    /\ reqs[lock].pc \notin Critical \/ "pause" \in Faults
    /\ lock' = NoHolder
    /\ UNCHANGED <<now, bucket, reqs>>

-----------------------------------------------------------------------------
(* NewAuthorizationMiddleware; the user limiter behind it asks for a claim,*)
(* and there is one unless the method is public.                           *)

Gate(offer) ==
    IF offer.method = NoMethod THEN "parse"
    ELSE IF offer.method \in public THEN "dispatch"
    ELSE IF offer.token \in {NoToken, BadToken} THEN "unauthorized"
    ELSE IF ~Authorize(RolePermissions[offer.token.role], offer.method) THEN "forbidden"
    ELSE "lock"

Authorization(q) ==
    /\ reqs[q].pc = "authorize"
    /\ LET gate == Gate(reqs[q].offer)
       IN  IF gate \in {"dispatch", "lock"}
           THEN reqs' = [reqs EXCEPT ![q].pc = gate, ![q].limiter = "user"]
           ELSE Answer(q, gate)
    /\ UNCHANGED <<now, bucket, lock>>

(* The adaptor: its own look at the role, then the service. *)
Dispatch(q) ==
    /\ reqs[q].pc = "dispatch"
    /\ LET offer == reqs[q].offer
       IN  Answer(q, IF offer.method \in adminOnly /\ offer.token.role # "admin"
                     THEN "adaptor_forbidden" ELSE "served")
    /\ UNCHANGED <<now, bucket, lock>>

(* A process dies with its requests. *)
Crash(s) ==
    /\ "crash" \in Faults
    /\ \E q \in Requests : Started(q) /\ reqs[q].server = s /\ reqs[q].pc # "answered"
    /\ reqs' = [q \in Requests |->
         IF Started(q) /\ reqs[q].pc # "answered" /\ reqs[q].server = s
         THEN [reqs[q] EXCEPT !.pc = "answered", !.answer = "lost"]
         ELSE reqs[q]]
    /\ UNCHANGED <<now, bucket, lock>>

Tick ==
    /\ now < MaxTime
    /\ now' = now + 1
    /\ UNCHANGED <<bucket, lock, reqs>>

Finished ==
    /\ \A q \in Requests : reqs[q].pc = "answered"
    /\ UNCHANGED vars

-----------------------------------------------------------------------------

Init ==
    /\ now = 0
    /\ bucket = [k \in {} |-> 0]
    /\ lock = NoHolder
    /\ reqs = [q \in Requests |-> Idle]

RequestStep(q) ==
    \/ Lock(q) \/ LockFails(q) \/ Read(q) \/ Write(q) \/ Unlock(q)
    \/ Authorization(q) \/ Dispatch(q)

Next ==
    \/ \E q \in Requests :
          \/ \E s \in Servers, offer \in Offers : Arrive(q, s, offer)
          \/ RequestStep(q)
    \/ ExpireLock
    \/ \E s \in Servers : Crash(s)
    \/ Tick
    \/ Finished

Spec == Init /\ [][Next]_vars

(* Handlers run to their end, and Redis drops keys that have expired. *)
Fairness == (\A q \in Requests : WF_vars(RequestStep(q))) /\ WF_vars(ExpireLock)
FairSpec == Spec /\ Fairness

-----------------------------------------------------------------------------
(* Properties *)

Answers == {"none", "parse", "unauthorized", "forbidden", "rate_limited", "internal",
            "adaptor_forbidden", "served", "lost"}

TypeOK ==
    /\ now \in Time
    /\ \A k \in DOMAIN bucket :
          /\ bucket[k].available \in 0..(Capacity(k[1]) - 1)
          /\ bucket[k].last \in Time /\ bucket[k].expires \in Nat
    /\ lock \in Requests \union {NoHolder}
    /\ \A q \in Requests : Started(q) =>
          /\ reqs[q].pc \in {"lock", "authorize", "dispatch", "answered"} \union Critical
          /\ reqs[q].limiter \in {"ip", "user"}
          /\ reqs[q].server \in Servers /\ reqs[q].offer \in Offers
          /\ reqs[q].answer \in Answers /\ reqs[q].at \in Time

SpentIn(caller, s, t) ==
    {q \in Requests : Started(q) /\ reqs[q].spent = caller /\ reqs[q].at \in s..t}

Spent(caller, s, t) == Cardinality(SpentIn(caller, s, t))

Callers == {reqs[q].spent : q \in {p \in Requests : Started(p)}} \ {NoCaller}

(* Over any interval a caller gets no more than a burst and the tokens of  *)
(* the interval, whatever servers its requests go to, although the state   *)
(* of the bucket is read and written in two steps and is dropped when its  *)
(* TTL has passed (ServeHTTP of both limiters, "safe across concurrent     *)
(* requests and app instances": redisTokenBucketRateLimiterImpl.go:26).    *)
RateBound ==
    \A c \in Callers, s, t \in Time : s <= t =>
        Spent(c, s, t) <=
            Capacity(c[1]) + ((t - s) \div Refill(c[1]))

(* Nobody is refused who has not spent a burst and all that was refilled   *)
(* since: requests of others cost a caller nothing, and nor does an answer *)
(* that failed (ServeHTTP of both limiters).                               *)
RefusedWhenSpent ==
    \A q \in Requests : Started(q) /\ reqs[q].answer = "rate_limited" =>
        LET r == reqs[q]
        IN  \E s \in 0..r.at :
              Spent(Caller(r), s, r.at) >=
                  Capacity(r.limiter) + ((r.at - s) \div Refill(r.limiter))

(* What reaches a service has taken one token: of its address when the     *)
(* method is public, of its user otherwise.  The map of methods of the IP  *)
(* limiter, the public methods of the policy and the claim of the user     *)
(* limiter leave no gap, and an error of the limiter lets nobody through   *)
(* (publicAuthMethods, "They mirror the public set").                      *)
EveryCallMetered ==
    \A q \in Requests :
        Started(q) /\ (reqs[q].pc = "dispatch" \/ reqs[q].answer \in {"served", "adaptor_forbidden"}) =>
            reqs[q].spent =
                IF reqs[q].offer.method \in public THEN <<"ip", reqs[q].offer.ip>>
                ELSE <<"user", reqs[q].offer.token.user>>

(* The policy and the adaptors agree: what the policy lets through is not  *)
(* refused behind it (UpdateAccountBalance: the check "must not drift if   *)
(* the permission map changes").                                           *)
GuardsAgree ==
    \A q \in Requests : Started(q) => reqs[q].answer # "adaptor_forbidden"

(* A lock left behind by a request that died holding it does not stop the  *)
(* limiters of all servers for good (NewRedisRateLimiterImpl).             *)
LimiterRecovers == \A q \in Requests : lock = q ~> lock # q
=============================================================================
