------------------------------ MODULE Throttling ------------------------------
(***************************************************************************)
(* What bounds the costly endpoints: the token buckets all workers share   *)
(* (infra/rate_limits.py), the slots each worker counts for itself         *)
(* (api/throttling.py), the two connection pools a throttled request draws *)
(* from (infra/db.py), the nightly sweep of idle buckets and the erasure   *)
(* of a person's buckets.  A bucket is read and written in a transaction   *)
(* of its own, READ COMMITTED, whose now() is the time it began.           *)
(***************************************************************************)
EXTENDS Integers, FiniteSets

CONSTANTS
    Workers,      \* processes
    Clients,      \* requests that can be in flight together
    WorkerOf,     \* the worker that serves each client
    Keys,         \* bucket keys of one limiter
    Limit,        \* tokens of a full bucket
    One,          \* grains to a token
    Rate,         \* grains a bucket gains per tick
    Cutoff,       \* idle ticks after which a bucket is swept
    MaxWait,      \* ticks a transaction can last
    PerKey,       \* slots of one key in one worker
    Total,        \* slots of one worker
    Pools,        \* the sizes the two connection pools may be configured with
    None,
    MaxNow,       \* bound: ticks
    MaxRequests   \* bound: requests issued in the behaviour

Full == Limit * One

(* A bucket that has been idle for the cutoff has refilled, even for a      *)
(* transaction that began a little earlier.                                 *)
CutoffRefills == Full <= Rate * (Cutoff - MaxWait)

VARIABLES
    pool,      \* the sizes of the two pools, fixed by the deployment
    now,       \* the database clock
    bucket,    \* the committed bucket of each key, or None
    tx,        \* what each client is doing
    inFlight,  \* the slots each worker believes are held, by key
    running,   \* and altogether
    spent,     \* tokens granted less refunded, by key and up to each time
    reply,     \* what each client was last answered
    issued     \* requests issued so far

vars == <<pool, now, bucket, tx, inFlight, running, spent, reply, issued>>

Ops == {"suggest", "poll", "sweep", "erase"}

Bucket == [tokens : 0 .. Full, updated : 0 .. MaxNow]

(* No wait empties a bucket.                                                *)
ThrottlingAssumption ==
    /\ Limit \in Nat \ {0} /\ One \in Nat \ {0} /\ Rate \in Nat \ {0}
    /\ Cutoff \in Nat /\ MaxWait \in Nat /\ MaxNow \in Nat /\ MaxRequests \in Nat
    /\ CutoffRefills
    /\ Rate * MaxWait <= One
    /\ PerKey \in Nat \ {0} /\ Total \in Nat \ {0} /\ PerKey <= Total
    /\ Pools \subseteq [session : Nat \ {0}, limiter : Nat \ {0}]
    /\ WorkerOf \in [Clients -> Workers]
    /\ None \notin Clients \cup Keys /\ None \notin Ops
    /\ None \notin Bucket

(* at: the now() of the limiter transaction or the sweep; made: the bucket  *)
(* it inserted; dropped: the keys it deleted; refunds: a token is given back. *)
IdleTx == [phase |-> "idle", op |-> None, key |-> None, at |-> 0, made |-> None,
           dropped |-> {}, refunds |-> FALSE]

NoReply == [outcome |-> None, tokens |-> 0, wait |-> 0]

Init ==
    /\ pool \in Pools
    /\ now = 0
    /\ bucket = [k \in Keys |-> None]
    /\ tx = [c \in Clients |-> IdleTx]
    /\ inFlight = [w \in Workers |-> [k \in Keys |-> 0]]
    /\ running = [w \in Workers |-> 0]
    /\ spent = [k \in Keys |-> [t \in 0 .. MaxNow |-> 0]]
    /\ reply = [c \in Clients |-> NoReply]
    /\ issued = 0

Go(c, t) ==
    /\ tx' = [tx EXCEPT ![c] = t]
    /\ UNCHANGED <<pool, now, bucket, inFlight, running, spent, reply, issued>>

Answer(c, r) ==
    /\ tx' = [tx EXCEPT ![c] = IdleTx]
    /\ reply' = [reply EXCEPT ![c] = r]
    /\ UNCHANGED <<pool, now, issued>>

Refuse(c, outcome) ==
    /\ Answer(c, [NoReply EXCEPT !.outcome = outcome])
    /\ UNCHANGED <<bucket, inFlight, running, spent>>

Begin(c, op, k) ==
    /\ tx[c].phase = "idle" /\ issued < MaxRequests
    /\ issued' = issued + 1
    /\ tx' = [tx EXCEPT ![c] = [IdleTx EXCEPT !.phase = IF op = "sweep" THEN "sweep" ELSE "session",
                                              !.op = op, !.key = k, !.at = IF op = "sweep" THEN now ELSE 0]]
    /\ reply' = [reply EXCEPT ![c] = NoReply]
    /\ UNCHANGED <<pool, now, bucket, inFlight, running, spent>>

-----------------------------------------------------------------------------
(* The pools.  The session connection of a request is held to its end; a    *)
(* limiter connection for the length of one limiter transaction.            *)

LimiterPhases == {"lock", "ensure", "relock", "decide"}
HasSession(c) == tx[c].phase \notin {"idle", "session", "sweep", "swept"}
HasConnection(c) == tx[c].phase \in LimiterPhases

SessionFree == Cardinality({c \in Clients : HasSession(c)}) < pool.session

ConnectionFree == Cardinality({c \in Clients : HasConnection(c)}) < pool.limiter

TakeSession(c) ==
    /\ tx[c].phase = "session" /\ SessionFree
    /\ Go(c, [tx[c] EXCEPT !.phase = IF tx[c].op = "erase" THEN "erase" ELSE "connect"])

TakeConnection(c) ==
    /\ tx[c].phase = "connect" /\ ConnectionFree
    /\ Go(c, [tx[c] EXCEPT !.phase = "lock", !.at = now])

PoolTimeout(c) ==
    /\ \/ tx[c].phase = "session" /\ ~SessionFree
       \/ tx[c].phase = "connect" /\ ~ConnectionFree
    /\ Refuse(c, "pool_timeout")

-----------------------------------------------------------------------------
(* The row of a bucket: who holds it, and who has an entry in doubt.        *)

HoldsRow(d, k) ==
    \/ tx[d].phase = "decide" /\ tx[d].key = k
    \/ k \in tx[d].dropped

Free(c, k) == \A d \in Clients \ {c} : ~HoldsRow(d, k)

(* _LOCK: a bucket another transaction is inserting is not there yet.       *)
CanLock(c, k) ==
    bucket[k] # None => Free(c, k)

LockBucket(c) ==
    LET t == tx[c]
    IN  /\ t.phase = "lock" /\ CanLock(c, t.key)
        /\ IF bucket[t.key] # None THEN Go(c, [t EXCEPT !.phase = "decide"])
           ELSE IF t.refunds THEN Refuse(c, "ok")
           ELSE Go(c, [t EXCEPT !.phase = "ensure"])

(* _ENSURE: ON CONFLICT DO NOTHING, after waiting for an entry in doubt.    *)
EnsureBucket(c) ==
    LET t == tx[c]
    IN  /\ t.phase = "ensure" /\ Free(c, t.key)
        /\ Go(c, IF bucket[t.key] = None
                 THEN [t EXCEPT !.phase = "decide", !.made = [tokens |-> Full, updated |-> t.at]]
                 ELSE [t EXCEPT !.phase = "relock"])

(* The re-read expects the bucket to be there.                              *)
RelockBucket(c) ==
    LET t == tx[c]
    IN  /\ t.phase = "relock" /\ CanLock(c, t.key)
        /\ IF bucket[t.key] # None THEN Go(c, [t EXCEPT !.phase = "decide"])
           ELSE Refuse(c, "missing")

Row(t) == IF t.made # None THEN t.made ELSE bucket[t.key]

(* What is in the bucket at the time of the transaction.                    *)
Least(a, b) == IF a < b THEN a ELSE b
Refilled(t) == Least(Full, Row(t).tokens + (t.at - Row(t).updated) * Rate)

(* The cap is taken after the token is given back.                          *)
Refunded(t) == Least(Full, Row(t).tokens + (t.at - Row(t).updated) * Rate + One)

RetryAfter(tokens) ==
    LET wait == (One - tokens + Rate - 1) \div Rate IN IF wait < 1 THEN 1 ELSE wait

(* What is granted counts from the time it is committed.                    *)
Grant(k, n) ==
    spent' = [spent EXCEPT ![k] = [s \in 0 .. MaxNow |-> IF s < now THEN spent[k][s] ELSE spent[k][s] + n]]

Put(k, tokens, at) == bucket' = [bucket EXCEPT ![k] = [tokens |-> tokens, updated |-> at]]

(* acquire: spend a token, or write nothing and say how long to wait.  A    *)
(* suggestion then asks for a slot, a poll has its credential checked.      *)
Spend(c) ==
    LET t == tx[c]
    IN  /\ t.phase = "decide" /\ ~t.refunds
        /\ IF Refilled(t) >= One
           THEN /\ Put(t.key, Refilled(t) - One, t.at)
                /\ Grant(t.key, 1)
                /\ tx' = [tx EXCEPT ![c] = [IdleTx EXCEPT !.op = t.op, !.key = t.key,
                              !.phase = IF t.op = "suggest" THEN "slot" ELSE "check"]]
                /\ UNCHANGED <<pool, now, inFlight, running, reply, issued>>
           ELSE /\ Answer(c, [outcome |-> "limited", tokens |-> Refilled(t),
                              wait |-> RetryAfter(Refilled(t))])
                /\ UNCHANGED <<bucket, inFlight, running, spent>>

Refund(c) ==
    LET t == tx[c]
    IN  /\ t.phase = "decide" /\ t.refunds
        /\ Put(t.key, Refunded(t), t.at)
        /\ Grant(t.key, -1)
        /\ Answer(c, [NoReply EXCEPT !.outcome = "ok"])
        /\ UNCHANGED <<inFlight, running>>

-----------------------------------------------------------------------------
(* The slots of one worker.                                                 *)

TakeSlot(c) ==
    LET t == tx[c]
        w == WorkerOf[c]
    IN  /\ t.phase = "slot"
        /\ IF inFlight[w][t.key] >= PerKey \/ running[w] >= Total
           THEN Refuse(c, "busy")
           ELSE /\ inFlight' = [inFlight EXCEPT ![w][t.key] = @ + 1]
                /\ running' = [running EXCEPT ![w] = @ + 1]
                /\ tx' = [tx EXCEPT ![c].phase = "work"]
                /\ UNCHANGED <<pool, now, bucket, spent, reply, issued>>

(* Mutant: a request that fails keeps its slot.                             *)
MutReleaseOnSuccess(c, outcome) ==
    IF outcome = "ok"
    THEN /\ inFlight' = [inFlight EXCEPT ![WorkerOf[c]][tx[c].key] = @ - 1]
         /\ running' = [running EXCEPT ![WorkerOf[c]] = @ - 1]
    ELSE UNCHANGED <<inFlight, running>>

Release(c, outcome) ==
    /\ inFlight' = [inFlight EXCEPT ![WorkerOf[c]][tx[c].key] = @ - 1]
    /\ running' = [running EXCEPT ![WorkerOf[c]] = @ - 1]

(* The inference ends, well or not.                                         *)
Finish(c) ==
    /\ tx[c].phase = "work"
    /\ \E outcome \in {"ok", "failed"} :
         /\ Release(c, outcome)
         /\ Answer(c, [NoReply EXCEPT !.outcome = outcome])
    /\ UNCHANGED <<bucket, spent>>

(* A subscriber that is let in gets its token back.                         *)
CheckCredential(c) ==
    /\ tx[c].phase = "check"
    /\ \/ Go(c, [tx[c] EXCEPT !.phase = "connect", !.refunds = TRUE])
       \/ Refuse(c, "unauthorized")

-----------------------------------------------------------------------------
(* Mutant: a bucket is swept as soon as it has stopped being used.          *)
MutIdleEarly(t, k) == bucket[k].updated < t.at

Idle(t, k) == bucket[k].updated < t.at - Cutoff

(* One DELETE over all keys, on a connection outside the pools: each idle   *)
(* row is waited for and looked at again.                                   *)
Sweep(c) ==
    LET t == tx[c]
        idle == {k \in Keys : bucket[k] # None /\ Idle(t, k)}
    IN  /\ t.phase = "sweep" /\ \A k \in idle : Free(c, k)
        /\ Go(c, [t EXCEPT !.phase = "swept", !.dropped = idle])

(* forget_bucket_keys, in the transaction of the request: the rest of the   *)
(* erasure follows, and the rows are deleted with it or not at all.         *)
Erase(c) ==
    LET t == tx[c]
    IN  /\ t.phase = "erase" /\ CanLock(c, t.key)
        /\ Go(c, [t EXCEPT !.phase = "erasing",
                           !.dropped = IF bucket[t.key] = None THEN {} ELSE {t.key}])

Delete(c) ==
    LET t == tx[c]
    IN  /\ t.phase \in {"swept", "erasing"}
        /\ bucket' = [k \in Keys |-> IF k \in t.dropped THEN None ELSE bucket[k]]
        /\ IF t.op = "erase"
           THEN spent' = [spent EXCEPT ![t.key] = [n \in 0 .. MaxNow |-> 0]]
           ELSE UNCHANGED spent
        /\ Answer(c, [NoReply EXCEPT !.outcome = "ok"])
        /\ UNCHANGED <<inFlight, running>>

-----------------------------------------------------------------------------
(* The client hangs up: transactions roll back, the slot is released.       *)
Interrupt(c) ==
    /\ tx[c].phase # "idle"
    /\ IF tx[c].phase = "work" THEN Release(c, "interrupted") ELSE UNCHANGED <<inFlight, running>>
    /\ Answer(c, [NoReply EXCEPT !.outcome = "interrupted"])
    /\ UNCHANGED <<bucket, spent>>

(* A worker stops, and starts again with no slot held.                      *)
Restart(w) ==
    /\ \E c \in Clients : WorkerOf[c] = w /\ tx[c].phase # "idle" /\ tx[c].op # "sweep"
    /\ LET lost == {c \in Clients : WorkerOf[c] = w /\ tx[c].op # "sweep"}
       IN  /\ tx' = [c \in Clients |-> IF c \in lost THEN IdleTx ELSE tx[c]]
           /\ reply' = [c \in Clients |-> IF c \in lost /\ tx[c].phase # "idle"
                                          THEN [NoReply EXCEPT !.outcome = "interrupted"]
                                          ELSE reply[c]]
    /\ inFlight' = [inFlight EXCEPT ![w] = [k \in Keys |-> 0]]
    /\ running' = [running EXCEPT ![w] = 0]
    /\ UNCHANGED <<pool, now, bucket, spent, issued>>

Tick ==
    /\ now < MaxNow /\ now' = now + 1
    /\ \A c \in Clients : tx[c].phase \in LimiterPhases \cup {"sweep", "swept"} =>
                            now - tx[c].at < MaxWait
    /\ UNCHANGED <<pool, bucket, tx, inFlight, running, spent, reply, issued>>

Finished ==
    /\ issued = MaxRequests
    /\ \A c \in Clients : tx[c].phase = "idle"
    /\ UNCHANGED vars

Serve(c) ==
    \/ TakeSession(c) \/ TakeConnection(c) \/ PoolTimeout(c)
    \/ LockBucket(c) \/ EnsureBucket(c) \/ RelockBucket(c) \/ Spend(c) \/ Refund(c)
    \/ TakeSlot(c) \/ Finish(c) \/ CheckCredential(c)
    \/ Sweep(c) \/ Erase(c) \/ Delete(c)

Next ==
    \/ \E c \in Clients : \E op \in Ops, k \in Keys : Begin(c, op, k)
    \/ \E c \in Clients : Serve(c) \/ Interrupt(c)
    \/ \E w \in Workers : Restart(w)
    \/ Tick
    \/ Finished

Spec == Init /\ [][Next]_vars

-----------------------------------------------------------------------------
(* However many workers, sweeps, refunds, interruptions and waits: between  *)
(* any two times a key is granted no more than a full bucket and what the   *)
(* rate adds, counted from the oldest transaction that may still commit.    *)
Before(k, t) == IF t = 0 THEN 0 ELSE spent[k][t - 1]

BudgetHolds ==
    \A k \in Keys, a, b \in 0 .. MaxNow :
        a <= b => (spent[k][b] - Before(k, a)) * One <= Full + Rate * (b - a + MaxWait)

(* A worker's count is the number of its requests at work, through failures,*)
(* cancellations and restarts: no slot leaks and no cap is passed.          *)
SlotsAreHeld ==
    \A w \in Workers :
        LET working == {c \in Clients : WorkerOf[c] = w /\ tx[c].phase = "work"}
        IN  /\ \A k \in Keys :
                 LET held == {c \in working : tx[c].key = k}
                 IN  inFlight[w][k] = Cardinality(held) /\ Cardinality(held) <= PerKey
            /\ running[w] = Cardinality(working) /\ Cardinality(working) <= Total

(* "Separate pools break the cycle by construction": who waits for a limiter*)
(* connection waits for a limiter transaction, never for another waiter.    *)
NoWaitOnWaiters ==
    (\E c \in Clients : tx[c].phase = "connect") =>
        ConnectionFree \/ \E d \in Clients : HasConnection(d)

=============================================================================
