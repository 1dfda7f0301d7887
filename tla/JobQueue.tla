------------------------------ MODULE JobQueue ------------------------------
(***************************************************************************)
(* The durable job queue and the worker processes that drain it:           *)
(* clipforge/worker/runtime.py (Worker, _Heartbeat) over the `jobs`        *)
(* repository of clipforge/store (postgres._PgJobs, memory._MemoryJobs),   *)
(* the chaining of clipforge/worker/chain.py and the operator command of   *)
(* clipforge/worker/monitor.py.                                            *)
(*                                                                         *)
(* One job of the model is one dedupe key: a key maps to at most one row,  *)
(* for ever, so a job nobody has enqueued yet is simply "absent".          *)
(*                                                                         *)
(* Times are remaining times, counted in ticks of a shared clock:          *)
(*   lease[j]  ticks until lease_until has passed (0: it has passed)       *)
(*   wait[j]   ticks until run_after is reached   (0: it is reached)       *)
(* Every call that touches rows is one transaction of the code and one     *)
(* action here.  `_release` reads the row and saves it in one transaction  *)
(* too; it is one step.                                                    *)
(***************************************************************************)
EXTENDS Integers, FiniteSets

CONSTANTS
    Jobs,         \* dedupe keys: every job the run may ever enqueue
    Workers,      \* lease owner ids, one per worker process
    NoOwner,      \* lease_owner = ""
    NoJob,        \* a worker with no job in hand
    Roots,        \* jobs a producer submits (the API, an operator)
    FollowOn,     \* job -> the jobs its handler may name in Outcome.follow_on
    Delay,        \* job -> ticks between being chained and being claimable
    Priority,     \* job -> priority, smaller first
    Kinds,        \* worker -> the jobs of the kinds it claims
    Handles,      \* worker -> the jobs whose kind it has a handler for
    LeaseS,       \* ticks a claim, or a beat, is good for
    BackoffS,     \* ticks a retried job waits
    MaxAttempts,  \* max_attempts of every job
    Batch,        \* WorkerConfig.batch
    Timely,       \* TRUE: a handler is never out of beats for a whole lease
    MaxEvents     \* bound on crashes, stop signals and operator requeues

ASSUME NamesAssumption ==
    /\ NoOwner \notin Workers
    /\ NoJob \notin Jobs

ASSUME ShapeAssumption ==
    /\ Roots \subseteq Jobs
    /\ FollowOn \in [Jobs -> SUBSET Jobs]
    /\ Delay \in [Jobs -> Nat]
    /\ Priority \in [Jobs -> Nat]
    /\ Kinds \in [Workers -> SUBSET Jobs]
    /\ Handles \in [Workers -> SUBSET Jobs]

ASSUME FiniteAssumption == IsFiniteSet(Jobs)

ASSUME BoundsAssumption ==
    /\ LeaseS \in Nat \ {0}
    /\ BackoffS \in Nat
    /\ MaxAttempts \in Nat \ {0}
    /\ Batch \in Nat \ {0}
    /\ Timely \in BOOLEAN
    /\ MaxEvents \in Nat

\* A handler names other jobs than its own, and no chained job is a root.
ASSUME ChainAssumption ==
    \A j \in Jobs : j \notin FollowOn[j] /\ FollowOn[j] \cap Roots = {}

VARIABLES
    \* the jobs table, one function per column
    state, owner, lease, wait, attempts, promised,
    \* the worker processes
    phase, cur, rest, lost, outcome, follow, stopping,
    \* crashes, stop signals and operator requeues so far
    events

rows    == <<state, owner, lease, wait, attempts, promised>>
procs   == <<phase, cur, rest, lost, outcome, follow, stopping>>
vars    == <<state, owner, lease, wait, attempts, promised,
             phase, cur, rest, lost, outcome, follow, stopping, events>>

JobStates == {"absent", "queued", "leased", "succeeded", "dead"}
Outcomes  == {"none", "done", "retry", "fatal"}
Phases    == {"down", "idle", "running", "recording", "releasing"}

\* A worker inside _run_job, at whichever of its three stages.
InHand == {"running", "recording", "releasing"}

RowTypes ==
    /\ state \in [Jobs -> JobStates]
    /\ owner \in [Jobs -> Workers \union {NoOwner}]
    /\ lease \in [Jobs -> 0..LeaseS]
    /\ wait \in [Jobs -> Nat]
    /\ attempts \in [Jobs -> Nat]
    /\ promised \in [Jobs -> SUBSET Jobs]

ProcTypes ==
    /\ phase \in [Workers -> Phases]
    /\ cur \in [Workers -> Jobs \union {NoJob}]
    /\ rest \in [Workers -> SUBSET Jobs]
    /\ lost \in [Workers -> BOOLEAN]
    /\ outcome \in [Workers -> Outcomes]
    /\ follow \in [Workers -> SUBSET Jobs]
    /\ stopping \in [Workers -> BOOLEAN]

\* Every column and every worker field has its type.
TypeOK == RowTypes /\ ProcTypes /\ events \in 0..MaxEvents

Init ==
    /\ state = [j \in Jobs |-> "absent"]
    /\ owner = [j \in Jobs |-> NoOwner]
    /\ lease = [j \in Jobs |-> 0]
    /\ wait = [j \in Jobs |-> 0]
    /\ attempts = [j \in Jobs |-> 0]
    /\ promised = [j \in Jobs |-> {}]
    /\ phase = [w \in Workers |-> "idle"]
    /\ cur = [w \in Workers |-> NoJob]
    /\ rest = [w \in Workers |-> {}]
    /\ lost = [w \in Workers |-> FALSE]
    /\ outcome = [w \in Workers |-> "none"]
    /\ follow = [w \in Workers |-> {}]
    /\ stopping = [w \in Workers |-> FALSE]
    /\ events = 0

-----------------------------------------------------------------------------
(* The calls of the jobs repository.                                       *)

\* A buggy variant: the claim does not ask for queued rows.
ClaimableLeased(w) == {j \in Kinds[w] : state[j] \in {"queued", "leased"} /\ wait[j] = 0}

\* A row `claim` may take for worker w: queued, due, of a kind it asks for.
Claimable(w) == {j \in Kinds[w] : state[j] = "queued" /\ wait[j] = 0}

\* ORDER BY priority: no member of `others` goes before j.
First(j, others) == \A k \in others : Priority[j] <= Priority[k]

\* What one claim returns: at most Batch rows, the most urgent ones.
ClaimSets(w) ==
    {S \in SUBSET Claimable(w) :
        /\ S # {}
        /\ Cardinality(S) <= Batch
        /\ Cardinality(S) < Batch => S = Claimable(w)
        /\ \A j \in S : First(j, Claimable(w) \ S)}

\* A buggy variant: the reaper does not look at lease_until.
ExpiredOrLive == {j \in Jobs : state[j] = "leased"}

\* Rows whose lease_until has passed: what `reap` returns to the queue.
Expired == {j \in Jobs : state[j] = "leased" /\ lease[j] = 0}

\* A buggy variant: the chained jobs are lost.
EnqueuedNone(specs) == {}

\* `enqueue` of chained jobs: a key that already has a row resolves to it.
Enqueued(specs) == {f \in specs : state[f] = "absent"}

\* `succeed` writes by id alone: neither the owner nor the state is asked.
Succeed(j, specs) ==
    /\ state' = [k \in Jobs |-> IF k = j THEN "succeeded"
                                ELSE IF k \in Enqueued(specs) THEN "queued"
                                ELSE state[k]]
    /\ wait' = [k \in Jobs |-> IF k \in Enqueued(specs) \ {j} THEN Delay[k]
                               ELSE wait[k]]
    /\ promised' = [promised EXCEPT ![j] = specs]
    /\ owner' = [owner EXCEPT ![j] = NoOwner]
    /\ lease' = [lease EXCEPT ![j] = 0]
    /\ UNCHANGED attempts

\* A buggy variant: one attempt too many is allowed.
FailOffByOne(j, retry) ==
    LET again == retry /\ attempts[j] < MaxAttempts IN
    /\ attempts' = [attempts EXCEPT ![j] = attempts[j] + 1]
    /\ state' = [state EXCEPT ![j] = IF again THEN "queued" ELSE "dead"]
    /\ wait' = [wait EXCEPT ![j] = IF again THEN BackoffS ELSE wait[j]]
    /\ owner' = [owner EXCEPT ![j] = NoOwner]
    /\ lease' = [lease EXCEPT ![j] = 0]
    /\ UNCHANGED promised

\* A buggy variant: a retry is not counted.
FailUncounted(j, retry) ==
    /\ state' = [state EXCEPT ![j] = IF retry THEN "queued" ELSE "dead"]
    /\ wait' = [wait EXCEPT ![j] = IF retry THEN BackoffS ELSE wait[j]]
    /\ owner' = [owner EXCEPT ![j] = NoOwner]
    /\ lease' = [lease EXCEPT ![j] = 0]
    /\ UNCHANGED <<attempts, promised>>

\* `fail` also writes by id; the row's own count decides retry or dead.
Fail(j, retry) ==
    LET again == retry /\ attempts[j] + 1 < MaxAttempts IN
    /\ attempts' = [attempts EXCEPT ![j] = attempts[j] + 1]
    /\ state' = [state EXCEPT ![j] = IF again THEN "queued" ELSE "dead"]
    /\ wait' = [wait EXCEPT ![j] = IF again THEN BackoffS ELSE wait[j]]
    /\ owner' = [owner EXCEPT ![j] = NoOwner]
    /\ lease' = [lease EXCEPT ![j] = 0]
    /\ UNCHANGED promised

-----------------------------------------------------------------------------
(* The worker's control flow.                                              *)

\* The worker takes job j of the batch in hand; r is what waits behind it.
\* With a handler it runs, under a fresh _Heartbeat; without one it releases.
Begin(w, j, r) ==
    /\ phase' = [phase EXCEPT ![w] = IF j \in Handles[w] THEN "running"
                                     ELSE "releasing"]
    /\ cur' = [cur EXCEPT ![w] = j]
    /\ rest' = [rest EXCEPT ![w] = r]

\* No job in hand, and nothing of the batch is kept.
PutDown(w, p) ==
    /\ phase' = [phase EXCEPT ![w] = p]
    /\ cur' = [cur EXCEPT ![w] = NoJob]
    /\ rest' = [rest EXCEPT ![w] = {}]

\* poll_once after _run_job: a stop abandons the rest of the batch, still
\* leased; otherwise the next job of the batch, or the top of the loop.
Advance(w) ==
    /\ lost' = [lost EXCEPT ![w] = FALSE]
    /\ outcome' = [outcome EXCEPT ![w] = "none"]
    /\ follow' = [follow EXCEPT ![w] = {}]
    /\ \/ /\ stopping[w]
          /\ PutDown(w, "down")
          /\ stopping' = [stopping EXCEPT ![w] = FALSE]
       \/ /\ ~stopping[w] /\ rest[w] = {}
          /\ PutDown(w, "idle")
          /\ UNCHANGED stopping
       \/ /\ ~stopping[w]
          /\ \E j \in rest[w] :
                First(j, rest[w]) /\ Begin(w, j, rest[w] \ {j})
          /\ UNCHANGED stopping

\* A producer enqueues a root job; its key had no row yet.
Submit(j) ==
    /\ j \in Roots
    /\ state[j] = "absent"
    /\ state' = [state EXCEPT ![j] = "queued"]
    /\ UNCHANGED <<owner, lease, wait, attempts, promised, procs, events>>

\* Worker._maybe_reap, at the top of the loop.
Reap(w) ==
    /\ phase[w] = "idle" /\ ~stopping[w]
    /\ Expired # {}
    /\ state' = [j \in Jobs |-> IF j \in Expired THEN "queued" ELSE state[j]]
    /\ owner' = [j \in Jobs |-> IF j \in Expired THEN NoOwner ELSE owner[j]]
    /\ UNCHANGED <<lease, wait, attempts, promised, procs, events>>

\* Worker._claim and the start of the first job it brought.
Claim(w) ==
    /\ phase[w] = "idle" /\ ~stopping[w]
    /\ \E S \in ClaimSets(w) :
        /\ state' = [j \in Jobs |-> IF j \in S THEN "leased" ELSE state[j]]
        /\ owner' = [j \in Jobs |-> IF j \in S THEN w ELSE owner[j]]
        /\ lease' = [j \in Jobs |-> IF j \in S THEN LeaseS ELSE lease[j]]
        /\ \E j \in S : First(j, S) /\ Begin(w, j, S \ {j})
    /\ UNCHANGED <<wait, attempts, promised, lost, outcome, follow, stopping,
                   events>>

\* _Heartbeat.once: the row answers only to its owner; otherwise the lease is
\* gone and this worker has just learned it.  A beat the database refuses
\* changes nothing and is the absence of this step.
Beat(w) ==
    /\ phase[w] = "running" /\ ~lost[w]
    /\ IF state[cur[w]] = "leased" /\ owner[cur[w]] = w
       THEN /\ lease' = [lease EXCEPT ![cur[w]] = LeaseS]
            /\ UNCHANGED lost
       ELSE /\ lost' = [lost EXCEPT ![w] = TRUE]
            /\ UNCHANGED lease
    /\ UNCHANGED <<state, owner, wait, attempts, promised, phase, cur, rest,
                   outcome, follow, stopping, events>>

\* The handler returns o, naming the follow-on jobs fs (or raised: a retry);
\* the lease is still thought to be held, so the outcome will be recorded.
Return(w, o, fs) ==
    /\ phase[w] = "running" /\ ~lost[w]
    /\ fs \in IF o = "done" THEN {{}, FollowOn[cur[w]]} ELSE {{}}
    /\ phase' = [phase EXCEPT ![w] = "recording"]
    /\ outcome' = [outcome EXCEPT ![w] = o]
    /\ follow' = [follow EXCEPT ![w] = fs]
    /\ UNCHANGED <<rows, cur, rest, lost, stopping, events>>

\* The handler returns after a beat came back False: nothing is recorded.
ReturnLost(w) ==
    /\ phase[w] = "running" /\ lost[w]
    /\ Advance(w)
    /\ UNCHANGED <<rows, events>>

\* Worker._record: one transaction holds the follow-on jobs and the verdict.
Record(w) ==
    /\ phase[w] = "recording"
    /\ \/ outcome[w] = "done"  /\ Succeed(cur[w], follow[w])
       \/ outcome[w] = "retry" /\ Fail(cur[w], TRUE)
       \/ outcome[w] = "fatal" /\ Fail(cur[w], FALSE)
    /\ Advance(w)
    /\ UNCHANGED events

\* _record or _release when its transaction raises: rolled back, logged, left.
WriteFails(w) ==
    /\ phase[w] \in {"recording", "releasing"}
    /\ Advance(w)
    /\ UNCHANGED <<rows, events>>

\* Worker._release: no handler for this kind, so the row goes back as it was
\* read, queued and unowned, whoever holds it by now.
Release(w) ==
    /\ phase[w] = "releasing"
    /\ state' = [state EXCEPT ![cur[w]] = "queued"]
    /\ owner' = [owner EXCEPT ![cur[w]] = NoOwner]
    /\ lease' = [lease EXCEPT ![cur[w]] = 0]
    /\ Advance(w)
    /\ UNCHANGED <<wait, attempts, promised, events>>

-----------------------------------------------------------------------------
(* Stops, crashes, operators, time.                                        *)

\* SIGTERM: finish the job in hand, claim no more.
Stop(w) ==
    /\ phase[w] # "down" /\ ~stopping[w]
    /\ events < MaxEvents
    /\ events' = events + 1
    /\ stopping' = [stopping EXCEPT ![w] = TRUE]
    /\ UNCHANGED <<rows, phase, cur, rest, lost, outcome, follow>>

\* The loop ends at its top when a stop was asked for.
Exit(w) ==
    /\ phase[w] = "idle" /\ stopping[w]
    /\ phase' = [phase EXCEPT ![w] = "down"]
    /\ stopping' = [stopping EXCEPT ![w] = FALSE]
    /\ UNCHANGED <<rows, cur, rest, lost, outcome, follow, events>>

\* kill -9, OOM, a reclaimed instance, or the second signal.
Crash(w) ==
    /\ phase[w] # "down"
    /\ events < MaxEvents
    /\ events' = events + 1
    /\ PutDown(w, "down")
    /\ lost' = [lost EXCEPT ![w] = FALSE]
    /\ outcome' = [outcome EXCEPT ![w] = "none"]
    /\ follow' = [follow EXCEPT ![w] = {}]
    /\ stopping' = [stopping EXCEPT ![w] = FALSE]
    /\ UNCHANGED rows

Restart(w) ==
    /\ phase[w] = "down"
    /\ phase' = [phase EXCEPT ![w] = "idle"]
    /\ UNCHANGED <<rows, cur, rest, lost, outcome, follow, stopping, events>>

\* monitor.requeue_dead, for one of the rows it moves.
RequeueDead(j) ==
    /\ state[j] = "dead"
    /\ events < MaxEvents
    /\ events' = events + 1
    /\ state' = [state EXCEPT ![j] = "queued"]
    /\ attempts' = [attempts EXCEPT ![j] = 0]
    /\ wait' = [wait EXCEPT ![j] = 0]
    /\ owner' = [owner EXCEPT ![j] = NoOwner]
    /\ lease' = [lease EXCEPT ![j] = 0]
    /\ UNCHANGED <<promised, procs>>

\* Timely says how late a beat may be: while a job is in hand, its lease is
\* renewed, or its outcome written, before the lease runs out.
TickAllowed ==
    Timely => \A w \in Workers :
                phase[w] \in InHand /\ owner[cur[w]] = w => lease[cur[w]] # 1

Down(n) == IF n > 0 THEN n - 1 ELSE 0

Tick ==
    /\ TickAllowed
    /\ lease' = [j \in Jobs |-> Down(lease[j])]
    /\ wait' = [j \in Jobs |-> Down(wait[j])]
    /\ UNCHANGED <<state, owner, attempts, promised, procs, events>>

WorkerStep(w) ==
    \/ Reap(w) \/ Claim(w) \/ Beat(w)
    \/ \E o \in Outcomes \ {"none"}, fs \in SUBSET Jobs : Return(w, o, fs)
    \/ ReturnLost(w) \/ Record(w) \/ WriteFails(w) \/ Release(w)
    \/ Stop(w) \/ Exit(w) \/ Crash(w) \/ Restart(w)

Next ==
    \/ \E w \in Workers : WorkerStep(w)
    \/ \E j \in Jobs : Submit(j) \/ RequeueDead(j)
    \/ Tick

Spec == Init /\ [][Next]_vars

(* Fairness.  A worker that can act does; a handler that runs returns; a   *)
(* write that can succeed is not refused for ever; time passes.  Nothing   *)
(* is assumed of producers, operators, stops, crashes or refused writes.   *)
Fairness ==
    /\ WF_vars(Tick)
    /\ \A w \in Workers :
        /\ WF_vars(Reap(w))
        /\ SF_vars(Claim(w))
        /\ WF_vars(Beat(w))
        /\ WF_vars(\E o \in Outcomes \ {"none"}, fs \in SUBSET Jobs :
                       Return(w, o, fs))
        /\ WF_vars(ReturnLost(w))
        /\ SF_vars(Record(w))
        /\ SF_vars(Release(w))
        /\ WF_vars(Exit(w))
        /\ WF_vars(Restart(w))

FairSpec == Spec /\ Fairness

-----------------------------------------------------------------------------
(* Properties.                                                             *)

(* What the queue promises its producers, stated by JobLedger: leases,     *)
(* owners, batches and retries are invisible, a queued or leased job is    *)
(* pending, and one success enters its successors in one step.             *)
Ledger == INSTANCE JobLedger WITH
    status <- [j \in Jobs |-> IF state[j] \in {"queued", "leased"}
                              THEN "pending" ELSE state[j]]
LedgerSpec == Ledger!Spec

(* Two workers never run the same job at once: "two workers writing the    *)
(* same render is exactly what leases exist to prevent" (runtime.py).      *)
Exclusive ==
    \A v, w \in Workers :
        v # w /\ phase[v] \in InHand /\ phase[w] \in InHand
            => cur[v] # cur[w]

(* An attempt budget is a budget: a row is dead by the time its count      *)
(* reaches max_attempts, and no row that may run again has used it up.     *)
AttemptBudget ==
    \A j \in Jobs :
        /\ attempts[j] <= MaxAttempts
        /\ state[j] \in {"queued", "leased"} => attempts[j] < MaxAttempts

(* The chain cannot break in the middle: every job a succeeded job named   *)
(* as its successor has a row (`_record` writes both in one transaction).  *)
ChainIntact ==
    \A j \in Jobs :
        state[j] = "succeeded" => \A f \in promised[j] : state[f] # "absent"

(* The other half of "the successor is queued if and only if the           *)
(* predecessor is recorded done" (chain.enqueue): a chained job's row      *)
(* points back at a job that is recorded done.                             *)
ChainEarned ==
    \A f \in Jobs \ Roots :
        state[f] # "absent" =>
            \E j \in Jobs : state[j] = "succeeded" /\ f \in promised[j]

(* An outcome is only ever recorded by the worker that owns the row:       *)
(* otherwise "writing to it would clobber their result" (_run_job).        *)
NoClobber == [][\A w \in Workers : Record(w) => owner[cur[w]] = w]_vars

(* Success is final: nothing puts a succeeded job back to work.            *)
SucceededIsFinal ==
    [][\A j \in Jobs : state[j] = "succeeded" => state'[j] = "succeeded"]_vars

(* A lease that has not run out is taken from its owner only by a worker   *)
(* that had claimed the row itself: no reaper and no other claim does.     *)
LeaseRespected ==
    [][\A j \in Jobs :
          state[j] = "leased" /\ lease[j] > 0 /\ owner'[j] # owner[j]
              => \E w \in Workers : phase[w] \in InHand /\ cur[w] = j]_vars

(* Crash recovery: whoever dies, a job that has a row is settled in the    *)
(* end, one way or the other.                                              *)
Settles ==
    \A j \in Jobs :
        state[j] \in {"queued", "leased"} ~> state[j] \in {"succeeded", "dead"}
=============================================================================
