--------------------------- MODULE JobQueueProofs ---------------------------
(***************************************************************************)
(* Proofs about JobQueue for every set of jobs and workers, every chain,   *)
(* every lease, back-off, batch and attempt budget.                        *)
(*                                                                         *)
(* The argument.  TypeOK, and the shape of a row (a row has an owner and a *)
(* running lease exactly while it is leased), are inductive as they stand. *)
(* Exclusive is not: it needs Holding, which says that a worker with a job *)
(* in hand is the owner of a live lease on it.  Holding is where the two   *)
(* deployment conditions enter: Timely keeps a lease in hand from running  *)
(* out, and a batch of one keeps a job from waiting, unrenewed, behind     *)
(* another.                                                                *)
(***************************************************************************)
EXTENDS JobQueue, FiniteSetTheorems, TLAPS

\* A row has an owner, and may have a running lease, exactly while leased.
RowShape ==
    \A j \in Jobs :
        /\ state[j] = "leased" <=> owner[j] # NoOwner
        /\ state[j] # "leased" => lease[j] = 0

\* A worker is inside _run_job exactly while it has a job in hand.
HandShape ==
    \A w \in Workers :
        /\ phase[w] \in InHand <=> cur[w] # NoJob
        /\ phase[w] \in {"down", "idle"} => ~lost[w]
        /\ phase[w] = "recording" => outcome[w] # "none"
        /\ phase[w] = "recording" => follow[w] \subseteq FollowOn[cur[w]]

\* The deployment in which a lease in hand never runs out.
Prompt == Timely /\ Batch = 1

\* A worker with a job in hand holds a live lease on it.
Holding ==
    \A w \in Workers :
        /\ rest[w] = {}
        /\ phase[w] \in InHand =>
              /\ state[cur[w]] = "leased"
              /\ owner[cur[w]] = w
              /\ lease[cur[w]] > 0
              /\ ~lost[w]

Inv == TypeOK /\ RowShape /\ HandShape

HoldInv == Inv /\ Holding

-----------------------------------------------------------------------------
(* Facts about the helpers.                                                *)

\* Advance, and Begin and PutDown inside it, keep the worker well typed and
\* well shaped: no outcome, no lost lease, a job in hand only in _run_job.
LEMMA AdvanceShape ==
    ASSUME Inv, NEW w \in Workers, Advance(w)
    PROVE  ProcTypes' /\ HandShape'
<1>1. TypeOK /\ HandShape
  BY DEF Inv
<1>2. /\ lost' = [lost EXCEPT ![w] = FALSE]
      /\ outcome' = [outcome EXCEPT ![w] = "none"]
      /\ follow' = [follow EXCEPT ![w] = {}]
  BY DEF Advance
<1>3. stopping' \in [Workers -> BOOLEAN]
  BY <1>1 DEF Advance, TypeOK, ProcTypes
<1> DEFINE Moves(p, c, r) ==
       /\ phase' = [phase EXCEPT ![w] = p]
       /\ cur' = [cur EXCEPT ![w] = c]
       /\ rest' = [rest EXCEPT ![w] = r]
       /\ p \in {"running", "releasing"} <=> c # NoJob
<1>4. PICK p \in {"down", "idle", "running", "releasing"},
           c \in Jobs \union {NoJob}, r \in SUBSET Jobs : Moves(p, c, r)
  <2>1. CASE PutDown(w, "down")
    <3>1. Moves("down", NoJob, {})
      BY <2>1 DEF PutDown
    <3> HIDE DEF Moves
    <3> QED  BY <3>1
  <2>2. CASE PutDown(w, "idle")
    <3>1. Moves("idle", NoJob, {})
      BY <2>2 DEF PutDown
    <3> HIDE DEF Moves
    <3> QED  BY <3>1
  <2>3. CASE \E j \in rest[w] : Begin(w, j, rest[w] \ {j})
    <3>1. PICK j \in rest[w] : Begin(w, j, rest[w] \ {j})
      BY <2>3
    <3>2. j \in Jobs /\ j # NoJob /\ rest[w] \ {j} \in SUBSET Jobs
      BY <1>1, NamesAssumption DEF TypeOK, ProcTypes
    <3>3. \/ Moves("running", j, rest[w] \ {j})
          \/ Moves("releasing", j, rest[w] \ {j})
      BY <3>1, <3>2 DEF Begin
    <3> QED  BY <3>2, <3>3
  <2> QED  BY <2>1, <2>2, <2>3 DEF Advance
<1>5. /\ phase' \in [Workers -> Phases]
      /\ cur' \in [Workers -> Jobs \union {NoJob}]
      /\ rest' \in [Workers -> SUBSET Jobs]
  BY <1>1, <1>4 DEF TypeOK, ProcTypes, Phases
<1>6. /\ lost' \in [Workers -> BOOLEAN]
      /\ outcome' \in [Workers -> Outcomes]
      /\ follow' \in [Workers -> SUBSET Jobs]
  BY <1>1, <1>2 DEF TypeOK, ProcTypes, Outcomes
<1>7. HandShape'
  <2> SUFFICES ASSUME NEW v \in Workers
               PROVE  /\ phase'[v] \in InHand <=> cur'[v] # NoJob
                      /\ phase'[v] \in {"down", "idle"} => ~lost'[v]
                      /\ phase'[v] = "recording" => outcome'[v] # "none"
                      /\ phase'[v] = "recording" =>
                            follow'[v] \subseteq FollowOn[cur'[v]]
    BY DEF HandShape
  <2>1. CASE v = w
    BY <1>1, <1>2, <1>4, <2>1 DEF TypeOK, ProcTypes, InHand
  <2>2. CASE v # w
    BY <1>1, <1>2, <1>4, <2>2 DEF TypeOK, ProcTypes, HandShape
  <2> QED  BY <2>1, <2>2
<1> QED
  BY <1>3, <1>5, <1>6, <1>7 DEF ProcTypes

\* succeed and fail keep every column typed and every row's shape: the row
\* written is unowned, the rows entered are queued.
LEMMA SucceedShape ==
    ASSUME Inv, NEW j \in Jobs, NEW specs \in SUBSET Jobs, Succeed(j, specs)
    PROVE  RowTypes' /\ RowShape'
<1>1. RowTypes'
  <2>1. wait' \in [Jobs -> Nat]
    BY ShapeAssumption DEF Inv, TypeOK, RowTypes, Succeed
  <2>2. state' \in [Jobs -> JobStates] /\ owner' \in [Jobs -> Workers \union {NoOwner}]
    BY DEF Inv, TypeOK, RowTypes, Succeed, JobStates
  <2>3. lease' \in [Jobs -> 0..LeaseS]
    BY BoundsAssumption DEF Inv, TypeOK, RowTypes, Succeed
  <2>4. attempts' \in [Jobs -> Nat] /\ promised' \in [Jobs -> SUBSET Jobs]
    BY DEF Inv, TypeOK, RowTypes, Succeed
  <2> QED  BY <2>1, <2>2, <2>3, <2>4 DEF RowTypes
<1>2. RowShape'
  BY NamesAssumption
  DEF Inv, TypeOK, RowTypes, RowShape, Succeed, Enqueued, JobStates
<1> QED  BY <1>1, <1>2

LEMMA FailShape ==
    ASSUME Inv, NEW j \in Jobs, NEW retry \in BOOLEAN, Fail(j, retry)
    PROVE  RowTypes' /\ RowShape'
<1>1. RowTypes'
  BY BoundsAssumption DEF Inv, TypeOK, RowTypes, Fail, JobStates
<1>2. RowShape'
  BY NamesAssumption DEF Inv, TypeOK, RowTypes, RowShape, Fail, JobStates
<1> QED  BY <1>1, <1>2

\* Inside _run_job a worker's current job is a job.
LEMMA InHandJob ==
    ASSUME Inv, NEW w \in Workers, phase[w] \in InHand
    PROVE  cur[w] \in Jobs
BY DEF Inv, TypeOK, ProcTypes, HandShape

-----------------------------------------------------------------------------
(* Inv is inductive, in every deployment.                                  *)

LEMMA InitInv == Init => Inv
<1> SUFFICES ASSUME Init PROVE Inv
  OBVIOUS
<1>1. TypeOK
  BY BoundsAssumption
  DEF Init, TypeOK, RowTypes, ProcTypes, JobStates, Phases, Outcomes
<1>2. RowShape /\ HandShape
  BY DEF Init, RowShape, HandShape, InHand
<1> QED  BY <1>1, <1>2 DEF Inv

\* The steps of one worker.
LEMMA WorkerInv ==
    ASSUME Inv, NEW w \in Workers, WorkerStep(w)
    PROVE  Inv'
<1> USE DEF Inv
<1>1. CASE Reap(w)
  <2>1. RowTypes' /\ RowShape'
    BY <1>1 DEF Reap, Expired, TypeOK, RowTypes, RowShape, JobStates
  <2>2. ProcTypes' /\ HandShape' /\ events' \in 0..MaxEvents
    BY <1>1 DEF Reap, TypeOK, ProcTypes, HandShape, procs
  <2> QED  BY <2>1, <2>2 DEF TypeOK
<1>2. CASE Claim(w)
  <2>1. PICK S \in ClaimSets(w) :
          /\ state' = [j \in Jobs |-> IF j \in S THEN "leased" ELSE state[j]]
          /\ owner' = [j \in Jobs |-> IF j \in S THEN w ELSE owner[j]]
          /\ lease' = [j \in Jobs |-> IF j \in S THEN LeaseS ELSE lease[j]]
          /\ \E j \in S : Begin(w, j, S \ {j})
    BY <1>2 DEF Claim
  <2>2. S \subseteq Jobs
    BY ShapeAssumption DEF ClaimSets, Claimable
  <2>3. RowTypes' /\ RowShape'
    <3>1. wait' = wait /\ attempts' = attempts /\ promised' = promised
      BY <1>2 DEF Claim
    <3>2. RowTypes'
      BY <2>1, <2>2, <3>1, BoundsAssumption DEF TypeOK, RowTypes, JobStates
    <3>3. RowShape'
      BY <2>1, <2>2, NamesAssumption DEF TypeOK, RowTypes, RowShape
    <3> QED  BY <3>2, <3>3
  <2>4. PICK j \in S : Begin(w, j, S \ {j})
    BY <2>1
  <2>5. j \in Jobs /\ j # NoJob
    BY <2>2, NamesAssumption
  <2>6. /\ lost' = lost /\ outcome' = outcome /\ follow' = follow
        /\ stopping' = stopping /\ events' = events
    BY <1>2 DEF Claim
  <2>7. ProcTypes'
    BY <2>2, <2>4, <2>5, <2>6 DEF TypeOK, ProcTypes, Begin, Phases
  <2>8. HandShape'
    BY <2>4, <2>5, <2>6 DEF TypeOK, ProcTypes, HandShape, Begin, InHand
  <2> QED  BY <2>3, <2>6, <2>7, <2>8 DEF TypeOK
<1>3. CASE Beat(w)
  <2>0. cur[w] \in Jobs
    BY <1>3, InHandJob DEF Beat, InHand
  <2>1. RowTypes'
    BY <1>3, <2>0, BoundsAssumption DEF Beat, TypeOK, RowTypes
  <2>2. RowShape'
    BY <1>3, <2>0 DEF Beat, TypeOK, RowTypes, RowShape
  <2>3. ProcTypes' /\ HandShape'
    BY <1>3 DEF Beat, TypeOK, ProcTypes, HandShape
  <2> QED  BY <1>3, <2>1, <2>2, <2>3 DEF Beat, TypeOK
<1>4. CASE \E o \in Outcomes \ {"none"}, fs \in SUBSET Jobs : Return(w, o, fs)
  <2>1. PICK o \in Outcomes \ {"none"}, fs \in SUBSET Jobs : Return(w, o, fs)
    BY <1>4
  <2>2. RowTypes' /\ RowShape' /\ events' \in 0..MaxEvents
    BY <2>1 DEF Return, rows, TypeOK, RowTypes, RowShape
  <2>3. ProcTypes'
    BY <2>1 DEF Return, TypeOK, ProcTypes, Phases
  <2>4. cur[w] \in Jobs
    BY <2>1, InHandJob DEF Return, InHand
  <2>5. fs \subseteq FollowOn[cur[w]]
    BY <2>1 DEF Return
  <2>6. HandShape'
    BY <2>1, <2>5 DEF Return, TypeOK, ProcTypes, HandShape, InHand
  <2> QED  BY <2>2, <2>3, <2>6 DEF TypeOK
<1>5. CASE ReturnLost(w) \/ WriteFails(w)
  <2>1. RowTypes' /\ RowShape' /\ events' \in 0..MaxEvents
    BY <1>5 DEF ReturnLost, WriteFails, rows, TypeOK, RowTypes, RowShape
  <2> QED  BY <1>5, <2>1, AdvanceShape DEF ReturnLost, WriteFails, TypeOK
<1>6. CASE Record(w)
  <2>1. cur[w] \in Jobs /\ follow[w] \in SUBSET Jobs
    BY <1>6, InHandJob DEF Record, InHand, TypeOK, ProcTypes
  <2>2. RowTypes' /\ RowShape'
    BY <1>6, <2>1, SucceedShape, FailShape DEF Record
  <2> QED  BY <1>6, <2>2, AdvanceShape DEF Record, TypeOK
<1>7. CASE Release(w)
  <2>1. cur[w] \in Jobs
    BY <1>7, InHandJob DEF Release, InHand
  <2>2. RowTypes'
    BY <1>7, <2>1, BoundsAssumption DEF Release, TypeOK, RowTypes, JobStates
  <2>3. RowShape'
    BY <1>7, <2>1, NamesAssumption DEF Release, TypeOK, RowTypes, RowShape
  <2> QED  BY <1>7, <2>2, <2>3, AdvanceShape DEF Release, TypeOK
<1>8. CASE Stop(w) \/ Exit(w) \/ Crash(w) \/ Restart(w)
  <2>1. RowTypes' /\ RowShape'
    BY <1>8 DEF Stop, Exit, Crash, Restart, rows, TypeOK, RowTypes, RowShape
  <2>2. events' \in 0..MaxEvents
    BY <1>8, BoundsAssumption DEF Stop, Exit, Crash, Restart, TypeOK
  <2>3. ProcTypes'
    BY <1>8 DEF Stop, Exit, Crash, Restart, PutDown, TypeOK, ProcTypes, Phases,
                Outcomes
  <2>4. HandShape'
    BY <1>8 DEF Stop, Exit, Crash, Restart, PutDown, TypeOK, ProcTypes,
                HandShape, InHand
  <2> QED  BY <2>1, <2>2, <2>3, <2>4 DEF TypeOK
<1> QED
  BY <1>1, <1>2, <1>3, <1>4, <1>5, <1>6, <1>7, <1>8 DEF WorkerStep

\* The steps of producers, operators and time, and a stutter.
LEMMA NextInv == Inv /\ [Next]_vars => Inv'
<1> SUFFICES ASSUME Inv, [Next]_vars PROVE Inv'
  OBVIOUS
<1> USE DEF Inv
<1>1. CASE \E w \in Workers : WorkerStep(w)
  BY <1>1, WorkerInv
<1>2. ASSUME NEW j \in Jobs, Submit(j) PROVE Inv'
  <2>1. RowTypes' /\ RowShape'
    BY <1>2 DEF Submit, TypeOK, RowTypes, RowShape, JobStates
  <2> QED  BY <1>2, <2>1 DEF Submit, procs, TypeOK, ProcTypes, HandShape
<1>3. ASSUME NEW j \in Jobs, RequeueDead(j) PROVE Inv'
  <2>1. RowTypes'
    BY <1>3, BoundsAssumption DEF RequeueDead, TypeOK, RowTypes, JobStates
  <2>2. RowShape'
    BY <1>3, NamesAssumption DEF RequeueDead, TypeOK, RowTypes, RowShape
  <2>3. events' \in 0..MaxEvents
    BY <1>3, BoundsAssumption DEF RequeueDead, TypeOK
  <2> QED  BY <1>3, <2>1, <2>2, <2>3 DEF RequeueDead, procs, TypeOK, ProcTypes, HandShape
<1>4. CASE Tick
  <2>1. \A n \in Nat : Down(n) \in Nat /\ Down(n) <= n
    BY DEF Down
  <2>2. lease' \in [Jobs -> 0..LeaseS] /\ wait' \in [Jobs -> Nat]
    BY <1>4, BoundsAssumption DEF Tick, Down, TypeOK, RowTypes
  <2>3. RowTypes'
    BY <1>4, <2>2 DEF Tick, TypeOK, RowTypes
  <2>4. RowShape'
    BY <1>4 DEF Tick, Down, RowShape
  <2> QED  BY <1>4, <2>3, <2>4 DEF Tick, procs, TypeOK, ProcTypes, HandShape
<1>5. CASE UNCHANGED vars
  BY <1>5 DEF vars, TypeOK, RowTypes, ProcTypes, RowShape, HandShape
<1> QED
  BY <1>1, <1>2, <1>3, <1>4, <1>5 DEF Next

(* Type correctness: every reachable row and worker is well typed, whatever *)
(* the deployment (jobs, workers, leases, batches, crashes).                *)
THEOREM TypeCorrect == Spec => []TypeOK
<1>1. Spec => []Inv
  BY InitInv, NextInv, PTL DEF Spec
<1>2. Inv => TypeOK
  BY DEF Inv
<1> QED  BY <1>1, <1>2, PTL

-----------------------------------------------------------------------------
(* The chain, in every deployment.                                         *)

\* Rows are never deleted, and a row that becomes succeeded was written by
\* the transaction that entered the jobs it names.
LEMMA ChainStep ==
    ASSUME Inv, [Next]_vars, ChainIntact
    PROVE  ChainIntact'
<1> USE DEF Inv, TypeOK, RowTypes
<1>1. ASSUME \A j \in Jobs :
                /\ state[j] # "absent" => state'[j] # "absent"
                /\ state'[j] = "succeeded" =>
                     state[j] = "succeeded" /\ promised'[j] = promised[j]
      PROVE  ChainIntact'
  BY <1>1 DEF ChainIntact
<1>2. ASSUME NEW w \in Workers, WorkerStep(w) PROVE ChainIntact'
  <2>1. CASE Record(w) /\ Succeed(cur[w], follow[w])
    <3>1. cur[w] \in Jobs /\ follow[w] \in SUBSET Jobs
      BY <2>1, InHandJob DEF Record, InHand, ProcTypes
    <3>2. \A f \in Jobs : /\ state[f] # "absent" => state'[f] # "absent"
                          /\ f \in follow[w] => state'[f] # "absent"
      BY <2>1, <3>1 DEF Succeed, Enqueued
    <3>3. \A j \in Jobs \ {cur[w]} :
             state'[j] = "succeeded" =>
                state[j] = "succeeded" /\ promised'[j] = promised[j]
      BY <2>1, <3>1 DEF Succeed, Enqueued
    <3>4. promised'[cur[w]] = follow[w]
      BY <2>1, <3>1 DEF Succeed
    <3> QED  BY <3>1, <3>2, <3>3, <3>4 DEF ChainIntact
  <2>2. CASE Record(w) /\ \E b \in BOOLEAN : Fail(cur[w], b)
    <3>1. cur[w] \in Jobs
      BY <2>2, InHandJob DEF Record, InHand
    <3> QED  BY <1>1, <2>2, <3>1 DEF Fail
  <2>3. CASE Release(w)
    <3>1. cur[w] \in Jobs
      BY <2>3, InHandJob DEF Release, InHand
    <3> QED  BY <1>1, <2>3, <3>1 DEF Release
  <2>4. CASE Reap(w) \/ Claim(w)
    BY <1>1, <2>4 DEF Reap, Claim
  <2>5. CASE UNCHANGED <<state, promised>>
    BY <1>1, <2>5
  <2> QED
    BY <1>2, <2>1, <2>2, <2>3, <2>4, <2>5
    DEF WorkerStep, Record, Beat, Return, ReturnLost, WriteFails, Stop, Exit,
        Crash, Restart, rows
<1>3. CASE \E j \in Jobs : Submit(j) \/ RequeueDead(j)
  BY <1>1, <1>3 DEF Submit, RequeueDead
<1>4. CASE Tick \/ UNCHANGED vars
  BY <1>1, <1>4 DEF Tick, vars
<1> QED  BY <1>2, <1>3, <1>4 DEF Next

(* The pipeline never halts with every row claiming success: in every       *)
(* deployment, late workers and crashes included, the successors a job's    *)
(* recorded result names have rows.                                         *)
THEOREM ChainNeverBreaks == Spec => []ChainIntact
<1>1. Init => Inv /\ ChainIntact
  BY InitInv DEF Init, ChainIntact
<1>2. Inv /\ ChainIntact /\ [Next]_vars => (Inv /\ ChainIntact)'
  BY NextInv, ChainStep
<1> QED  BY <1>1, <1>2, PTL DEF Spec

-----------------------------------------------------------------------------
(* Prompt deployments: a worker with a job in hand owns it.                *)

\* A row that is leased with time left is moved by its holder or not at all.
LEMMA LiveLeaseStep ==
    ASSUME Inv, NEW v \in Workers, WorkerStep(v), NEW j \in Jobs,
           state[j] = "leased", lease[j] > 0,
           phase[v] \in InHand => cur[v] # j
    PROVE  state'[j] = state[j] /\ owner'[j] = owner[j] /\ lease'[j] = lease[j]
           /\ attempts'[j] = attempts[j]
<1> USE DEF Inv, TypeOK, RowTypes
<1>1. CASE Reap(v)
  BY <1>1 DEF Reap, Expired
<1>2. CASE Claim(v)
  BY <1>2 DEF Claim, ClaimSets, Claimable
<1>3. CASE Beat(v)
  BY <1>3 DEF Beat, InHand
<1>4. CASE Record(v)
  BY <1>4 DEF Record, InHand, Succeed, Fail, Enqueued
<1>5. CASE Release(v)
  BY <1>5 DEF Release, InHand
<1>6. CASE UNCHANGED <<state, owner, lease, attempts>>
  BY <1>6
<1> QED
  BY <1>1, <1>2, <1>3, <1>4, <1>5, <1>6
  DEF WorkerStep, Return, ReturnLost, WriteFails, Stop, Exit, Crash, Restart,
      rows

(* In every deployment, a lease with time left on it is taken from its      *)
(* owner only by a worker that has that very job in hand.                   *)
THEOREM LeasesRespected == Spec => LeaseRespected
<1>1. Inv /\ [Next]_vars =>
        [\A j \in Jobs :
            state[j] = "leased" /\ lease[j] > 0 /\ owner'[j] # owner[j]
                => \E w \in Workers : phase[w] \in InHand /\ cur[w] = j]_vars
  <2> SUFFICES ASSUME Inv, [Next]_vars, NEW j \in Jobs,
                      state[j] = "leased", lease[j] > 0, owner'[j] # owner[j]
               PROVE  \E w \in Workers : phase[w] \in InHand /\ cur[w] = j
    OBVIOUS
  <2>1. CASE \E w \in Workers : WorkerStep(w)
    BY <2>1, LiveLeaseStep
  <2>2. CASE \E k \in Jobs : Submit(k) \/ RequeueDead(k)
    BY <2>2 DEF Submit, RequeueDead, Inv, TypeOK, RowTypes
  <2>3. CASE Tick \/ UNCHANGED vars
    BY <2>3 DEF Tick, vars
  <2> QED  BY <2>1, <2>2, <2>3 DEF Next
<1> QED  BY <1>1, InitInv, NextInv, PTL DEF Spec, LeaseRespected

\* Leaving a job with nothing behind it: the worker has no job in hand.
LEMMA AdvanceEmpty ==
    ASSUME Inv, NEW w \in Workers, rest[w] = {}, Advance(w)
    PROVE  /\ phase' = [phase EXCEPT ![w] = phase'[w]]
           /\ phase'[w] \notin InHand
           /\ rest'[w] = {}
           /\ \A v \in Workers \ {w} :
                /\ phase'[v] = phase[v] /\ cur'[v] = cur[v]
                /\ rest'[v] = rest[v] /\ lost'[v] = lost[v]
BY DEF Advance, PutDown, Inv, TypeOK, ProcTypes, InHand

\* A claim of at most one row leaves nothing behind the job it starts.
LEMMA ClaimOne ==
    ASSUME Inv, Batch = 1, NEW w \in Workers, NEW S \in ClaimSets(w), NEW j \in S
    PROVE  S \ {j} = {}
<1>1. S \in SUBSET Jobs /\ Cardinality(S) <= 1
  BY ShapeAssumption DEF ClaimSets, Claimable
<1>2. IsFiniteSet(S)
  BY <1>1, FiniteAssumption, FS_Subset
<1>3. /\ IsFiniteSet(S \ {j}) /\ Cardinality(S \ {j}) = Cardinality(S) - 1
      /\ Cardinality(S) \in Nat
  BY <1>2, FS_RemoveElement, FS_CardinalityType
<1>4. Cardinality(S \ {j}) \in Nat
  BY <1>3, FS_CardinalityType
<1>5. Cardinality(S \ {j}) = 0
  BY <1>1, <1>3, <1>4
<1> QED  BY <1>3, <1>5, FS_EmptySet

\* The worker that steps still holds what it has in hand.
LEMMA HoldOwnStep ==
    ASSUME HoldInv, Prompt, NEW w \in Workers, WorkerStep(w)
    PROVE  /\ rest'[w] = {}
           /\ phase'[w] \in InHand =>
                 /\ state'[cur'[w]] = "leased" /\ owner'[cur'[w]] = w
                 /\ lease'[cur'[w]] > 0 /\ ~lost'[w]
<1> USE DEF HoldInv, Inv, TypeOK, RowTypes, ProcTypes
<1>1. CASE Claim(w)
  <2>1. PICK S \in ClaimSets(w) :
          /\ state' = [j \in Jobs |-> IF j \in S THEN "leased" ELSE state[j]]
          /\ owner' = [j \in Jobs |-> IF j \in S THEN w ELSE owner[j]]
          /\ lease' = [j \in Jobs |-> IF j \in S THEN LeaseS ELSE lease[j]]
          /\ \E j \in S : Begin(w, j, S \ {j})
    BY <1>1 DEF Claim
  <2>2. PICK j \in S : Begin(w, j, S \ {j})
    BY <2>1
  <2>3. S \ {j} = {} /\ j \in Jobs
    BY ClaimOne, ShapeAssumption DEF Prompt, ClaimSets, Claimable
  <2>4. rest'[w] = {} /\ cur'[w] = j
    BY <2>2, <2>3 DEF Begin
  <2>5. ~lost'[w]
    BY <1>1 DEF Claim, HandShape
  <2> QED  BY <2>1, <2>3, <2>4, <2>5, BoundsAssumption
<1>2. CASE Beat(w)
  <2>1. cur[w] \in Jobs
    BY <1>2, InHandJob DEF Beat, InHand
  <2> QED  BY <1>2, <2>1, BoundsAssumption DEF Beat, Holding, InHand
<1>3. CASE ReturnLost(w) \/ Record(w) \/ WriteFails(w) \/ Release(w)
  BY <1>3, AdvanceEmpty DEF ReturnLost, Record, WriteFails, Release, Holding
<1>4. CASE \E o \in Outcomes \ {"none"}, fs \in SUBSET Jobs : Return(w, o, fs)
  <2>1. PICK o \in Outcomes \ {"none"}, fs \in SUBSET Jobs : Return(w, o, fs)
    BY <1>4
  <2> QED  BY <2>1 DEF Return, rows, Holding, InHand
<1>5. CASE Reap(w)
  BY <1>5 DEF Reap, procs, Holding, InHand
<1>6. CASE Stop(w) \/ Exit(w) \/ Crash(w) \/ Restart(w)
  BY <1>6 DEF Stop, Exit, Crash, Restart, PutDown, rows, Holding, InHand
<1> QED
  BY <1>1, <1>2, <1>3, <1>4, <1>5, <1>6 DEF WorkerStep

\* A step of worker v leaves what another worker w has in hand alone.
LEMMA OtherWorkerStep ==
    ASSUME HoldInv, Prompt, NEW v \in Workers, WorkerStep(v), NEW w \in Workers \ {v}
    PROVE  /\ phase'[w] = phase[w] /\ cur'[w] = cur[w]
           /\ rest'[w] = rest[w] /\ lost'[w] = lost[w]
           /\ phase[w] \in InHand =>
                 /\ state'[cur[w]] = state[cur[w]]
                 /\ owner'[cur[w]] = owner[cur[w]]
                 /\ lease'[cur[w]] = lease[cur[w]]
<1> USE DEF HoldInv
<1>1. /\ phase'[w] = phase[w] /\ cur'[w] = cur[w]
      /\ rest'[w] = rest[w] /\ lost'[w] = lost[w]
  <2> USE DEF Inv, TypeOK, ProcTypes
  <2>1. CASE ReturnLost(v) \/ Record(v) \/ WriteFails(v) \/ Release(v)
    BY <2>1, AdvanceEmpty DEF ReturnLost, Record, WriteFails, Release, Holding
  <2>2. CASE Claim(v)
    BY <2>2 DEF Claim, Begin
  <2>3. CASE \E o \in Outcomes \ {"none"}, fs \in SUBSET Jobs : Return(v, o, fs)
    BY <2>3 DEF Return
  <2>4. CASE Reap(v) \/ Beat(v) \/ Stop(v) \/ Exit(v) \/ Crash(v) \/ Restart(v)
    BY <2>4 DEF Reap, Beat, Stop, Exit, Crash, Restart, PutDown, procs
  <2> QED  BY <2>1, <2>2, <2>3, <2>4 DEF WorkerStep
<1>2. ASSUME phase[w] \in InHand
      PROVE  /\ state'[cur[w]] = state[cur[w]]
             /\ owner'[cur[w]] = owner[cur[w]]
             /\ lease'[cur[w]] = lease[cur[w]]
  <2>1. cur[w] \in Jobs
    BY <1>2, InHandJob
  <2>2. /\ state[cur[w]] = "leased" /\ lease[cur[w]] > 0
        /\ phase[v] \in InHand => cur[v] # cur[w]
    BY <1>2 DEF Holding
  <2> QED  BY <2>1, <2>2, LiveLeaseStep
<1> QED  BY <1>1, <1>2

LEMMA HoldStep ==
    ASSUME HoldInv, Prompt, [Next]_vars
    PROVE  Holding'
<1>1. CASE \E v \in Workers : WorkerStep(v)
  <2>1. PICK v \in Workers : WorkerStep(v)
    BY <1>1
  <2> SUFFICES ASSUME NEW w \in Workers
               PROVE  /\ rest'[w] = {}
                      /\ phase'[w] \in InHand =>
                           /\ state'[cur'[w]] = "leased" /\ owner'[cur'[w]] = w
                           /\ lease'[cur'[w]] > 0 /\ ~lost'[w]
    BY DEF Holding
  <2>2. CASE w = v
    BY <2>1, <2>2, HoldOwnStep
  <2>3. CASE w # v
    BY <2>1, <2>3, OtherWorkerStep DEF HoldInv, Holding
  <2> QED  BY <2>2, <2>3
<1>2. CASE \E j \in Jobs : Submit(j) \/ RequeueDead(j)
  <2>1. PICK j \in Jobs : Submit(j) \/ RequeueDead(j)
    BY <1>2
  <2>2. \A w \in Workers : phase[w] \in InHand => cur[w] \in Jobs /\ cur[w] # j
    BY <2>1, InHandJob DEF Submit, RequeueDead, HoldInv, Holding
  <2> QED
    BY <2>1, <2>2 DEF Submit, RequeueDead, procs, HoldInv, Inv, TypeOK, RowTypes, Holding
<1>3. CASE Tick
  <2>1. \A w \in Workers : phase[w] \in InHand =>
            cur[w] \in Jobs /\ lease[cur[w]] > 1 /\ lease[cur[w]] \in Nat
    BY <1>3, InHandJob, BoundsAssumption
    DEF Tick, TickAllowed, Prompt, HoldInv, Inv, TypeOK, RowTypes, Holding
  <2>2. \A w \in Workers : phase[w] \in InHand => lease'[cur[w]] > 0
    BY <1>3, <2>1 DEF Tick, Down
  <2> QED  BY <1>3, <2>2 DEF Tick, procs, HoldInv, Holding
<1>4. CASE UNCHANGED vars
  BY <1>4 DEF vars, HoldInv, Holding
<1> QED  BY <1>1, <1>2, <1>3, <1>4 DEF Next

THEOREM HoldInvariant == ASSUME Prompt PROVE Spec => []HoldInv
<1>1. Init => HoldInv
  BY InitInv DEF Init, HoldInv, Holding, InHand
<1>2. HoldInv /\ [Next]_vars => HoldInv'
  BY NextInv, HoldStep DEF HoldInv
<1> QED  BY <1>1, <1>2, PTL DEF Spec

(* In a prompt deployment no two workers ever run the same job at once.     *)
THEOREM MutualExclusion == ASSUME Prompt PROVE Spec => []Exclusive
<1>1. HoldInv => Exclusive
  BY DEF HoldInv, Holding, Exclusive
<1> QED  BY <1>1, HoldInvariant, PTL

(* In a prompt deployment an outcome is recorded by the owner of the row.   *)
THEOREM OwnersRecord == ASSUME Prompt PROVE Spec => NoClobber
<1>1. HoldInv /\ [Next]_vars =>
        [\A w \in Workers : Record(w) => owner[cur[w]] = w]_vars
  BY DEF HoldInv, Holding, Record, InHand
<1> QED  BY <1>1, HoldInvariant, PTL DEF Spec, NoClobber

-----------------------------------------------------------------------------
(* A prompt deployment implements JobLedger.                               *)

Status == [j \in Jobs |-> IF state[j] \in {"queued", "leased"}
                          THEN "pending" ELSE state[j]]

\* The four ledger actions, spelled out over Status.
LEMMA LedgerNext ==
    ASSUME NEW j \in Jobs,
           \/ /\ j \in Roots /\ Status[j] = "absent"
              /\ Status' = [Status EXCEPT ![j] = "pending"]
              /\ UNCHANGED promised
           \/ /\ Status[j] = "pending"
              /\ Status' = [Status EXCEPT ![j] = "dead"]
              /\ UNCHANGED promised
           \/ /\ Status[j] = "dead"
              /\ Status' = [Status EXCEPT ![j] = "pending"]
              /\ UNCHANGED promised
           \/ \E fs \in SUBSET Jobs :
                /\ Status[j] = "pending"
                /\ fs \subseteq FollowOn[j]
                /\ Status' = [k \in Jobs |->
                                IF k = j THEN "succeeded"
                                ELSE IF k \in fs /\ Status[k] = "absent"
                                     THEN "pending" ELSE Status[k]]
                /\ promised' = [promised EXCEPT ![j] = fs]
    PROVE  Ledger!Next
BY DEF Ledger!Next, Ledger!Submit, Ledger!Kill, Ledger!Revive, Ledger!Finish,
       Status

LEMMA LedgerWorker ==
    ASSUME HoldInv, Prompt, NEW w \in Workers, WorkerStep(w)
    PROVE  Ledger!Next \/ UNCHANGED <<Status, promised>>
<1> USE DEF HoldInv, Inv, TypeOK, RowTypes
<1>1. CASE Record(w)
  <2>1. /\ cur[w] \in Jobs /\ state[cur[w]] = "leased"
        /\ follow[w] \in SUBSET Jobs /\ follow[w] \subseteq FollowOn[cur[w]]
    BY <1>1, InHandJob DEF Record, InHand, Holding, ProcTypes, HandShape
  <2>2. CASE Succeed(cur[w], follow[w])
    <3>1. \A k \in Jobs : Status[k] = "absent" <=> state[k] = "absent"
      BY DEF Status
    <3>2. Status[cur[w]] = "pending"
      BY <2>1 DEF Status
    <3>3. Status' = [k \in Jobs |->
                       IF k = cur[w] THEN "succeeded"
                       ELSE IF k \in follow[w] /\ Status[k] = "absent"
                            THEN "pending" ELSE Status[k]]
      BY <2>1, <2>2, <3>1 DEF Status, Succeed, Enqueued
    <3>4. promised' = [promised EXCEPT ![cur[w]] = follow[w]]
      BY <2>2 DEF Succeed
    <3> QED  BY <2>1, <3>2, <3>3, <3>4, LedgerNext
  <2>3. CASE \E b \in BOOLEAN : Fail(cur[w], b)
    <3>1. promised' = promised /\ Status[cur[w]] = "pending"
      BY <2>1, <2>3 DEF Fail, Status
    <3>2. CASE state' = [state EXCEPT ![cur[w]] = "queued"]
      BY <2>1, <3>1, <3>2 DEF Status
    <3>3. CASE state' = [state EXCEPT ![cur[w]] = "dead"]
      <4>1. Status' = [Status EXCEPT ![cur[w]] = "dead"]
        BY <2>1, <3>3 DEF Status
      <4> QED  BY <2>1, <3>1, <4>1, LedgerNext
    <3> QED  BY <2>3, <3>2, <3>3 DEF Fail
  <2> QED  BY <1>1, <2>2, <2>3 DEF Record
<1>2. CASE Release(w)
  <2>1. cur[w] \in Jobs /\ state[cur[w]] = "leased"
    BY <1>2, InHandJob DEF Release, InHand, Holding
  <2> QED  BY <1>2, <2>1 DEF Release, Status
<1>3. CASE Claim(w)
  BY <1>3 DEF Claim, ClaimSets, Claimable, Status
<1>4. CASE Reap(w)
  BY <1>4 DEF Reap, Expired, Status
<1>5. CASE UNCHANGED <<state, promised>>
  BY <1>5 DEF Status
<1> QED
  BY <1>1, <1>2, <1>3, <1>4, <1>5
  DEF WorkerStep, Beat, Return, ReturnLost, WriteFails, Stop, Exit, Crash,
      Restart, rows

LEMMA LedgerStep ==
    ASSUME HoldInv, Prompt, [Next]_vars
    PROVE  Ledger!Next \/ UNCHANGED <<Status, promised>>
<1> USE DEF HoldInv, Inv, TypeOK, RowTypes
<1>1. CASE \E w \in Workers : WorkerStep(w)
  BY <1>1, LedgerWorker
<1>2. ASSUME NEW j \in Jobs, Submit(j) PROVE Ledger!Next
  <2>1. /\ Status[j] = "absent" /\ promised' = promised /\ j \in Roots
        /\ Status' = [Status EXCEPT ![j] = "pending"]
    BY <1>2 DEF Submit, Status
  <2> QED  BY <2>1, LedgerNext
<1>3. ASSUME NEW j \in Jobs, RequeueDead(j) PROVE Ledger!Next
  <2>1. /\ Status[j] = "dead" /\ promised' = promised
        /\ Status' = [Status EXCEPT ![j] = "pending"]
    BY <1>3 DEF RequeueDead, Status
  <2> QED  BY <2>1, LedgerNext
<1>4. CASE Tick \/ UNCHANGED vars
  BY <1>4 DEF Tick, vars, Status
<1> QED  BY <1>1, <1>2, <1>3, <1>4 DEF Next

(* In a prompt deployment leases, owners, batches, crashes and retries are  *)
(* invisible: the queue is the ledger it promises its producers.            *)
THEOREM Implements == ASSUME Prompt PROVE Spec => LedgerSpec
<1>1. Init => Ledger!Init
  BY DEF Init, Ledger!Init
<1>2. HoldInv /\ [Next]_vars => [Ledger!Next]_(Ledger!lvars)
  BY LedgerStep DEF Ledger!lvars, Status
<1> QED
  BY <1>1, <1>2, HoldInvariant, PTL DEF Spec, LedgerSpec, Ledger!Spec

-----------------------------------------------------------------------------
(* Consequences, in a prompt deployment.                                   *)

(* Success is final.                                                        *)
THEOREM SuccessIsFinal == ASSUME Prompt PROVE Spec => SucceededIsFinal
<1>1. HoldInv /\ [Next]_vars =>
        [\A j \in Jobs : state[j] = "succeeded" => state'[j] = "succeeded"]_vars
  <2> SUFFICES ASSUME HoldInv, [Next]_vars, NEW j \in Jobs, state[j] = "succeeded"
               PROVE  state'[j] = "succeeded"
    OBVIOUS
  <2>1. CASE Ledger!Next
    <3>1. Status[j] = "succeeded"
      BY DEF Status
    <3>2. Status'[j] = "succeeded"
      BY <2>1, <3>1 DEF Ledger!Next, Ledger!Submit, Ledger!Kill, Ledger!Revive,
                        Ledger!Finish, Status
    <3> QED  BY <3>2 DEF Status
  <2>2. CASE UNCHANGED <<Status, promised>>
    <3>1. Status'[j] = "succeeded"
      BY <2>2 DEF Status
    <3> QED  BY <3>1 DEF Status
  <2> QED  BY <2>1, <2>2, LedgerStep
<1> QED  BY <1>1, HoldInvariant, PTL DEF Spec, SucceededIsFinal

\* The budget, for rows of every state: a row that never ran has spent
\* nothing, and only a dead row has spent it all.
BudgetInv ==
    \A j \in Jobs :
        /\ attempts[j] <= MaxAttempts
        /\ state[j] = "absent" => attempts[j] = 0
        /\ state[j] # "dead" => attempts[j] < MaxAttempts

LEMMA BudgetStep ==
    ASSUME HoldInv, Prompt, BudgetInv, [Next]_vars
    PROVE  BudgetInv'
<1> USE BoundsAssumption DEF HoldInv, Inv, TypeOK, RowTypes
<1>1. ASSUME NEW w \in Workers, WorkerStep(w) PROVE BudgetInv'
  <2>1. ASSUME phase[w] \in InHand
        PROVE  cur[w] \in Jobs /\ state[cur[w]] = "leased"
    BY <2>1, InHandJob DEF Holding
  <2>2. CASE Record(w) /\ Succeed(cur[w], follow[w])
    BY <2>1, <2>2 DEF Record, InHand, Succeed, Enqueued, BudgetInv
  <2>3. CASE Record(w) /\ \E b \in BOOLEAN : Fail(cur[w], b)
    <3>1. PICK b \in BOOLEAN : Fail(cur[w], b)
      BY <2>3
    <3>2. cur[w] \in Jobs /\ state[cur[w]] = "leased"
      BY <2>1, <2>3 DEF Record, InHand
    <3>3. \A j \in Jobs \ {cur[w]} :
             attempts'[j] = attempts[j] /\ state'[j] = state[j]
      BY <3>1, <3>2 DEF Fail
    <3>4. /\ attempts'[cur[w]] = attempts[cur[w]] + 1
          /\ \/ state'[cur[w]] = "dead"
             \/ state'[cur[w]] = "queued" /\ attempts[cur[w]] + 1 < MaxAttempts
      BY <3>1, <3>2 DEF Fail
    <3> QED  BY <3>2, <3>3, <3>4 DEF BudgetInv
  <2>4. CASE Release(w)
    BY <2>1, <2>4 DEF Release, InHand, BudgetInv
  <2>5. CASE Reap(w)
    BY <2>5 DEF Reap, Expired, BudgetInv
  <2>6. CASE Claim(w)
    BY <2>6 DEF Claim, ClaimSets, Claimable, BudgetInv
  <2>7. CASE UNCHANGED <<state, attempts>>
    BY <2>7 DEF BudgetInv
  <2> QED
    BY <1>1, <2>2, <2>3, <2>4, <2>5, <2>6, <2>7
    DEF WorkerStep, Record, Beat, Return, ReturnLost, WriteFails, Stop, Exit,
        Crash, Restart, rows
<1>2. CASE \E j \in Jobs : Submit(j) \/ RequeueDead(j)
  BY <1>2 DEF Submit, RequeueDead, BudgetInv
<1>3. CASE Tick \/ UNCHANGED vars
  BY <1>3 DEF Tick, vars, BudgetInv
<1> QED  BY <1>1, <1>2, <1>3 DEF Next

(* In a prompt deployment no job runs once more than max_attempts allows.   *)
THEOREM BudgetKept == ASSUME Prompt PROVE Spec => []AttemptBudget
<1>1. Init => BudgetInv
  BY BoundsAssumption DEF Init, BudgetInv
<1>2. HoldInv /\ BudgetInv /\ [Next]_vars => BudgetInv'
  BY BudgetStep
<1>3. BudgetInv => AttemptBudget
  BY DEF BudgetInv, AttemptBudget
<1> QED  BY <1>1, <1>2, <1>3, HoldInvariant, PTL DEF Spec

\* A ledger step keeps every entered successor accounted for.
LEMMA EarnedStep ==
    ASSUME HoldInv, Prompt, ChainEarned, [Next]_vars
    PROVE  ChainEarned'
<1> USE DEF HoldInv, Inv, TypeOK, RowTypes
<1>1. \A j \in Jobs : /\ Status[j] = "absent" <=> state[j] = "absent"
                      /\ Status[j] = "succeeded" <=> state[j] = "succeeded"
  BY DEF Status
<1>2. \A j \in Jobs : /\ Status'[j] = "absent" <=> state'[j] = "absent"
                      /\ Status'[j] = "succeeded" <=> state'[j] = "succeeded"
  BY DEF Status
<1>3. CASE UNCHANGED <<Status, promised>>
  BY <1>1, <1>2, <1>3 DEF ChainEarned
<1>4. ASSUME NEW j \in Jobs,
             Ledger!Submit(j) \/ Ledger!Kill(j) \/ Ledger!Revive(j)
      PROVE  ChainEarned'
  <2>1. /\ promised' = promised
        /\ \A k \in Jobs : Status[k] = "succeeded" => Status'[k] = "succeeded"
        /\ \A k \in Jobs \ Roots : Status[k] = "absent" => Status'[k] = "absent"
    BY <1>4 DEF Ledger!Submit, Ledger!Kill, Ledger!Revive, Status
  <2> QED  BY <1>1, <1>2, <2>1 DEF ChainEarned
<1>5. ASSUME NEW j \in Jobs, NEW fs \in SUBSET Jobs, Ledger!Finish(j, fs)
      PROVE  ChainEarned'
  <2>1. /\ Status[j] = "pending" /\ Status'[j] = "succeeded"
        /\ promised'[j] = fs
        /\ \A k \in Jobs \ {j} : promised'[k] = promised[k]
        /\ \A k \in Jobs : Status[k] = "succeeded" => Status'[k] = "succeeded"
        /\ \A k \in Jobs \ {j} : k \notin fs /\ Status[k] = "absent"
                                     => Status'[k] = "absent"
    BY <1>5 DEF Ledger!Finish, Status
  <2> SUFFICES ASSUME NEW f \in Jobs \ Roots, state'[f] # "absent"
               PROVE  \E k \in Jobs : state'[k] = "succeeded" /\ f \in promised'[k]
    BY DEF ChainEarned
  <2>2. CASE state[f] # "absent"
    <3>1. PICK k \in Jobs : state[k] = "succeeded" /\ f \in promised[k]
      BY <2>2 DEF ChainEarned
    <3> QED  BY <1>1, <1>2, <2>1, <3>1
  <2>3. CASE state[f] = "absent"
    <3>1. f \in fs
      BY <1>1, <1>2, <2>1, <2>3
    <3> QED  BY <1>2, <2>1, <3>1
  <2> QED  BY <2>2, <2>3
<1> QED  BY <1>3, <1>4, <1>5, LedgerStep DEF Ledger!Next

(* In a prompt deployment the other half of the chain's promise holds too:  *)
(* a chained job has a row only because a job recorded done named it.       *)
THEOREM ChainIsEarned == ASSUME Prompt PROVE Spec => []ChainEarned
<1>1. Init => ChainEarned
  BY DEF Init, ChainEarned
<1>2. HoldInv /\ ChainEarned /\ [Next]_vars => ChainEarned'
  BY EarnedStep
<1> QED  BY <1>1, <1>2, HoldInvariant, PTL DEF Spec
=============================================================================
