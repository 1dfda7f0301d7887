---------------------------- MODULE IntakeProofs ----------------------------
(***************************************************************************)
(* Proofs about Intake, for all submissions, workers, budgets and faults.  *)
(***************************************************************************)
EXTENDS Intake, TLAPS

\* A verdict on a row, and every other call on it, leaves a row.
LEMMA RowsStayRows ==
    ASSUME NEW job \in JobRow
    PROVE  /\ \A retry \in BOOLEAN : Failed(job, retry) \in JobRow
           /\ Queued(job) \in JobRow
           /\ Succeeded(job) \in JobRow
           /\ \A w \in Workers : Leased(job, w, "worker") \in JobRow
           /\ \A w \in Workers : Leased(job, w, "engine") \in JobRow
<1>1. Nothing \in Lessee
  BY DEF Lessee
<1>2. ASSUME NEW w \in Workers
      PROVE  <<w, "worker">> \in Lessee /\ <<w, "engine">> \in Lessee
  BY DEF Lessee
<1>3. ASSUME NEW retry \in BOOLEAN  PROVE Failed(job, retry) \in JobRow
  BY <1>1 DEF JobRow, Failed
<1>4. Queued(job) \in JobRow /\ Succeeded(job) \in JobRow
  BY <1>1 DEF JobRow, Queued, Succeeded
<1>5. ASSUME NEW w \in Workers
      PROVE  Leased(job, w, "worker") \in JobRow /\ Leased(job, w, "engine") \in JobRow
  BY <1>2 DEF JobRow, Leased
<1> QED  BY <1>3, <1>4, <1>5

\* Enqueueing touches no row but the absent ones it was given.
LEMMA EnqueueTypes ==
    ASSUME tx \in [Refs -> JobRow], NEW keys
    PROVE  /\ Enqueue(tx, keys) \in [Refs -> JobRow]
           /\ \A r \in Refs : tx[r].state # "absent" => Enqueue(tx, keys)[r] = tx[r]
  BY RowsStayRows DEF Enqueue

\* What a worker does between jobs keeps its types.
LEMMA IdleTypes ==
    ASSUME TypeOK, NEW w \in Workers, Idle(w)
    PROVE  /\ stage' \in [Workers -> Stages]
           /\ outer' \in [Workers -> Submissions \union {Nothing}]
           /\ inner' \in [Workers -> Submissions \union {Nothing}]
           /\ ref' \in [Workers -> Refs \union {Nothing}]
           /\ chosen' \in [Workers -> SUBSET (Channels \X Refs)]
  BY DEF TypeOK, Idle, Goto, Stages

\* What the stages say of a worker's hands.
HandsFull ==
    \A w \in Workers :
        /\ stage[w] \in Nested \union {"acquired"} => inner[w] \in Submissions
        /\ stage[w] \in {"reading", "hearing", "heard", "done", "fatal"} => ref[w] \in Refs

LEMMA SubmittedRefs == \A s \in Submissions : s[2] \in Refs
  BY IntakeAssumption

-----------------------------------------------------------------------------
(* Types and hands are inductive together.                                 *)

LEMMA TypesStep ==
    ASSUME TypeOK, HandsFull, Next
    PROVE  TypeOK'
<1> USE DEF TypeOK
<1>1. CASE \E s \in Submissions : Submit(s)
  <2> PICK s \in Submissions : Submit(s)  BY <1>1
  <2>1. Queued(acq[s]) \in JobRow  BY RowsStayRows
  <2> QED  BY <2>1 DEF Submit, lib, procs
<1>2. CASE Due
  <2>1. slips' \subseteq {"crash", "raise", "lapse"}
    BY <1>2 DEF Due, Return, Slip
  <2>2. acq' \in [Submissions -> JobRow] /\ tx' \in [Refs -> JobRow]
    BY <1>2, RowsStayRows DEF Due, Return
  <2> QED  BY <1>2, <2>1, <2>2 DEF Due, lib, procs
<1>3. ASSUME NEW w \in Workers, Claim(w) \/ Reap(w)  PROVE TypeOK'
  <2>1. CASE ClaimHear(w)
    <3>0. PICK r \in Refs : tx' = [tx EXCEPT ![r] = Leased(tx[r], w, "worker")]
      BY <2>1 DEF ClaimHear
    <3>1. Leased(tx[r], w, "worker") \in JobRow
      BY RowsStayRows
    <3> QED  BY <2>1, <3>0, <3>1 DEF ClaimHear, Goto, Stages, lib
  <2>2. CASE ClaimAcquire(w)
    <3>0. PICK s \in Submissions : acq' = [acq EXCEPT ![s] = Leased(acq[s], w, "worker")]
      BY <2>2 DEF ClaimAcquire
    <3>1. Leased(acq[s], w, "worker") \in JobRow
      BY RowsStayRows
    <3> QED  BY <2>2, <3>0, <3>1 DEF ClaimAcquire, Goto, Stages, lib
  <2>3. CASE Reap(w)
    <3>1. slips' \subseteq {"crash", "raise", "lapse"}
      BY <2>3 DEF Reap, Return, Slip
    <3>2. acq' \in [Submissions -> JobRow] /\ tx' \in [Refs -> JobRow]
      BY <2>3, RowsStayRows DEF Reap, Return
    <3> QED  BY <2>3, <3>1, <3>2 DEF Reap, lib, procs
  <2> QED  BY <1>3, <2>1, <2>2, <2>3 DEF Claim
<1>4. ASSUME NEW w \in Workers, Raise(w) \/ Crash(w)  PROVE TypeOK'
  <2>1. slips' \subseteq {"crash", "raise", "lapse"}
    BY <1>4 DEF Raise, Crash, Slip
  <2>2. CASE Raise(w)
    BY <2>1, <2>2 DEF Raise, Goto, Stages, rows, lib, procs
  <2>3. CASE Crash(w)
    BY <2>1, <2>3, IdleTypes DEF Crash, rows, lib
  <2> QED  BY <1>4, <2>2, <2>3
<1>5. ASSUME NEW w \in Workers, Handler(w)  PROVE TypeOK'
  <2>1. CASE ClaimInner(w)
    <3>0. PICK s \in Submissions : acq' = [acq EXCEPT ![s] = Leased(acq[s], w, "engine")]
      BY <2>1 DEF ClaimInner
    <3>1. Leased(acq[s], w, "engine") \in JobRow
      BY RowsStayRows
    <3> QED  BY <2>1, <3>0, <3>1 DEF ClaimInner, Goto, Stages, Nested, lib
  <2>2. CASE ClaimNone(w)
    BY <2>2 DEF ClaimNone, Goto, Stages, rows, lib, procs
  <2>3. CASE Persist(w)
    <3>1. inner[w][2] \in Refs
      BY <2>3, SubmittedRefs DEF Persist, At, HandsFull, Nested
    <3> QED  BY <2>3, <3>1 DEF Persist, Goto, Stages, Nested, rows, procs
  <2>4. CASE NoteReady(w)
    BY <2>4 DEF NoteReady, Note, Goto, Stages, Nested, rows, procs
  <2>5. CASE SucceedInner(w)
    <3>1. acq' \in [Submissions -> JobRow]
      BY <2>5, RowsStayRows DEF SucceedInner
    <3> QED  BY <2>5, <3>1 DEF SucceedInner, Goto, Stages, lib, procs
  <2>6. CASE FailInner(w)
    <3>0. PICK retry \in BOOLEAN :
            /\ acq' = [acq EXCEPT ![inner[w]] = Failed(acq[inner[w]], retry)]
            /\ Goto(w, IF retry THEN "broken" ELSE "refused")
      BY <2>6 DEF FailInner
    <3>1. inner[w] \in Submissions
      BY <2>6 DEF FailInner, At, HandsFull, Nested
    <3>2. Failed(acq[inner[w]], retry) \in JobRow
      BY <3>1, RowsStayRows
    <3>3. acq' \in [Submissions -> JobRow] /\ stage' \in [Workers -> Stages]
      BY <3>0, <3>2 DEF Goto, Stages, Nested
    <3> QED  BY <2>6, <3>3 DEF FailInner, lib, procs
  <2>7. CASE NoteFailed(w)
    <3>1. run' \in [Submissions -> [state : {"none", "downloading", "ready", "failed"},
                                    source : BOOLEAN]]
      <4>1. CASE Note(inner[w], "failed", FALSE)
        BY <4>1 DEF Note
      <4>2. CASE Note(inner[w], "downloading", FALSE)
        BY <4>2 DEF Note
      <4> QED  BY <2>7, <4>1, <4>2 DEF NoteFailed
    <3> QED  BY <2>7, <3>1 DEF NoteFailed, Goto, Stages, rows, procs
  <2>8. CASE Read(w)
    <3>1. ref[w] \in Refs
      BY <2>8 DEF Read, At, HandsFull
    <3> QED  BY <2>8, <3>1 DEF Read, Goto, Stages, rows, procs
  <2>9. CASE Transcribe(w)
    <3>1. ref[w] \in Refs
      BY <2>9 DEF Transcribe, At, HandsFull
    <3> QED  BY <2>9, <3>1 DEF Transcribe, Goto, Stages, rows, procs
  <2>10. CASE NotTranscribed(w)
    BY <2>10 DEF NotTranscribed, Goto, Stages, rows, lib, procs
  <2>11. CASE Choose(w)
    <3>1. ref[w] \in Refs
      BY <2>11 DEF Choose, At, HandsFull
    <3>2. \A c \in Attached(ref[w]) : {<<c, ref[w]>>} \subseteq Channels \X Refs
      BY <3>1 DEF Attached
    <3>3. chosen' \in [Workers -> SUBSET (Channels \X Refs)]
      BY <2>11, <3>2 DEF Choose
    <3> QED  BY <2>11, <3>3 DEF Choose, Goto, Stages, rows, lib
  <2>12. CASE RecordAcquire(w)
    <3>1. acq' \in [Submissions -> JobRow]
      BY <2>12, RowsStayRows DEF RecordAcquire
    <3>2. tx' \in [Refs -> JobRow]
      BY <2>12, EnqueueTypes DEF RecordAcquire
    <3> QED  BY <2>12, <3>1, <3>2, IdleTypes DEF RecordAcquire, lib
  <2>13. CASE RecordLost(w)
    BY <2>13, IdleTypes DEF RecordLost, rows, lib
  <2>14. CASE RecordHear(w)
    <3>1. tx' \in [Refs -> JobRow]
      BY <2>14, RowsStayRows DEF RecordHear, At
    <3>2. selected' \subseteq Channels \X Refs
      BY <2>14 DEF RecordHear
    <3> QED  BY <2>14, <3>1, <3>2, IdleTypes DEF RecordHear, lib
  <2> QED  BY <1>5, <2>1, <2>2, <2>3, <2>4, <2>5, <2>6, <2>7, <2>8, <2>9, <2>10,
              <2>11, <2>12, <2>13, <2>14 DEF Handler
<1>6. CASE Quiet
  BY <1>6 DEF Quiet, vars
<1> QED  BY <1>1, <1>2, <1>3, <1>4, <1>5, <1>6 DEF Next

LEMMA HandsStep ==
    ASSUME TypeOK, HandsFull, Next
    PROVE  HandsFull'
<1> USE DEF TypeOK, HandsFull, Nested, At, Goto, Idle
<1>1. CASE UNCHANGED <<stage, inner, ref>>
  BY <1>1
<1>2. CASE \E w \in Workers : ClaimHear(w) \/ ClaimAcquire(w) \/ ClaimInner(w)
  BY <1>2 DEF ClaimHear, ClaimAcquire, ClaimInner
<1>3. CASE \E w \in Workers : Idle(w)
  BY <1>3
<1>4. CASE \E w \in Workers : ClaimNone(w) \/ Persist(w)
  BY <1>4 DEF ClaimNone, Persist, procs
<1>7. CASE \E w \in Workers : NoteReady(w) \/ SucceedInner(w)
  BY <1>7 DEF NoteReady, SucceedInner, procs
<1>5. CASE \E w \in Workers : FailInner(w)
  <2> PICK w \in Workers : FailInner(w)
    BY <1>5
  <2>1. inner' = inner /\ ref' = ref
    BY DEF FailInner, procs
  <2>2. PICK s \in {"broken", "refused"} : stage' = [stage EXCEPT ![w] = s]
    BY DEF FailInner
  <2>3. inner[w] \in Submissions
    BY DEF FailInner
  <2> QED  BY <2>1, <2>2, <2>3
<1>9. CASE \E w \in Workers : NoteFailed(w)
  <2> PICK w \in Workers : NoteFailed(w)
    BY <1>9
  <2> QED  BY DEF NoteFailed, procs
<1>8. CASE \E w \in Workers : Raise(w)
  BY <1>8 DEF Raise, procs
<1>6. CASE \E w \in Workers : Read(w) \/ Transcribe(w) \/ NotTranscribed(w) \/ Choose(w)
  BY <1>6 DEF Read, Transcribe, NotTranscribed, Choose, procs
<1> QED
  BY <1>1, <1>2, <1>3, <1>4, <1>5, <1>6, <1>7, <1>8, <1>9
  DEF Next, Handler, Claim, Submit, Due, Reap, Quiet, RecordAcquire, RecordLost,
      RecordHear, Crash, procs, vars

\* Every row and every worker has its type, whatever overlaps or fails: the
\* rows the engine and the runtime write for each other included.
THEOREM TypeCorrect == Spec => []TypeOK
<1>1. Init => TypeOK /\ HandsFull
  BY DEF Init, TypeOK, HandsFull, JobRow, Absent, Lessee, Stages, Nested
<1>2. TypeOK /\ HandsFull /\ [Next]_vars => TypeOK' /\ HandsFull'
  <2>1. TypeOK /\ HandsFull /\ UNCHANGED vars => TypeOK' /\ HandsFull'
    BY DEF TypeOK, HandsFull, vars
  <2> QED  BY <2>1, TypesStep, HandsStep
<1> QED  BY <1>1, <1>2, PTL DEF Spec

-----------------------------------------------------------------------------
(* The provider is paid once per acquisition.  One worker at a time has a  *)
(* reference's job in hand, so nobody else transcribes what it found       *)
(* untranscribed; and each acquisition that forgets a transcript is one    *)
(* more the provider may be paid for.                                      *)

\* Whoever holds a transcribe job owns its row.
Owned ==
    \A w \in Workers : ref[w] \in Refs =>
        tx[ref[w]].state = "leased" /\ tx[ref[w]].owner = <<w, "worker">>

\* A source without a transcript has been stored more often than paid for,
\* and what a worker is transcribing is such a source.
Unpaid ==
    /\ PaidOnce
    /\ \A r \in known : r \notin heard => paid[r] < stored[r]
    /\ \A w \in Workers : stage[w] = "hearing" => ref[w] \in known /\ ref[w] \notin heard

PInv == TypeOK /\ HandsFull /\ Owned /\ Unpaid

LEMMA OneHearer ==
    ASSUME Owned, NEW v \in Workers, NEW w \in Workers,
           ref[v] \in Refs, ref[v] = ref[w]
    PROVE  v = w
<1>1. <<v, "worker">> = <<w, "worker">>
  BY DEF Owned
<1> QED  BY <1>1

LEMMA OwnedStep ==
    ASSUME TypeOK, HandsFull, Owned, Next
    PROVE  Owned'
<1> USE DEF TypeOK
<1>1. CASE UNCHANGED <<tx, ref>>
  BY <1>1 DEF Owned
<1>2. CASE Due
  <2> SUFFICES ASSUME NEW r \in Refs, tx[r].state = "waiting",
                      tx' = [tx EXCEPT ![r] = Queued(@)], UNCHANGED ref
               PROVE  Owned'
    BY <1>1, <1>2 DEF Due, procs
  <2> QED  BY DEF Owned
<1>3. ASSUME NEW w \in Workers, ClaimHear(w)  PROVE Owned'
  <2>1. PICK r \in Refs : /\ tx[r].state = "queued"
                          /\ tx' = [tx EXCEPT ![r] = Leased(tx[r], w, "worker")]
                          /\ ref' = [ref EXCEPT ![w] = r]
    BY <1>3 DEF ClaimHear
  <2>2. Leased(tx[r], w, "worker").state = "leased"
        /\ Leased(tx[r], w, "worker").owner = <<w, "worker">>
    BY DEF Leased, JobRow
  <2> QED  BY <2>1, <2>2 DEF Owned
<1>4. ASSUME NEW w \in Workers, Reap(w)  PROVE Owned'
  <2>1. UNCHANGED ref
    BY <1>4 DEF Reap, procs
  <2>2. CASE UNCHANGED tx
    BY <1>1, <2>1, <2>2
  <2>3. CASE \E r \in Refs : /\ Forsaken(tx[r], ref[tx[r].owner[1]] = r)
                             /\ tx' = [tx EXCEPT ![r] = Queued(@)]
    <3>1. PICK r \in Refs : /\ Forsaken(tx[r], ref[tx[r].owner[1]] = r)
                            /\ tx' = [tx EXCEPT ![r] = Queued(@)]
      BY <2>3
    <3>2. ASSUME NEW v \in Workers, ref[v] = r  PROVE FALSE
      <4>1. tx[r].owner = <<v, "worker">>
        BY <3>2 DEF Owned
      <4>2. tx[r].owner[1] = v /\ tx[r].owner[2] = "worker"
        BY <4>1
      <4> QED  BY <3>1, <3>2, <4>2 DEF Forsaken
    <3> QED  BY <2>1, <3>1, <3>2 DEF Owned
  <2> QED  BY <1>4, <2>2, <2>3 DEF Reap
<1>5. ASSUME NEW w \in Workers, RecordAcquire(w)  PROVE Owned'
  <2>1. \A r \in Refs : tx[r].state # "absent" => tx'[r] = tx[r]
    BY <1>5, EnqueueTypes DEF RecordAcquire
  <2>2. \A v \in Workers : ref'[v] \in Refs => ref'[v] = ref[v]
    BY <1>5, IntakeAssumption DEF RecordAcquire, Idle
  <2> QED  BY <2>1, <2>2 DEF Owned
<1>6. ASSUME NEW w \in Workers, RecordHear(w)  PROVE Owned'
  <2>1. ref[w] \in Refs
    BY <1>6 DEF RecordHear
  <2>2. \A r \in Refs : r # ref[w] => tx'[r] = tx[r]
    BY <1>6 DEF RecordHear
  <2>3. \A v \in Workers : ref'[v] \in Refs => v # w /\ ref'[v] = ref[v]
    BY <1>6, IntakeAssumption DEF RecordHear, Idle
  <2> QED  BY <2>1, <2>2, <2>3, OneHearer DEF Owned
<1>7. ASSUME NEW w \in Workers, RecordLost(w) \/ Crash(w)  PROVE Owned'
  <2>1. UNCHANGED tx
    BY <1>7 DEF RecordLost, Crash, rows
  <2>2. \A v \in Workers : ref'[v] \in Refs => ref'[v] = ref[v]
    BY <1>7, IntakeAssumption DEF RecordLost, Crash, Idle
  <2> QED  BY <2>1, <2>2 DEF Owned
<1> QED
  BY <1>1, <1>2, <1>3, <1>4, <1>5, <1>6, <1>7
  DEF Next, Handler, Claim, Submit, Raise, Quiet, ClaimAcquire, ClaimInner, ClaimNone,
      Persist, NoteReady, SucceedInner, FailInner, NoteFailed, Read, Transcribe,
      NotTranscribed, Choose, rows, procs, vars

LEMMA UnpaidStep ==
    ASSUME PInv, Next
    PROVE  Unpaid'
<1> USE DEF PInv, TypeOK
<1>1. CASE UNCHANGED <<known, heard, stored, paid, ref>>
           /\ \A v \in Workers : stage'[v] = "hearing" => stage[v] = "hearing"
  BY <1>1 DEF Unpaid, PaidOnce
<1>2. ASSUME NEW w \in Workers, Persist(w)  PROVE Unpaid'
  <2>1. inner[w][2] \in Refs
    BY <1>2, SubmittedRefs DEF Persist, At, HandsFull, Nested
  <2>2. \A r \in Refs : stored'[r] \in Nat /\ stored'[r] >= stored[r]
    BY <1>2, <2>1 DEF Persist
  <2>3. stored'[inner[w][2]] = stored[inner[w][2]] + 1
    BY <1>2, <2>1 DEF Persist
  <2>4. \A v \in Workers : stage'[v] = "hearing" => stage[v] = "hearing"
    BY <1>2 DEF Persist, Goto
  <2>5. PaidOnce'
    BY <1>2, <2>2 DEF Persist, Unpaid, PaidOnce
  <2>6. ASSUME NEW r \in known', r \notin heard'  PROVE paid'[r] < stored'[r]
    <3>1. CASE r = inner[w][2]
      BY <1>2, <2>1, <2>3, <3>1 DEF Persist, Unpaid, PaidOnce
    <3>2. CASE r # inner[w][2]
      BY <1>2, <2>2, <2>6, <3>2 DEF Persist, Unpaid
    <3> QED  BY <3>1, <3>2
  <2>7. \A v \in Workers : stage'[v] = "hearing" => ref'[v] \in known' /\ ref'[v] \notin heard'
    BY <1>2, <2>4 DEF Persist, Unpaid, procs
  <2> QED  BY <2>5, <2>6, <2>7 DEF Unpaid
<1>3. ASSUME NEW w \in Workers, Transcribe(w)  PROVE Unpaid'
  <2>1. ref[w] \in known /\ ref[w] \notin heard /\ ref[w] \in Refs
    BY <1>3 DEF Transcribe, At, Unpaid, HandsFull
  <2>2. paid' = [paid EXCEPT ![ref[w]] = paid[ref[w]] + 1] /\ stored' = stored
    BY <1>3 DEF Transcribe
  <2>3. paid[ref[w]] + 1 <= stored[ref[w]]
    BY <2>1 DEF Unpaid
  <2>4. PaidOnce'
    BY <2>1, <2>2, <2>3 DEF Unpaid, PaidOnce
  <2>5. \A r \in known' : r \notin heard' => paid'[r] < stored'[r]
    BY <1>3, <2>1, <2>2 DEF Transcribe, Unpaid
  <2>6. ASSUME NEW v \in Workers, stage'[v] = "hearing"
        PROVE  ref'[v] \in known' /\ ref'[v] \notin heard'
    <3>1. v # w /\ stage[v] = "hearing"
      BY <1>3, <2>6 DEF Transcribe, Goto
    <3>2. ref[v] # ref[w]
      BY <2>1, <3>1, OneHearer
    <3> QED  BY <1>3, <3>1, <3>2 DEF Transcribe, Unpaid, procs
  <2> QED  BY <2>4, <2>5, <2>6 DEF Unpaid
<1>4. ASSUME NEW w \in Workers, Read(w)  PROVE Unpaid'
  <2>1. \A v \in Workers : stage'[v] = "hearing" =>
            stage[v] = "hearing" \/ (v = w /\ ref[v] \in known /\ ref[v] \notin heard)
    BY <1>4 DEF Read, Goto, Heard
  <2> QED  BY <1>4, <2>1 DEF Read, Unpaid, PaidOnce, procs
<1>5. ASSUME NEW w \in Workers, Idle(w), UNCHANGED lib  PROVE Unpaid'
  <2>1. \A v \in Workers : stage'[v] = "hearing" => stage[v] = "hearing" /\ ref'[v] = ref[v]
    BY <1>5 DEF Idle, Goto
  <2> QED  BY <1>5, <2>1 DEF Unpaid, PaidOnce, lib
<1>6. ASSUME NEW w \in Workers, ClaimHear(w)  PROVE Unpaid'
  <2>1. \A v \in Workers : stage'[v] = "hearing" => stage[v] = "hearing" /\ ref'[v] = ref[v]
    BY <1>6 DEF ClaimHear, Goto, At
  <2> QED  BY <1>6, <2>1 DEF ClaimHear, Unpaid, PaidOnce, lib
<1>7. ASSUME NEW w \in Workers,
             ClaimAcquire(w) \/ ClaimInner(w) \/ ClaimNone(w) \/ NoteReady(w) \/ SucceedInner(w)
      PROVE  Unpaid'
  BY <1>1, <1>7 DEF ClaimAcquire, ClaimInner, ClaimNone, NoteReady, SucceedInner, Goto,
                    lib, procs
<1>8. ASSUME NEW w \in Workers,
             FailInner(w) \/ NoteFailed(w) \/ NotTranscribed(w) \/ Choose(w) \/ Raise(w)
      PROVE  Unpaid'
  BY <1>1, <1>8 DEF FailInner, NoteFailed, NotTranscribed, Choose, Raise, Goto, lib, procs
<1>9. CASE UNCHANGED <<lib, stage, ref>>
  BY <1>1, <1>9 DEF lib
<1> QED
  BY <1>2, <1>3, <1>4, <1>5, <1>6, <1>7, <1>8, <1>9
  DEF Next, Handler, Claim, Submit, Due, Reap, Quiet, Crash, RecordAcquire, RecordLost,
      RecordHear, lib, procs, vars

\* One worker at a time transcribes a source, and what it transcribes has been
\* stored more often than paid for.
THEOREM HearingInvariant == Spec => []PInv
<1>1. Init => PInv
  <2>1. Init => TypeOK /\ HandsFull
    BY DEF Init, TypeOK, HandsFull, JobRow, Absent, Lessee, Stages, Nested
  <2>2. Init => Owned /\ Unpaid
    BY IntakeAssumption DEF Init, Owned, Unpaid, PaidOnce
  <2> QED  BY <2>1, <2>2 DEF PInv
<1>2. PInv /\ [Next]_vars => PInv'
  <2>1. PInv /\ UNCHANGED vars => PInv'
    BY DEF PInv, TypeOK, HandsFull, Owned, Unpaid, PaidOnce, vars
  <2>2. PInv /\ Next => PInv'
    BY TypesStep, HandsStep, OwnedStep, UnpaidStep DEF PInv
  <2> QED  BY <2>1, <2>2
<1> QED  BY <1>1, <1>2, PTL DEF Spec

\* "On a paid provider a needless re-run is a second invoice" (the
\* transcription handler): over all crashes, reaped jobs and re-acquisitions
\* the provider is paid at most once for each time a source was acquired.
THEOREM PaidOncePerAcquisition == Spec => []PaidOnce
<1>1. PInv => PaidOnce
  BY DEF PInv, Unpaid
<1> QED  BY <1>1, HearingInvariant, PTL

-----------------------------------------------------------------------------
(* Until something goes wrong, every row a worker means to write is its    *)
(* own, no lease lapses under anybody, and so what an acquisition recorded *)
(* stays recorded and leads to a transcription.                            *)

LeasedTo(job, w, role) == job.state = "leased" /\ job.owner = <<w, role>>

\* The rows behind what a worker has in hand, and what it has recorded.
CleanHand(w) ==
    /\ outer[w] \in Submissions => LeasedTo(acq[outer[w]], w, "worker")
    /\ stage[w] \in {"fetching", "stored", "ready"} => LeasedTo(acq[inner[w]], w, "engine")
    /\ stage[w] \in {"refused", "broken"} => acq[inner[w]].state \in {"waiting", "dead"}
    /\ stage[w] = "acquired" => acq[inner[w]].state = "succeeded"
    /\ stage[w] \in {"ready", "acquired"} => run[inner[w]].source
    /\ stage[w] \in {"stored", "ready", "acquired"} => inner[w][2] \in known

\* A run points at its source once its job has succeeded, or is about to.
CleanRun(s) ==
    run[s].source => \/ acq[s].state = "succeeded"
                     \/ \E w \in Workers : stage[w] = "ready" /\ inner[w] = s

\* A transcribe job is for a source some run points at; and a source is given
\* one by the worker that stored it.
CleanRef(r) ==
    /\ tx[r].state # "absent" => r \in known /\ \E s \in Submissions : s[2] = r /\ run[s].source
    /\ r \in known => \/ tx[r].state # "absent"
                      \/ \E w \in Workers : /\ stage[w] \in {"stored", "ready", "acquired"}
                                            /\ inner[w][2] = r

Clean ==
    /\ \A w \in Workers : CleanHand(w)
    /\ \A s \in Submissions : CleanRun(s)
    /\ \A r \in Refs : CleanRef(r)

\* Worker v is to write row s, or has written it and not its run.
Depends(v, s) ==
    \/ outer[v] = s
    \/ stage[v] \in Nested \union {"acquired"} /\ inner[v] = s

LEMMA RowValues ==
    ASSUME NEW job \in JobRow
    PROVE  /\ Queued(job).state = "queued" /\ Succeeded(job).state = "succeeded"
           /\ \A retry \in BOOLEAN : Failed(job, retry).state \in {"waiting", "dead"}
           /\ \A w \in Workers, role \in {"worker", "engine"} :
                LeasedTo(Leased(job, w, role), w, role)
<1>1. Queued(job).state = "queued" /\ Succeeded(job).state = "succeeded"
  BY DEF JobRow, Queued, Succeeded
<1>2. \A retry \in BOOLEAN : Failed(job, retry).state \in {"waiting", "dead"}
  BY DEF Failed
<1>3. ASSUME NEW w \in Workers, NEW role \in {"worker", "engine"}
      PROVE  LeasedTo(Leased(job, w, role), w, role)
  BY DEF JobRow, Leased, LeasedTo
<1> QED  BY <1>1, <1>2, <1>3

LEMMA OwnersDiffer ==
    /\ \A v, w : <<v, "worker">> # <<w, "engine">>
    /\ \A v, w, role : <<v, role>> = <<w, role>> => v = w
  OBVIOUS

\* A row somebody depends on is leased to it, or settled for now by it.
LEMMA DependedRow ==
    ASSUME NEW v \in Workers, CleanHand(v), HandsFull, NEW s \in Submissions, Depends(v, s)
    PROVE  \/ outer[v] = s /\ LeasedTo(acq[s], v, "worker")
           \/ inner[v] = s /\ LeasedTo(acq[s], v, "engine")
           \/ inner[v] = s /\ stage[v] \in {"refused", "broken"} /\ acq[s].state \in {"waiting", "dead"}
           \/ inner[v] = s /\ stage[v] = "acquired" /\ acq[s].state = "succeeded"
  BY DEF CleanHand, Depends, Nested

\* A worker that does not move is clean as before if no row it depends on is
\* written and no run loses its source.
LEMMA HandKept ==
    ASSUME NEW v \in Workers, CleanHand(v), TypeOK, HandsFull, NEW s,
           stage'[v] = stage[v], outer'[v] = outer[v], inner'[v] = inner[v],
           known \subseteq known',
           \A t \in Submissions : run[t].source => run'[t].source,
           \A t \in Submissions : t # s => acq'[t] = acq[t],
           ~Depends(v, s)
    PROVE  CleanHand(v)'
<1>1. ASSUME outer[v] \in Submissions PROVE acq'[outer[v]] = acq[outer[v]]
  BY <1>1 DEF Depends
<1>2. ASSUME stage[v] \in Nested \union {"acquired"}
      PROVE  inner[v] \in Submissions /\ acq'[inner[v]] = acq[inner[v]]
  BY <1>2 DEF Depends, HandsFull
<1> QED  BY <1>1, <1>2 DEF CleanHand, LeasedTo, Nested

\* The same for a run and for a reference: what they rest on is kept.
LEMMA RunKept ==
    ASSUME NEW s \in Submissions, CleanRun(s), run'[s].source => run[s].source,
           acq[s].state = "succeeded" => acq'[s].state = "succeeded",
           \A w \in Workers : stage[w] = "ready" /\ inner[w] = s =>
                acq'[s].state = "succeeded" \/ (stage'[w] = "ready" /\ inner'[w] = s)
    PROVE  CleanRun(s)'
  BY DEF CleanRun

LEMMA RefKept ==
    ASSUME NEW r \in Refs, CleanRef(r), known \subseteq known', r \in known' => r \in known,
           \A t \in Submissions : run[t].source => run'[t].source,
           tx'[r].state # "absent" <=> tx[r].state # "absent",
           \A w \in Workers : stage[w] \in {"stored", "ready", "acquired"} /\ inner[w][2] = r =>
                stage'[w] \in {"stored", "ready", "acquired"} /\ inner'[w][2] = r
    PROVE  CleanRef(r)'
<1>1. (tx[r].state # "absent")' => r \in known' /\ \E s \in Submissions : s[2] = r /\ run'[s].source
  BY DEF CleanRef
<1>2. r \in known' => \/ tx'[r].state # "absent"
                      \/ \E w \in Workers : /\ stage'[w] \in {"stored", "ready", "acquired"}
                                            /\ inner'[w][2] = r
  BY DEF CleanRef
<1> QED  BY <1>1, <1>2 DEF CleanRef

\* A step that only puts row s back, when nobody depends on it.
LEMMA ReturnClean ==
    ASSUME PInv, Clean, NEW s \in Submissions, acq[s].state # "succeeded",
           acq' = [acq EXCEPT ![s] = Queued(@)],
           \A v \in Workers : ~Depends(v, s),
           UNCHANGED <<tx, run, known, stage, outer, inner>>
    PROVE  Clean'
<1>0. TypeOK /\ HandsFull
  BY DEF PInv
<1>1. ASSUME NEW v \in Workers PROVE CleanHand(v)'
  <2>1. \A t \in Submissions : t # s => acq'[t] = acq[t]
    BY <1>0 DEF TypeOK
  <2> QED  BY <1>0, <2>1, HandKept DEF Clean
<1>2. ASSUME NEW t \in Submissions PROVE CleanRun(t)'
  BY <1>0, RunKept DEF Clean, TypeOK
<1>3. ASSUME NEW r \in Refs PROVE CleanRef(r)'
  BY RefKept DEF Clean
<1> QED  BY <1>1, <1>2, <1>3 DEF Clean

\* A step that writes transcribe rows only, but enters and drops none.
LEMMA HearClean ==
    ASSUME PInv, Clean, NEW w \in Workers,
           UNCHANGED <<acq, run, known>>,
           \A r \in Refs : tx'[r].state # "absent" <=> tx[r].state # "absent",
           \A v \in Workers : v # w =>
                stage'[v] = stage[v] /\ outer'[v] = outer[v] /\ inner'[v] = inner[v],
           stage[w] \notin Nested \union {"acquired"},
           stage'[w] \notin Nested \union {"acquired"},
           outer'[w] \in {outer[w], Nothing}
    PROVE  Clean'
<1>0. TypeOK /\ HandsFull /\ Nothing \notin Submissions
  BY IntakeAssumption DEF PInv
<1>1. ASSUME NEW v \in Workers PROVE CleanHand(v)'
  <2>1. CASE v = w
    BY <1>0, <2>1 DEF Clean, CleanHand, Nested
  <2>2. CASE v # w
    BY <2>2 DEF Clean, CleanHand
  <2> QED  BY <2>1, <2>2
<1>2. ASSUME NEW t \in Submissions PROVE CleanRun(t)'
  BY RunKept DEF Clean, Nested
<1>3. ASSUME NEW r \in Refs PROVE CleanRef(r)'
  <2>1. \A v \in Workers : stage[v] \in {"stored", "ready", "acquired"} /\ inner[v][2] = r =>
            stage'[v] \in {"stored", "ready", "acquired"} /\ inner'[v][2] = r
    BY DEF Nested
  <2> QED  BY <2>1, RefKept DEF Clean
<1> QED  BY <1>1, <1>2, <1>3 DEF Clean

\* A step of w's engine between two writes of its row s: others depend on
\* other rows.
LEMMA OnlyOwner ==
    ASSUME HandsFull, Clean, NEW w \in Workers, NEW s \in Submissions, NEW role \in {"worker", "engine"},
           LeasedTo(acq[s], w, role), NEW v \in Workers, Depends(v, s)
    PROVE  v = w
<1>1. acq[s].owner = <<w, role>> /\ acq[s].state = "leased"
  BY DEF LeasedTo
<1>2. \E other \in {"worker", "engine"} : acq[s].owner = <<v, other>>
  BY <1>1, DependedRow DEF Clean, LeasedTo
<1> QED  BY <1>1, <1>2

LEMMA CleanStep ==
    ASSUME PInv, Clean, Next, slips' = {}
    PROVE  Clean'
<1>0. /\ TypeOK /\ HandsFull /\ Owned
      /\ Nothing \notin Submissions /\ Nothing \notin Refs
  BY IntakeAssumption DEF PInv
<1>r. \A s \in Submissions : acq[s] \in JobRow
  BY <1>0 DEF TypeOK
<1>t. \A r \in Refs : tx[r] \in JobRow
  BY <1>0 DEF TypeOK
<1>g. \A k : ~Slip(k)
  BY DEF Slip
\* The API and the clock.
<1>1. ASSUME NEW s \in Submissions, Submit(s) PROVE Clean'
  <2>1. \A v \in Workers : ~Depends(v, s)
    BY <1>0, <1>1, DependedRow DEF Submit, Clean, LeasedTo
  <2> QED  BY <1>1, <2>1, ReturnClean DEF Submit, lib, procs
<1>2. ASSUME NEW s \in Submissions, acq[s].state \in {"waiting", "leased"}, Return(s),
             \A v \in Workers : ~(outer[v] = s /\ LeasedTo(acq[s], v, "worker")),
             UNCHANGED <<tx, lib, stage, procs>>
      PROVE  Clean'
  <2>1. acq' = [acq EXCEPT ![s] = Queued(@)] /\ ~Working(s)
    BY <1>2, <1>g DEF Return
  <2>2. ASSUME NEW v \in Workers PROVE ~Depends(v, s)
    <3>1. ~(inner[v] = s /\ (acq[s].owner = <<v, "engine">> \/ stage[v] \in {"refused", "broken"}))
      BY <2>1 DEF Working
    <3>2. acq[s].state # "succeeded"
      BY <1>2
    <3> QED  BY <1>0, <1>2, <3>1, <3>2, DependedRow DEF Clean, LeasedTo
  <2> QED  BY <1>2, <2>1, <2>2, ReturnClean DEF lib, procs
<1>3. ASSUME NEW r \in Refs, tx[r].state # "absent", tx' = [tx EXCEPT ![r] = Queued(@)],
             UNCHANGED <<acq, lib, stage, procs>>
      PROVE  Clean'
  <2>1. \A q \in Refs : tx'[q].state # "absent" <=> tx[q].state # "absent"
    BY <1>0, <1>t, <1>3, RowValues DEF TypeOK
  <2>2. \A v \in Workers : CleanHand(v)'
    BY <1>3 DEF Clean, CleanHand, lib, procs
  <2>3. \A s \in Submissions : CleanRun(s)'
    BY <1>3, RunKept DEF Clean, lib, procs
  <2>4. \A q \in Refs : CleanRef(q)'
    BY <1>3, <2>1, RefKept DEF Clean, lib, procs
  <2> QED  BY <2>2, <2>3, <2>4 DEF Clean
<1>4. CASE Due
  <2>1. CASE \E s \in Submissions : acq[s].state = "waiting" /\ Return(s) /\ UNCHANGED tx
    BY <1>2, <1>4, <2>1 DEF Due, LeasedTo
  <2>2. CASE \E r \in Refs : tx[r].state = "waiting" /\ tx' = [tx EXCEPT ![r] = Queued(@)]
                                                    /\ UNCHANGED <<acq, slips>>
    BY <1>3, <1>4, <2>2 DEF Due
  <2> QED  BY <1>4, <2>1, <2>2 DEF Due
<1>5. ASSUME NEW w \in Workers, Reap(w) PROVE Clean'
  <2>1. ASSUME NEW s \in Submissions, Forsaken(acq[s], outer[acq[s].owner[1]] = s),
               Return(s), UNCHANGED tx
        PROVE  Clean'
    <3>1. ASSUME NEW v \in Workers, outer[v] = s, LeasedTo(acq[s], v, "worker") PROVE FALSE
      <4>1. acq[s].owner[1] = v /\ acq[s].owner[2] = "worker"
        BY <3>1 DEF LeasedTo
      <4> QED  BY <2>1, <3>1, <4>1 DEF Forsaken
    <3> QED  BY <1>2, <1>5, <2>1, <3>1 DEF Reap, Forsaken
  <2>2. ASSUME NEW r \in Refs, Forsaken(tx[r], ref[tx[r].owner[1]] = r),
               tx' = [tx EXCEPT ![r] = Queued(@)], UNCHANGED <<acq, slips>>
        PROVE  Clean'
    BY <1>3, <1>5, <2>2 DEF Reap, Forsaken
  <2> QED  BY <1>5, <2>1, <2>2 DEF Reap
\* A transcription from its claim to its record.
<1>6. ASSUME NEW w \in Workers, ClaimHear(w) PROVE Clean'
  <2>1. PICK r \in Refs : tx[r].state = "queued" /\ tx' = [tx EXCEPT ![r] = Leased(tx[r], w, "worker")]
    BY <1>6 DEF ClaimHear
  <2>2. \A q \in Refs : tx'[q].state # "absent" <=> tx[q].state # "absent"
    BY <1>0, <1>t, <2>1, RowValues DEF TypeOK, LeasedTo
  <2>3. /\ UNCHANGED <<acq, run, known, outer, inner>>
        /\ stage[w] = "idle" /\ stage' = [stage EXCEPT ![w] = "reading"]
    BY <1>6 DEF ClaimHear, At, Goto, lib
  <2> QED  BY <1>0, <2>2, <2>3, HearClean DEF TypeOK, Nested
<1>7. ASSUME NEW w \in Workers, Read(w) \/ Transcribe(w) \/ NotTranscribed(w) \/ Choose(w)
      PROVE  Clean'
  <2>1. UNCHANGED <<tx, acq, run, known, outer, inner>>
    BY <1>7 DEF Read, Transcribe, NotTranscribed, Choose, rows, lib, procs
  <2>2. /\ stage[w] \in {"reading", "hearing", "heard"}
        /\ \E x \in {"heard", "hearing", "fatal", "again", "done"} : stage' = [stage EXCEPT ![w] = x]
    BY <1>7 DEF Read, Transcribe, NotTranscribed, Choose, At, Goto
  <2> QED  BY <1>0, <2>1, <2>2, HearClean DEF TypeOK, Nested
<1>8. ASSUME NEW w \in Workers, RecordHear(w) PROVE Clean'
  <2>1. ref[w] \in Refs /\ tx[ref[w]].state # "absent"
    BY <1>0, <1>8 DEF RecordHear, TypeOK, Owned
  <2>2. \A q \in Refs : tx'[q].state # "absent" <=> tx[q].state # "absent"
    <3>1. \E j : tx' = [tx EXCEPT ![ref[w]] = j] /\ j.state # "absent"
      BY <1>t, <1>8, <2>1, RowValues DEF RecordHear, At
    <3> QED  BY <1>0, <2>1, <3>1 DEF TypeOK
  <2>3. /\ UNCHANGED <<acq, run, known>>
        /\ stage[w] \in {"done", "again", "fatal"}
        /\ stage' = [stage EXCEPT ![w] = "idle"]
        /\ outer' = [outer EXCEPT ![w] = Nothing]
        /\ inner' = [inner EXCEPT ![w] = Nothing]
    BY <1>8 DEF RecordHear, Idle, Goto, lib
  <2> QED  BY <1>0, <2>2, <2>3, HearClean DEF TypeOK, Nested
\* An acquisition from its claim to its record.
<1>9. ASSUME NEW w \in Workers, ClaimAcquire(w) PROVE Clean'
  <2>1. PICK s \in Submissions :
            /\ acq[s].state = "queued"
            /\ acq' = [acq EXCEPT ![s] = Leased(acq[s], w, "worker")]
            /\ outer' = [outer EXCEPT ![w] = s]
    BY <1>9 DEF ClaimAcquire
  <2>2. /\ UNCHANGED <<tx, run, known, inner>>
        /\ stage[w] = "idle" /\ stage' = [stage EXCEPT ![w] = "claimed"]
    BY <1>9 DEF ClaimAcquire, At, Goto, lib
  <2>3. LeasedTo(acq'[s], w, "worker") /\ \A t \in Submissions : t # s => acq'[t] = acq[t]
    BY <1>0, <1>r, <2>1, RowValues DEF TypeOK
  <2>4. ASSUME NEW v \in Workers PROVE CleanHand(v)'
    <3>1. CASE v = w
      BY <1>0, <2>1, <2>2, <2>3, <3>1 DEF TypeOK, CleanHand
    <3>2. CASE v # w
      <4>1. ~Depends(v, s)
        BY <1>0, <2>1, DependedRow DEF Clean, LeasedTo
      <4>2. stage'[v] = stage[v] /\ outer'[v] = outer[v] /\ inner'[v] = inner[v]
        BY <1>0, <2>1, <2>2, <3>2 DEF TypeOK
      <4> QED  BY <1>0, <2>2, <2>3, <4>1, <4>2, HandKept DEF Clean
    <3> QED  BY <3>1, <3>2
  <2>5. ASSUME NEW t \in Submissions PROVE CleanRun(t)'
    BY <1>0, <2>1, <2>2, <2>3, RunKept DEF Clean, TypeOK
  <2>6. ASSUME NEW r \in Refs PROVE CleanRef(r)'
    BY <1>0, <2>2, RefKept DEF Clean, TypeOK
  <2> QED  BY <2>4, <2>5, <2>6 DEF Clean
<1>10. ASSUME NEW w \in Workers, ClaimInner(w) PROVE Clean'
  <2>1. PICK s \in Submissions :
            /\ acq[s].state = "queued"
            /\ acq' = [acq EXCEPT ![s] = Leased(acq[s], w, "engine")]
            /\ inner' = [inner EXCEPT ![w] = s]
    BY <1>10 DEF ClaimInner
  <2>2. /\ UNCHANGED <<tx, run, known, outer>>
        /\ stage[w] = "claimed" /\ stage' = [stage EXCEPT ![w] = "fetching"]
    BY <1>10 DEF ClaimInner, At, Goto, lib
  <2>3. LeasedTo(acq'[s], w, "engine") /\ \A t \in Submissions : t # s => acq'[t] = acq[t]
    BY <1>0, <1>r, <2>1, RowValues DEF TypeOK
  <2>q. ASSUME NEW v \in Workers PROVE ~Depends(v, s)
    BY <1>0, <2>1, DependedRow DEF Clean, LeasedTo
  <2>4. ASSUME NEW v \in Workers PROVE CleanHand(v)'
    <3>1. CASE v = w
      <4>1. outer'[w] \in Submissions => LeasedTo(acq'[outer'[w]], w, "worker")
        <5>1. outer[w] # s
          BY <2>q DEF Depends
        <5> QED  BY <2>2, <2>3, <5>1 DEF Clean, CleanHand
      <4>2. stage'[w] = "fetching" /\ inner'[w] = s
        BY <1>0, <2>1, <2>2 DEF TypeOK
      <4> QED  BY <2>3, <3>1, <4>1, <4>2 DEF CleanHand, LeasedTo
    <3>2. CASE v # w
      <4>2. stage'[v] = stage[v] /\ outer'[v] = outer[v] /\ inner'[v] = inner[v]
        BY <1>0, <2>1, <2>2, <3>2 DEF TypeOK
      <4> QED  BY <1>0, <2>2, <2>3, <2>q, <4>2, HandKept DEF Clean
    <3> QED  BY <3>1, <3>2
  <2>5. ASSUME NEW t \in Submissions PROVE CleanRun(t)'
    BY <1>0, <2>1, <2>2, <2>3, RunKept DEF Clean, TypeOK
  <2>6. ASSUME NEW r \in Refs PROVE CleanRef(r)'
    BY <1>0, <2>1, <2>2, RefKept DEF Clean, TypeOK
  <2> QED  BY <2>4, <2>5, <2>6 DEF Clean
<1>11. ASSUME NEW w \in Workers, ClaimNone(w) PROVE Clean'
  <2>1. UNCHANGED <<tx, acq, run, known, outer, inner>>
    BY <1>11 DEF ClaimNone, rows, lib, procs
  <2>2. stage[w] = "claimed" /\ stage' = [stage EXCEPT ![w] = "nothing"]
    BY <1>11 DEF ClaimNone, At, Goto
  <2> QED  BY <1>0, <2>1, <2>2, HearClean DEF TypeOK, Nested
<1>12. ASSUME NEW w \in Workers, Persist(w) PROVE Clean'
  <2>1. /\ UNCHANGED <<tx, acq, run, outer, inner>>
        /\ stage[w] = "fetching" /\ stage' = [stage EXCEPT ![w] = "stored"]
        /\ known' = known \union {inner[w][2]}
    BY <1>12 DEF Persist, At, Goto, rows, procs
  <2>2. ASSUME NEW v \in Workers PROVE CleanHand(v)'
    <3>1. CASE v = w
      BY <1>0, <2>1, <3>1 DEF TypeOK, Clean, CleanHand
    <3>2. CASE v # w
      BY <1>0, <2>1, <3>2 DEF TypeOK, Clean, CleanHand
    <3> QED  BY <3>1, <3>2
  <2>3. ASSUME NEW t \in Submissions PROVE CleanRun(t)'
    BY <1>0, <2>1, RunKept DEF Clean, TypeOK
  <2>4. ASSUME NEW r \in Refs PROVE CleanRef(r)'
    <3>1. CASE r # inner[w][2]
      BY <1>0, <2>1, <3>1, RefKept DEF Clean, TypeOK
    <3>2. CASE r = inner[w][2]
      <4>1. stage'[w] = "stored" /\ inner'[w][2] = r /\ r \in known'
        BY <1>0, <2>1, <3>2 DEF TypeOK
      <4>2. tx'[r].state # "absent" => \E s \in Submissions : s[2] = r /\ run'[s].source
        BY <2>1 DEF Clean, CleanRef
      <4> QED  BY <4>1, <4>2 DEF CleanRef
    <3> QED  BY <3>1, <3>2
  <2> QED  BY <2>2, <2>3, <2>4 DEF Clean
<1>13. ASSUME NEW w \in Workers, NoteReady(w) PROVE Clean'
  <2>1. /\ UNCHANGED <<tx, acq, known, outer, inner>>
        /\ stage[w] = "stored" /\ stage' = [stage EXCEPT ![w] = "ready"]
        /\ run' = [run EXCEPT ![inner[w]] = [state |-> "ready", source |-> TRUE]]
    BY <1>13 DEF NoteReady, At, Goto, Note, rows, procs
  <2>2. inner[w] \in Submissions
    BY <1>0, <2>1 DEF HandsFull, Nested
  <2>3. /\ run'[inner[w]].source
        /\ \A t \in Submissions : t # inner[w] => run'[t] = run[t]
    BY <1>0, <2>1, <2>2 DEF TypeOK
  <2>4. \A t \in Submissions : run[t].source => run'[t].source
    BY <2>3
  <2>5. ASSUME NEW v \in Workers PROVE CleanHand(v)'
    <3>1. CASE v = w
      BY <1>0, <2>1, <2>3, <3>1 DEF TypeOK, Clean, CleanHand
    <3>2. CASE v # w
      <4>1. stage'[v] = stage[v]
        BY <1>0, <2>1, <3>2 DEF TypeOK
      <4>2. stage[v] \in {"ready", "acquired"} => inner[v] \in Submissions
        BY <1>0 DEF HandsFull, Nested
      <4> QED  BY <2>1, <2>4, <4>1, <4>2 DEF Clean, CleanHand
    <3> QED  BY <3>1, <3>2
  <2>6. ASSUME NEW t \in Submissions PROVE CleanRun(t)'
    <3>1. CASE t = inner[w]
      <4>1. stage'[w] = "ready" /\ inner'[w] = t
        BY <1>0, <2>1, <3>1 DEF TypeOK
      <4> QED  BY <4>1 DEF CleanRun
    <3>2. CASE t # inner[w]
      BY <1>0, <2>1, <2>3, <3>2, RunKept DEF Clean, TypeOK
    <3> QED  BY <3>1, <3>2
  <2>7. ASSUME NEW r \in Refs PROVE CleanRef(r)'
    BY <1>0, <2>1, <2>4, RefKept DEF Clean, TypeOK
  <2> QED  BY <2>5, <2>6, <2>7 DEF Clean
<1>14. ASSUME NEW w \in Workers, SucceedInner(w) PROVE Clean'
  <2>1. /\ UNCHANGED <<tx, run, known, outer, inner>>
        /\ stage[w] = "ready" /\ stage' = [stage EXCEPT ![w] = "acquired"]
        /\ acq' = [acq EXCEPT ![inner[w]] = Succeeded(acq[inner[w]])]
    BY <1>14 DEF SucceedInner, At, Goto, lib, procs
  <2>2. inner[w] \in Submissions /\ LeasedTo(acq[inner[w]], w, "engine")
    BY <1>0, <2>1 DEF HandsFull, Nested, Clean, CleanHand
  <2>3. /\ acq'[inner[w]].state = "succeeded"
        /\ \A t \in Submissions : t # inner[w] => acq'[t] = acq[t]
    BY <1>0, <1>r, <2>1, <2>2, RowValues DEF TypeOK
  <2>4. ASSUME NEW v \in Workers PROVE CleanHand(v)'
    <3>1. CASE v = w
      <4>1. outer[w] \in Submissions => outer[w] # inner[w]
        BY <2>2, OwnersDiffer DEF Clean, CleanHand, LeasedTo
      <4>2. stage'[w] = "acquired"
        BY <1>0, <2>1 DEF TypeOK
      <4> QED  BY <2>1, <2>3, <3>1, <4>1, <4>2 DEF Clean, CleanHand
    <3>2. CASE v # w
      <4>1. ~Depends(v, inner[w])
        BY <1>0, <2>2, <3>2, OnlyOwner
      <4>2. stage'[v] = stage[v]
        BY <1>0, <2>1, <3>2 DEF TypeOK
      <4> QED  BY <1>0, <2>1, <2>3, <4>1, <4>2, HandKept DEF Clean
    <3> QED  BY <3>1, <3>2
  <2>5. ASSUME NEW t \in Submissions PROVE CleanRun(t)'
    <3>1. \A v \in Workers : stage[v] = "ready" /\ inner[v] = t =>
            acq'[t].state = "succeeded" \/ (stage'[v] = "ready" /\ inner'[v] = t)
      BY <1>0, <2>1, <2>3 DEF TypeOK
    <3>2. acq[t].state = "succeeded" => acq'[t].state = "succeeded"
      BY <2>3
    <3> QED  BY <2>1, <3>1, <3>2, RunKept DEF Clean
  <2>6. ASSUME NEW r \in Refs PROVE CleanRef(r)'
    BY <1>0, <2>1, RefKept DEF Clean, TypeOK
  <2> QED  BY <2>4, <2>5, <2>6 DEF Clean
<1>15. ASSUME NEW w \in Workers, FailInner(w) PROVE Clean'
  <2>0. PICK retry \in BOOLEAN :
            /\ acq' = [acq EXCEPT ![inner[w]] = Failed(acq[inner[w]], retry)]
            /\ stage' = [stage EXCEPT ![w] = IF retry THEN "broken" ELSE "refused"]
    BY <1>15 DEF FailInner, Goto
  <2>1. /\ UNCHANGED <<tx, run, known, outer, inner>>
        /\ stage[w] = "fetching"
    BY <1>15 DEF FailInner, At, lib, procs
  <2>2. inner[w] \in Submissions /\ LeasedTo(acq[inner[w]], w, "engine")
    BY <1>0, <2>1 DEF HandsFull, Nested, Clean, CleanHand
  <2>3. /\ acq'[inner[w]].state \in {"waiting", "dead"}
        /\ \A t \in Submissions : t # inner[w] => acq'[t] = acq[t]
    BY <1>0, <1>r, <2>0, <2>2, RowValues DEF TypeOK
  <2>s. stage'[w] \in {"broken", "refused"} /\ \A v \in Workers : v # w => stage'[v] = stage[v]
    BY <1>0, <2>0 DEF TypeOK
  <2>4. ASSUME NEW v \in Workers PROVE CleanHand(v)'
    <3>1. CASE v = w
      <4>1. outer[w] \in Submissions => outer[w] # inner[w]
        BY <2>2, OwnersDiffer DEF Clean, CleanHand, LeasedTo
      <4> QED  BY <2>1, <2>3, <2>s, <3>1, <4>1 DEF Clean, CleanHand
    <3>2. CASE v # w
      <4>1. ~Depends(v, inner[w])
        BY <1>0, <2>2, <3>2, OnlyOwner
      <4> QED  BY <1>0, <2>1, <2>3, <2>s, <3>2, <4>1, HandKept DEF Clean
    <3> QED  BY <3>1, <3>2
  <2>5. ASSUME NEW t \in Submissions PROVE CleanRun(t)'
    <3>1. \A v \in Workers : stage[v] = "ready" /\ inner[v] = t =>
            acq'[t].state = "succeeded" \/ (stage'[v] = "ready" /\ inner'[v] = t)
      BY <2>1, <2>s
    <3>2. acq[t].state = "succeeded" => acq'[t].state = "succeeded"
      BY <2>2, <2>3 DEF LeasedTo
    <3> QED  BY <2>1, <3>1, <3>2, RunKept DEF Clean
  <2>6. ASSUME NEW r \in Refs PROVE CleanRef(r)'
    <3>1. \A v \in Workers : stage[v] \in {"stored", "ready", "acquired"} /\ inner[v][2] = r =>
            stage'[v] \in {"stored", "ready", "acquired"} /\ inner'[v][2] = r
      BY <2>1, <2>s
    <3> QED  BY <2>1, <3>1, RefKept DEF Clean
  <2> QED  BY <2>4, <2>5, <2>6 DEF Clean
<1>16. ASSUME NEW w \in Workers, NoteFailed(w) PROVE Clean'
  <2>1. /\ UNCHANGED <<tx, acq, known, outer, inner>>
        /\ stage[w] \in {"refused", "broken"} /\ stage' = [stage EXCEPT ![w] = "nothing"]
        /\ \E x : run' = [run EXCEPT ![inner[w]] = [state |-> x, source |-> FALSE]]
    BY <1>16 DEF NoteFailed, At, Goto, Note, rows, procs
  <2>2. inner[w] \in Submissions /\ acq[inner[w]].state \in {"waiting", "dead"}
    BY <1>0, <2>1 DEF HandsFull, Nested, Clean, CleanHand
  <2>3. ~run[inner[w]].source
    <3>1. ASSUME NEW v \in Workers, stage[v] = "ready", inner[v] = inner[w] PROVE FALSE
      BY <2>2, <3>1 DEF Clean, CleanHand, LeasedTo
    <3> QED  BY <2>2, <3>1 DEF Clean, CleanRun
  <2>4. \A t \in Submissions : run[t].source <=> run'[t].source
    BY <1>0, <2>1, <2>2, <2>3 DEF TypeOK
  <2>s. stage'[w] = "nothing" /\ \A v \in Workers : v # w => stage'[v] = stage[v]
    BY <1>0, <2>1 DEF TypeOK
  <2>5. ASSUME NEW v \in Workers PROVE CleanHand(v)'
    <3>1. CASE v = w
      BY <2>1, <2>s, <3>1 DEF Clean, CleanHand
    <3>2. CASE v # w
      <4>1. stage[v] \in {"ready", "acquired"} => inner[v] \in Submissions
        BY <1>0 DEF HandsFull, Nested
      <4> QED  BY <2>1, <2>4, <2>s, <3>2, <4>1 DEF Clean, CleanHand
    <3> QED  BY <3>1, <3>2
  <2>6. ASSUME NEW t \in Submissions PROVE CleanRun(t)'
    <3>1. \A v \in Workers : stage[v] = "ready" /\ inner[v] = t =>
            acq'[t].state = "succeeded" \/ (stage'[v] = "ready" /\ inner'[v] = t)
      BY <2>1, <2>s
    <3> QED  BY <2>1, <2>4, <3>1, RunKept DEF Clean
  <2>7. ASSUME NEW r \in Refs PROVE CleanRef(r)'
    <3>1. \A v \in Workers : stage[v] \in {"stored", "ready", "acquired"} /\ inner[v][2] = r =>
            stage'[v] \in {"stored", "ready", "acquired"} /\ inner'[v][2] = r
      BY <2>1, <2>s
    <3> QED  BY <2>1, <2>4, <3>1, RefKept DEF Clean
  <2> QED  BY <2>5, <2>6, <2>7 DEF Clean
<1>17. ASSUME NEW w \in Workers, RecordAcquire(w) PROVE Clean'
  <2>1. /\ UNCHANGED <<run, known>>
        /\ stage[w] \in {"acquired", "nothing", "again"} /\ outer[w] # Nothing
        /\ stage' = [stage EXCEPT ![w] = "idle"]
        /\ outer' = [outer EXCEPT ![w] = Nothing]
        /\ inner' = [inner EXCEPT ![w] = Nothing]
        /\ tx' = Enqueue(tx, FollowOn(w))
    BY <1>17 DEF RecordAcquire, Idle, Goto, lib
  <2>2. outer[w] \in Submissions /\ LeasedTo(acq[outer[w]], w, "worker")
    BY <1>0, <2>1 DEF TypeOK, Clean, CleanHand
  <2>3. \A t \in Submissions : t # outer[w] => acq'[t] = acq[t]
    BY <1>0, <1>17 DEF RecordAcquire, TypeOK
  <2>s. /\ stage'[w] = "idle" /\ outer'[w] = Nothing
        /\ \A v \in Workers : v # w => stage'[v] = stage[v] /\ outer'[v] = outer[v] /\ inner'[v] = inner[v]
    BY <1>0, <2>1 DEF TypeOK
  <2>4. ASSUME NEW v \in Workers PROVE CleanHand(v)'
    <3>1. CASE v = w
      BY <1>0, <2>s, <3>1 DEF CleanHand
    <3>2. CASE v # w
      <4>1. ~Depends(v, outer[w])
        BY <1>0, <2>2, <3>2, OnlyOwner
      <4> QED  BY <1>0, <2>1, <2>3, <2>s, <3>2, <4>1, HandKept DEF Clean
    <3> QED  BY <3>1, <3>2
  <2>5. ASSUME NEW t \in Submissions PROVE CleanRun(t)'
    <3>1. \A v \in Workers : stage[v] = "ready" /\ inner[v] = t =>
            acq'[t].state = "succeeded" \/ (stage'[v] = "ready" /\ inner'[v] = t)
      BY <2>1, <2>s
    <3>2. acq[t].state = "succeeded" => acq'[t].state = "succeeded"
      BY <2>2, <2>3 DEF LeasedTo
    <3> QED  BY <2>1, <3>1, <3>2, RunKept DEF Clean
  <2>6. ASSUME NEW r \in Refs PROVE CleanRef(r)'
    <3>1. CASE stage[w] = "acquired" /\ r = inner[w][2]
      <4>1. inner[w] \in Submissions /\ run[inner[w]].source /\ r \in known
        BY <1>0, <3>1 DEF HandsFull, Clean, CleanHand
      <4>2. r \in FollowOn(w)
        BY <3>1 DEF FollowOn, At
      <4>3. tx'[r].state # "absent"
        BY <1>0, <1>t, <2>1, <4>2, RowValues DEF Enqueue, TypeOK
      <4> QED  BY <2>1, <3>1, <4>1, <4>3 DEF CleanRef
    <3>2. CASE ~(stage[w] = "acquired" /\ r = inner[w][2])
      <4>1. r \notin FollowOn(w)
        BY <3>2 DEF FollowOn, At
      <4>2. tx'[r] = tx[r]
        BY <1>0, <2>1, <4>1 DEF Enqueue, TypeOK
      <4>3. \A v \in Workers : stage[v] \in {"stored", "ready", "acquired"} /\ inner[v][2] = r =>
              stage'[v] \in {"stored", "ready", "acquired"} /\ inner'[v][2] = r
        BY <2>1, <2>s, <3>2
      <4> QED  BY <2>1, <4>2, <4>3, RefKept DEF Clean
    <3> QED  BY <3>1, <3>2
  <2> QED  BY <2>4, <2>5, <2>6 DEF Clean
<1>18. ASSUME NEW w \in Workers, RecordLost(w) PROVE Clean'
  <2>1. outer[w] \in Submissions /\ acq[outer[w]].owner # <<w, "worker">>
    BY <1>0, <1>18 DEF RecordLost, TypeOK
  <2> QED  BY <2>1 DEF Clean, CleanHand, LeasedTo
<1>19. ASSUME NEW w \in Workers, Raise(w) \/ Crash(w) PROVE Clean'
  BY <1>19, <1>g DEF Raise, Crash
<1>20. CASE Quiet
  BY <1>20 DEF Quiet, vars, Clean, CleanHand, CleanRun, CleanRef
<1> QED
  BY <1>1, <1>4, <1>5, <1>6, <1>7, <1>8, <1>9, <1>10, <1>11, <1>12, <1>13, <1>14, <1>15,
     <1>16, <1>17, <1>18, <1>19, <1>20 DEF Next, Handler, Claim

\* What went wrong is never forgotten.
LEMMA SlipsStay == ASSUME Next, slips' = {} PROVE slips = {}
  BY DEF Next, Submit, Due, Return, Reap, Claim, ClaimHear, ClaimAcquire, Handler, ClaimInner,
         ClaimNone, Persist, NoteReady, SucceedInner, FailInner, NoteFailed, Read, Transcribe,
         NotTranscribed, Choose, RecordAcquire, RecordLost, RecordHear, Raise, Crash, Slip,
         Quiet, vars

\* Whatever went wrong, the provider's account is in order; until something
\* does, so is everything else.
THEOREM Invariant == Spec => [](PInv /\ (Undisturbed => Clean))
<1>1. Init => Clean
  BY IntakeAssumption DEF Init, Clean, CleanHand, CleanRun, CleanRef, Absent
<1>2. PInv /\ (Undisturbed => Clean) /\ [Next]_vars => (Undisturbed => Clean)'
  <2>1. ASSUME PInv, Undisturbed => Clean, Next, slips' = {} PROVE Clean'
    BY <2>1, SlipsStay, CleanStep DEF Undisturbed
  <2>2. ASSUME Undisturbed => Clean, UNCHANGED vars PROVE (Undisturbed => Clean)'
    BY <2>2 DEF vars, Undisturbed, Clean, CleanHand, CleanRun, CleanRef
  <2> QED  BY <2>1, <2>2 DEF Undisturbed
<1> QED  BY <1>1, <1>2, HearingInvariant, PTL DEF Spec

\* Without a fault every source that acquisition_handler stored has its
\* transcribe job, or is in the hands of the worker that will name it: chain.py
\* joins what the engine acquired, not what the handler was asked for.
THEOREM ChainedOnceAcquired == Spec => []AcquiredIsChained
<1>1. PInv /\ (Undisturbed => Clean) => AcquiredIsChained
  <2> SUFFICES ASSUME PInv, Undisturbed, Clean, NEW r \in known
               PROVE  \/ tx[r].state # "absent"
                      \/ \E w \in Workers : inner[w] # Nothing /\ inner[w][2] = r
    BY DEF AcquiredIsChained
  <2>1. r \in Refs
    BY DEF PInv, TypeOK
  <2>2. CleanRef(r)
    BY <2>1 DEF Clean
  <2>3. \A w \in Workers : stage[w] \in {"stored", "ready", "acquired"} => inner[w] # Nothing
    BY IntakeAssumption DEF PInv, HandsFull, Nested
  <2> QED  BY <2>2, <2>3 DEF CleanRef
<1> QED  BY <1>1, Invariant, PTL

\* Without a fault transcription_handler finds the media of every source it is
\* asked to transcribe: no submission's run that points at it is written over by
\* another's, and none is written again once its job has succeeded.
THEOREM MediaAlwaysFound == Spec => []MediaIsFound
<1>1. PInv /\ (Undisturbed => Clean) => MediaIsFound
  <2> SUFFICES ASSUME PInv, Undisturbed, Clean, NEW w \in Workers, At(w, "reading")
               PROVE  ref[w] \in known /\ MediaFound(ref[w])
    BY DEF MediaIsFound
  <2>1. ref[w] \in Refs /\ tx[ref[w]].state = "leased"
    BY DEF PInv, HandsFull, At, Owned
  <2> QED  BY <2>1 DEF Clean, CleanRef, MediaFound
<1> QED  BY <1>1, Invariant, PTL
=============================================================================
