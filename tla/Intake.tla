------------------------------- MODULE Intake -------------------------------
(***************************************************************************)
(* From a submitted reference to a source some channel will cut clips      *)
(* from: AcquisitionEngine (clipforge/acquire/engine.py), the acquisition  *)
(* and transcription handlers of clipforge/worker/handlers.py, the inline  *)
(* path of TranscriptionEngine (clipforge/transcribe/engine.py) and the    *)
(* edges of clipforge/worker/chain.py that join them.                      *)
(*                                                                         *)
(* The worker runtime is JobQueue's, reduced to what it promises there:    *)
(* the job a worker runs stays its own while it beats.  The acquisition    *)
(* engine claims a second row from inside the handler, under a lease of    *)
(* its own that nothing renews; that claim is modelled in full.            *)
(*                                                                         *)
(* A backoff is the state "waiting", left at any time.  One reference has  *)
(* one fingerprint, hence one row of `sources`.                            *)
(***************************************************************************)
EXTENDS Integers, FiniteSets

CONSTANTS
    Refs,         \* what a submission names: (kind, key)
    Channels,     \* channels a submission may be for
    NoChannel,    \* submitted for no channel
    Submissions,  \* <<channel, ref>>: the acquisitions anybody asks for
    Workers,
    Nothing,      \* no job, no owner
    MaxTries,     \* max_attempts of a job
    MaxSlips      \* bound on the kinds of fault that happen, each once

ASSUME IntakeAssumption ==
    /\ NoChannel \notin Channels
    /\ Submissions \subseteq (Channels \union {NoChannel}) \X Refs
    /\ Nothing \notin Submissions \union Refs
    /\ MaxTries \in Nat \ {0}
    /\ MaxSlips \in Nat

VARIABLES
    acq,      \* the acquire job of each submission
    tx,       \* the transcribe job of each reference
    selected, \* <<channel, ref>> whose clip selection is queued
    run,      \* acquisition_runs: state, and whether source_id is set
    known,    \* references with a row in `sources`
    heard,    \* those with has_transcript
    noted,    \* those with a transcription run, which keeps a media path
    stage,    \* where each worker is
    outer,    \* the acquire job its runtime holds
    inner,    \* the acquire job its engine claimed
    ref,      \* the transcribe job its runtime holds
    chosen,   \* the selections its transcription will name
    stored,   \* how often a source was written by an acquisition
    paid,     \* how often it was transcribed to the end
    slips     \* the faults that happened

rows  == <<acq, tx, selected>>
lib   == <<run, known, heard, noted, stored, paid>>
procs == <<outer, inner, ref, chosen>>
vars  == <<acq, tx, selected, run, known, heard, noted, stored, paid,
           stage, outer, inner, ref, chosen, slips>>

Lessee == (Workers \X {"worker", "engine"}) \union {Nothing}

JobRow == [state : {"absent", "queued", "waiting", "leased", "succeeded", "dead"},
           tries : Nat, owner : Lessee]

\* Stages in which the engine has a row of its own in hand.
Nested == {"fetching", "stored", "ready", "refused", "broken"}

Stages == Nested \union {"idle", "claimed", "acquired", "nothing", "again",
                         "reading", "hearing", "heard", "done", "fatal"}

\* Every row and every worker has its type.
TypeOK ==
    /\ acq \in [Submissions -> JobRow]
    /\ tx \in [Refs -> JobRow]
    /\ selected \subseteq Channels \X Refs
    /\ run \in [Submissions -> [state : {"none", "downloading", "ready", "failed"},
                                source : BOOLEAN]]
    /\ known \subseteq Refs /\ heard \subseteq Refs /\ noted \subseteq Refs
    /\ stage \in [Workers -> Stages]
    /\ outer \in [Workers -> Submissions \union {Nothing}]
    /\ inner \in [Workers -> Submissions \union {Nothing}]
    /\ ref \in [Workers -> Refs \union {Nothing}]
    /\ chosen \in [Workers -> SUBSET (Channels \X Refs)]
    /\ stored \in [Refs -> Nat] /\ paid \in [Refs -> Nat]
    /\ slips \subseteq {"crash", "raise", "lapse"}

Absent == [state |-> "absent", tries |-> 0, owner |-> Nothing]

Init ==
    /\ acq = [s \in Submissions |-> Absent]
    /\ tx = [r \in Refs |-> Absent]
    /\ selected = {}
    /\ run = [s \in Submissions |-> [state |-> "none", source |-> FALSE]]
    /\ known = {} /\ heard = {} /\ noted = {}
    /\ stage = [w \in Workers |-> "idle"]
    /\ outer = [w \in Workers |-> Nothing]
    /\ inner = [w \in Workers |-> Nothing]
    /\ ref = [w \in Workers |-> Nothing]
    /\ chosen = [w \in Workers |-> {}]
    /\ stored = [r \in Refs |-> 0] /\ paid = [r \in Refs |-> 0]
    /\ slips = {}

-----------------------------------------------------------------------------
(* The calls on `jobs`, as JobQueue has them: verdicts go by id alone.     *)

Leased(job, w, role) == [job EXCEPT !.state = "leased", !.owner = <<w, role>>]
Queued(job)          == [job EXCEPT !.state = "queued", !.owner = Nothing]
Succeeded(job)       == [job EXCEPT !.state = "succeeded", !.owner = Nothing]

\* A buggy variant: a retry is not counted.
FailedUncounted(job, retry) ==
    [state |-> IF retry THEN "waiting" ELSE "dead", tries |-> job.tries,
     owner |-> Nothing]

Failed(job, retry) ==
    [state |-> IF retry /\ job.tries + 1 < MaxTries THEN "waiting" ELSE "dead",
     tries |-> job.tries + 1, owner |-> Nothing]

Enqueue(jobs, keys) ==
    [k \in DOMAIN jobs |-> IF k \in keys /\ jobs[k].state = "absent"
                           THEN Queued(jobs[k]) ELSE jobs[k]]

\* A fault of kind k: at most once, and MaxSlips kinds in all.
Slip(k) ==
    /\ k \notin slips /\ Cardinality(slips) < MaxSlips
    /\ slips' = slips \union {k}

At(w, s)   == stage[w] = s
Goto(w, s) == stage' = [stage EXCEPT ![w] = s]

\* The runtime is done with the job it held and is back at the top.
Idle(w) ==
    /\ Goto(w, "idle")
    /\ outer' = [outer EXCEPT ![w] = Nothing]
    /\ inner' = [inner EXCEPT ![w] = Nothing]
    /\ ref' = [ref EXCEPT ![w] = Nothing]
    /\ chosen' = [chosen EXCEPT ![w] = {}]

\* The API submits a reference for a channel; the key had no row yet.
Submit(s) ==
    /\ acq[s].state = "absent"
    /\ acq' = [acq EXCEPT ![s] = Queued(@)]
    /\ UNCHANGED <<tx, selected, lib, stage, procs, slips>>

\* Some engine is still at work on the row, or has yet to record its run.
Working(s) == \E w \in Workers :
    inner[w] = s /\ (acq[s].owner = <<w, "engine">> \/ stage[w] \in {"refused", "broken"})

\* The row goes back to the queue: a lapse if an engine is still at it.
Return(s) ==
    /\ acq' = [acq EXCEPT ![s] = Queued(@)]
    /\ IF Working(s) THEN Slip("lapse") ELSE UNCHANGED slips

\* run_after of a retried job is reached.
Due ==
    /\ \/ \E s \in Submissions :
            acq[s].state = "waiting" /\ Return(s) /\ UNCHANGED tx
       \/ \E r \in Refs : /\ tx[r].state = "waiting"
                           /\ tx' = [tx EXCEPT ![r] = Queued(@)]
                           /\ UNCHANGED <<acq, slips>>
    /\ UNCHANGED <<selected, lib, stage, procs>>

\* The runtime claims a transcribe job, the more urgent kind ...
ClaimHear(w) ==
    /\ At(w, "idle")
    /\ \E r \in Refs :
        /\ tx[r].state = "queued"
        /\ tx' = [tx EXCEPT ![r] = Leased(@, w, "worker")]
        /\ ref' = [ref EXCEPT ![w] = r]
    /\ Goto(w, "reading")
    /\ UNCHANGED <<acq, selected, lib, outer, inner, chosen, slips>>

\* ... or an acquire job, when none of those is due.
ClaimAcquire(w) ==
    /\ At(w, "idle")
    /\ \A r \in Refs : tx[r].state # "queued"
    /\ \E s \in Submissions :
        /\ acq[s].state = "queued"
        /\ acq' = [acq EXCEPT ![s] = Leased(@, w, "worker")]
        /\ outer' = [outer EXCEPT ![w] = s]
    /\ Goto(w, "claimed")
    /\ UNCHANGED <<tx, selected, lib, inner, ref, chosen, slips>>

\* A lease can run out when its worker is gone, and the engine's even when
\* it is not: nothing renews it.  An idle worker reaps it.
Forsaken(job, held) ==
    /\ job.state = "leased"
    /\ job.owner[2] = "worker" => ~held

Reap(w) ==
    /\ At(w, "idle")
    /\ \/ \E s \in Submissions :
            /\ Forsaken(acq[s], outer[acq[s].owner[1]] = s)
            /\ Return(s)
            /\ UNCHANGED tx
       \/ \E r \in Refs :
            /\ Forsaken(tx[r], ref[tx[r].owner[1]] = r)
            /\ tx' = [tx EXCEPT ![r] = Queued(@)]
            /\ UNCHANGED <<acq, slips>>
    /\ UNCHANGED <<selected, lib, stage, procs>>

-----------------------------------------------------------------------------
(* acquisition_handler and AcquisitionEngine.run(limit = 1) inside it.     *)

\* The engine asks the queue for an acquire job.  The one its worker was
\* given is leased by now, so it is another one, or nothing.
ClaimInner(w) ==
    /\ At(w, "claimed")
    /\ \E s \in Submissions :
        /\ acq[s].state = "queued"
        /\ acq' = [acq EXCEPT ![s] = Leased(@, w, "engine")]
        /\ inner' = [inner EXCEPT ![w] = s]
    /\ Goto(w, "fetching")
    /\ UNCHANGED <<tx, selected, lib, outer, ref, chosen, slips>>

ClaimNone(w) ==
    /\ At(w, "claimed")
    /\ \A s \in Submissions : acq[s].state # "queued"
    /\ Goto(w, "nothing")
    /\ UNCHANGED <<rows, lib, procs, slips>>

\* Downloaded, probed, thumbnailed; _persist writes the source anew, and
\* with it has_transcript = False.
Persist(w) ==
    /\ At(w, "fetching")
    /\ known' = known \union {inner[w][2]}
    /\ heard' = heard \ {inner[w][2]}
    /\ stored' = [stored EXCEPT ![inner[w][2]] = @ + 1]
    /\ Goto(w, "stored")
    /\ UNCHANGED <<rows, run, noted, paid, procs, slips>>

\* record_run: the row of (kind, key, channel) is written over, the source
\* it pointed at included.
Note(s, state, found) ==
    run' = [run EXCEPT ![s] = [state |-> state, source |-> found]]

\* A buggy variant: the run is recorded before source_id is filled in.
NoteUnlinked(w) ==
    /\ At(w, "stored")
    /\ Note(inner[w], "ready", FALSE)
    /\ Goto(w, "ready")
    /\ UNCHANGED <<rows, known, heard, noted, stored, paid, procs, slips>>

NoteReady(w) ==
    /\ At(w, "stored")
    /\ Note(inner[w], "ready", TRUE)
    /\ Goto(w, "ready")
    /\ UNCHANGED <<rows, known, heard, noted, stored, paid, procs, slips>>

SucceedInner(w) ==
    /\ At(w, "ready")
    /\ acq' = [acq EXCEPT ![inner[w]] = Succeeded(@)]
    /\ Goto(w, "acquired")
    /\ UNCHANGED <<tx, selected, lib, procs, slips>>

\* PermanentError, or an error worth a retry: first the job, then the run.
FailInner(w) ==
    /\ At(w, "fetching")
    /\ \E retry \in BOOLEAN :
        /\ acq' = [acq EXCEPT ![inner[w]] = Failed(@, retry)]
        /\ Goto(w, IF retry THEN "broken" ELSE "refused")
    /\ UNCHANGED <<tx, selected, lib, procs, slips>>

NoteFailed(w) ==
    /\ \/ At(w, "refused") /\ Note(inner[w], "failed", FALSE)
       \/ At(w, "broken") /\ Note(inner[w], "downloading", FALSE)
    /\ Goto(w, "nothing")
    /\ UNCHANGED <<rows, known, heard, noted, stored, paid, procs, slips>>

-----------------------------------------------------------------------------
(* transcription_handler.                                                  *)

\* A buggy variant: has_transcript is not asked.
HeardNever(r) == FALSE

Heard(r) == r \in heard

\* media_path_for: a run that points at the source, else the transcription.
MediaFound(r) ==
    \/ \E s \in Submissions : s[2] = r /\ run[s].source
    \/ r \in noted

\* Already transcribed: nothing to do but to chain.  Otherwise the run is
\* marked and the provider set to work, or there is no media to be had.
Read(w) ==
    /\ At(w, "reading")
    /\ \/ Heard(ref[w]) /\ Goto(w, "heard") /\ UNCHANGED noted
       \/ /\ ~Heard(ref[w]) /\ ref[w] \in known /\ MediaFound(ref[w])
          /\ noted' = noted \union {ref[w]}
          /\ Goto(w, "hearing")
       \/ /\ ~Heard(ref[w]) /\ ~(ref[w] \in known /\ MediaFound(ref[w]))
          /\ Goto(w, "fatal")
          /\ UNCHANGED noted
    /\ UNCHANGED <<rows, run, known, heard, stored, paid, procs, slips>>

\* TranscriptionEngine._succeed: the transcript and has_transcript together.
Transcribe(w) ==
    /\ At(w, "hearing")
    /\ heard' = heard \union {ref[w]}
    /\ paid' = [paid EXCEPT ![ref[w]] = @ + 1]
    /\ Goto(w, "heard")
    /\ UNCHANGED <<rows, run, known, noted, stored, procs, slips>>

\* Unavailable, broken (a retry) or not transcribable (fatal).
NotTranscribed(w) ==
    /\ At(w, "hearing")
    /\ \E s \in {"again", "fatal"} : Goto(w, s)
    /\ UNCHANGED <<rows, lib, procs, slips>>

\* The channels of the runs that point at the source.
Attached(r) == {c \in Channels : <<c, r>> \in Submissions /\ run[<<c, r>>].source}

\* _selection_follow_on: the payload names no channel, so the first such run
\* decides; which one is first is a matter of when each was created.
Choose(w) ==
    /\ At(w, "heard")
    /\ \/ \E c \in Attached(ref[w]) : chosen' = [chosen EXCEPT ![w] = {<<c, ref[w]>>}]
       \/ Attached(ref[w]) = {} /\ UNCHANGED chosen
    /\ Goto(w, "done")
    /\ UNCHANGED <<rows, lib, outer, inner, ref, slips>>

-----------------------------------------------------------------------------
(* Worker._record, and what may go wrong.                                  *)

\* A buggy variant: the source of the job it was given is chained.
FollowOuter(w) == IF At(w, "acquired") THEN {outer[w][2]} ELSE {}

\* The transcription the acquisition handler names: what the engine acquired.
FollowOn(w) == IF At(w, "acquired") THEN {inner[w][2]} ELSE {}

RecordAcquire(w) ==
    /\ stage[w] \in {"acquired", "nothing", "again"}
    /\ outer[w] # Nothing
    /\ acq' = [acq EXCEPT ![outer[w]] = IF At(w, "again") THEN Failed(@, TRUE)
                                        ELSE Succeeded(@)]
    /\ tx' = Enqueue(tx, FollowOn(w))
    /\ Idle(w)
    /\ UNCHANGED <<selected, lib, slips>>

\* Another worker owns the row by now and a beat has shown it.
RecordLost(w) ==
    /\ stage[w] \in {"acquired", "nothing", "again"}
    /\ outer[w] # Nothing /\ acq[outer[w]].owner # <<w, "worker">>
    /\ Idle(w)
    /\ UNCHANGED <<rows, lib, slips>>

RecordHear(w) ==
    /\ stage[w] \in {"done", "again", "fatal"}
    /\ ref[w] # Nothing
    /\ tx' = [tx EXCEPT ![ref[w]] = CASE At(w, "done")  -> Succeeded(@)
                                      [] At(w, "again") -> Failed(@, TRUE)
                                      [] At(w, "fatal") -> Failed(@, FALSE)]
    /\ selected' = selected \union chosen[w]
    /\ Idle(w)
    /\ UNCHANGED <<acq, lib, slips>>

\* An exception out of the handler, from any of its transactions.
Raise(w) ==
    /\ stage[w] \in Nested \union {"claimed", "reading", "hearing", "heard"}
    /\ Slip("raise")
    /\ Goto(w, "again")
    /\ UNCHANGED <<rows, lib, procs>>

\* The process dies and is replaced.
Crash(w) ==
    /\ ~At(w, "idle")
    /\ Slip("crash")
    /\ Idle(w)
    /\ UNCHANGED <<rows, lib>>

Handler(w) ==
    \/ ClaimInner(w) \/ ClaimNone(w) \/ Persist(w) \/ NoteReady(w)
    \/ SucceedInner(w) \/ FailInner(w) \/ NoteFailed(w)
    \/ Read(w) \/ Transcribe(w) \/ NotTranscribed(w) \/ Choose(w)
    \/ RecordAcquire(w) \/ RecordLost(w) \/ RecordHear(w)

Claim(w) == ClaimHear(w) \/ ClaimAcquire(w)

\* All submissions settled and all workers idle: nothing is left to do.
Quiet ==
    /\ \A s \in Submissions : acq[s].state \in {"succeeded", "dead"}
    /\ \A r \in Refs : tx[r].state \in {"absent", "succeeded", "dead"}
    /\ \A w \in Workers : At(w, "idle")
    /\ UNCHANGED vars

Next ==
    \/ \E s \in Submissions : Submit(s)
    \/ Due
    \/ \E w \in Workers : Handler(w) \/ Claim(w) \/ Reap(w) \/ Raise(w) \/ Crash(w)
    \/ Quiet

Spec == Init /\ [][Next]_vars

\* Time passes, workers poll and reap, and handlers return.
FairSpec ==
    /\ Spec
    /\ WF_vars(Due)
    /\ \A w \in Workers : WF_vars(Handler(w)) /\ WF_vars(Claim(w)) /\ WF_vars(Reap(w))

-----------------------------------------------------------------------------
(* What must hold.                                                         *)

Undisturbed == slips = {}

\* A source in the library is on its way to a transcript: its job exists, or
\* the pass that acquired it is still going to name it.
AcquiredIsChained ==
    Undisturbed => \A r \in known :
        \/ tx[r].state # "absent"
        \/ \E w \in Workers : inner[w] # Nothing /\ inner[w][2] = r

\* No transcription gives up for want of a file that was downloaded: what one
\* channel's run records takes nothing from another's.
MediaIsFound ==
    Undisturbed => \A w \in Workers : At(w, "reading") /\ ~Heard(ref[w])
                                        => ref[w] \in known /\ MediaFound(ref[w])

\* The provider is paid once for each time the material was acquired, over
\* all crashes, retries and jobs run twice.
PaidOnce == \A r \in Refs : paid[r] <= stored[r]

\* Every submission is answered in the end, and so is every transcription.
Settles ==
    /\ \A s \in Submissions :
        acq[s].state = "queued" ~> acq[s].state \in {"succeeded", "dead"}
    /\ \A r \in Refs : tx[r].state = "queued" ~> tx[r].state \in {"succeeded", "dead"}

\* "Download and measure a submitted source" (acquisition_handler): a
\* submission whose job is recorded succeeded was acquired.
SucceededIsAcquired ==
    \A s \in Submissions : acq[s].state = "succeeded" => run[s].state = "ready"
=============================================================================
