----------------------------- MODULE Publishing -----------------------------
(***************************************************************************)
(* Publishing one channel's posts: clipforge/publish/engine.py             *)
(* (PublishingSystem.tick, claim, run_post) over the calendar that         *)
(* clipforge/store/durable.py (PersistentCalendar) restores from the       *)
(* `uploads` table, driven by the publish jobs of                          *)
(* clipforge/worker/handlers.py, with the operator's retry of              *)
(* clipforge/api/routes/uploads.py.                                        *)
(*                                                                         *)
(* A pass restores every row of the channel into memory, claims the due    *)
(* posts there, writes them back whole, and works through them.  Nothing   *)
(* ties a pass to the post whose publish job started it.                   *)
(*                                                                         *)
(* The publish jobs themselves are those of the ledger JobQueue promises   *)
(* (JobLedger): one per post, held by one worker at a time, run again      *)
(* after a crash once the job's lease has run out, never after success.    *)
(*                                                                         *)
(* Times are remaining ticks, in the rows and in the copies alike:         *)
(*   lease  until lease_until, 0 when it is null or has passed             *)
(*   wait   until next_attempt_at, or run_at when there is none            *)
(* "uploading" stands for UPLOADING and PROCESSING, "published" for        *)
(* PUBLISHED and AWAITING_CREATOR: nothing here tells them apart.          *)
(***************************************************************************)
EXTENDS Integers, FiniteSets

CONSTANTS
    Posts,       \* the channel's uploads
    Systems,     \* worker processes that run publish jobs of the channel
    NoPost,
    Slot,        \* post -> ticks from the start to its run_at
    Drafts,      \* posts whose render has not finished at the start
    Limit,       \* posts a pass may claim (payload "limit")
    PostLease,   \* PublishConfig.lease_s
    JobLease,    \* WorkerConfig.lease_s, after which a dead job is run again
    RetryWait,   \* longest wait of a retried post or job
    MaxTries,    \* retry.MAX_ATTEMPTS
    Faults,      \* which of "crash", "lost" and "raise" may happen
    MaxFaults,   \* bound on their number
    MaxRetries   \* bound on the operator's retries

ASSUME PublishingAssumption ==
    /\ NoPost \notin Posts
    /\ Slot \in [Posts -> Nat]
    /\ Drafts \subseteq Posts
    /\ Limit \in Nat \ {0}
    /\ PostLease \in Nat \ {0}
    /\ JobLease \in Nat
    /\ RetryWait \in Nat
    /\ MaxTries \in Nat \ {0}
    /\ Faults \subseteq {"crash", "lost", "raise"}
    /\ MaxFaults \in Nat
    /\ MaxRetries \in Nat

VARIABLES
    row,         \* post -> its row in `uploads`
    job,         \* post -> the state of its publish job
    jobwait,     \* post -> ticks until that job may be claimed
    live,        \* post -> copies of it the platform holds
    stage,       \* system -> where its pass is
    trigger,     \* system -> the post whose job the pass runs for
    copy,        \* system -> the rows as the pass restored and changed them
    todo,        \* system -> posts it claimed and has not worked yet
    cur,         \* system -> the post being worked
    faults,      \* crashes, lost replies and exceptions so far
    retries      \* operator retries so far

pass == <<stage, trigger, copy, todo, cur>>
vars == <<row, job, jobwait, live, stage, trigger, copy, todo, cur, faults, retries>>

PostStates == {"draft", "scheduled", "claimed", "uploading", "published",
               "retrying", "failed", "needs_attention"}

Row == [state : PostStates, lease : Nat, wait : Nat, tries : Nat]

Stages == {"idle", "restored", "next", "sending", "sent", "failing"}

\* A pass that has the platform working, or about to, for its current post.
Working == {"sending", "sent", "failing"}

\* Every row, copy and pass has its type.
TypeOK ==
    /\ row \in [Posts -> Row]
    /\ job \in [Posts -> {"none", "owed", "queued", "running", "done"}]
    /\ jobwait \in [Posts -> Nat]
    /\ live \in [Posts -> Nat]
    /\ stage \in [Systems -> Stages]
    /\ trigger \in [Systems -> Posts \union {NoPost}]
    /\ copy \in [Systems -> [Posts -> Row]]
    /\ todo \in [Systems -> SUBSET Posts]
    /\ cur \in [Systems -> Posts \union {NoPost}]
    /\ faults \in Nat
    /\ retries \in Nat

Init ==
    /\ row = [p \in Posts |->
                [state |-> IF p \in Drafts THEN "draft" ELSE "scheduled",
                 lease |-> 0, wait |-> Slot[p], tries |-> 0]]
    /\ job = [p \in Posts |-> IF p \in Drafts THEN "none" ELSE "queued"]
    /\ jobwait = Slot
    /\ live = [p \in Posts |-> 0]
    /\ stage = [s \in Systems |-> "idle"]
    /\ trigger = [s \in Systems |-> NoPost]
    /\ copy = [s \in Systems |-> row]
    /\ todo = [s \in Systems |-> {}]
    /\ cur = [s \in Systems |-> NoPost]
    /\ faults = 0
    /\ retries = 0

-----------------------------------------------------------------------------
(* Producers.                                                              *)

\* render_handler: the file exists, so the booked post becomes due at its
\* slot, in a transaction of its own; its publish job is owed from here on.
Promote(p) ==
    /\ row[p].state = "draft"
    /\ job[p] \in {"none", "owed"}
    /\ row' = [row EXCEPT ![p].state = "scheduled"]
    /\ job' = [job EXCEPT ![p] = "owed"]
    /\ jobwait' = [jobwait EXCEPT ![p] = row[p].wait]
    /\ UNCHANGED <<live, pass, faults, retries>>

\* The render job is recorded done, which queues the publish job to fire at
\* the slot.
Chain(p) ==
    /\ job[p] = "owed"
    /\ job' = [job EXCEPT ![p] = "queued"]
    /\ UNCHANGED <<row, jobwait, live, pass, faults, retries>>

\* retry_upload: a stopped post is put back, due now.  No job is queued.
RetryUpload(p) ==
    /\ row[p].state \in {"failed", "needs_attention"}
    /\ retries < MaxRetries
    /\ retries' = retries + 1
    /\ row' = [row EXCEPT ![p] = [@ EXCEPT !.state = "scheduled", !.wait = 0]]
    /\ UNCHANGED <<job, jobwait, live, pass, faults>>

-----------------------------------------------------------------------------
(* A pass.                                                                 *)

\* A worker takes the publish job of p and restores the channel's calendar.
StartPass(s, p) ==
    /\ stage[s] = "idle"
    /\ job[p] = "queued" /\ jobwait[p] = 0
    /\ job' = [job EXCEPT ![p] = "running"]
    /\ stage' = [stage EXCEPT ![s] = "restored"]
    /\ trigger' = [trigger EXCEPT ![s] = p]
    /\ copy' = [copy EXCEPT ![s] = row]
    /\ UNCHANGED <<row, jobwait, live, todo, cur, faults, retries>>

\* A buggy variant: readiness is a matter of times alone.
DueByTime(c) ==
    {p \in Posts :
        /\ c[p].lease = 0 /\ c[p].wait = 0
        /\ c[p].state \notin {"draft", "failed", "needs_attention"}}

\* calendar.due: ready posts, a lapsed claim among them.
Due(c) ==
    {p \in Posts :
        /\ c[p].lease = 0
        /\ \/ c[p].state = "claimed"
           \/ c[p].state \in {"scheduled", "retrying"} /\ c[p].wait = 0}

\* The first Limit of them in run_at order.
ClaimSets(c) ==
    {S \in SUBSET Due(c) :
        /\ Cardinality(S) <= Limit
        /\ Cardinality(S) < Limit => S = Due(c)
        /\ \A p \in S, q \in Due(c) \ S : Slot[p] <= Slot[q]}

\* `claim`: the claims are made in memory and the posts written back whole.
\* With nothing claimed, persist() is called with no posts, which flushes
\* every post of the restored calendar.
ClaimDue(s) ==
    /\ stage[s] = "restored"
    /\ \E S \in ClaimSets(copy[s]) :
        LET claimed == [p \in Posts |->
                IF p \in S
                THEN [copy[s][p] EXCEPT !.state = "claimed", !.lease = PostLease]
                ELSE copy[s][p]]
        IN  /\ copy' = [copy EXCEPT ![s] = claimed]
            /\ row' = [p \in Posts |-> IF p \in S \/ S = {} THEN claimed[p] ELSE row[p]]
            /\ todo' = [todo EXCEPT ![s] = S]
    /\ stage' = [stage EXCEPT ![s] = "next"]
    /\ UNCHANGED <<job, jobwait, live, trigger, cur, faults, retries>>

\* _run_post begins the next claimed post: an attempt, in memory only.
StartPost(s) ==
    /\ stage[s] = "next"
    /\ \E p \in todo[s] :
        /\ \A q \in todo[s] : Slot[p] <= Slot[q]
        /\ cur' = [cur EXCEPT ![s] = p]
        /\ todo' = [todo EXCEPT ![s] = @ \ {p}]
        /\ copy' = [copy EXCEPT ![s][p] = [copy[s][p] EXCEPT
                       !.state = "uploading", !.tries = copy[s][p].tries + 1]]
    /\ stage' = [stage EXCEPT ![s] = "sending"]
    /\ UNCHANGED <<row, job, jobwait, live, trigger, faults, retries>>

\* No usable credentials: _escalate, before an attempt is counted.
Escalate(s) ==
    /\ stage[s] = "next"
    /\ \E p \in todo[s] :
        LET stopped == [copy[s][p] EXCEPT !.state = "needs_attention", !.lease = 0]
        IN  /\ \A q \in todo[s] : Slot[p] <= Slot[q]
            /\ todo' = [todo EXCEPT ![s] = @ \ {p}]
            /\ copy' = [copy EXCEPT ![s][p] = stopped]
            /\ row' = [row EXCEPT ![p] = stopped]
    /\ UNCHANGED <<job, jobwait, live, stage, trigger, cur, faults, retries>>

\* A request reaches the platform and completes the post there.
Accept(s) ==
    /\ stage[s] = "sending"
    /\ live' = [live EXCEPT ![cur[s]] = @ + 1]
    /\ stage' = [stage EXCEPT ![s] = "sent"]
    /\ UNCHANGED <<row, job, jobwait, trigger, copy, todo, cur, faults, retries>>

\* The current post's record is r from here on, in memory and in its row.
Write(s, r) ==
    /\ copy' = [copy EXCEPT ![s][cur[s]] = r]
    /\ row' = [row EXCEPT ![cur[s]] = r]

\* A buggy variant: the result is recorded in memory and not written through.
ConfirmUnsaved(s) ==
    /\ stage[s] = "sent"
    /\ copy' = [copy EXCEPT ![s][cur[s]].state = "published", ![s][cur[s]].lease = 0]
    /\ stage' = [stage EXCEPT ![s] = "next"]
    /\ cur' = [cur EXCEPT ![s] = NoPost]
    /\ UNCHANGED <<row, job, jobwait, live, trigger, todo, faults, retries>>

\* The reply arrives and says the post is done: recorded and released.
Confirm(s) ==
    /\ stage[s] = "sent"
    /\ Write(s, [copy[s][cur[s]] EXCEPT !.state = "published", !.lease = 0])
    /\ stage' = [stage EXCEPT ![s] = "next"]
    /\ cur' = [cur EXCEPT ![s] = NoPost]
    /\ UNCHANGED <<job, jobwait, live, trigger, todo, faults, retries>>

\* _handle_failure starts: `release` writes the post as it stands, unleased.
\* After the platform has acted it takes a lost or failed reply to get here.
Fail(s) ==
    /\ \/ stage[s] = "sending" /\ UNCHANGED faults
       \/ /\ stage[s] = "sent"
          /\ "lost" \in Faults /\ faults < MaxFaults
          /\ faults' = faults + 1
    /\ Write(s, [copy[s][cur[s]] EXCEPT !.lease = 0])
    /\ stage' = [stage EXCEPT ![s] = "failing"]
    /\ UNCHANGED <<job, jobwait, live, trigger, todo, cur, retries>>

\* A buggy variant: a lost reply is taken for a delivery.
VerdictsHopeful(r) ==
    {[r EXCEPT !.state = "failed"], [r EXCEPT !.state = "published"]}

\* What the classification of a failure makes of the post: RETRY, RESCHEDULE
\* and RECONCILE wait; FAIL and a spent budget fail; REAUTH and an escalation
\* need a person.
Verdicts(r) ==
    {[r EXCEPT !.state = "failed"], [r EXCEPT !.state = "needs_attention"]}
    \union IF r.tries < MaxTries
           THEN {[r EXCEPT !.state = "retrying", !.wait = d] : d \in 0..RetryWait}
           ELSE {}

\* _handle_failure ends, and run_post's `finally` writes what it decided.
Settle(s) ==
    /\ stage[s] = "failing"
    /\ \E r \in Verdicts(copy[s][cur[s]]) : Write(s, r)
    /\ stage' = [stage EXCEPT ![s] = "next"]
    /\ cur' = [cur EXCEPT ![s] = NoPost]
    /\ UNCHANGED <<job, jobwait, live, trigger, todo, faults, retries>>

\* A buggy variant: the pass ends with claimed posts in hand.
EndPassEarly(s) ==
    /\ stage[s] = "next"
    /\ job' = [job EXCEPT ![trigger[s]] = "done"]
    /\ stage' = [stage EXCEPT ![s] = "idle"]
    /\ trigger' = [trigger EXCEPT ![s] = NoPost]
    /\ todo' = [todo EXCEPT ![s] = {}]
    /\ UNCHANGED <<row, jobwait, live, copy, cur, faults, retries>>

\* The pass is over, whatever became of its posts; publish_handler is Done.
EndPass(s) ==
    /\ stage[s] = "next" /\ todo[s] = {}
    /\ job' = [job EXCEPT ![trigger[s]] = "done"]
    /\ stage' = [stage EXCEPT ![s] = "idle"]
    /\ trigger' = [trigger EXCEPT ![s] = NoPost]
    /\ UNCHANGED <<row, jobwait, live, copy, todo, cur, faults, retries>>

-----------------------------------------------------------------------------
(* Faults and time.                                                        *)

\* The pass stops here; its job may be claimed again in w ticks.
Abandon(s, w) ==
    /\ job' = [job EXCEPT ![trigger[s]] = "queued"]
    /\ jobwait' = [jobwait EXCEPT ![trigger[s]] = w]
    /\ stage' = [stage EXCEPT ![s] = "idle"]
    /\ trigger' = [trigger EXCEPT ![s] = NoPost]
    /\ todo' = [todo EXCEPT ![s] = {}]
    /\ cur' = [cur EXCEPT ![s] = NoPost]

\* An exception out of _run_post: `finally` writes the post as it stands and
\* publish_handler answers Retry.
Raise(s) ==
    /\ "raise" \in Faults /\ faults < MaxFaults
    /\ stage[s] \in Working
    /\ faults' = faults + 1
    /\ row' = [row EXCEPT ![cur[s]] = copy[s][cur[s]]]
    /\ \E w \in 0..RetryWait : Abandon(s, w)
    /\ UNCHANGED <<live, copy, retries>>

\* The process dies; its job is reaped when the job's lease has run out.
Crash(s) ==
    /\ "crash" \in Faults /\ faults < MaxFaults
    /\ stage[s] # "idle"
    /\ faults' = faults + 1
    /\ Abandon(s, JobLease)
    /\ UNCHANGED <<row, live, copy, retries>>

\* One tick less of a remaining time.
Down(n) == IF n > 0 THEN n - 1 ELSE 0

Aged(r) == [r EXCEPT !.lease = Down(r.lease), !.wait = Down(r.wait)]

Tick ==
    /\ row' = [p \in Posts |-> Aged(row[p])]
    /\ copy' = [s \in Systems |-> [p \in Posts |-> Aged(copy[s][p])]]
    /\ jobwait' = [p \in Posts |-> Down(jobwait[p])]
    /\ UNCHANGED <<job, live, stage, trigger, todo, cur, faults, retries>>

PassStep(s) ==
    \/ \E p \in Posts : StartPass(s, p)
    \/ ClaimDue(s) \/ StartPost(s) \/ Escalate(s)
    \/ Accept(s) \/ Confirm(s) \/ Fail(s) \/ Settle(s) \/ EndPass(s)
    \/ Raise(s) \/ Crash(s)

Next ==
    \/ \E s \in Systems : PassStep(s)
    \/ \E p \in Posts : Promote(p) \/ Chain(p) \/ RetryUpload(p)
    \/ Tick

Spec == Init /\ [][Next]_vars

(* Fairness: time passes, a worker takes a job that waits, a job that is   *)
(* owed is queued, and a pass that can go on does.  Nothing is assumed of  *)
(* renders, operators or faults, nor of the platform beyond its giving     *)
(* each request some end.                                                  *)
Fairness ==
    /\ WF_vars(Tick)
    /\ \A p \in Posts : WF_vars(Chain(p))
    /\ \A s \in Systems :
        /\ \A p \in Posts : SF_vars(StartPass(s, p))
        /\ WF_vars(ClaimDue(s))
        /\ WF_vars(StartPost(s) \/ Escalate(s))
        /\ WF_vars(Accept(s) \/ Fail(s))
        /\ WF_vars(Confirm(s))
        /\ WF_vars(Settle(s))
        /\ WF_vars(EndPass(s))

FairSpec == Spec /\ Fairness

-----------------------------------------------------------------------------
(* Properties.                                                             *)

(* "Delivered" is never a guess: a row says published only if the platform *)
(* holds the post, however many workers, crashes and retries it took.      *)
PublishedIsReal ==
    \A p \in Posts : row[p].state = "published" => live[p] > 0

(* No more attempts are recorded than the budget and the operator allow.   *)
AttemptsBudgeted ==
    \A p \in Posts : row[p].tries <= MaxTries + retries

(* With one worker on the channel every copy of a post beyond the first    *)
(* was paid for by a crash, a lost reply or an exception.                  *)
DuplicatesArePaid ==
    \A p \in Posts : live[p] <= 1 + faults

(* With one worker and nothing gone wrong, a row nobody is working says    *)
(* exactly what the platform holds.                                        *)
RecordsAgree ==
    faults = 0 => \A p \in Posts :
        (\A s \in Systems : cur[s] # p)
            => (live[p] > 0 <=> row[p].state = "published")

(* With no faults and no operator retries, and while a pass can claim all  *)
(* that is due, a post whose slot has come is taken up by some pass and    *)
(* leaves the queue.                                                       *)
Served ==
    [](faults = 0 /\ retries = 0) =>
        \A p \in Posts :
            row[p].state = "scheduled" ~> row[p].state \notin {"scheduled", "claimed"}
=============================================================================
