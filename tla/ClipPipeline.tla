---------------------------- MODULE ClipPipeline ----------------------------
(***************************************************************************)
(* From a transcript to a verified post: the select, render, publish and   *)
(* verify handlers of clipforge/worker (selection.py, handlers.py) with    *)
(* render/engine.py and publish/verify.py, as jobs of one channel.         *)
(*                                                                         *)
(* A handler is a chain of steps, one for each transaction or call outside *)
(* the database; what it returns is recorded, with its follow-on jobs, by  *)
(* one more (chain.py).  A worker may die or an exception escape between   *)
(* any two (Cut).  Leases do not run out under a worker that is alive: that*)
(* case is JobQueue's, and what a publishing pass does inside is           *)
(* Publishing's; here a pass claims, and then settles post after post.     *)
(*                                                                         *)
(* A source gives one clip for the channel, so clips are named by sources. *)
(***************************************************************************)
EXTENDS Integers, FiniteSets

CONSTANTS
    Sources,
    Accounts,     \* the channel's accounts, one post of a clip each
    Posts,        \* ids of rows in uploads
    Workers,
    HostOf,       \* worker -> the host whose render directory it uses
    NoSource, NoJob,
    MaxUploads,   \* bound on the times a post is delivered
    MaxCuts,      \* bound on handlers cut short
    MaxRetries    \* bound on retries by an operator

ASSUME NamesAssumption == NoSource \notin Sources /\ Accounts # {}

ASSUME BoundsAssumption ==
    MaxUploads \in Nat \ {0} /\ MaxCuts \in Nat /\ MaxRetries \in Nat

VARIABLES
    jobs,     \* rows of jobs, by deduplication key
    clips,    \* sources whose clip is saved
    posts,    \* rows of uploads
    files,    \* clip -> the clip whose camera path its file was rendered with
    camera,   \* host -> the clip whose path is in camera.cmd
    plat,     \* what the platform says of each upload
    wk,       \* the handler each worker runs
    budget,   \* cuts and retries left
    cut,      \* clips whose selection was cut short after it booked a post
    missed    \* posts delivered by a pass that was cut short

vars == <<jobs, clips, posts, files, camera, plat, wk, budget, cut, missed>>

-----------------------------------------------------------------------------
\* The keys of chain.py: a row per clip, per post, per pass of verification.
Jobs == ({"select", "render"} \X Sources) \union ({"publish", "verify", "verify again"} \X Posts)

JobStates == {"none", "queued", "running", "done", "dead"}

PostStates == {"absent", "draft", "scheduled", "claimed", "retrying", "published",
               "failed", "needs_attention"}

\* `ready` is an asset with the path and size of the encoded file, `arrived`
\* that run_at has come; `retried` and `back` are for the properties.
Rows == [state : PostStates, clip : Sources \union {NoSource},
         account : Accounts, ready : BOOLEAN, arrived : BOOLEAN,
         remote : 0..MaxUploads, retried : BOOLEAN, back : BOOLEAN]

\* ScheduledPost as engine.schedule makes it.
Booking(c, a) == [state |-> "scheduled", clip |-> c, account |-> a, ready |-> FALSE,
                  arrived |-> FALSE, remote |-> 0, retried |-> FALSE, back |-> FALSE]

Steps == {"idle", "begin", "book", "draft", "camera", "encode", "promote",
          "deliver", "ask", "take back", "record"}

Handlers == [job : Jobs \union {NoJob}, step : Steps, accounts : SUBSET Accounts,
             todo : SUBSET Posts, got : SUBSET Posts, remote : 0..MaxUploads,
             fate : {"done", "queued", "dead"}, next : SUBSET Jobs]

Idle == [job |-> NoJob, step |-> "idle", accounts |-> {}, todo |-> {}, got |-> {},
         remote |-> 0, fate |-> "done", next |-> {}]

TypeOK ==
    /\ jobs \in [Jobs -> JobStates]
    /\ clips \in SUBSET Sources
    /\ posts \in [Posts -> Rows]
    /\ files \in [Sources -> Sources \union {NoSource}]
    /\ camera \in [{HostOf[w] : w \in Workers} -> Sources \union {NoSource}]
    /\ plat \in [Posts -> [1..MaxUploads -> {"none", "processing", "live", "refused"}]]
    /\ wk \in [Workers -> Handlers]
    /\ budget \in [cuts : 0..MaxCuts, retries : 0..MaxRetries]
    /\ cut \in SUBSET Sources
    /\ missed \in SUBSET Posts

Init ==
    /\ jobs = [j \in Jobs |-> IF j[1] = "select" THEN "queued" ELSE "none"]
    /\ clips = {}
    /\ posts = [p \in Posts |-> [Booking(NoSource, CHOOSE a \in Accounts : TRUE)
                                 EXCEPT !.state = "absent"]]
    /\ files = [c \in Sources |-> NoSource]
    /\ camera = [h \in {HostOf[w] : w \in Workers} |-> NoSource]
    /\ plat = [p \in Posts |-> [n \in 1..MaxUploads |-> "none"]]
    /\ wk = [w \in Workers |-> Idle]
    /\ budget = [cuts |-> MaxCuts, retries |-> MaxRetries]
    /\ cut = {}
    /\ missed = {}

-----------------------------------------------------------------------------
(* The runtime around a handler.                                           *)

Kind(w) == wk[w].job[1]
Of(w) == wk[w].job[2]
At(w, step) == wk[w].step = step
Begins(w, kinds) == At(w, "begin") /\ Kind(w) \in kinds

Go(w, step) == wk' = [wk EXCEPT ![w].step = step]

Return(w, fate, follow) ==
    wk' = [wk EXCEPT ![w] = [Idle EXCEPT !.job = wk[w].job, !.step = "record",
                                         !.fate = fate, !.next = follow,
                                         !.got = wk[w].got]]

\* A retry counts an attempt, and the last one leaves the job dead.
Again(w) == \E fate \in {"queued", "dead"} : Return(w, fate, {})

\* A publish job waits for the moment its post was booked for.
Take(w, j) ==
    /\ At(w, "idle") /\ jobs[j] = "queued"
    /\ j[1] = "publish" => posts[j[2]].arrived
    /\ jobs' = [jobs EXCEPT ![j] = "running"]
    /\ wk' = [wk EXCEPT ![w] = [Idle EXCEPT !.job = j, !.step = "begin"]]
    /\ UNCHANGED <<clips, posts, files, camera, plat, budget, cut, missed>>

\* The outcome and the follow-on jobs, one transaction: a key that has a row
\* already gets no second one.
Record(w) ==
    /\ At(w, "record")
    /\ jobs' = [j \in Jobs |->
            IF j = wk[w].job THEN wk[w].fate
            ELSE IF j \in wk[w].next /\ jobs[j] = "none" THEN "queued"
            ELSE jobs[j]]
    /\ wk' = [wk EXCEPT ![w] = Idle]
    /\ UNCHANGED <<clips, posts, files, camera, plat, budget, cut, missed>>

Booked(w) == {p \in Posts : posts[p].state # "absent" /\ posts[p].clip = Of(w)}

\* The worker dies, the recording fails or an exception leaves the handler:
\* the job is queued again or its attempts have run out.
Cut(w) ==
    /\ ~At(w, "idle") /\ budget.cuts > 0
    /\ budget' = [budget EXCEPT !.cuts = budget.cuts - 1]
    /\ \E fate \in {"queued", "dead"} : jobs' = [jobs EXCEPT ![wk[w].job] = fate]
    /\ cut' = IF Kind(w) = "select" /\ Of(w) \notin clips /\ Booked(w) # {}
              THEN cut \union {Of(w)} ELSE cut
    /\ missed' = IF Kind(w) = "publish" THEN missed \union wk[w].got ELSE missed
    /\ wk' = [wk EXCEPT ![w] = Idle]
    /\ UNCHANGED <<clips, posts, files, camera, plat>>

-----------------------------------------------------------------------------
(* Selection.                                                              *)

\* A buggy variant: a selection run again chooses and books again.
ReplayedNot(w) == FALSE

\* "If this source already has a clip for this channel".
Replayed(w) == Of(w) \in clips

\* selection_handler up to the pipeline's verdict: a replay, a source that
\* cannot be cut (Fatal), one the pipeline blocks (Done), a pipeline that threw
\* (Retry), or a moment to book.
Select(w) ==
    /\ Begins(w, {"select"})
    /\ \/ Replayed(w) /\ Return(w, "done", {<<"render", Of(w)>>})
       \/ ~Replayed(w) /\ Return(w, "dead", {})
       \/ ~Replayed(w) /\ Return(w, "done", {})
       \/ ~Replayed(w) /\ Again(w)
       \/ ~Replayed(w) /\ wk' = [wk EXCEPT ![w].step = "book", ![w].accounts = Accounts]
    /\ UNCHANGED <<jobs, clips, posts, files, camera, plat, budget, cut, missed>>

\* publisher.schedule: the calendar stores the row as scheduled; or it refuses
\* the slot, the spec or the account.
Book(w, a) ==
    /\ At(w, "book") /\ a \in wk[w].accounts
    /\ \/ \E p \in Posts :
            /\ posts[p].state = "absent"
            /\ posts' = [posts EXCEPT ![p] = Booking(Of(w), a)]
            /\ wk' = [wk EXCEPT ![w].step = "draft", ![w].got = {p},
                                ![w].accounts = wk[w].accounts \ {a}]
       \/ /\ wk' = [wk EXCEPT ![w].accounts = wk[w].accounts \ {a}]
          /\ UNCHANGED posts
    /\ UNCHANGED <<jobs, clips, files, camera, plat, budget, cut, missed>>

\* calendar.persist of the post, now a draft.
StoreDraft(w) ==
    /\ At(w, "draft")
    /\ posts' = [p \in Posts |->
            IF p \in wk[w].got
            THEN [Booking(posts[p].clip, posts[p].account) EXCEPT !.state = "draft"]
            ELSE posts[p]]
    /\ wk' = [wk EXCEPT ![w].step = "book", ![w].got = {}]
    /\ UNCHANGED <<jobs, clips, files, camera, plat, budget, cut, missed>>

\* The clip is saved and the source marked used, in one transaction.
SaveClip(w) ==
    /\ At(w, "book") /\ wk[w].accounts = {}
    /\ clips' = clips \union {Of(w)}
    /\ Return(w, "done", {<<"render", Of(w)>>})
    /\ UNCHANGED <<jobs, posts, files, camera, plat, budget, cut, missed>>

-----------------------------------------------------------------------------
(* Rendering.                                                              *)

\* render_handler and render up to the encoder: the media or ffmpeg is missing
\* or the plan is rejected (Fatal), or the camera path is written to
\* camera.cmd in the directory of the output.
WriteCamera(w) ==
    /\ Begins(w, {"render"})
    /\ \/ Return(w, "dead", {}) /\ UNCHANGED camera
       \/ /\ camera' = [camera EXCEPT ![HostOf[w]] = Of(w)]
          /\ Go(w, "encode")
    /\ UNCHANGED <<jobs, clips, posts, files, plat, budget, cut, missed>>

\* ffmpeg into a temporary file, checked and renamed; or it fails.
Encode(w) ==
    /\ At(w, "encode")
    /\ \/ /\ files' = [files EXCEPT ![Of(w)] = camera[HostOf[w]]]
          /\ Go(w, "promote")
       \/ Again(w) /\ UNCHANGED files
       \/ Return(w, "dead", {}) /\ UNCHANGED files
    /\ UNCHANGED <<jobs, clips, posts, camera, plat, budget, cut, missed>>

\* A buggy variant: only one of the clip's posts is let go.
WaitingFirst(c) ==
    LET all == {p \in Posts : posts[p].clip = c /\ posts[p].state \in {"draft", "scheduled"}} IN
    IF all = {} THEN {} ELSE {CHOOSE p \in all : TRUE}

\* The posts of a clip that a finished render lets go.
Waiting(c) == {p \in Posts : posts[p].clip = c /\ posts[p].state \in {"draft", "scheduled"}}

\* A buggy variant: a post that is scheduled already is not queued again.
PromoteDrafts(w) ==
    /\ At(w, "promote")
    /\ posts' = [p \in Posts |->
            IF p \in Waiting(Of(w))
            THEN [posts[p] EXCEPT !.state = "scheduled", !.ready = TRUE] ELSE posts[p]]
    /\ Return(w, "done", {"publish"} \X {p \in Waiting(Of(w)) : posts[p].state = "draft"})
    /\ UNCHANGED <<jobs, clips, files, camera, plat, budget, cut, missed>>

\* _promote_uploads, one transaction.
Promote(w) ==
    /\ At(w, "promote")
    /\ posts' = [p \in Posts |->
            IF p \in Waiting(Of(w))
            THEN [posts[p] EXCEPT !.state = "scheduled", !.ready = TRUE] ELSE posts[p]]
    /\ Return(w, "done", {"publish"} \X Waiting(Of(w)))
    /\ UNCHANGED <<jobs, clips, files, camera, plat, budget, cut, missed>>

-----------------------------------------------------------------------------
(* Publishing.                                                             *)

Held(p) == \E w \in Workers : p \in wk[w].todo

\* A buggy variant: a draft is due like any other post.
DueDrafts(p) == posts[p].arrived /\ posts[p].state \in {"draft", "scheduled", "retrying"}

\* ContentCalendar.due
Due(p) == posts[p].arrived /\ posts[p].state \in {"scheduled", "retrying"}

\* publish_handler: every post that is due is claimed, and those whose claim
\* has lapsed with the worker that made it.
Pass(w) ==
    /\ Begins(w, {"publish"})
    /\ \E lapsed \in SUBSET {p \in Posts : posts[p].state = "claimed" /\ ~Held(p)} :
        LET claimed == {p \in Posts : Due(p)} \union lapsed IN
        IF claimed = {} THEN Return(w, "done", {}) /\ UNCHANGED posts
        ELSE /\ posts' = [p \in Posts |-> IF p \in claimed
                                          THEN [posts[p] EXCEPT !.state = "claimed"]
                                          ELSE posts[p]]
             /\ wk' = [wk EXCEPT ![w].step = "deliver", ![w].todo = claimed]
    /\ UNCHANGED <<jobs, clips, files, camera, plat, budget, cut, missed>>

\* A buggy variant: one job of verification for the whole pass.
VerificationFirst(got) == IF got = {} THEN {} ELSE {<<"verify", CHOOSE p \in got : TRUE>>}

\* The jobs chained for the posts a pass delivered.
Verifications(got) == {"verify"} \X got

\* run_post: the platform takes the file, or the attempt fails.
Deliver(w, p) ==
    /\ At(w, "deliver") /\ p \in wk[w].todo
    /\ \E delivered \in BOOLEAN :
        LET n == posts[p].remote + 1
            got == IF delivered THEN wk[w].got \union {p} ELSE wk[w].got IN
        /\ IF delivered
           THEN /\ files[posts[p].clip] # NoSource /\ n <= MaxUploads
                /\ posts' = [posts EXCEPT ![p].state = "published", ![p].remote = n]
                /\ plat' = [plat EXCEPT ![p][n] = "processing"]
           ELSE /\ \E state \in {"retrying", "failed", "needs_attention"} :
                    posts' = [posts EXCEPT ![p].state = state]
                /\ UNCHANGED plat
        /\ wk' = [wk EXCEPT ![w] =
             IF wk[w].todo = {p}
             THEN [Idle EXCEPT !.job = wk[w].job, !.step = "record", !.got = got,
                               !.next = Verifications(got)]
             ELSE [wk[w] EXCEPT !.todo = wk[w].todo \ {p}, !.got = got]]
    /\ UNCHANGED <<jobs, clips, files, camera, budget, cut, missed>>

-----------------------------------------------------------------------------
(* Verification.                                                           *)

\* verification_handler reads the row; a post not delivered is left alone.
Verify(w) ==
    /\ Begins(w, {"verify", "verify again"})
    /\ IF posts[Of(w)].state = "published"
       THEN wk' = [wk EXCEPT ![w].step = "ask", ![w].remote = posts[Of(w)].remote]
       ELSE Return(w, "done", {})
    /\ UNCHANGED <<jobs, clips, posts, files, camera, plat, budget, cut, missed>>

\* A buggy variant: a post the platform still works on counts as refused.
RefusesSlow(p, n) == plat[p][n] \in {"processing", "refused"}

\* The verdict of verify.py: `rejected`.
Refuses(p, n) == plat[p][n] = "refused"

\* UploadVerifier.verify: live, refused, still processing, or no answer.
Ask(w) ==
    /\ At(w, "ask")
    /\ LET p == Of(w)
           n == wk[w].remote IN
       \/ /\ plat[p][n] = "live"
          /\ Return(w, "done", IF Kind(w) = "verify" THEN {<<"verify again", p>>} ELSE {})
       \/ Refuses(p, n) /\ Go(w, "take back")
       \/ Again(w)
    /\ UNCHANGED <<jobs, clips, posts, files, camera, plat, budget, cut, missed>>

\* The second transaction: the row is marked whatever it has become.
TakeBack(w) ==
    /\ At(w, "take back")
    /\ posts' = [posts EXCEPT ![Of(w)].state = "needs_attention", ![Of(w)].back = TRUE]
    /\ Return(w, "done", {})
    /\ UNCHANGED <<jobs, clips, files, camera, plat, budget, cut, missed>>

-----------------------------------------------------------------------------
(* Outside.                                                                *)

\* run_at comes; the lead time is long next to a selection.
Arrive(p) ==
    /\ posts[p].state # "absent" /\ ~posts[p].arrived
    /\ \A w \in Workers : At(w, "book") \/ At(w, "draft") => Of(w) # posts[p].clip
    /\ posts' = [posts EXCEPT ![p].arrived = TRUE]
    /\ UNCHANGED <<jobs, clips, files, camera, plat, wk, budget, cut, missed>>

\* The platform finishes its work on an upload, or refuses it, early or late.
Judge(p, n) ==
    /\ \/ plat[p][n] = "processing" /\ plat' = [plat EXCEPT ![p][n] = "live"]
       \/ /\ plat[p][n] \in {"processing", "live"}
          /\ plat' = [plat EXCEPT ![p][n] = "refused"]
    /\ UNCHANGED <<jobs, clips, posts, files, camera, wk, budget, cut, missed>>

\* retry_upload of the API.
RetryUpload(p) ==
    /\ posts[p].state \in {"failed", "needs_attention"} /\ budget.retries > 0
    /\ budget' = [budget EXCEPT !.retries = budget.retries - 1]
    /\ posts' = [posts EXCEPT ![p].state = "scheduled", ![p].arrived = TRUE,
                              ![p].retried = TRUE, ![p].back = FALSE]
    /\ UNCHANGED <<jobs, clips, files, camera, plat, wk, cut, missed>>

Next ==
    \/ \E w \in Workers :
        \/ \E j \in Jobs : Take(w, j)
        \/ Record(w) \/ Cut(w)
        \/ Select(w) \/ StoreDraft(w) \/ SaveClip(w)
        \/ \E a \in Accounts : Book(w, a)
        \/ WriteCamera(w) \/ Encode(w) \/ Promote(w)
        \/ Pass(w) \/ (\E p \in Posts : Deliver(w, p))
        \/ Verify(w) \/ Ask(w) \/ TakeBack(w)
    \/ \E p \in Posts :
        Arrive(p) \/ RetryUpload(p) \/ (\E n \in 1..MaxUploads : Judge(p, n))

Spec == Init /\ [][Next]_vars

-----------------------------------------------------------------------------
(* Properties.                                                             *)

Open(j) == jobs[j] \in {"queued", "running"}

\* A clip has one post on an account: a selection run again after its clip was
\* saved books nothing.  Only one cut off between the two books again
\* (selection_handler, "Running it twice does nothing twice").
OncePerAccount ==
    \A p, q \in Posts :
        /\ posts[p].state # "absent" /\ posts[q].state # "absent"
        /\ posts[p].clip = posts[q].clip /\ posts[p].account = posts[q].account
        => p = q \/ posts[p].clip \in cut

\* What a publisher holds or has sent has its file, and the file was cut along
\* the clip's own camera path: "no publisher can ever claim a post before its
\* render finishes" (selection.py:20).  Only a selection cut off between the two
\* writes of a booking leaves a post that is not a draft.
RenderedFirst ==
    \A p \in Posts :
        posts[p].state \in {"claimed", "retrying", "published"} =>
            \/ posts[p].ready /\ files[posts[p].clip] = posts[p].clip
            \/ posts[p].clip \in cut

\* A draft has a job that will let it go: its clip is being chosen or rendered,
\* or one of the two is dead; unless its selection was cut off and, run again,
\* did not come to a clip.
DraftWaits ==
    \A p \in Posts :
        posts[p].state = "draft" =>
            \/ \E kind \in {"select", "render"} :
                LET j == <<kind, posts[p].clip>> IN Open(j) \/ jobs[j] = "dead"
            \/ posts[p].clip \in cut \ clips

\* A post that was let go has its publish job, until that job has seen it:
\* "a post that became publishable with nothing queued to publish it is the
\* stall this replaced" (render_handler).
LetGoIsQueued ==
    \A p \in Posts :
        posts[p].state = "scheduled" /\ posts[p].ready /\ ~posts[p].retried =>
            LET render == <<"render", posts[p].clip>>
                publish == <<"publish", p>> IN
            \/ Open(render) \/ jobs[render] = "dead"
            \/ Open(publish) \/ jobs[publish] = "dead"

\* A delivered post is verified: its job is there, or the pass that delivered
\* it has yet to be recorded; unless that pass was cut off, whose second run
\* finds nothing due and chains nothing.
DeliveredIsVerified ==
    \A p \in Posts :
        posts[p].state = "published" =>
            \/ jobs[<<"verify", p>>] # "none"
            \/ \E w \in Workers : p \in wk[w].got
            \/ p \in missed

\* A post the verification took back is one the platform refused: "An outage
\* is not a missing post" (verification_handler).
TakenBackIsGone ==
    \A p \in Posts :
        posts[p].state = "needs_attention" /\ posts[p].back =>
            plat[p][posts[p].remote] = "refused"
=============================================================================
