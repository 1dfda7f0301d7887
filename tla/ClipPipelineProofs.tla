------------------------- MODULE ClipPipelineProofs -------------------------
(***************************************************************************)
(* Theorems about ClipPipeline, for any sources, accounts, posts, workers, *)
(* cuts and retries.                                                       *)
(***************************************************************************)
EXTENDS ClipPipeline, TLAPS

(* The inductive invariant.                                                *)

Works(w) == ~At(w, "idle")
Selecting(w) == At(w, "book") \/ At(w, "draft")

\* A worker's step belongs to its job, and it holds posts only while it books
\* or delivers.
HandOK(w) ==
    /\ Selecting(w) => Kind(w) = "select"
    /\ At(w, "encode") \/ At(w, "promote") => Kind(w) = "render"
    /\ At(w, "deliver") => Kind(w) = "publish"
    /\ At(w, "ask") \/ At(w, "take back") => Kind(w) \in {"verify", "verify again"}
    /\ wk[w].todo # {} => At(w, "deliver")
    /\ wk[w].got # {} => At(w, "draft") \/ (Kind(w) = "publish" /\ (At(w, "deliver") \/ At(w, "record")))

\* A worker has a job of its own in hand.
HandsOK ==
    /\ \A w \in Workers : Works(w) => wk[w].job \in Jobs /\ jobs[wk[w].job] = "running"
    /\ \A v, w \in Workers : Works(v) /\ Works(w) /\ wk[v].job = wk[w].job => v = w
    /\ \A w \in Workers : HandOK(w)

\* While a clip is being chosen it is not saved, and the post just booked is
\* still to be stored as a draft.
BookingHand(w) ==
    Selecting(w) =>
        /\ Of(w) \notin clips
        /\ At(w, "draft") => \E p \in Posts :
              /\ wk[w].got = {p}
              /\ posts[p].state = "scheduled" /\ posts[p].clip = Of(w) /\ ~posts[p].arrived

BookingOK == \A w \in Workers : BookingHand(w)

\* A post of a clip that is not saved was booked by the selection at work, and
\* its account is done with; or by one that was cut off.
BookedBySelection ==
    \A p \in Posts :
        posts[p].state # "absent" =>
            /\ posts[p].clip \in Sources
            /\ \/ posts[p].clip \in clips \union cut
               \/ \E w \in Workers : /\ Selecting(w) /\ Of(w) = posts[p].clip
                                     /\ posts[p].account \notin wk[w].accounts

\* A clip is rendered once it is saved; a saved clip that is not has a selection
\* that will name its render.
RenderHand(w) ==
    At(w, "record") /\ Kind(w) = "select" =>
        /\ wk[w].next \subseteq {<<"render", Of(w)>>}
        /\ wk[w].next # {} => Of(w) \in clips
        /\ wk[w].fate = "done" /\ Of(w) \in clips => <<"render", Of(w)>> \in wk[w].next

RenderChained ==
    /\ \A c \in Sources :
        /\ jobs[<<"render", c>>] # "none" => c \in clips
        /\ c \in clips /\ jobs[<<"render", c>>] = "none" =>
                jobs[<<"select", c>>] \in {"queued", "running", "dead"}
    /\ \A w \in Workers : RenderHand(w)

Fresh(p) == posts[p].state = "scheduled" /\ ~posts[p].retried

\* What a render that is done has let go of clip c, given the posts it has named
\* and those whose publish jobs have rows.
LetGo(c, named) ==
    \A p \in Posts : posts[p].clip = c =>
        /\ posts[p].state # "draft"
        /\ Fresh(p) => p \in named

PublishHand(w) ==
    /\ At(w, "record") /\ Kind(w) = "render" =>
        /\ wk[w].next \subseteq {"publish"} \X {p \in Posts : posts[p].clip = Of(w) /\ posts[p].state # "absent"}
        /\ wk[w].next # {} => wk[w].fate = "done"
        /\ wk[w].fate = "done" => LetGo(Of(w), {p \in Posts : <<"publish", p>> \in wk[w].next})
    /\ (At(w, "deliver") \/ At(w, "record")) /\ Kind(w) = "publish" => ~Fresh(Of(w))

PublishRow(p) ==
    /\ posts[p].ready => posts[p].state # "absent" /\ jobs[<<"render", posts[p].clip>>] # "none"
    /\ jobs[<<"publish", p>>] # "none" =>
            posts[p].state # "absent" /\ jobs[<<"render", posts[p].clip>>] = "done"
    /\ jobs[<<"publish", p>>] = "running" => posts[p].arrived
    /\ jobs[<<"publish", p>>] = "done" => ~Fresh(p)

PublishChained ==
    /\ \A c \in Sources : jobs[<<"render", c>>] = "done" =>
        LetGo(c, {p \in Posts : jobs[<<"publish", p>>] # "none"})
    /\ \A w \in Workers : PublishHand(w)
    /\ \A p \in Posts : PublishRow(p)

\* A claimed post is held by one pass at most, and what a pass delivered is
\* named in what it returns.
PassHand(w) ==
    /\ \A p \in wk[w].todo : posts[p].state = "claimed"
    /\ At(w, "record") /\ Kind(w) = "publish" =>
        wk[w].fate = "done" /\ wk[w].next = Verifications(wk[w].got)

PassesOK ==
    /\ \A v, w \in Workers : v # w => wk[v].todo \intersect wk[w].todo = {}
    /\ \A w \in Workers : PassHand(w)

\* One verification of a post at a time: the second pass is queued when the
\* first is done, and while either asks, the row stays what it read.
VerifyRow(p) ==
    /\ jobs[<<"verify again", p>>] # "none" => jobs[<<"verify", p>>] = "done"
    /\ posts[p].state = "published" => posts[p].remote # 0
    /\ posts[p].back => /\ posts[p].state = "needs_attention" /\ posts[p].remote # 0
                        /\ plat[p][posts[p].remote] = "refused"

VerifyHand(w) ==
    /\ At(w, "ask") \/ At(w, "take back") =>
        /\ posts[Of(w)].state = "published" /\ posts[Of(w)].remote = wk[w].remote
        /\ At(w, "take back") => plat[Of(w)][wk[w].remote] = "refused"
    /\ At(w, "record") /\ Kind(w) = "verify" =>
        /\ wk[w].next \subseteq {<<"verify again", Of(w)>>}
        /\ wk[w].next # {} => wk[w].fate = "done"
    /\ At(w, "record") /\ Kind(w) = "verify again" => wk[w].next = {}

VerifyOK == (\A p \in Posts : VerifyRow(p)) /\ (\A w \in Workers : VerifyHand(w))

ClipInv ==
    /\ TypeOK /\ HandsOK /\ BookingOK /\ BookedBySelection /\ OncePerAccount
    /\ RenderChained /\ PublishChained /\ PassesOK /\ VerifyOK /\ DeliveredIsVerified

\* With a host for each worker, a clip's file is cut along its own path, and
\* a post is ready only when the file is there.
FileHand(w) ==
    /\ At(w, "encode") => camera[HostOf[w]] = Of(w)
    /\ At(w, "promote") => files[Of(w)] = Of(w)

FileRow(p) ==
    /\ posts[p].ready => files[posts[p].clip] = posts[p].clip
    /\ posts[p].state \notin {"absent", "draft"} =>
        \/ posts[p].ready
        \/ posts[p].clip \in cut
        \/ \E w \in Workers : At(w, "draft") /\ p \in wk[w].got

FilesOK ==
    /\ \A c \in Sources : files[c] \in {NoSource, c}
    /\ \A w \in Workers : FileHand(w)
    /\ \A p \in Posts : FileRow(p)

\* Every worker renders on a host of its own.
OneHostEach == \A v, w \in Workers : HostOf[v] = HostOf[w] => v = w

-----------------------------------------------------------------------------
(* Jobs, handlers and rows.                                                *)

USE NamesAssumption, BoundsAssumption

LEMMA PairIs ==
    ASSUME NEW K, NEW S, NEW j \in K \X S
    PROVE  j = <<j[1], j[2]>> /\ j[1] \in K /\ j[2] \in S
OBVIOUS

LEMMA JobShapes ==
    /\ \A c \in Sources : <<"select", c>> \in Jobs /\ <<"render", c>> \in Jobs
    /\ \A p \in Posts : /\ <<"publish", p>> \in Jobs
                        /\ <<"verify", p>> \in Jobs /\ <<"verify again", p>> \in Jobs
    /\ \A j \in Jobs :
        /\ j = <<j[1], j[2]>>
        /\ \/ j[1] \in {"select", "render"} /\ j[2] \in Sources
           \/ j[1] \in {"publish", "verify", "verify again"} /\ j[2] \in Posts
<1>1. \A c \in Sources : <<"select", c>> \in Jobs /\ <<"render", c>> \in Jobs
  BY DEF Jobs
<1>2. \A p \in Posts : /\ <<"publish", p>> \in Jobs
                      /\ <<"verify", p>> \in Jobs /\ <<"verify again", p>> \in Jobs
  BY DEF Jobs
<1>3. ASSUME NEW j \in Jobs
      PROVE  /\ j = <<j[1], j[2]>>
             /\ \/ j[1] \in {"select", "render"} /\ j[2] \in Sources
                \/ j[1] \in {"publish", "verify", "verify again"} /\ j[2] \in Posts
  <2>1. CASE j \in {"select", "render"} \X Sources
    BY <2>1, PairIs
  <2>2. CASE j \in {"publish", "verify", "verify again"} \X Posts
    BY <2>2, PairIs
  <2> QED  BY <2>1, <2>2 DEF Jobs
<1> QED  BY <1>1, <1>2, <1>3

\* Where a worker stands in the job it has in hand.
LEMMA InHand ==
    ASSUME TypeOK, HandsOK, NEW w \in Workers, Works(w)
    PROVE  /\ wk[w].job \in Jobs /\ wk[w].job = <<Kind(w), Of(w)>>
           /\ jobs[<<Kind(w), Of(w)>>] = "running"
           /\ \/ Kind(w) \in {"select", "render"} /\ Of(w) \in Sources
              \/ Kind(w) \in {"publish", "verify", "verify again"} /\ Of(w) \in Posts
BY JobShapes DEF HandsOK, HandOK, Kind, Of

\* Nobody else has a worker's job.
LEMMA Alone ==
    ASSUME TypeOK, HandsOK, NEW v \in Workers, NEW w \in Workers, Works(v), Works(w),
           Kind(v) = Kind(w), Of(v) = Of(w)
    PROVE  v = w
BY InHand DEF HandsOK, HandOK

\* The others keep what they have.
Others(w) == \A v \in Workers : v # w => wk'[v] = wk[v]

Fates == {"done", "queued", "dead"}

LEMMA IdleIs ==
    /\ Idle \in Handlers
    /\ Idle.step = "idle" /\ Idle.accounts = {} /\ Idle.todo = {} /\ Idle.got = {}
    /\ Idle.next = {} /\ Idle.fate = "done" /\ Idle.job = NoJob
BY DEF Idle, Handlers, Steps

LEMMA ReturnDoes ==
    ASSUME TypeOK, NEW w \in Workers, NEW fate \in Fates, NEW follow \in SUBSET Jobs,
           Return(w, fate, follow)
    PROVE  /\ wk' \in [Workers -> Handlers] /\ Others(w)
           /\ wk'[w].step = "record" /\ wk'[w].job = wk[w].job /\ wk'[w].got = wk[w].got
           /\ wk'[w].todo = {} /\ wk'[w].accounts = {}
           /\ wk'[w].fate = fate /\ wk'[w].next = follow
<1>1. wk[w].job \in Jobs \union {NoJob} /\ wk[w].got \in SUBSET Posts
  BY DEF TypeOK, Handlers
<1> DEFINE new == [Idle EXCEPT !.job = wk[w].job, !.step = "record",
                               !.fate = fate, !.next = follow, !.got = wk[w].got]
<1>2. /\ new \in Handlers
      /\ new.step = "record" /\ new.job = wk[w].job /\ new.got = wk[w].got
      /\ new.todo = {} /\ new.accounts = {} /\ new.fate = fate /\ new.next = follow
  BY <1>1, IdleIs DEF Handlers, Steps, Fates
<1>3. wk' = [wk EXCEPT ![w] = new]
  BY DEF Return
<1> HIDE DEF new
<1> QED  BY <1>2, <1>3 DEF TypeOK, Others

LEMMA AgainDoes ==
    ASSUME NEW w \in Workers, Again(w)
    PROVE  \E fate \in Fates : fate # "done" /\ Return(w, fate, {})
BY DEF Again, Fates

LEMMA GoDoes ==
    ASSUME TypeOK, NEW w \in Workers, NEW step \in Steps, Go(w, step)
    PROVE  /\ wk' \in [Workers -> Handlers] /\ Others(w)
           /\ wk'[w].step = step /\ wk'[w].job = wk[w].job /\ wk'[w].got = wk[w].got
           /\ wk'[w].todo = wk[w].todo /\ wk'[w].accounts = wk[w].accounts
           /\ wk'[w].remote = wk[w].remote
<1>1. wk[w] \in Handlers
  BY DEF TypeOK
<1>2. [wk[w] EXCEPT !.step = step] \in Handlers
  BY <1>1 DEF Handlers
<1> QED  BY <1>1, <1>2 DEF TypeOK, Others, Go, Handlers

-----------------------------------------------------------------------------
(* What each action does to the worker that takes it.                      *)

\* A handler goes on: its job stays in hand, and no other moves.
Onward(w) ==
    /\ wk' \in [Workers -> Handlers] /\ Others(w)
    /\ Works(w) /\ wk'[w].step # "idle" /\ wk'[w].job = wk[w].job
    /\ UNCHANGED <<jobs, budget, cut, missed>>

\* It returns, with what it had got.
Returns(w, fate, follow) ==
    /\ wk'[w].step = "record" /\ wk'[w].got = wk[w].got
    /\ wk'[w].todo = {} /\ wk'[w].accounts = {}
    /\ wk'[w].fate = fate /\ wk'[w].next = follow

LEMMA TakeDoes ==
    ASSUME TypeOK, NEW w \in Workers, NEW j \in Jobs, Take(w, j)
    PROVE  /\ wk' \in [Workers -> Handlers] /\ Others(w)
           /\ wk'[w].step = "begin" /\ wk'[w].job = j
           /\ wk'[w].got = {} /\ wk'[w].todo = {} /\ wk'[w].accounts = {}
           /\ jobs' \in [Jobs -> JobStates] /\ jobs'[j] = "running"
           /\ \A k \in Jobs : k # j => jobs'[k] = jobs[k]
<1> DEFINE new == [Idle EXCEPT !.job = j, !.step = "begin"]
<1>1. /\ new \in Handlers /\ new.step = "begin" /\ new.job = j
      /\ new.got = {} /\ new.todo = {} /\ new.accounts = {}
  BY IdleIs DEF Handlers, Steps
<1>2. wk' = [wk EXCEPT ![w] = new]
  BY DEF Take
<1> HIDE DEF new
<1>3. wk' \in [Workers -> Handlers] /\ Others(w) /\ wk'[w] = new
  BY <1>1, <1>2 DEF TypeOK, Others
<1>4. /\ jobs' \in [Jobs -> JobStates] /\ jobs'[j] = "running"
      /\ \A k \in Jobs : k # j => jobs'[k] = jobs[k]
  BY DEF Take, TypeOK, JobStates
<1> QED  BY <1>1, <1>3, <1>4

LEMMA RecordDoes ==
    ASSUME TypeOK, NEW w \in Workers, Record(w)
    PROVE  /\ wk' \in [Workers -> Handlers] /\ Others(w) /\ wk'[w] = Idle
           /\ jobs' \in [Jobs -> JobStates]
           /\ \A k \in Jobs :
                jobs'[k] = IF k = wk[w].job THEN wk[w].fate
                           ELSE IF k \in wk[w].next /\ jobs[k] = "none" THEN "queued"
                           ELSE jobs[k]
<1>1. wk' \in [Workers -> Handlers] /\ Others(w) /\ wk'[w] = Idle
  BY IdleIs DEF Record, TypeOK, Others
<1>2. wk[w].fate \in Fates
  BY DEF TypeOK, Handlers, Fates
<1> QED  BY <1>1, <1>2 DEF Record, TypeOK, JobStates, Fates

LEMMA CutDoes ==
    ASSUME TypeOK, NEW w \in Workers, Cut(w), HandsOK
    PROVE  /\ wk' \in [Workers -> Handlers] /\ Others(w) /\ wk'[w] = Idle
           /\ jobs' \in [Jobs -> JobStates] /\ jobs'[wk[w].job] \in {"queued", "dead"}
           /\ \A k \in Jobs : k # wk[w].job => jobs'[k] = jobs[k]
           /\ cut \subseteq cut' /\ missed \subseteq missed'
<1>1. wk' \in [Workers -> Handlers] /\ Others(w) /\ wk'[w] = Idle
  BY IdleIs DEF Cut, TypeOK, Others
<1>2. Works(w) /\ wk[w].job \in Jobs
  BY DEF Cut, Works, HandsOK, HandOK
<1>3. PICK fate \in {"queued", "dead"} : jobs' = [jobs EXCEPT ![wk[w].job] = fate]
  BY DEF Cut
<1>4. /\ jobs' \in [Jobs -> JobStates] /\ jobs'[wk[w].job] \in {"queued", "dead"}
      /\ \A k \in Jobs : k # wk[w].job => jobs'[k] = jobs[k]
  BY <1>2, <1>3 DEF TypeOK, JobStates
<1> QED  BY <1>1, <1>4 DEF Cut

LEMMA SelectDoes ==
    ASSUME TypeOK, HandsOK, NEW w \in Workers, Select(w)
    PROVE  /\ Onward(w) /\ UNCHANGED <<clips, posts, files, camera, plat>>
           /\ Kind(w) = "select" /\ At(w, "begin") /\ Of(w) \in Sources
           /\ wk'[w].got = wk[w].got /\ wk'[w].todo \in {wk[w].todo, {}}
           /\ \/ Of(w) \in clips /\ Returns(w, "done", {<<"render", Of(w)>>})
              \/ Of(w) \notin clips /\ \E fate \in Fates : Returns(w, fate, {})
              \/ Of(w) \notin clips /\ wk'[w].step = "book" /\ wk'[w].accounts = Accounts
<1>1. Works(w) /\ Kind(w) = "select" /\ At(w, "begin") /\ UNCHANGED <<jobs, clips, posts, files, camera, plat, budget, cut, missed>>
  BY DEF Select, Begins, Works, At
<1>2. Of(w) \in Sources /\ {<<"render", Of(w)>>} \in SUBSET Jobs /\ {} \in SUBSET Jobs
  BY <1>1, InHand, JobShapes
<1>3. CASE Of(w) \in clips /\ Return(w, "done", {<<"render", Of(w)>>})
  BY <1>1, <1>2, <1>3, ReturnDoes DEF Onward, Returns, Fates
<1>4. CASE Of(w) \notin clips /\ \E fate \in Fates : Return(w, fate, {})
  BY <1>1, <1>2, <1>4, ReturnDoes DEF Onward, Returns, Fates
<1>5. CASE Of(w) \notin clips /\ wk' = [wk EXCEPT ![w].step = "book", ![w].accounts = Accounts]
  <2>1. wk[w] \in Handlers
    BY DEF TypeOK
  <2> DEFINE new == [wk[w] EXCEPT !.step = "book", !.accounts = Accounts]
  <2>2. new \in Handlers /\ new.step = "book" /\ new.accounts = Accounts
        /\ new.job = wk[w].job /\ new.got = wk[w].got /\ new.todo = wk[w].todo
    BY <2>1 DEF Handlers, Steps
  <2>3. wk' = [wk EXCEPT ![w] = new]
    BY <1>5, <2>1 DEF TypeOK
  <2> HIDE DEF new
  <2> QED  BY <1>1, <1>2, <1>5, <2>2, <2>3 DEF TypeOK, Onward, Others
<1> QED  BY <1>1, <1>3, <1>4, <1>5, AgainDoes DEF Select, Replayed, Fates

LEMMA BookDoes ==
    ASSUME TypeOK, HandsOK, NEW w \in Workers, NEW a \in Accounts, Book(w, a)
    PROVE  /\ Onward(w) /\ UNCHANGED <<clips, files, camera, plat>>
           /\ At(w, "book") /\ Kind(w) = "select" /\ Of(w) \in Sources
           /\ wk'[w].todo = wk[w].todo
           /\ wk'[w].accounts = wk[w].accounts \ {a} /\ a \in wk[w].accounts
           /\ \/ \E p \in Posts :
                    /\ posts[p].state = "absent" /\ posts' = [posts EXCEPT ![p] = Booking(Of(w), a)]
                    /\ wk'[w].step = "draft" /\ wk'[w].got = {p}
              \/ UNCHANGED posts /\ wk'[w].step = "book" /\ wk'[w].got = wk[w].got
<1>1. wk[w] \in Handlers
  BY DEF TypeOK
<1>4. At(w, "book") /\ Works(w) /\ Kind(w) = "select"
  BY DEF Book, HandsOK, HandOK, Selecting, Works, At
<1>5. Of(w) \in Sources
  BY <1>4, InHand
<1>2. CASE \E p \in Posts :
            /\ posts[p].state = "absent"
            /\ posts' = [posts EXCEPT ![p] = Booking(Of(w), a)]
            /\ wk' = [wk EXCEPT ![w].step = "draft", ![w].got = {p},
                                ![w].accounts = wk[w].accounts \ {a}]
  <2>1. PICK p \in Posts :
            /\ posts[p].state = "absent"
            /\ posts' = [posts EXCEPT ![p] = Booking(Of(w), a)]
            /\ wk' = [wk EXCEPT ![w].step = "draft", ![w].got = {p},
                                ![w].accounts = wk[w].accounts \ {a}]
    BY <1>2
  <2> DEFINE new == [wk[w] EXCEPT !.step = "draft", !.got = {p}, !.accounts = wk[w].accounts \ {a}]
  <2>2. wk[w].accounts \ {a} \in SUBSET Accounts /\ {p} \in SUBSET Posts
    BY <1>1 DEF Handlers
  <2>3. new \in Handlers /\ new.step = "draft" /\ new.accounts = wk[w].accounts \ {a}
        /\ new.job = wk[w].job /\ new.got = {p} /\ new.todo = wk[w].todo
    BY <1>1, <2>2 DEF Handlers, Steps
  <2>4. wk' = [wk EXCEPT ![w] = new]
    BY <1>1, <2>1 DEF TypeOK
  <2> HIDE DEF new
  <2>5. wk' \in [Workers -> Handlers] /\ Others(w) /\ wk'[w] = new
    BY <2>3, <2>4 DEF TypeOK, Others
  <2> QED  BY <1>4, <1>5, <2>1, <2>3, <2>5 DEF Book, Onward
<1>3. CASE wk' = [wk EXCEPT ![w].accounts = wk[w].accounts \ {a}] /\ UNCHANGED posts
  <2> DEFINE new == [wk[w] EXCEPT !.accounts = wk[w].accounts \ {a}]
  <2>1. wk[w].accounts \ {a} \in SUBSET Accounts
    BY <1>1 DEF Handlers
  <2>2. new \in Handlers /\ new.step = wk[w].step /\ new.accounts = wk[w].accounts \ {a}
        /\ new.job = wk[w].job /\ new.got = wk[w].got /\ new.todo = wk[w].todo
    BY <1>1, <2>1 DEF Handlers
  <2>3. wk' = [wk EXCEPT ![w] = new]
    BY <1>1, <1>3 DEF TypeOK
  <2> HIDE DEF new
  <2>4. wk' \in [Workers -> Handlers] /\ Others(w) /\ wk'[w] = new
    BY <2>2, <2>3 DEF TypeOK, Others
  <2> QED  BY <1>3, <1>4, <1>5, <2>2, <2>4 DEF Book, Onward, At
<1> QED  BY <1>2, <1>3 DEF Book

LEMMA StoreDraftDoes ==
    ASSUME TypeOK, HandsOK, NEW w \in Workers, StoreDraft(w)
    PROVE  /\ Onward(w) /\ UNCHANGED <<clips, files, camera, plat>>
           /\ At(w, "draft") /\ Kind(w) = "select" /\ Of(w) \in Sources
           /\ wk'[w].step = "book" /\ wk'[w].got = {}
           /\ wk'[w].todo = wk[w].todo /\ wk'[w].accounts = wk[w].accounts
<1>1. wk[w] \in Handlers
  BY DEF TypeOK
<1>5. At(w, "draft") /\ Works(w) /\ Kind(w) = "select"
  BY DEF StoreDraft, HandsOK, HandOK, Selecting, Works, At
<1>6. Of(w) \in Sources
  BY <1>5, InHand
<1> DEFINE new == [wk[w] EXCEPT !.step = "book", !.got = {}]
<1>2. new \in Handlers /\ new.step = "book" /\ new.accounts = wk[w].accounts
      /\ new.job = wk[w].job /\ new.got = {} /\ new.todo = wk[w].todo
  BY <1>1 DEF Handlers, Steps
<1>3. wk' = [wk EXCEPT ![w] = new]
  BY <1>1 DEF StoreDraft, TypeOK
<1> HIDE DEF new
<1>4. wk' \in [Workers -> Handlers] /\ Others(w) /\ wk'[w] = new
  BY <1>2, <1>3 DEF TypeOK, Others
<1> QED  BY <1>2, <1>4, <1>5, <1>6 DEF StoreDraft, Onward

LEMMA SaveClipDoes ==
    ASSUME TypeOK, HandsOK, NEW w \in Workers, SaveClip(w)
    PROVE  /\ Onward(w) /\ UNCHANGED <<posts, files, camera, plat>>
           /\ At(w, "book") /\ Kind(w) = "select" /\ Of(w) \in Sources
           /\ wk[w].accounts = {} /\ clips' = clips \union {Of(w)}
           /\ Returns(w, "done", {<<"render", Of(w)>>})
<1>1. At(w, "book") /\ Works(w) /\ Kind(w) = "select"
  BY DEF SaveClip, HandsOK, HandOK, Selecting, Works, At
<1>2. Of(w) \in Sources /\ {<<"render", Of(w)>>} \in SUBSET Jobs
  BY <1>1, InHand, JobShapes
<1> QED  BY <1>1, <1>2, ReturnDoes DEF SaveClip, Onward, Returns, Fates

LEMMA WriteCameraDoes ==
    ASSUME TypeOK, HandsOK, NEW w \in Workers, WriteCamera(w)
    PROVE  /\ Onward(w) /\ UNCHANGED <<clips, posts, files, plat>>
           /\ Kind(w) = "render" /\ At(w, "begin") /\ Of(w) \in Sources
           /\ wk'[w].got = wk[w].got /\ wk'[w].todo \in {wk[w].todo, {}}
           /\ \/ Returns(w, "dead", {}) /\ UNCHANGED camera
              \/ wk'[w].step = "encode" /\ camera' = [camera EXCEPT ![HostOf[w]] = Of(w)]
<1>1. Works(w) /\ Kind(w) = "render" /\ At(w, "begin")
  BY DEF WriteCamera, Begins, Works, At
<1>2. Of(w) \in Sources
  BY <1>1, InHand
<1>3. CASE Return(w, "dead", {}) /\ UNCHANGED camera
  BY <1>1, <1>2, <1>3, ReturnDoes DEF WriteCamera, Onward, Returns, Fates
<1>4. CASE Go(w, "encode") /\ camera' = [camera EXCEPT ![HostOf[w]] = Of(w)]
  BY <1>1, <1>2, <1>4, GoDoes DEF WriteCamera, Onward, Steps
<1> QED  BY <1>3, <1>4 DEF WriteCamera

LEMMA EncodeDoes ==
    ASSUME TypeOK, HandsOK, NEW w \in Workers, Encode(w)
    PROVE  /\ Onward(w) /\ UNCHANGED <<clips, posts, camera, plat>>
           /\ Kind(w) = "render" /\ At(w, "encode") /\ Of(w) \in Sources
           /\ wk'[w].got = wk[w].got /\ wk'[w].todo \in {wk[w].todo, {}}
           /\ \/ \E fate \in Fates : fate # "done" /\ Returns(w, fate, {}) /\ UNCHANGED files
              \/ wk'[w].step = "promote" /\ files' = [files EXCEPT ![Of(w)] = camera[HostOf[w]]]
<1>1. Works(w) /\ Kind(w) = "render" /\ At(w, "encode")
  BY DEF Encode, HandsOK, HandOK, Works, At
<1>2. Of(w) \in Sources
  BY <1>1, InHand
<1>3. CASE \E fate \in Fates : fate # "done" /\ Return(w, fate, {}) /\ UNCHANGED files
  BY <1>1, <1>2, <1>3, ReturnDoes DEF Encode, Onward, Returns
<1>4. CASE Go(w, "promote") /\ files' = [files EXCEPT ![Of(w)] = camera[HostOf[w]]]
  BY <1>1, <1>2, <1>4, GoDoes DEF Encode, Onward, Steps
<1> QED  BY <1>3, <1>4, AgainDoes DEF Encode, Fates

\* A row, and rows, given a new state; the rest is as it was.
LEMMA RowIs ==
    ASSUME NEW r \in Rows, NEW state \in PostStates
    PROVE  /\ [r EXCEPT !.state = state] \in Rows /\ [r EXCEPT !.state = state].state = state
           /\ [r EXCEPT !.state = state].ready = r.ready /\ [r EXCEPT !.state = state].clip = r.clip
           /\ [r EXCEPT !.state = state].account = r.account
           /\ [r EXCEPT !.state = state].arrived = r.arrived
           /\ [r EXCEPT !.state = state].remote = r.remote
           /\ [r EXCEPT !.state = state].retried = r.retried
           /\ [r EXCEPT !.state = state].back = r.back
BY DEF Rows

LEMMA RowGoes ==
    ASSUME NEW r \in Rows, NEW new, new = [r EXCEPT !.state = "scheduled", !.ready = TRUE]
    PROVE  /\ new \in Rows /\ new.state = "scheduled" /\ new.ready
           /\ new.clip = r.clip /\ new.account = r.account /\ new.arrived = r.arrived
           /\ new.remote = r.remote /\ new.retried = r.retried /\ new.back = r.back
BY DEF Rows, PostStates

LEMMA PromoteDoes ==
    ASSUME TypeOK, HandsOK, NEW w \in Workers, Promote(w)
    PROVE  /\ Onward(w) /\ UNCHANGED <<clips, files, camera, plat>>
           /\ Kind(w) = "render" /\ At(w, "promote") /\ Of(w) \in Sources
           /\ wk'[w].todo = {}
           /\ Returns(w, "done", {"publish"} \X Waiting(Of(w)))
           /\ posts' \in [Posts -> Rows]
           /\ \A p \in Posts : p \notin Waiting(Of(w)) => posts'[p] = posts[p]
           /\ \A p \in Waiting(Of(w)) :
                /\ posts'[p].state = "scheduled" /\ posts'[p].ready
                /\ posts'[p].clip = posts[p].clip /\ posts'[p].account = posts[p].account
                /\ posts'[p].arrived = posts[p].arrived /\ posts'[p].remote = posts[p].remote
                /\ posts'[p].retried = posts[p].retried /\ posts'[p].back = posts[p].back
<1>1. Works(w) /\ Kind(w) = "render" /\ At(w, "promote")
  BY DEF Promote, HandsOK, HandOK, Works, At
<1>2. Of(w) \in Sources
  BY <1>1, InHand
<1>3. {"publish"} \X Waiting(Of(w)) \in SUBSET Jobs
  BY DEF Waiting, Jobs
<1>4. Return(w, "done", {"publish"} \X Waiting(Of(w))) /\ UNCHANGED <<jobs, budget, cut, missed>>
  BY DEF Promote
<1>7. Onward(w) /\ Returns(w, "done", {"publish"} \X Waiting(Of(w))) /\ wk'[w].todo = {}
  BY <1>1, <1>3, <1>4, ReturnDoes DEF Onward, Returns, Fates
<1>5. Waiting(Of(w)) \subseteq Posts
  BY DEF Waiting
<1>6. /\ posts \in [Posts -> Rows]
      /\ posts' = [p \in Posts |-> IF p \in Waiting(Of(w))
                     THEN [posts[p] EXCEPT !.state = "scheduled", !.ready = TRUE]
                     ELSE posts[p]]
  BY DEF Promote, TypeOK
<1> DEFINE waiting == Waiting(Of(w))
<1>8. UNCHANGED <<clips, files, camera, plat>>
  BY DEF Promote
<1> HIDE DEF waiting
<1>9. /\ posts' \in [Posts -> Rows]
      /\ \A p \in Posts : p \notin waiting => posts'[p] = posts[p]
      /\ \A p \in Posts : p \in waiting =>
            /\ posts'[p].state = "scheduled" /\ posts'[p].ready
            /\ posts'[p].clip = posts[p].clip /\ posts'[p].account = posts[p].account
            /\ posts'[p].arrived = posts[p].arrived /\ posts'[p].remote = posts[p].remote
            /\ posts'[p].retried = posts[p].retried /\ posts'[p].back = posts[p].back
  <2>1. ASSUME NEW p \in Posts, p \notin waiting
        PROVE  posts'[p] = posts[p]
    BY <1>6, <2>1 DEF waiting
  <2>2. ASSUME NEW p \in Posts, p \in waiting
        PROVE  posts[p] \in Rows /\ posts'[p] = [posts[p] EXCEPT !.state = "scheduled", !.ready = TRUE]
    BY <1>6, <2>2 DEF waiting
  <2>3. ASSUME NEW p \in Posts, p \in waiting
        PROVE  /\ posts'[p] \in Rows
               /\ posts'[p].state = "scheduled" /\ posts'[p].ready
               /\ posts'[p].clip = posts[p].clip /\ posts'[p].account = posts[p].account
               /\ posts'[p].arrived = posts[p].arrived /\ posts'[p].remote = posts[p].remote
               /\ posts'[p].retried = posts[p].retried /\ posts'[p].back = posts[p].back
    <3> DEFINE old == posts[p]
               new == posts'[p]
    <3>1. old \in Rows /\ new = [old EXCEPT !.state = "scheduled", !.ready = TRUE]
      BY <2>2, <2>3
    <3> HIDE DEF old, new
    <3>2. /\ new \in Rows /\ new.state = "scheduled" /\ new.ready
          /\ new.clip = old.clip /\ new.account = old.account /\ new.arrived = old.arrived
          /\ new.remote = old.remote /\ new.retried = old.retried /\ new.back = old.back
      BY <3>1, RowGoes
    <3> QED  BY <3>2 DEF old, new
  <2>4. posts' = [p \in Posts |-> posts'[p]]
    BY <1>6
  <2>5. posts' \in [Posts -> Rows]
    BY <1>6, <2>1, <2>3, <2>4
  <2> QED  BY <2>1, <2>3, <2>5
<1> QED  BY <1>1, <1>2, <1>5, <1>7, <1>8, <1>9 DEF waiting

LEMMA PassDoes ==
    ASSUME TypeOK, HandsOK, NEW w \in Workers, Pass(w)
    PROVE  /\ Onward(w) /\ UNCHANGED <<clips, files, camera, plat>>
           /\ Kind(w) = "publish" /\ At(w, "begin") /\ Of(w) \in Posts
           /\ wk'[w].got = wk[w].got
           /\ \/ /\ Returns(w, "done", {}) /\ UNCHANGED posts
                 /\ \A p \in Posts : ~Due(p)
              \/ /\ wk'[w].step = "deliver" /\ posts' \in [Posts -> Rows]
                 /\ \A p \in Posts : Due(p) => p \in wk'[w].todo
                 /\ \A p \in wk'[w].todo : Due(p) \/ (posts[p].state = "claimed" /\ ~Held(p))
                 /\ \A p \in Posts : p \notin wk'[w].todo => posts'[p] = posts[p]
                 /\ \A p \in wk'[w].todo :
                        /\ posts'[p].state = "claimed" /\ posts'[p].ready = posts[p].ready
                        /\ posts'[p].clip = posts[p].clip /\ posts'[p].account = posts[p].account
                        /\ posts'[p].arrived = posts[p].arrived /\ posts'[p].remote = posts[p].remote
                        /\ posts'[p].retried = posts[p].retried /\ posts'[p].back = posts[p].back
<1>1. Works(w) /\ Kind(w) = "publish" /\ At(w, "begin")
  BY DEF Pass, Begins, Works, At
<1>2. Of(w) \in Posts /\ {} \in SUBSET Jobs
  BY <1>1, InHand
<1>3. PICK lapsed \in SUBSET {p \in Posts : posts[p].state = "claimed" /\ ~Held(p)} :
        LET claimed == {p \in Posts : Due(p)} \union lapsed IN
        IF claimed = {} THEN Return(w, "done", {}) /\ UNCHANGED posts
        ELSE /\ posts' = [p \in Posts |-> IF p \in claimed
                                          THEN [posts[p] EXCEPT !.state = "claimed"]
                                          ELSE posts[p]]
             /\ wk' = [wk EXCEPT ![w].step = "deliver", ![w].todo = claimed]
  BY DEF Pass
<1> DEFINE claimed == {p \in Posts : Due(p)} \union lapsed
<1>4. CASE claimed = {}
  BY <1>1, <1>2, <1>3, <1>4, ReturnDoes DEF Pass, Onward, Returns, Fates
<1>5. CASE claimed # {}
  <2>1. wk[w] \in Handlers
    BY DEF TypeOK
  <2> DEFINE new == [wk[w] EXCEPT !.step = "deliver", !.todo = claimed]
  <2>2. new \in Handlers /\ new.step = "deliver" /\ new.todo = claimed
        /\ new.job = wk[w].job /\ new.got = wk[w].got
    BY <2>1 DEF Handlers, Steps
  <2>3. wk' = [wk EXCEPT ![w] = new]
    BY <1>3, <1>5, <2>1 DEF TypeOK
  <2>4. /\ \A p \in Posts : Due(p) => p \in claimed
        /\ \A p \in claimed : p \in Posts /\ (Due(p) \/ (posts[p].state = "claimed" /\ ~Held(p)))
        /\ posts' = [p \in Posts |-> IF p \in claimed
                                     THEN [posts[p] EXCEPT !.state = "claimed"] ELSE posts[p]]
    BY <1>3, <1>5
  <2> HIDE DEF new, claimed
  <2>5. wk' \in [Workers -> Handlers] /\ Others(w) /\ wk'[w] = new
    BY <2>2, <2>3 DEF TypeOK, Others
  <2>8. "claimed" \in PostStates
    BY DEF PostStates
  <2>6. posts' \in [Posts -> Rows]
    BY <2>4, <2>8, RowIs DEF TypeOK
  <2>7. /\ \A p \in Posts : p \notin claimed => posts'[p] = posts[p]
        /\ \A p \in claimed :
              /\ posts'[p].state = "claimed" /\ posts'[p].ready = posts[p].ready
              /\ posts'[p].clip = posts[p].clip /\ posts'[p].account = posts[p].account
              /\ posts'[p].arrived = posts[p].arrived /\ posts'[p].remote = posts[p].remote
              /\ posts'[p].retried = posts[p].retried /\ posts'[p].back = posts[p].back
    BY <2>4, <2>8, RowIs DEF TypeOK
  <2> QED  BY <1>1, <1>2, <2>2, <2>4, <2>5, <2>6, <2>7 DEF Pass, Onward
<1> QED  BY <1>4, <1>5

\* The row of a booking, and the draft it becomes.
LEMMA BookingIs ==
    ASSUME NEW c \in Sources, NEW a \in Accounts
    PROVE  /\ Booking(c, a) \in Rows /\ Booking(c, a).state = "scheduled"
           /\ Booking(c, a).clip = c /\ Booking(c, a).account = a
           /\ ~Booking(c, a).ready /\ ~Booking(c, a).arrived
           /\ ~Booking(c, a).retried /\ ~Booking(c, a).back
BY DEF Booking, Rows, PostStates

LEMMA BookRow ==
    ASSUME TypeOK, HandsOK, NEW w \in Workers, NEW a \in Accounts, NEW p \in Posts,
           Kind(w) = "select", Works(w), posts' = [posts EXCEPT ![p] = Booking(Of(w), a)]
    PROVE  /\ posts' \in [Posts -> Rows] /\ \A q \in Posts : q # p => posts'[q] = posts[q]
           /\ posts'[p].state = "scheduled" /\ posts'[p].clip = Of(w) /\ posts'[p].account = a
           /\ ~posts'[p].ready /\ ~posts'[p].arrived /\ ~posts'[p].retried /\ ~posts'[p].back
<1>1. Of(w) \in Sources
  BY InHand
<1> DEFINE new == Booking(Of(w), a)
<1>2. /\ new \in Rows /\ new.state = "scheduled" /\ new.clip = Of(w) /\ new.account = a
      /\ ~new.ready /\ ~new.arrived /\ ~new.retried /\ ~new.back
  BY <1>1, BookingIs
<1>3. posts' = [posts EXCEPT ![p] = new]
  OBVIOUS
<1> HIDE DEF new
<1> QED  BY <1>2, <1>3 DEF TypeOK

LEMMA DraftRow ==
    ASSUME TypeOK, HandsOK, BookingOK, NEW w \in Workers, StoreDraft(w)
    PROVE  /\ posts' \in [Posts -> Rows]
           /\ \E p \in Posts :
                /\ wk[w].got = {p} /\ posts[p].state = "scheduled" /\ posts[p].clip = Of(w)
                /\ ~posts[p].arrived
                /\ \A q \in Posts : q # p => posts'[q] = posts[q]
                /\ posts'[p].state = "draft" /\ posts'[p].clip = posts[p].clip
                /\ posts'[p].account = posts[p].account
                /\ ~posts'[p].ready /\ ~posts'[p].arrived /\ ~posts'[p].retried /\ ~posts'[p].back
<1>1. Selecting(w) /\ At(w, "draft")
  BY DEF StoreDraft, Selecting
<1>2. PICK p \in Posts : /\ wk[w].got = {p} /\ posts[p].state = "scheduled"
                         /\ posts[p].clip = Of(w) /\ ~posts[p].arrived
  BY <1>1 DEF BookingOK, BookingHand
<1>3. Kind(w) = "select" /\ Works(w)
  BY <1>1 DEF HandsOK, HandOK, Works, At
<1>4. posts[p].clip \in Sources /\ posts[p].account \in Accounts
  <2>1. Of(w) \in Sources
    BY <1>3, InHand
  <2>2. posts[p] \in Rows
    BY DEF TypeOK
  <2> QED  BY <1>2, <2>1, <2>2 DEF Rows
<1> DEFINE base == Booking(posts[p].clip, posts[p].account)
           new == [base EXCEPT !.state = "draft"]
<1>5. /\ base \in Rows /\ base.clip = posts[p].clip /\ base.account = posts[p].account
      /\ ~base.ready /\ ~base.arrived /\ ~base.retried /\ ~base.back
  BY <1>4, BookingIs
<1>6. posts' = [posts EXCEPT ![p] = new]
  BY <1>2 DEF StoreDraft, TypeOK
<1> HIDE DEF base
<1>8. "draft" \in PostStates
  BY DEF PostStates
<1>7. /\ new \in Rows /\ new.state = "draft" /\ new.clip = base.clip /\ new.account = base.account
      /\ ~new.ready /\ ~new.arrived /\ ~new.retried /\ ~new.back
  BY <1>5, <1>8, RowIs
<1> HIDE DEF new
<1>9. posts' \in [Posts -> Rows] /\ posts'[p] = new /\ \A q \in Posts : q # p => posts'[q] = posts[q]
  BY <1>6, <1>7 DEF TypeOK
<1> QED  BY <1>2, <1>5, <1>7, <1>9

LEMMA DeliverDoes ==
    ASSUME TypeOK, HandsOK, NEW w \in Workers, NEW p \in Posts, Deliver(w, p)
    PROVE  /\ Onward(w) /\ UNCHANGED <<clips, files, camera>>
           /\ Kind(w) = "publish" /\ At(w, "deliver") /\ Of(w) \in Posts /\ p \in wk[w].todo
           /\ wk[w].got \subseteq wk'[w].got
           /\ posts' \in [Posts -> Rows] /\ plat' \in [Posts -> [1..MaxUploads -> {"none", "processing", "live", "refused"}]]
           /\ \A q \in Posts : q # p => posts'[q] = posts[q] /\ plat'[q] = plat[q]
           /\ posts'[p].clip = posts[p].clip /\ posts'[p].account = posts[p].account
           /\ posts'[p].ready = posts[p].ready /\ posts'[p].arrived = posts[p].arrived
           /\ posts'[p].retried = posts[p].retried /\ posts'[p].back = posts[p].back
           /\ \/ posts'[p].state = "published" /\ posts'[p].remote # 0 /\ p \in wk'[w].got
              \/ posts'[p].state \in {"retrying", "failed", "needs_attention"}
           /\ \/ /\ wk'[w].step = "record" /\ wk'[w].todo = {} /\ wk'[w].fate = "done"
                 /\ wk'[w].next = Verifications(wk'[w].got)
              \/ wk'[w].step = "deliver" /\ wk'[w].todo = wk[w].todo \ {p}
<1>1. Works(w) /\ Kind(w) = "publish" /\ At(w, "deliver") /\ p \in wk[w].todo
  BY DEF Deliver, HandsOK, HandOK, Works, At
<1>2. Of(w) \in Posts /\ wk[w].job \in Jobs
  BY <1>1, InHand
<1>3. PICK delivered \in BOOLEAN :
        LET n == posts[p].remote + 1
            got == IF delivered THEN wk[w].got \union {p} ELSE wk[w].got IN
        /\ IF delivered
           THEN /\ files[posts[p].clip] # NoSource /\ n <= MaxUploads
                /\ posts' = [posts EXCEPT ![p].state = "published", ![p].remote = n]
                /\ plat' = [plat EXCEPT ![p][n] = "processing"]
           ELSE /\ \E state \in {"retrying", "failed", "needs_attention"} :
                    posts' = [posts EXCEPT ![p].state = state]
                /\ UNCHANGED plat
        /\ wk' = [wk EXCEPT ![w] =
             IF wk[w].todo = {p}
             THEN [Idle EXCEPT !.job = wk[w].job, !.step = "record", !.got = got,
                               !.next = Verifications(got)]
             ELSE [wk[w] EXCEPT !.todo = wk[w].todo \ {p}, !.got = got]]
  BY DEF Deliver
<1> DEFINE n == posts[p].remote + 1
           got == IF delivered THEN wk[w].got \union {p} ELSE wk[w].got
           last == [Idle EXCEPT !.job = wk[w].job, !.step = "record", !.got = got,
                                !.next = Verifications(got)]
           more == [wk[w] EXCEPT !.todo = wk[w].todo \ {p}, !.got = got]
<1>4. wk[w] \in Handlers /\ posts[p] \in Rows
  BY DEF TypeOK
<1>5. wk[w].got \in SUBSET Posts /\ wk[w].todo \in SUBSET Posts /\ posts[p].remote \in 0..MaxUploads
  BY <1>4 DEF Handlers, Rows
<1>6. got \in SUBSET Posts /\ wk[w].got \subseteq got /\ (delivered => p \in got)
  BY <1>5
<1>7. wk' = [wk EXCEPT ![w] = IF wk[w].todo = {p} THEN last ELSE more]
  BY <1>3
<1>8. IF delivered
      THEN /\ n <= MaxUploads
           /\ posts' = [posts EXCEPT ![p].state = "published", ![p].remote = n]
           /\ plat' = [plat EXCEPT ![p][n] = "processing"]
      ELSE /\ \E state \in {"retrying", "failed", "needs_attention"} :
                    posts' = [posts EXCEPT ![p].state = state]
           /\ UNCHANGED plat
  BY <1>3
<1>9. Verifications(got) \in SUBSET Jobs
  BY <1>6 DEF Verifications, Jobs
<1> HIDE DEF got
<1>10. /\ last \in Handlers /\ last.step = "record" /\ last.job = wk[w].job /\ last.got = got
       /\ last.todo = {} /\ last.fate = "done" /\ last.next = Verifications(got)
  BY <1>2, <1>6, <1>9, IdleIs DEF Handlers, Steps
<1>11. /\ more \in Handlers /\ more.step = "deliver" /\ more.job = wk[w].job /\ more.got = got
       /\ more.todo = wk[w].todo \ {p}
  BY <1>1, <1>4, <1>5, <1>6 DEF Handlers, At
<1> HIDE DEF last, more
<1>12. /\ wk' \in [Workers -> Handlers] /\ Others(w)
       /\ wk'[w] = IF wk[w].todo = {p} THEN last ELSE more
  BY <1>7, <1>10, <1>11 DEF TypeOK, Others
<1>15. UNCHANGED <<jobs, clips, files, camera, budget, cut, missed>>
  BY DEF Deliver
<1>13. CASE delivered
  <2> DEFINE new == [posts[p] EXCEPT !.state = "published", !.remote = n]
  <2>1. n \in 1..MaxUploads
    BY <1>5, <1>8, <1>13
  <2> HIDE DEF n
  <2>2. posts' = [posts EXCEPT ![p] = new] /\ plat' = [plat EXCEPT ![p][n] = "processing"]
    BY <1>4, <1>8, <1>13 DEF TypeOK
  <2>3. n \in 0..MaxUploads /\ n # 0
    BY <2>1
  <2>4. /\ new \in Rows /\ new.state = "published" /\ new.remote # 0
        /\ new.clip = posts[p].clip /\ new.account = posts[p].account
        /\ new.ready = posts[p].ready /\ new.arrived = posts[p].arrived
        /\ new.retried = posts[p].retried /\ new.back = posts[p].back
    BY <1>4, <2>3 DEF Rows, PostStates
  <2> HIDE DEF new
  <2>5. posts' \in [Posts -> Rows] /\ posts'[p] = new /\ \A q \in Posts : q # p => posts'[q] = posts[q]
    BY <2>2, <2>4 DEF TypeOK
  <2>6. /\ plat' \in [Posts -> [1..MaxUploads -> {"none", "processing", "live", "refused"}]]
        /\ \A q \in Posts : q # p => plat'[q] = plat[q]
    BY <2>1, <2>2 DEF TypeOK
  <2> QED  BY <1>1, <1>2, <1>6, <1>10, <1>11, <1>12, <1>13, <1>15, <2>4, <2>5, <2>6 DEF Onward
<1>14. CASE ~delivered
  <2>1. PICK state \in {"retrying", "failed", "needs_attention"} :
            posts' = [posts EXCEPT ![p].state = state]
    BY <1>8, <1>14
  <2> DEFINE new == [posts[p] EXCEPT !.state = state]
  <2>2. state \in PostStates
    BY DEF PostStates
  <2>3. /\ new \in Rows /\ new.state = state
        /\ new.clip = posts[p].clip /\ new.account = posts[p].account
        /\ new.ready = posts[p].ready /\ new.arrived = posts[p].arrived
        /\ new.retried = posts[p].retried /\ new.back = posts[p].back
    BY <1>4, <2>2, RowIs
  <2>4. posts' = [posts EXCEPT ![p] = new]
    BY <2>1
  <2> HIDE DEF new
  <2>5. posts' \in [Posts -> Rows] /\ posts'[p] = new /\ \A q \in Posts : q # p => posts'[q] = posts[q]
    BY <2>3, <2>4 DEF TypeOK
  <2>6. plat' = plat /\ plat \in [Posts -> [1..MaxUploads -> {"none", "processing", "live", "refused"}]]
    BY <1>8, <1>14 DEF TypeOK
  <2> QED  BY <1>1, <1>2, <1>6, <1>10, <1>11, <1>12, <1>15, <2>3, <2>5, <2>6 DEF Onward
<1> QED  BY <1>13, <1>14

LEMMA VerifyDoes ==
    ASSUME TypeOK, HandsOK, NEW w \in Workers, Verify(w)
    PROVE  /\ Onward(w) /\ UNCHANGED <<clips, posts, files, camera, plat>>
           /\ Kind(w) \in {"verify", "verify again"} /\ At(w, "begin") /\ Of(w) \in Posts
           /\ wk'[w].got = wk[w].got /\ wk'[w].todo \in {wk[w].todo, {}}
           /\ \/ /\ posts[Of(w)].state = "published" /\ wk'[w].step = "ask"
                 /\ wk'[w].remote = posts[Of(w)].remote
              \/ Returns(w, "done", {})
<1>1. /\ Works(w) /\ Kind(w) \in {"verify", "verify again"} /\ At(w, "begin")
      /\ UNCHANGED <<jobs, clips, posts, files, camera, plat, budget, cut, missed>>
  BY DEF Verify, Begins, Works, At
<1>2. Of(w) \in Posts /\ {} \in SUBSET Jobs
  BY <1>1, InHand
<1>3. wk[w] \in Handlers /\ posts[Of(w)] \in Rows
  BY <1>2 DEF TypeOK
<1>4. CASE posts[Of(w)].state = "published"
  <2> DEFINE new == [wk[w] EXCEPT !.step = "ask", !.remote = posts[Of(w)].remote]
  <2>1. posts[Of(w)].remote \in 0..MaxUploads
    BY <1>3 DEF Rows
  <2>2. /\ new \in Handlers /\ new.step = "ask" /\ new.remote = posts[Of(w)].remote
        /\ new.job = wk[w].job /\ new.got = wk[w].got /\ new.todo = wk[w].todo
    BY <1>3, <2>1 DEF Handlers, Steps
  <2>3. wk' = [wk EXCEPT ![w] = new]
    BY <1>3, <1>4 DEF Verify, TypeOK
  <2> HIDE DEF new
  <2> QED  BY <1>1, <1>2, <1>4, <2>2, <2>3 DEF TypeOK, Onward, Others
<1>5. CASE Return(w, "done", {})
  BY <1>1, <1>2, <1>5, ReturnDoes DEF Onward, Returns, Fates
<1> QED  BY <1>4, <1>5 DEF Verify

LEMMA AskDoes ==
    ASSUME TypeOK, HandsOK, NEW w \in Workers, Ask(w)
    PROVE  /\ Onward(w) /\ UNCHANGED <<clips, posts, files, camera, plat>>
           /\ Kind(w) \in {"verify", "verify again"} /\ At(w, "ask") /\ Of(w) \in Posts
           /\ wk'[w].got = wk[w].got /\ wk'[w].todo \in {wk[w].todo, {}}
           /\ \/ Returns(w, "done", IF Kind(w) = "verify" THEN {<<"verify again", Of(w)>>} ELSE {})
              \/ \E fate \in Fates : Returns(w, fate, {})
              \/ /\ plat[Of(w)][wk[w].remote] = "refused"
                 /\ wk'[w].step = "take back" /\ wk'[w].remote = wk[w].remote
<1>1. /\ Works(w) /\ Kind(w) \in {"verify", "verify again"} /\ At(w, "ask")
      /\ UNCHANGED <<jobs, clips, posts, files, camera, plat, budget, cut, missed>>
  BY DEF Ask, HandsOK, HandOK, Works, At
<1>2. Of(w) \in Posts /\ {} \in SUBSET Jobs /\ {<<"verify again", Of(w)>>} \in SUBSET Jobs
  BY <1>1, InHand, JobShapes
<1>3. CASE Return(w, "done", IF Kind(w) = "verify" THEN {<<"verify again", Of(w)>>} ELSE {})
  BY <1>1, <1>2, <1>3, ReturnDoes DEF Onward, Returns, Fates
<1>4. CASE \E fate \in Fates : Return(w, fate, {})
  BY <1>1, <1>2, <1>4, ReturnDoes DEF Onward, Returns
<1>5. CASE plat[Of(w)][wk[w].remote] = "refused" /\ Go(w, "take back")
  BY <1>1, <1>2, <1>5, GoDoes DEF Onward, Steps
<1> QED  BY <1>3, <1>4, <1>5, AgainDoes DEF Ask, Refuses

LEMMA TakeBackDoes ==
    ASSUME TypeOK, HandsOK, NEW w \in Workers, TakeBack(w)
    PROVE  /\ Onward(w) /\ UNCHANGED <<clips, files, camera, plat>>
           /\ Kind(w) \in {"verify", "verify again"} /\ At(w, "take back") /\ Of(w) \in Posts
           /\ wk'[w].got = wk[w].got /\ wk'[w].todo = {}
           /\ Returns(w, "done", {})
           /\ posts' \in [Posts -> Rows]
           /\ \A q \in Posts : q # Of(w) => posts'[q] = posts[q]
           /\ posts'[Of(w)].state = "needs_attention"
           /\ posts'[Of(w)].clip = posts[Of(w)].clip /\ posts'[Of(w)].account = posts[Of(w)].account
           /\ posts'[Of(w)].ready = posts[Of(w)].ready /\ posts'[Of(w)].arrived = posts[Of(w)].arrived
           /\ posts'[Of(w)].retried = posts[Of(w)].retried /\ posts'[Of(w)].remote = posts[Of(w)].remote
<1>1. /\ Works(w) /\ Kind(w) \in {"verify", "verify again"} /\ At(w, "take back")
      /\ Return(w, "done", {}) /\ UNCHANGED <<jobs, clips, files, camera, plat, budget, cut, missed>>
  BY DEF TakeBack, HandsOK, HandOK, Works, At
<1>2. Of(w) \in Posts /\ {} \in SUBSET Jobs
  BY <1>1, InHand
<1>3. Onward(w) /\ Returns(w, "done", {}) /\ wk'[w].todo = {} /\ wk'[w].got = wk[w].got
  BY <1>1, <1>2, ReturnDoes DEF Onward, Returns, Fates
<1> DEFINE p == Of(w)
           new == [posts[p] EXCEPT !.state = "needs_attention", !.back = TRUE]
<1>4. posts' = [posts EXCEPT ![p] = new]
  BY <1>2 DEF TakeBack, TypeOK
<1> HIDE DEF p
<1>5. posts[p] \in Rows
  BY <1>2 DEF TypeOK, p
<1>6. /\ new \in Rows /\ new.state = "needs_attention"
      /\ new.clip = posts[p].clip /\ new.account = posts[p].account
      /\ new.ready = posts[p].ready /\ new.arrived = posts[p].arrived
      /\ new.retried = posts[p].retried /\ new.remote = posts[p].remote
  BY <1>5 DEF Rows, PostStates
<1> HIDE DEF new
<1>7. posts' \in [Posts -> Rows] /\ posts'[p] = new /\ \A q \in Posts : q # p => posts'[q] = posts[q]
  BY <1>2, <1>4, <1>6 DEF TypeOK, p
<1> QED  BY <1>1, <1>2, <1>3, <1>6, <1>7 DEF p

LEMMA ArriveDoes ==
    ASSUME TypeOK, NEW p \in Posts, Arrive(p)
    PROVE  /\ UNCHANGED <<jobs, clips, files, camera, plat, wk, budget, cut, missed>>
           /\ posts[p].state # "absent"
           /\ \A w \in Workers : Selecting(w) => Of(w) # posts[p].clip
           /\ posts' \in [Posts -> Rows] /\ \A q \in Posts : q # p => posts'[q] = posts[q]
           /\ posts'[p].state = posts[p].state /\ posts'[p].arrived
           /\ posts'[p].clip = posts[p].clip /\ posts'[p].account = posts[p].account
           /\ posts'[p].ready = posts[p].ready /\ posts'[p].remote = posts[p].remote
           /\ posts'[p].retried = posts[p].retried /\ posts'[p].back = posts[p].back
<1> DEFINE new == [posts[p] EXCEPT !.arrived = TRUE]
<1>1. posts[p] \in Rows
  BY DEF TypeOK
<1>2. /\ new \in Rows /\ new.state = posts[p].state /\ new.arrived
      /\ new.clip = posts[p].clip /\ new.account = posts[p].account
      /\ new.ready = posts[p].ready /\ new.remote = posts[p].remote
      /\ new.retried = posts[p].retried /\ new.back = posts[p].back
  BY <1>1 DEF Rows
<1>3. posts' = [posts EXCEPT ![p] = new]
  BY DEF Arrive
<1> HIDE DEF new
<1>4. posts' \in [Posts -> Rows] /\ posts'[p] = new /\ \A q \in Posts : q # p => posts'[q] = posts[q]
  BY <1>2, <1>3 DEF TypeOK
<1> QED  BY <1>2, <1>4 DEF Arrive, Selecting

LEMMA RetryUploadDoes ==
    ASSUME TypeOK, NEW p \in Posts, RetryUpload(p)
    PROVE  /\ UNCHANGED <<jobs, clips, files, camera, plat, wk, cut, missed>>
           /\ budget' \in [cuts : 0..MaxCuts, retries : 0..MaxRetries]
           /\ posts[p].state \in {"failed", "needs_attention"}
           /\ posts' \in [Posts -> Rows] /\ \A q \in Posts : q # p => posts'[q] = posts[q]
           /\ posts'[p].state = "scheduled" /\ posts'[p].arrived /\ posts'[p].retried /\ ~posts'[p].back
           /\ posts'[p].clip = posts[p].clip /\ posts'[p].account = posts[p].account
           /\ posts'[p].ready = posts[p].ready /\ posts'[p].remote = posts[p].remote
<1> DEFINE new == [posts[p] EXCEPT !.state = "scheduled", !.arrived = TRUE, !.retried = TRUE, !.back = FALSE]
<1>1. posts[p] \in Rows
  BY DEF TypeOK
<1>2. /\ new \in Rows /\ new.state = "scheduled" /\ new.arrived /\ new.retried /\ ~new.back
      /\ new.clip = posts[p].clip /\ new.account = posts[p].account
      /\ new.ready = posts[p].ready /\ new.remote = posts[p].remote
  BY <1>1 DEF Rows, PostStates
<1>3. posts' = [posts EXCEPT ![p] = new]
  BY <1>1 DEF RetryUpload, TypeOK
<1> HIDE DEF new
<1>4. posts' \in [Posts -> Rows] /\ posts'[p] = new /\ \A q \in Posts : q # p => posts'[q] = posts[q]
  BY <1>2, <1>3 DEF TypeOK
<1>5. budget' \in [cuts : 0..MaxCuts, retries : 0..MaxRetries]
  BY DEF RetryUpload, TypeOK
<1> QED  BY <1>2, <1>4, <1>5 DEF RetryUpload

LEMMA JudgeDoes ==
    ASSUME TypeOK, NEW p \in Posts, NEW n \in 1..MaxUploads, Judge(p, n)
    PROVE  /\ UNCHANGED <<jobs, clips, posts, files, camera, wk, budget, cut, missed>>
           /\ plat' \in [Posts -> [1..MaxUploads -> {"none", "processing", "live", "refused"}]]
           /\ \A q \in Posts : \A m \in 1..MaxUploads :
                plat[q][m] = "refused" => plat'[q][m] = "refused"
<1>1. PICK v \in {"live", "refused"} :
        plat' = [plat EXCEPT ![p][n] = v] /\ (plat[p][n] = "refused" => v = "refused")
  BY DEF Judge
<1>2. plat \in [Posts -> [1..MaxUploads -> {"none", "processing", "live", "refused"}]]
  BY DEF TypeOK
<1>3. plat' \in [Posts -> [1..MaxUploads -> {"none", "processing", "live", "refused"}]]
  BY <1>1, <1>2
<1>4. \A q \in Posts : \A m \in 1..MaxUploads : plat[q][m] = "refused" => plat'[q][m] = "refused"
  BY <1>1, <1>2
<1> QED  BY <1>3, <1>4 DEF Judge

-----------------------------------------------------------------------------
(* Each part of the invariant is kept.                                     *)

LEMMA TypesStep ==
    ASSUME TypeOK, HandsOK, BookingOK, Next
    PROVE  TypeOK'
<1> DEFINE Texts == [Posts -> [1..MaxUploads -> {"none", "processing", "live", "refused"}]]
           Chosen == Sources \union {NoSource}
<1>1. /\ jobs \in [Jobs -> JobStates] /\ clips \in SUBSET Sources /\ posts \in [Posts -> Rows]
      /\ files \in [Sources -> Chosen] /\ camera \in [{HostOf[w] : w \in Workers} -> Chosen]
      /\ plat \in Texts /\ wk \in [Workers -> Handlers]
      /\ budget \in [cuts : 0..MaxCuts, retries : 0..MaxRetries]
      /\ cut \in SUBSET Sources /\ missed \in SUBSET Posts
  BY DEF TypeOK
<1>2. CASE \E w \in Workers, j \in Jobs : Take(w, j)
  BY <1>1, <1>2, TakeDoes DEF Take, TypeOK
<1>3. CASE \E w \in Workers : Record(w)
  BY <1>1, <1>3, RecordDoes DEF Record, TypeOK
<1>4. ASSUME NEW w \in Workers, Cut(w)
      PROVE  TypeOK'
  <2>1. budget' \in [cuts : 0..MaxCuts, retries : 0..MaxRetries]
    BY <1>1, <1>4 DEF Cut
  <2>2. cut' \in SUBSET Sources /\ missed' \in SUBSET Posts
    <3>1. Works(w) /\ wk[w] \in Handlers
      BY <1>1, <1>4 DEF Cut, Works
    <3>2. Kind(w) = "select" => Of(w) \in Sources
      BY <3>1, InHand
    <3>3. wk[w].got \in SUBSET Posts
      BY <3>1 DEF Handlers
    <3> QED  BY <1>1, <1>4, <3>2, <3>3 DEF Cut
  <2> QED  BY <1>1, <1>4, <2>1, <2>2, CutDoes DEF Cut, TypeOK
<1>5. CASE \E w \in Workers : Select(w)
  BY <1>1, <1>5, SelectDoes DEF Onward, TypeOK
<1>6. ASSUME NEW w \in Workers, StoreDraft(w)
      PROVE  TypeOK'
  BY <1>1, <1>6, StoreDraftDoes, DraftRow DEF Onward, TypeOK
<1>7. ASSUME NEW w \in Workers, SaveClip(w)
      PROVE  TypeOK'
  <2>1. clips' \in SUBSET Sources
    BY <1>1, <1>7, SaveClipDoes
  <2> QED  BY <1>1, <1>7, <2>1, SaveClipDoes DEF Onward, TypeOK
<1>8. ASSUME NEW w \in Workers, NEW a \in Accounts, Book(w, a)
      PROVE  TypeOK'
  <2>1. posts' \in [Posts -> Rows]
    BY <1>1, <1>8, BookDoes, BookRow DEF Onward
  <2> QED  BY <1>1, <1>8, <2>1, BookDoes DEF Onward, TypeOK
<1>9. ASSUME NEW w \in Workers, WriteCamera(w)
      PROVE  TypeOK'
  <2>1. camera' \in [{HostOf[v] : v \in Workers} -> Chosen]
    BY <1>1, <1>9, WriteCameraDoes
  <2> QED  BY <1>1, <1>9, <2>1, WriteCameraDoes DEF Onward, TypeOK
<1>10. ASSUME NEW w \in Workers, Encode(w)
       PROVE  TypeOK'
  <2>1. camera[HostOf[w]] \in Chosen
    BY <1>1
  <2>2. files' \in [Sources -> Chosen]
    BY <1>1, <1>10, <2>1, EncodeDoes
  <2> QED  BY <1>1, <1>10, <2>2, EncodeDoes DEF Onward, TypeOK
<1>11. ASSUME NEW w \in Workers, Promote(w)
       PROVE  TypeOK'
  BY <1>1, <1>11, PromoteDoes DEF Onward, TypeOK
<1>12. ASSUME NEW w \in Workers, Pass(w)
       PROVE  TypeOK'
  BY <1>1, <1>12, PassDoes DEF Onward, TypeOK
<1>13. ASSUME NEW w \in Workers, NEW p \in Posts, Deliver(w, p)
       PROVE  TypeOK'
  BY <1>1, <1>13, DeliverDoes DEF Onward, TypeOK
<1>14. ASSUME NEW w \in Workers, Verify(w)
       PROVE  TypeOK'
  BY <1>1, <1>14, VerifyDoes DEF Onward, TypeOK
<1>15. ASSUME NEW w \in Workers, Ask(w)
       PROVE  TypeOK'
  BY <1>1, <1>15, AskDoes DEF Onward, TypeOK
<1>16. ASSUME NEW w \in Workers, TakeBack(w)
       PROVE  TypeOK'
  BY <1>1, <1>16, TakeBackDoes DEF Onward, TypeOK
<1>17. ASSUME NEW p \in Posts, Arrive(p)
       PROVE  TypeOK'
  BY <1>1, <1>17, ArriveDoes DEF TypeOK
<1>18. ASSUME NEW p \in Posts, RetryUpload(p)
       PROVE  TypeOK'
  BY <1>1, <1>18, RetryUploadDoes DEF TypeOK
<1>19. ASSUME NEW p \in Posts, NEW n \in 1..MaxUploads, Judge(p, n)
       PROVE  TypeOK'
  BY <1>1, <1>19, JudgeDoes DEF TypeOK
<1> QED  BY <1>2, <1>3, <1>4, <1>5, <1>6, <1>7, <1>8, <1>9, <1>10, <1>11, <1>12, <1>13,
            <1>14, <1>15, <1>16, <1>17, <1>18, <1>19 DEF Next

\* While a handler goes on, the others' jobs are not its own.
LEMMA HandsOnward ==
    ASSUME TypeOK, HandsOK, NEW w \in Workers, Onward(w), HandOK(w)'
    PROVE  HandsOK'
<1>1. ASSUME NEW v \in Workers
      PROVE  /\ wk'[v].job = wk[v].job /\ (Works(v)' <=> Works(v))
             /\ HandOK(v)'
  <2>1. CASE v = w
    BY <2>1 DEF Onward, Works, At
  <2>2. CASE v # w
    <3>1. wk'[v] = wk[v]
      BY <2>2 DEF Onward, Others
    <3> QED  BY <3>1 DEF HandsOK, HandOK, Selecting, Works, At, Kind, Of
  <2> QED  BY <2>1, <2>2
<1> QED  BY <1>1 DEF HandsOK, Onward

\* A worker that leaves its job leaves the others theirs.
LEMMA HandsFreed ==
    ASSUME TypeOK, HandsOK, NEW w \in Workers, Works(w), Others(w), wk'[w] = Idle,
           \A k \in Jobs : k # wk[w].job /\ jobs[k] = "running" => jobs'[k] = "running"
    PROVE  HandsOK'
<1>1. ~Works(w)' /\ HandOK(w)'
  BY IdleIs DEF Works, At, HandOK, Selecting, Kind
<1>2. ASSUME NEW v \in Workers, v # w
      PROVE  /\ wk'[v] = wk[v] /\ (Works(v)' <=> Works(v)) /\ HandOK(v)'
  <2>1. wk'[v] = wk[v]
    BY <1>2 DEF Others
  <2> QED  BY <2>1 DEF HandsOK, HandOK, Selecting, Works, At, Kind, Of
<1>3. \A v \in Workers : Works(v)' => v # w
  BY <1>1
<1>4. ASSUME NEW v \in Workers, Works(v)'
      PROVE  wk'[v].job \in Jobs /\ jobs'[wk'[v].job] = "running"
  BY <1>2, <1>3, <1>4 DEF HandsOK
<1>5. ASSUME NEW u \in Workers, NEW v \in Workers, Works(u)', Works(v)', wk'[u].job = wk'[v].job
      PROVE  u = v
  BY <1>2, <1>3, <1>5 DEF HandsOK
<1>6. \A v \in Workers : HandOK(v)'
  BY <1>1, <1>2
<1> QED  BY <1>4, <1>5, <1>6 DEF HandsOK

LEMMA HandsStep ==
    ASSUME TypeOK, HandsOK, BookingOK, Next
    PROVE  HandsOK'
<1>1. ASSUME NEW w \in Workers, NEW j \in Jobs, Take(w, j)
      PROVE  HandsOK'
  <2>1. ~Works(w) /\ jobs[j] = "queued"
    BY <1>1 DEF Take, Works
  <2>2. Others(w) /\ HandOK(w)' /\ Works(w)' /\ wk'[w].job = j /\ jobs'[j] = "running"
        /\ \A k \in Jobs : k # j => jobs'[k] = jobs[k]
    BY <1>1, TakeDoes DEF HandOK, Selecting, At, Kind, Works
  <2>3. ASSUME NEW v \in Workers, v # w
        PROVE  /\ wk'[v] = wk[v] /\ (Works(v)' <=> Works(v)) /\ HandOK(v)'
               /\ Works(v) => /\ wk[v].job \in Jobs /\ wk[v].job # j
                              /\ jobs'[wk[v].job] = "running"
    <3>1. wk'[v] = wk[v]
      BY <2>2, <2>3 DEF Others
    <3>2. HandOK(v)' /\ (Works(v)' <=> Works(v))
      BY <3>1 DEF HandsOK, HandOK, Selecting, Works, At, Kind, Of
    <3> QED  BY <2>1, <2>2, <3>1, <3>2 DEF HandsOK
  <2> QED  BY <2>2, <2>3 DEF HandsOK
<1>2. ASSUME NEW w \in Workers, Record(w) \/ Cut(w)
      PROVE  HandsOK'
  <2>1. Works(w)
    BY <1>2 DEF Record, Cut, Works, At
  <2> QED  BY <1>2, <2>1, RecordDoes, CutDoes, HandsFreed
<1>3. ASSUME NEW w \in Workers, Select(w)
      PROVE  HandsOK'
  <2>1. Onward(w) /\ HandOK(w)'
    BY <1>3, SelectDoes DEF Returns, Onward, HandsOK, HandOK, Selecting, At, Kind
  <2> QED  BY <2>1, HandsOnward
<1>4. ASSUME NEW w \in Workers, NEW a \in Accounts, Book(w, a)
      PROVE  HandsOK'
  <2>1. Onward(w) /\ HandOK(w)'
    BY <1>4, BookDoes DEF Onward, HandsOK, HandOK, Selecting, At, Kind
  <2> QED  BY <2>1, HandsOnward
<1>5. ASSUME NEW w \in Workers, StoreDraft(w)
      PROVE  HandsOK'
  <2>1. Onward(w) /\ HandOK(w)'
    BY <1>5, StoreDraftDoes DEF Onward, HandsOK, HandOK, Selecting, At, Kind
  <2> QED  BY <2>1, HandsOnward
<1>6. ASSUME NEW w \in Workers, SaveClip(w)
      PROVE  HandsOK'
  <2>1. Onward(w) /\ HandOK(w)'
    BY <1>6, SaveClipDoes DEF Returns, Onward, HandsOK, HandOK, Selecting, At, Kind
  <2> QED  BY <2>1, HandsOnward
<1>7. ASSUME NEW w \in Workers, WriteCamera(w)
      PROVE  HandsOK'
  <2>1. Onward(w) /\ HandOK(w)'
    BY <1>7, WriteCameraDoes DEF Returns, Onward, HandsOK, HandOK, Selecting, At, Kind
  <2> QED  BY <2>1, HandsOnward
<1>8. ASSUME NEW w \in Workers, Encode(w)
      PROVE  HandsOK'
  <2>1. Onward(w) /\ HandOK(w)'
    BY <1>8, EncodeDoes DEF Returns, Onward, HandsOK, HandOK, Selecting, At, Kind
  <2> QED  BY <2>1, HandsOnward
<1>9. ASSUME NEW w \in Workers, Promote(w)
      PROVE  HandsOK'
  <2>1. Onward(w) /\ HandOK(w)'
    BY <1>9, PromoteDoes DEF Returns, Onward, HandsOK, HandOK, Selecting, At, Kind
  <2> QED  BY <2>1, HandsOnward
<1>10. ASSUME NEW w \in Workers, Pass(w)
       PROVE  HandsOK'
  <2>1. Onward(w) /\ HandOK(w)'
    BY <1>10, PassDoes DEF Returns, Onward, HandsOK, HandOK, Selecting, At, Kind
  <2> QED  BY <2>1, HandsOnward
<1>11. ASSUME NEW w \in Workers, NEW p \in Posts, Deliver(w, p)
       PROVE  HandsOK'
  <2>1. /\ Onward(w) /\ Kind(w) = "publish" /\ wk'[w].job = wk[w].job
        /\ \/ wk'[w].step = "record" /\ wk'[w].todo = {}
           \/ wk'[w].step = "deliver"
    BY <1>11, DeliverDoes DEF Onward
  <2>2. HandOK(w)'
    BY <2>1 DEF HandOK, Selecting, At, Kind
  <2> QED  BY <2>1, <2>2, HandsOnward
<1>12. ASSUME NEW w \in Workers, Verify(w)
       PROVE  HandsOK'
  <2>1. Onward(w) /\ HandOK(w)'
    BY <1>12, VerifyDoes DEF Returns, Onward, HandsOK, HandOK, Selecting, At, Kind
  <2> QED  BY <2>1, HandsOnward
<1>13. ASSUME NEW w \in Workers, Ask(w)
       PROVE  HandsOK'
  <2>1. Onward(w) /\ HandOK(w)'
    BY <1>13, AskDoes DEF Returns, Onward, HandsOK, HandOK, Selecting, At, Kind
  <2> QED  BY <2>1, HandsOnward
<1>14. ASSUME NEW w \in Workers, TakeBack(w)
       PROVE  HandsOK'
  <2>1. Onward(w) /\ HandOK(w)'
    BY <1>14, TakeBackDoes DEF Returns, Onward, HandsOK, HandOK, Selecting, At, Kind
  <2> QED  BY <2>1, HandsOnward
<1>15. ASSUME UNCHANGED <<jobs, wk>>
       PROVE  HandsOK'
  BY <1>15 DEF HandsOK, HandOK, Selecting, Works, At, Kind
<1>16. CASE \E p \in Posts : Arrive(p) \/ RetryUpload(p) \/ (\E n \in 1..MaxUploads : Judge(p, n))
  BY <1>15, <1>16 DEF Arrive, RetryUpload, Judge
<1> QED  BY <1>1, <1>2, <1>3, <1>4, <1>5, <1>6, <1>7, <1>8, <1>9, <1>10, <1>11, <1>12, <1>13,
            <1>14, <1>16 DEF Next

-----------------------------------------------------------------------------
(* Booking.                                                                *)

\* A post keeps its clip and its account.
RowsKept ==
    \A p \in Posts : posts'[p].state # "absent" =>
        /\ posts[p].state # "absent"
        /\ posts'[p].clip = posts[p].clip /\ posts'[p].account = posts[p].account

LEMMA RowsKeptStep ==
    ASSUME ClipInv, Next, \A w \in Workers, a \in Accounts : ~Book(w, a)
    PROVE  RowsKept
<1>1. ASSUME posts' = posts
      PROVE  RowsKept
  BY <1>1 DEF RowsKept
<1>2. CASE \E w \in Workers : \/ \E j \in Jobs : Take(w, j)
                              \/ Record(w) \/ Cut(w) \/ Select(w) \/ SaveClip(w)
                              \/ WriteCamera(w) \/ Encode(w) \/ Verify(w) \/ Ask(w)
  BY <1>1, <1>2 DEF Take, Record, Cut, Select, SaveClip, WriteCamera, Encode, Verify, Ask
<1>3. ASSUME NEW w \in Workers, StoreDraft(w)
      PROVE  RowsKept
  BY <1>3, DraftRow DEF RowsKept, ClipInv
<1>4. ASSUME NEW w \in Workers, Promote(w)
      PROVE  RowsKept
  BY <1>4, PromoteDoes DEF RowsKept, ClipInv, Waiting
<1>5. ASSUME NEW w \in Workers, Pass(w)
      PROVE  RowsKept
  BY <1>5, PassDoes DEF RowsKept, ClipInv, Due
<1>6. ASSUME NEW w \in Workers, NEW p \in Posts, Deliver(w, p)
      PROVE  RowsKept
  BY <1>6, DeliverDoes DEF RowsKept, ClipInv, PassesOK, PassHand
<1>7. ASSUME NEW w \in Workers, TakeBack(w)
      PROVE  RowsKept
  BY <1>7, TakeBackDoes DEF RowsKept, ClipInv, VerifyOK, VerifyHand
<1>8. ASSUME NEW p \in Posts, Arrive(p)
      PROVE  RowsKept
  BY <1>8, ArriveDoes DEF RowsKept, ClipInv
<1>9. ASSUME NEW p \in Posts, RetryUpload(p)
      PROVE  RowsKept
  BY <1>9, RetryUploadDoes DEF RowsKept, ClipInv
<1>10. ASSUME NEW p \in Posts, NEW n \in 1..MaxUploads, Judge(p, n)
       PROVE  RowsKept
  BY <1>1, <1>10 DEF Judge
<1> QED  BY <1>2, <1>3, <1>4, <1>5, <1>6, <1>7, <1>8, <1>9, <1>10 DEF Next

\* What is saved, cut off or missed stays so.
LEMMA Grows ==
    ASSUME Next
    PROVE  clips \subseteq clips' /\ cut \subseteq cut' /\ missed \subseteq missed'
BY DEF Next, Take, Record, Cut, Select, StoreDraft, SaveClip, Book, WriteCamera, Encode, Promote,
       Pass, Deliver, Verify, Ask, TakeBack, Arrive, RetryUpload, Judge

\* A selection at work is disturbed by no other handler.
LEMMA BookingOthers ==
    ASSUME TypeOK, HandsOK, BookingOK, NEW w \in Workers, Others(w), BookingHand(w)',
           \/ clips' = clips
           \/ clips' = clips \union {Of(w)} /\ Kind(w) = "select" /\ Works(w),
           \A p \in Posts :
               posts[p].state = "scheduled" /\ ~posts[p].arrived /\ posts[p].clip \notin clips =>
                   posts'[p] = posts[p] \/ (Kind(w) = "select" /\ Works(w) /\ posts[p].clip = Of(w))
    PROVE  BookingOK'
<1>1. ASSUME NEW v \in Workers, v # w, Selecting(v)
      PROVE  BookingHand(v)'
  <2>1. wk'[v] = wk[v] /\ Kind(v) = "select" /\ Works(v) /\ BookingHand(v)
    BY <1>1 DEF Others, HandsOK, HandOK, BookingOK, Selecting, Works, At
  <2>2. Of(v) \notin clips /\ ~(Kind(w) = "select" /\ Works(w) /\ Of(v) = Of(w))
    BY <1>1, <2>1, Alone DEF BookingHand
  <2> QED  BY <1>1, <2>1, <2>2 DEF BookingHand, Selecting, At, Of
<1>2. ASSUME NEW v \in Workers, v # w, ~Selecting(v)
      PROVE  BookingHand(v)'
  BY <1>2 DEF Others, BookingHand, Selecting, At
<1> QED  BY <1>1, <1>2 DEF BookingOK

LEMMA BookingStep ==
    ASSUME ClipInv, Next
    PROVE  BookingOK'
<1>0. TypeOK /\ HandsOK /\ BookingOK
  BY DEF ClipInv
<1>1. ASSUME NEW w \in Workers, UNCHANGED <<clips, posts>>, Others(w), ~Selecting(w)'
      PROVE  BookingOK'
  BY <1>0, <1>1, BookingOthers DEF BookingHand
<1>2. ASSUME NEW w \in Workers, NEW j \in Jobs, Take(w, j)
      PROVE  BookingOK'
  <2>1. UNCHANGED <<clips, posts>>
    BY <1>2 DEF Take
  <2>2. Others(w) /\ ~Selecting(w)'
    BY <1>0, <1>2, TakeDoes DEF Selecting, At
  <2> QED  BY <1>1, <2>1, <2>2
<1>3. ASSUME NEW w \in Workers, Record(w) \/ Cut(w)
      PROVE  BookingOK'
  <2>1. UNCHANGED <<clips, posts>> /\ Others(w) /\ ~Selecting(w)'
    BY <1>0, <1>3, RecordDoes, CutDoes, IdleIs DEF Record, Cut, Selecting, At
  <2> QED  BY <1>1, <2>1
<1>4. ASSUME NEW w \in Workers, Select(w)
      PROVE  BookingOK'
  <2>1. UNCHANGED <<clips, posts>> /\ Others(w) /\ wk'[w].job = wk[w].job
    BY <1>0, <1>4, SelectDoes DEF Onward
  <2>2. BookingHand(w)'
    BY <1>0, <1>4, <2>1, SelectDoes DEF BookingHand, Selecting, At, Of, Returns
  <2> QED  BY <1>0, <2>1, <2>2, BookingOthers
<1>5. ASSUME NEW w \in Workers, NEW a \in Accounts, Book(w, a)
      PROVE  BookingOK'
  <2>1. /\ clips' = clips /\ Others(w) /\ wk'[w].job = wk[w].job
        /\ Kind(w) = "select" /\ Works(w) /\ Of(w) \notin clips
    BY <1>0, <1>5, BookDoes DEF Onward, BookingOK, BookingHand, Selecting
  <2>2. CASE UNCHANGED posts /\ wk'[w].step = "book"
    <3>1. BookingHand(w)'
      BY <2>1, <2>2 DEF BookingHand, Selecting, At, Of
    <3> QED  BY <1>0, <2>1, <2>2, <3>1, BookingOthers
  <2>3. ASSUME NEW p \in Posts, posts[p].state = "absent",
               posts' = [posts EXCEPT ![p] = Booking(Of(w), a)],
               wk'[w].step = "draft", wk'[w].got = {p}
        PROVE  BookingOK'
    <3>1. /\ \A q \in Posts : q # p => posts'[q] = posts[q]
          /\ posts'[p].state = "scheduled" /\ posts'[p].clip = Of(w) /\ ~posts'[p].arrived
      BY <1>0, <2>1, <2>3, BookRow
    <3>2. BookingHand(w)'
      BY <2>1, <2>3, <3>1 DEF BookingHand, Selecting, At, Of
    <3>3. \A q \in Posts : posts[q].state = "scheduled" => posts'[q] = posts[q]
      BY <2>3, <3>1
    <3> QED  BY <1>0, <2>1, <3>2, <3>3, BookingOthers
  <2> QED  BY <1>0, <1>5, <2>2, <2>3, BookDoes
<1>6. ASSUME NEW w \in Workers, StoreDraft(w)
      PROVE  BookingOK'
  <2>1. /\ clips' = clips /\ Others(w) /\ wk'[w].job = wk[w].job /\ wk'[w].step = "book"
        /\ Kind(w) = "select" /\ Works(w) /\ Of(w) \notin clips
    BY <1>0, <1>6, StoreDraftDoes DEF Onward, BookingOK, BookingHand, Selecting
  <2>2. BookingHand(w)'
    BY <2>1 DEF BookingHand, Selecting, At, Of
  <2>3. \A q \in Posts : posts'[q] = posts[q] \/ posts[q].clip = Of(w)
    BY <1>0, <1>6, DraftRow
  <2> QED  BY <1>0, <2>1, <2>2, <2>3, BookingOthers
<1>7. ASSUME NEW w \in Workers, SaveClip(w)
      PROVE  BookingOK'
  <2>1. /\ clips' = clips \union {Of(w)} /\ UNCHANGED posts /\ Others(w) /\ ~Selecting(w)'
        /\ Kind(w) = "select" /\ Works(w)
    BY <1>0, <1>7, SaveClipDoes DEF Onward, Returns, Selecting, At
  <2> QED  BY <1>0, <2>1, BookingOthers DEF BookingHand
<1>8. ASSUME NEW w \in Workers, WriteCamera(w) \/ Encode(w) \/ Verify(w) \/ Ask(w)
      PROVE  BookingOK'
  <2>1. UNCHANGED <<clips, posts>> /\ Others(w) /\ ~Selecting(w)'
    BY <1>0, <1>8, WriteCameraDoes, EncodeDoes, VerifyDoes, AskDoes DEF Onward, Returns, Selecting, At
  <2> QED  BY <1>1, <2>1
<1>9. ASSUME NEW w \in Workers, Promote(w)
      PROVE  BookingOK'
  <2>1. clips' = clips /\ Others(w) /\ ~Selecting(w)' /\ Kind(w) = "render" /\ Works(w) /\ Of(w) \in Sources
    BY <1>0, <1>9, PromoteDoes DEF Onward, Returns, Selecting, At
  <2>2. Of(w) \in clips
    BY <1>0, <2>1, InHand DEF ClipInv, RenderChained
  <2>3. \A q \in Posts : posts'[q] = posts[q] \/ posts[q].clip = Of(w)
    BY <1>0, <1>9, PromoteDoes DEF Waiting
  <2> QED  BY <1>0, <2>1, <2>2, <2>3, BookingOthers DEF BookingHand
<1>10. ASSUME NEW w \in Workers, Pass(w)
       PROVE  BookingOK'
  <2>1. clips' = clips /\ Others(w) /\ ~Selecting(w)'
    BY <1>0, <1>10, PassDoes DEF Onward, Returns, Selecting, At
  <2>2. \A q \in Posts : posts[q].state = "scheduled" /\ ~posts[q].arrived => posts'[q] = posts[q]
    BY <1>0, <1>10, PassDoes DEF Due
  <2> QED  BY <1>0, <2>1, <2>2, BookingOthers DEF BookingHand
<1>11. ASSUME NEW w \in Workers, NEW p \in Posts, Deliver(w, p)
       PROVE  BookingOK'
  <2>1. clips' = clips /\ Others(w) /\ ~Selecting(w)'
    BY <1>0, <1>11, DeliverDoes DEF Onward, Selecting, At
  <2>2. \A q \in Posts : posts[q].state = "scheduled" => posts'[q] = posts[q]
    BY <1>0, <1>11, DeliverDoes DEF ClipInv, PassesOK, PassHand
  <2> QED  BY <1>0, <2>1, <2>2, BookingOthers DEF BookingHand
<1>12. ASSUME NEW w \in Workers, TakeBack(w)
       PROVE  BookingOK'
  <2>1. clips' = clips /\ Others(w) /\ ~Selecting(w)'
    BY <1>0, <1>12, TakeBackDoes DEF Onward, Returns, Selecting, At
  <2>2. \A q \in Posts : posts[q].state = "scheduled" => posts'[q] = posts[q]
    BY <1>0, <1>12, TakeBackDoes DEF ClipInv, VerifyOK, VerifyHand
  <2> QED  BY <1>0, <2>1, <2>2, BookingOthers DEF BookingHand
<1>13. ASSUME UNCHANGED <<clips, wk>>,
              \A p \in Posts : posts'[p] = posts[p] \/ posts[p].state # "scheduled"
                                 \/ (\A w \in Workers : Selecting(w) => Of(w) # posts[p].clip)
       PROVE  BookingOK'
  BY <1>0, <1>13 DEF BookingOK, BookingHand, Selecting, At, Of
<1>14. ASSUME NEW p \in Posts, Arrive(p)
       PROVE  BookingOK'
  <2>1. UNCHANGED <<clips, wk>> /\ \A q \in Posts : posts'[q] = posts[q]
             \/ (\A w \in Workers : Selecting(w) => Of(w) # posts[q].clip)
    BY <1>0, <1>14, ArriveDoes
  <2> QED  BY <1>13, <2>1
<1>15. ASSUME NEW p \in Posts, RetryUpload(p)
       PROVE  BookingOK'
  BY <1>0, <1>13, <1>15, RetryUploadDoes
<1>16. ASSUME NEW p \in Posts, NEW n \in 1..MaxUploads, Judge(p, n)
       PROVE  BookingOK'
  BY <1>0, <1>13, <1>16, JudgeDoes
<1> QED  BY <1>2, <1>3, <1>4, <1>5, <1>6, <1>7, <1>8, <1>9, <1>10, <1>11, <1>12,
            <1>14, <1>15, <1>16 DEF Next

\* A selection stays at work, with no more accounts to book.
StillSelecting(w) ==
    Selecting(w)' /\ Of(w)' = Of(w) /\ wk'[w].accounts \subseteq wk[w].accounts

\* A clip whose selection ends is saved, or cut off with the posts it booked.
LEMMA SelectionEnds ==
    ASSUME ClipInv, Next, NEW w \in Workers, Selecting(w)
    PROVE  \/ StillSelecting(w)
           \/ Of(w) \in clips'
           \/ Booked(w) # {} => Of(w) \in cut'
<1>0. TypeOK /\ HandsOK
  BY DEF ClipInv
<1>1. Kind(w) = "select" /\ Of(w) \notin clips /\ ~At(w, "idle") /\ ~At(w, "record") /\ ~At(w, "begin")
  BY <1>0 DEF ClipInv, HandsOK, HandOK, BookingOK, BookingHand, Selecting, At
<1>2. ASSUME wk'[w] = wk[w]
      PROVE  StillSelecting(w)
  BY <1>2 DEF StillSelecting, Selecting, At, Of
<1>3. ASSUME NEW v \in Workers, v # w, Others(v)
      PROVE  StillSelecting(w)
  BY <1>2, <1>3 DEF Others
<1>4. ASSUME NEW v \in Workers, NEW j \in Jobs, Take(v, j)
      PROVE  StillSelecting(w)
  <2>1. v # w /\ Others(v)
    BY <1>0, <1>1, <1>4, TakeDoes DEF Take
  <2> QED  BY <1>3, <2>1
<1>5. ASSUME NEW v \in Workers, Record(v)
      PROVE  StillSelecting(w)
  <2>1. v # w /\ Others(v)
    BY <1>0, <1>1, <1>5, RecordDoes DEF Record
  <2> QED  BY <1>3, <2>1
<1>6. ASSUME NEW v \in Workers, Cut(v)
      PROVE  StillSelecting(w) \/ (Booked(w) # {} => Of(w) \in cut')
  <2>1. CASE v = w
    BY <1>1, <1>6, <2>1 DEF Cut
  <2>2. CASE v # w
    BY <1>0, <1>3, <1>6, <2>2, CutDoes
  <2> QED  BY <2>1, <2>2
<1>7. ASSUME NEW v \in Workers, NEW a \in Accounts, Book(v, a)
      PROVE  StillSelecting(w)
  <2>1. CASE v = w
    BY <1>0, <1>7, <2>1, BookDoes DEF Onward, StillSelecting, Selecting, At, Of
  <2>2. CASE v # w
    BY <1>0, <1>3, <1>7, <2>2, BookDoes DEF Onward
  <2> QED  BY <2>1, <2>2
<1>8. ASSUME NEW v \in Workers, StoreDraft(v)
      PROVE  StillSelecting(w)
  <2>1. CASE v = w
    BY <1>0, <1>8, <2>1, StoreDraftDoes DEF Onward, StillSelecting, Selecting, At, Of
  <2>2. CASE v # w
    BY <1>0, <1>3, <1>8, <2>2, StoreDraftDoes DEF Onward
  <2> QED  BY <2>1, <2>2
<1>9. ASSUME NEW v \in Workers, SaveClip(v)
      PROVE  StillSelecting(w) \/ Of(w) \in clips'
  <2>1. CASE v = w
    BY <1>0, <1>9, <2>1, SaveClipDoes
  <2>2. CASE v # w
    BY <1>0, <1>3, <1>9, <2>2, SaveClipDoes DEF Onward
  <2> QED  BY <2>1, <2>2
<1>10. ASSUME NEW v \in Workers, Select(v) \/ WriteCamera(v) \/ Encode(v) \/ Promote(v) \/ Pass(v)
       PROVE  StillSelecting(w)
  <2>1. Others(v) /\ (At(v, "begin") \/ Kind(v) # "select")
    BY <1>0, <1>10, SelectDoes, WriteCameraDoes, EncodeDoes, PromoteDoes, PassDoes DEF Onward
  <2> QED  BY <1>1, <1>3, <2>1
<1>11. ASSUME NEW v \in Workers, Verify(v) \/ Ask(v) \/ TakeBack(v)
       PROVE  StillSelecting(w)
  <2>1. Others(v) /\ Kind(v) # "select"
    BY <1>0, <1>11, VerifyDoes, AskDoes, TakeBackDoes DEF Onward
  <2> QED  BY <1>1, <1>3, <2>1
<1>12. ASSUME NEW v \in Workers, NEW p \in Posts, Deliver(v, p)
       PROVE  StillSelecting(w)
  <2>1. Others(v) /\ Kind(v) # "select"
    BY <1>0, <1>12, DeliverDoes DEF Onward
  <2> QED  BY <1>1, <1>3, <2>1
<1>13. CASE \E p \in Posts : Arrive(p) \/ RetryUpload(p) \/ (\E n \in 1..MaxUploads : Judge(p, n))
  BY <1>2, <1>13 DEF Arrive, RetryUpload, Judge
<1> QED  BY <1>4, <1>5, <1>6, <1>7, <1>8, <1>9, <1>10, <1>11, <1>12, <1>13 DEF Next

LEMMA BookedStep ==
    ASSUME ClipInv, Next
    PROVE  BookedBySelection'
<1>0. TypeOK /\ HandsOK /\ BookedBySelection
  BY DEF ClipInv
<1>1. ASSUME NEW p \in Posts, posts[p].state # "absent",
             posts'[p].clip = posts[p].clip, posts'[p].account = posts[p].account
      PROVE  /\ posts'[p].clip \in Sources
             /\ \/ posts'[p].clip \in clips' \union cut'
                \/ \E w \in Workers : /\ Selecting(w)' /\ Of(w)' = posts'[p].clip
                                      /\ posts'[p].account \notin wk'[w].accounts
  <2>1. CASE posts[p].clip \in clips \union cut
    BY <1>0, <1>1, <2>1, Grows DEF BookedBySelection
  <2>2. ASSUME NEW w \in Workers, Selecting(w), Of(w) = posts[p].clip,
               posts[p].account \notin wk[w].accounts
        PROVE  \/ posts'[p].clip \in clips' \union cut'
               \/ \E v \in Workers : /\ Selecting(v)' /\ Of(v)' = posts'[p].clip
                                     /\ posts'[p].account \notin wk'[v].accounts
    <3>1. p \in Booked(w)
      BY <1>1, <2>2 DEF Booked
    <3> QED  BY <1>1, <2>2, <3>1, SelectionEnds DEF StillSelecting
  <2> QED  BY <1>0, <1>1, <2>1, <2>2 DEF BookedBySelection
<1>2. CASE \A w \in Workers, a \in Accounts : ~Book(w, a)
  BY <1>1, <1>2, RowsKeptStep DEF RowsKept, BookedBySelection
<1>3. ASSUME NEW w \in Workers, NEW a \in Accounts, Book(w, a)
      PROVE  BookedBySelection'
  <2>1. /\ Onward(w) /\ Kind(w) = "select" /\ Works(w) /\ wk'[w].job = wk[w].job /\ Of(w) \in Sources
        /\ wk'[w].accounts = wk[w].accounts \ {a}
    BY <1>0, <1>3, BookDoes DEF Onward
  <2>2. CASE UNCHANGED posts
    BY <1>1, <2>2 DEF BookedBySelection
  <2>3. ASSUME NEW p \in Posts, posts[p].state = "absent", wk'[w].step = "draft",
               posts' = [posts EXCEPT ![p] = Booking(Of(w), a)]
        PROVE  BookedBySelection'
    <3>1. /\ \A q \in Posts : q # p => posts'[q] = posts[q]
          /\ posts'[p].clip = Of(w) /\ posts'[p].account = a
      BY <1>0, <2>1, <2>3, BookRow
    <3>2. Selecting(w)' /\ Of(w)' = posts'[p].clip /\ posts'[p].account \notin wk'[w].accounts
      BY <2>1, <2>3, <3>1 DEF Selecting, At, Of
    <3> QED  BY <1>1, <2>1, <3>1, <3>2 DEF BookedBySelection
  <2> QED  BY <1>0, <1>3, <2>2, <2>3, BookDoes
<1> QED  BY <1>2, <1>3

LEMMA OnceStep ==
    ASSUME ClipInv, Next
    PROVE  OncePerAccount'
<1>0. TypeOK /\ HandsOK /\ OncePerAccount /\ BookedBySelection
  BY DEF ClipInv
<1>1. CASE \A w \in Workers, a \in Accounts : ~Book(w, a)
  BY <1>0, <1>1, RowsKeptStep, Grows DEF RowsKept, OncePerAccount
<1>2. ASSUME NEW w \in Workers, NEW a \in Accounts, Book(w, a)
      PROVE  OncePerAccount'
  <2>1. /\ Onward(w) /\ Kind(w) = "select" /\ Works(w) /\ a \in wk[w].accounts
        /\ Of(w) \notin clips /\ cut' = cut
    BY <1>0, <1>2, BookDoes DEF Onward, ClipInv, BookingOK, BookingHand, Selecting
  <2>2. CASE UNCHANGED posts
    BY <1>0, <2>1, <2>2 DEF OncePerAccount
  <2>3. ASSUME NEW p \in Posts, posts[p].state = "absent",
               posts' = [posts EXCEPT ![p] = Booking(Of(w), a)]
        PROVE  OncePerAccount'
    <3>1. /\ \A q \in Posts : q # p => posts'[q] = posts[q]
          /\ posts'[p].clip = Of(w) /\ posts'[p].account = a
      BY <1>0, <2>1, <2>3, BookRow
    <3>2. ASSUME NEW q \in Posts, posts[q].state # "absent", posts[q].clip = Of(w),
                 posts[q].account = a
          PROVE  Of(w) \in cut
      <4>1. \A v \in Workers : Selecting(v) /\ Of(v) = Of(w) => v = w
        BY <1>0, <2>1, Alone DEF HandsOK, HandOK, Selecting, Works, At
      <4> QED  BY <1>0, <2>1, <3>2, <4>1 DEF BookedBySelection
    <3> QED  BY <1>0, <2>1, <3>1, <3>2 DEF OncePerAccount
  <2> QED  BY <1>0, <1>2, <2>2, <2>3, BookDoes
<1> QED  BY <1>1, <1>2

-----------------------------------------------------------------------------
(* Chains of jobs.                                                         *)

\* What a handler that returned names, by its kind.
LEMMA NextNames ==
    ASSUME ClipInv, NEW w \in Workers, At(w, "record"), NEW k \in wk[w].next
    PROVE  \/ Kind(w) = "select" /\ k = <<"render", Of(w)>> /\ Of(w) \in clips
           \/ /\ Kind(w) = "render" /\ wk[w].fate = "done"
              /\ \E p \in Posts : k = <<"publish", p>> /\ posts[p].clip = Of(w) /\ posts[p].state # "absent"
           \/ Kind(w) = "publish" /\ \E p \in wk[w].got : k = <<"verify", p>>
           \/ Kind(w) = "verify" /\ k = <<"verify again", Of(w)>> /\ wk[w].fate = "done"
<1>1. TypeOK /\ HandsOK /\ Works(w)
  BY DEF ClipInv, Works, At
<1>2. RenderHand(w) /\ PublishHand(w) /\ PassHand(w) /\ VerifyHand(w)
  BY DEF ClipInv, RenderChained, PublishChained, PassesOK, VerifyOK
<1>3. CASE Kind(w) = "select"
  BY <1>2, <1>3 DEF RenderHand
<1>4. CASE Kind(w) = "render"
  <2>1. k \in {"publish"} \X {p \in Posts : posts[p].clip = Of(w) /\ posts[p].state # "absent"}
    BY <1>2, <1>4 DEF PublishHand
  <2>2. k = <<k[1], k[2]>> /\ k[1] \in {"publish"}
        /\ k[2] \in {p \in Posts : posts[p].clip = Of(w) /\ posts[p].state # "absent"}
    BY <2>1, PairIs
  <2>3. k = <<"publish", k[2]>> /\ k[2] \in Posts /\ posts[k[2]].clip = Of(w) /\ posts[k[2]].state # "absent"
    BY <2>2
  <2>4. wk[w].fate = "done"
    BY <1>2, <1>4 DEF PublishHand
  <2> QED  BY <1>4, <2>3, <2>4
<1>5. CASE Kind(w) = "publish"
  <2>1. k \in {"verify"} \X wk[w].got
    BY <1>2, <1>5 DEF PassHand, Verifications
  <2>2. k = <<k[1], k[2]>> /\ k[1] \in {"verify"} /\ k[2] \in wk[w].got
    BY <2>1, PairIs
  <2> QED  BY <1>5, <2>2
<1>6. CASE Kind(w) \in {"verify", "verify again"}
  BY <1>2, <1>6 DEF VerifyHand
<1> QED  BY <1>1, <1>3, <1>4, <1>5, <1>6, InHand

\* What recording does to the rows of the four kinds that are chained.
LEMMA RecordRows ==
    ASSUME ClipInv, NEW w \in Workers, Record(w)
    PROVE  /\ jobs'[<<Kind(w), Of(w)>>] = wk[w].fate /\ wk[w].fate \in Fates
           /\ \A k \in Jobs : k # <<Kind(w), Of(w)>> =>
                \/ jobs'[k] = jobs[k] /\ (k \in wk[w].next => jobs[k] # "none")
                \/ jobs[k] = "none" /\ jobs'[k] = "queued" /\ k \in wk[w].next
           /\ \A k \in wk[w].next : k # <<Kind(w), Of(w)>> => jobs'[k] # "none"
<1>1. TypeOK /\ HandsOK /\ At(w, "record") /\ Works(w)
  BY DEF ClipInv, Record, Works, At
<1>2. wk[w].job \in Jobs /\ wk[w].job = <<Kind(w), Of(w)>>
  BY <1>1, InHand
<1>3. wk[w].fate \in Fates /\ wk[w].next \subseteq Jobs
  BY <1>1 DEF TypeOK, Handlers, Fates
<1>4. \A k \in Jobs :
        jobs'[k] = IF k = wk[w].job THEN wk[w].fate
                   ELSE IF k \in wk[w].next /\ jobs[k] = "none" THEN "queued"
                   ELSE jobs[k]
  BY <1>1, RecordDoes
<1> QED  BY <1>2, <1>3, <1>4

LEMMA RenderOthers ==
    ASSUME TypeOK, HandsOK, RenderChained, NEW w \in Workers, Others(w), UNCHANGED jobs,
           RenderHand(w)',
           \/ clips' = clips
           \/ clips' = clips \union {Of(w)} /\ Kind(w) = "select" /\ Works(w)
    PROVE  RenderChained'
<1>1. ASSUME NEW c \in Sources
      PROVE  /\ jobs'[<<"render", c>>] # "none" => c \in clips'
             /\ c \in clips' /\ jobs'[<<"render", c>>] = "none" =>
                    jobs'[<<"select", c>>] \in {"queued", "running", "dead"}
  BY InHand DEF RenderChained
<1>2. ASSUME NEW v \in Workers, v # w
      PROVE  RenderHand(v)'
  <2>1. wk'[v] = wk[v] /\ RenderHand(v)
    BY <1>2 DEF Others, RenderChained
  <2>2. CASE At(v, "record") /\ Kind(v) = "select"
    <3>1. Of(v) \in clips' => Of(v) \in clips
      BY <1>2, <2>2, Alone DEF Works, At
    <3>2. Of(v) \in clips => Of(v) \in clips'
      OBVIOUS
    <3> QED  BY <2>1, <2>2, <3>1, <3>2 DEF RenderHand, At, Kind, Of
  <2>3. CASE ~(At(v, "record") /\ Kind(v) = "select")
    BY <2>1, <2>3 DEF RenderHand, At, Kind
  <2> QED  BY <2>2, <2>3
<1> QED  BY <1>1, <1>2 DEF RenderChained

LEMMA RenderStep ==
    ASSUME ClipInv, Next
    PROVE  RenderChained'
<1>0. TypeOK /\ HandsOK /\ RenderChained
  BY DEF ClipInv
<1>1. ASSUME NEW w \in Workers, UNCHANGED <<jobs, clips>>, Others(w),
             wk'[w].step # "record" \/ (wk'[w].job = wk[w].job /\ Kind(w) # "select")
      PROVE  RenderChained'
  BY <1>0, <1>1, RenderOthers DEF RenderHand, At, Kind
<1>2. ASSUME NEW w \in Workers, NEW j \in Jobs, Take(w, j)
      PROVE  RenderChained'
  <2>1. clips' = clips /\ jobs[j] = "queued"
    BY <1>2 DEF Take
  <2>2. /\ Others(w) /\ wk'[w].step = "begin" /\ jobs'[j] = "running"
        /\ \A k \in Jobs : k # j => jobs'[k] = jobs[k]
    BY <1>0, <1>2, TakeDoes
  <2>3. ASSUME NEW c \in Sources
        PROVE  /\ jobs'[<<"render", c>>] # "none" => c \in clips'
               /\ c \in clips' /\ jobs'[<<"render", c>>] = "none" =>
                    jobs'[<<"select", c>>] \in {"queued", "running", "dead"}
    <3>1. <<"render", c>> \in Jobs /\ <<"select", c>> \in Jobs
      BY JobShapes
    <3> QED  BY <1>0, <2>1, <2>2, <3>1 DEF RenderChained
  <2>4. ASSUME NEW v \in Workers
        PROVE  RenderHand(v)'
    BY <1>0, <2>1, <2>2 DEF RenderChained, RenderHand, Others, At, Kind, Of
  <2> QED  BY <2>3, <2>4 DEF RenderChained
<1>3. ASSUME NEW w \in Workers, Record(w)
      PROVE  RenderChained'
  <2>1. clips' = clips /\ At(w, "record") /\ Works(w)
    BY <1>3 DEF Record, Works, At
  <2>2. Others(w) /\ wk'[w].step = "idle"
    BY <1>0, <1>3, RecordDoes, IdleIs
  <2>3. ASSUME NEW c \in Sources, jobs'[<<"render", c>>] # "none"
        PROVE  c \in clips'
    <3>1. <<"render", c>> \in Jobs
      BY JobShapes
    <3>2. CASE <<"render", c>> = <<Kind(w), Of(w)>>
      BY <1>0, <2>1, <3>2, InHand DEF RenderChained
    <3>3. CASE <<"render", c>> # <<Kind(w), Of(w)>> /\ <<"render", c>> \in wk[w].next
      BY <2>1, <3>3, NextNames
    <3> QED  BY <1>0, <1>3, <2>1, <2>3, <3>1, <3>2, <3>3, RecordRows DEF RenderChained
  <2>4. ASSUME NEW c \in Sources, c \in clips', jobs'[<<"render", c>>] = "none"
        PROVE  jobs'[<<"select", c>>] \in {"queued", "running", "dead"}
    <3>1. <<"render", c>> \in Jobs /\ <<"select", c>> \in Jobs
      BY JobShapes
    <3>2. jobs[<<"render", c>>] = "none" /\ <<"render", c>> \notin wk[w].next
      <4>1. <<"render", c>> # <<Kind(w), Of(w)>>
        BY <1>3, <2>4, RecordRows DEF Fates
      <4> QED  BY <1>3, <2>4, <3>1, <4>1, RecordRows
    <3>3. CASE <<"select", c>> = <<Kind(w), Of(w)>>
      <4>1. Kind(w) = "select" /\ Of(w) = c
        BY <3>3
      <4>2. wk[w].fate # "done"
        BY <1>0, <2>1, <2>4, <3>2, <4>1 DEF RenderChained, RenderHand
      <4> QED  BY <1>3, <3>3, <4>2, RecordRows DEF Fates
    <3>4. CASE <<"select", c>> # <<Kind(w), Of(w)>>
      BY <1>0, <1>3, <2>1, <2>4, <3>1, <3>2, <3>4, RecordRows DEF RenderChained
    <3> QED  BY <3>3, <3>4
  <2>5. ASSUME NEW v \in Workers
        PROVE  RenderHand(v)'
    BY <1>0, <2>1, <2>2 DEF RenderChained, RenderHand, Others, At, Kind, Of
  <2> QED  BY <2>3, <2>4, <2>5 DEF RenderChained
<1>4. ASSUME NEW w \in Workers, Cut(w)
      PROVE  RenderChained'
  <2>1. clips' = clips /\ Works(w)
    BY <1>4 DEF Cut, Works
  <2>2. /\ Others(w) /\ wk'[w].step = "idle" /\ jobs'[wk[w].job] \in {"queued", "dead"}
        /\ \A k \in Jobs : k # wk[w].job => jobs'[k] = jobs[k]
    BY <1>0, <1>4, CutDoes, IdleIs
  <2>3. jobs[wk[w].job] = "running"
    BY <1>0, <2>1, InHand
  <2>4. ASSUME NEW c \in Sources
        PROVE  /\ jobs'[<<"render", c>>] # "none" => c \in clips'
               /\ c \in clips' /\ jobs'[<<"render", c>>] = "none" =>
                    jobs'[<<"select", c>>] \in {"queued", "running", "dead"}
    <3>1. <<"render", c>> \in Jobs /\ <<"select", c>> \in Jobs
      BY JobShapes
    <3> QED  BY <1>0, <2>1, <2>2, <2>3, <3>1 DEF RenderChained
  <2>5. ASSUME NEW v \in Workers
        PROVE  RenderHand(v)'
    BY <1>0, <2>1, <2>2 DEF RenderChained, RenderHand, Others, At, Kind, Of
  <2> QED  BY <2>4, <2>5 DEF RenderChained
<1>5. ASSUME NEW w \in Workers, Select(w)
      PROVE  RenderChained'
  <2>1. Onward(w) /\ clips' = clips /\ Others(w) /\ UNCHANGED jobs /\ wk'[w].job = wk[w].job
    BY <1>0, <1>5, SelectDoes DEF Onward
  <2>2. RenderHand(w)'
    BY <1>0, <1>5, <2>1, SelectDoes DEF RenderHand, Returns, At, Kind, Of
  <2> QED  BY <1>0, <2>1, <2>2, RenderOthers
<1>6. ASSUME NEW w \in Workers, SaveClip(w)
      PROVE  RenderChained'
  <2>1. /\ Others(w) /\ UNCHANGED jobs /\ wk'[w].job = wk[w].job /\ Works(w)
        /\ clips' = clips \union {Of(w)} /\ Kind(w) = "select" /\ Returns(w, "done", {<<"render", Of(w)>>})
    BY <1>0, <1>6, SaveClipDoes DEF Onward
  <2>2. RenderHand(w)'
    BY <2>1 DEF RenderHand, Returns, At, Kind, Of
  <2> QED  BY <1>0, <2>1, <2>2, RenderOthers
<1>7. ASSUME NEW w \in Workers, NEW a \in Accounts, Book(w, a)
      PROVE  RenderChained'
  BY <1>0, <1>1, <1>7, BookDoes DEF Onward
<1>8. ASSUME NEW w \in Workers, StoreDraft(w) \/ WriteCamera(w) \/ Encode(w) \/ Promote(w) \/ Pass(w)
      PROVE  RenderChained'
  BY <1>0, <1>1, <1>8, StoreDraftDoes, WriteCameraDoes, EncodeDoes, PromoteDoes, PassDoes DEF Onward
<1>9. ASSUME NEW w \in Workers, Verify(w) \/ Ask(w) \/ TakeBack(w)
      PROVE  RenderChained'
  BY <1>0, <1>1, <1>9, VerifyDoes, AskDoes, TakeBackDoes DEF Onward
<1>10. ASSUME NEW w \in Workers, NEW p \in Posts, Deliver(w, p)
       PROVE  RenderChained'
  BY <1>0, <1>1, <1>10, DeliverDoes DEF Onward
<1>11. CASE \E p \in Posts : Arrive(p) \/ RetryUpload(p) \/ (\E n \in 1..MaxUploads : Judge(p, n))
  BY <1>0, <1>11 DEF Arrive, RetryUpload, Judge, RenderChained, RenderHand, At, Kind, Of
<1> QED  BY <1>2, <1>3, <1>4, <1>5, <1>6, <1>7, <1>8, <1>9, <1>10, <1>11 DEF Next

\* What a step that leaves the jobs alone may do to the rows: a post of a saved
\* clip becomes neither a draft nor fresh, but by the render of that clip.
RowsChained ==
    \A p \in Posts :
        /\ posts[p].state # "absent" =>
            /\ posts'[p].state # "absent" /\ posts'[p].clip = posts[p].clip
            /\ posts[p].clip \in clips /\ posts[p].arrived => posts'[p].arrived
        /\ posts'[p].ready =>
            \/ posts[p].ready
            \/ posts'[p].state # "absent" /\ jobs[<<"render", posts'[p].clip>>] # "none"
        /\ posts'[p].clip \in clips =>
            \/ /\ posts'[p].state = "draft" => posts[p].state = "draft"
               /\ Fresh(p)' => Fresh(p)
            \/ \E w \in Workers : Works(w) /\ Kind(w) = "render" /\ Of(w) = posts'[p].clip /\ PublishHand(w)'

\* A post whose publish job has a row, or whose render is done, has its clip saved.
LEMMA RenderedIsSaved ==
    ASSUME ClipInv
    PROVE  /\ \A p \in Posts : jobs[<<"publish", p>>] # "none" =>
                /\ posts[p].state # "absent" /\ posts[p].clip \in clips /\ posts[p].clip \in Sources
                /\ jobs[<<"render", posts[p].clip>>] = "done"
           /\ \A w \in Workers : Works(w) /\ Kind(w) = "render" => Of(w) \in clips /\ Of(w) \in Sources
<1>1. ASSUME NEW p \in Posts, jobs[<<"publish", p>>] # "none"
      PROVE  /\ posts[p].state # "absent" /\ posts[p].clip \in clips /\ posts[p].clip \in Sources
             /\ jobs[<<"render", posts[p].clip>>] = "done"
  <2>1. PublishRow(p)
    BY DEF ClipInv, PublishChained
  <2>2. posts[p].state # "absent" /\ jobs[<<"render", posts[p].clip>>] = "done"
    BY <1>1, <2>1 DEF PublishRow
  <2>3. posts[p].clip \in Sources
    BY <2>2 DEF ClipInv, BookedBySelection
  <2> QED  BY <2>2, <2>3 DEF ClipInv, RenderChained
<1>2. ASSUME NEW w \in Workers, Works(w), Kind(w) = "render"
      PROVE  Of(w) \in clips /\ Of(w) \in Sources
  <2>1. Of(w) \in Sources /\ jobs[<<"render", Of(w)>>] = "running"
    BY <1>2, InHand DEF ClipInv
  <2> QED  BY <2>1 DEF ClipInv, RenderChained
<1> QED  BY <1>1, <1>2

LEMMA PublishOthers ==
    ASSUME ClipInv, UNCHANGED jobs, RowsChained,
           \A v \in Workers : wk'[v] = wk[v] \/ PublishHand(v)'
    PROVE  PublishChained'
<1>0. TypeOK /\ HandsOK /\ PublishChained /\ RenderChained
  BY DEF ClipInv
<1>1. ASSUME NEW p \in Posts
      PROVE  PublishRow(p)'
  <2>0. PublishRow(p)
    BY <1>0 DEF PublishChained
  <2>1. posts'[p].ready => posts'[p].state # "absent" /\ jobs'[<<"render", posts'[p].clip>>] # "none"
    BY <2>0 DEF PublishRow, RowsChained
  <2>2. ASSUME jobs[<<"publish", p>>] # "none"
        PROVE  /\ posts'[p].state # "absent" /\ jobs[<<"render", posts'[p].clip>>] = "done"
               /\ posts[p].arrived => posts'[p].arrived
               /\ Fresh(p)' => Fresh(p)
    <3>1. /\ posts[p].state # "absent" /\ posts[p].clip \in clips /\ posts[p].clip \in Sources
          /\ jobs[<<"render", posts[p].clip>>] = "done"
      BY <2>2, RenderedIsSaved
    <3>2. \A w \in Workers : ~(Works(w) /\ Kind(w) = "render" /\ Of(w) = posts[p].clip)
      BY <1>0, <3>1, InHand
    <3> QED  BY <3>1, <3>2 DEF RowsChained
  <2> QED  BY <2>0, <2>1, <2>2 DEF PublishRow
<1>2. ASSUME NEW c \in Sources, jobs'[<<"render", c>>] = "done"
      PROVE  LetGo(c, {p \in Posts : jobs[<<"publish", p>>] # "none"})'
  <2>1. c \in clips /\ \A w \in Workers : ~(Works(w) /\ Kind(w) = "render" /\ Of(w) = c)
    BY <1>0, <1>2, InHand DEF RenderChained
  <2>2. LetGo(c, {p \in Posts : jobs[<<"publish", p>>] # "none"})
    BY <1>0, <1>2 DEF PublishChained
  <2>3. ASSUME NEW p \in Posts, posts'[p].clip = c
        PROVE  /\ posts'[p].state # "draft"
               /\ Fresh(p)' => jobs[<<"publish", p>>] # "none"
    <3>1. /\ posts'[p].state = "draft" => posts[p].state = "draft"
          /\ Fresh(p)' => Fresh(p)
      BY <2>1, <2>3 DEF RowsChained
    <3>2. CASE posts[p].state = "absent"
      BY <3>1, <3>2 DEF Fresh
    <3>3. CASE posts[p].clip = c
      BY <2>2, <3>1, <3>3 DEF LetGo
    <3> QED  BY <2>3, <3>2, <3>3 DEF RowsChained
  <2> QED  BY <2>3 DEF LetGo
<1>3. ASSUME NEW v \in Workers
      PROVE  PublishHand(v)'
  <2>1. CASE wk'[v] = wk[v] /\ At(v, "record") /\ Kind(v) = "render" /\ ~PublishHand(v)'
    <3>1. Of(v) \in clips /\ Works(v) /\ PublishHand(v)
      BY <1>0, <2>1, RenderedIsSaved DEF PublishChained, Works, At
    <3>2. \A w \in Workers : Works(w) /\ Kind(w) = "render" /\ Of(w) = Of(v) => w = v
      BY <1>0, <2>1, <3>1, Alone
    <3>3. ASSUME NEW p \in Posts, posts'[p].clip = Of(v)
          PROVE  /\ posts'[p].state = "draft" => posts[p].state = "draft"
                 /\ Fresh(p)' => Fresh(p)
      BY <2>1, <3>1, <3>2, <3>3 DEF RowsChained
    <3>4. wk[v].next \subseteq {"publish"} \X {p \in Posts : posts'[p].clip = Of(v) /\ posts'[p].state # "absent"}
      <4>1. wk[v].next \subseteq {"publish"} \X {p \in Posts : posts[p].clip = Of(v) /\ posts[p].state # "absent"}
        BY <2>1, <3>1 DEF PublishHand
      <4>2. {p \in Posts : posts[p].clip = Of(v) /\ posts[p].state # "absent"} \subseteq
            {p \in Posts : posts'[p].clip = Of(v) /\ posts'[p].state # "absent"}
        BY DEF RowsChained
      <4> QED  BY <4>1, <4>2
    <3>5. wk[v].next # {} => wk[v].fate = "done"
      BY <2>1, <3>1 DEF PublishHand
    <3>6. ASSUME wk[v].fate = "done"
          PROVE  LetGo(Of(v), {p \in Posts : <<"publish", p>> \in wk[v].next})'
      <4>1. LetGo(Of(v), {p \in Posts : <<"publish", p>> \in wk[v].next})
        BY <2>1, <3>1, <3>6 DEF PublishHand
      <4>2. ASSUME NEW p \in Posts, posts'[p].clip = Of(v)
            PROVE  /\ posts'[p].state # "draft"
                   /\ Fresh(p)' => <<"publish", p>> \in wk[v].next
        <5>1. CASE posts[p].state = "absent"
          BY <3>3, <4>2, <5>1 DEF Fresh
        <5>2. CASE posts[p].clip = Of(v)
          BY <3>3, <4>1, <4>2, <5>2 DEF LetGo
        <5> QED  BY <4>2, <5>1, <5>2 DEF RowsChained
      <4>3. wk'[v].next = wk[v].next /\ Of(v)' = Of(v)
        BY <2>1 DEF Of
      <4> QED  BY <4>2, <4>3 DEF LetGo
    <3> QED  BY <2>1, <3>4, <3>5, <3>6 DEF PublishHand, At, Kind, Of
  <2>2. CASE wk'[v] = wk[v] /\ (At(v, "deliver") \/ At(v, "record")) /\ Kind(v) = "publish"
    <3>1. Works(v) /\ ~Fresh(Of(v))
      BY <1>0, <2>2 DEF PublishChained, PublishHand, Works, At
    <3>2. Of(v) \in Posts /\ jobs[<<"publish", Of(v)>>] = "running"
      BY <1>0, <2>2, <3>1, InHand
    <3>3. /\ posts[Of(v)].state # "absent" /\ posts[Of(v)].clip \in clips
          /\ jobs[<<"render", posts[Of(v)].clip>>] = "done"
      BY <3>2, RenderedIsSaved
    <3>4. \A w \in Workers : ~(Works(w) /\ Kind(w) = "render" /\ Of(w) = posts[Of(v)].clip)
      BY <1>0, <3>3, InHand
    <3>5. Fresh(Of(v))' => Fresh(Of(v))
      <4>1. \A p \in Posts : p = Of(v) => (Fresh(p)' => Fresh(p))
        BY <3>3, <3>4 DEF RowsChained
      <4> QED  BY <2>2, <3>2, <4>1 DEF Fresh, Of
    <3> QED  BY <2>2, <3>1, <3>5 DEF PublishHand, At, Kind
  <2>3. CASE /\ wk'[v] = wk[v] /\ ~(At(v, "record") /\ Kind(v) = "render")
             /\ ~((At(v, "deliver") \/ At(v, "record")) /\ Kind(v) = "publish")
    BY <2>3 DEF PublishHand, At, Kind
  <2> QED  BY <2>1, <2>2, <2>3
<1> QED  BY <1>1, <1>2, <1>3 DEF PublishChained

LEMMA PublishTake ==
    ASSUME ClipInv, NEW w \in Workers, NEW j \in Jobs, Take(w, j)
    PROVE  PublishChained'
<1>0. TypeOK /\ HandsOK /\ PublishChained
  BY DEF ClipInv
<1>1. posts' = posts /\ jobs[j] = "queued" /\ (j[1] = "publish" => posts[j[2]].arrived)
  BY DEF Take
<1>2. /\ Others(w) /\ wk'[w].step = "begin" /\ jobs'[j] = "running"
      /\ \A k \in Jobs : k # j => jobs'[k] = jobs[k]
  BY <1>0, TakeDoes
<1>3. \A k \in Jobs : /\ (jobs'[k] = "done" <=> jobs[k] = "done")
                      /\ (jobs'[k] # "none" <=> jobs[k] # "none")
  BY <1>1, <1>2
<1>4. ASSUME NEW p \in Posts
      PROVE  PublishRow(p)'
  <2>1. PublishRow(p) /\ <<"publish", p>> \in Jobs
    BY <1>0, JobShapes DEF PublishChained
  <2>2. posts[p].state # "absent" => <<"render", posts[p].clip>> \in Jobs
    BY JobShapes DEF ClipInv, BookedBySelection
  <2>3. jobs'[<<"publish", p>>] = "running" => posts[p].arrived
    BY <1>1, <1>2, <2>1 DEF PublishRow
  <2>4. posts[p].state # "absent" =>
            /\ (jobs'[<<"render", posts[p].clip>>] = "done" <=> jobs[<<"render", posts[p].clip>>] = "done")
            /\ (jobs'[<<"render", posts[p].clip>>] # "none" <=> jobs[<<"render", posts[p].clip>>] # "none")
    BY <1>3, <2>2
  <2> QED  BY <1>1, <1>3, <2>1, <2>3, <2>4 DEF PublishRow, Fresh
<1>5. ASSUME NEW c \in Sources, jobs'[<<"render", c>>] = "done"
      PROVE  LetGo(c, {p \in Posts : jobs[<<"publish", p>>] # "none"})'
  <2>1. LetGo(c, {p \in Posts : jobs[<<"publish", p>>] # "none"})
    BY <1>0, <1>3, <1>5, JobShapes DEF PublishChained
  <2> QED  BY <1>1, <1>3, <2>1, JobShapes DEF LetGo, Fresh
<1>6. ASSUME NEW v \in Workers
      PROVE  PublishHand(v)'
  <2>1. CASE v = w
    BY <1>2, <2>1 DEF PublishHand, At
  <2>2. CASE v # w
    BY <1>0, <1>1, <1>2, <2>2 DEF PublishChained, PublishHand, LetGo, Fresh, Others, At, Kind, Of
  <2> QED  BY <2>1, <2>2
<1> QED  BY <1>4, <1>5, <1>6 DEF PublishChained

LEMMA PublishRecord ==
    ASSUME ClipInv, NEW w \in Workers, Record(w)
    PROVE  PublishChained'
<1>0. TypeOK /\ HandsOK /\ PublishChained
  BY DEF ClipInv
<1>1. posts' = posts /\ At(w, "record") /\ Works(w)
  BY DEF Record, Works, At
<1>2. Others(w) /\ wk'[w].step = "idle"
  BY <1>0, RecordDoes, IdleIs
<1>3. jobs[<<Kind(w), Of(w)>>] = "running"
  BY <1>0, <1>1, InHand
<1>4. \A k \in Jobs : /\ jobs[k] # "none" => jobs'[k] # "none"
                      /\ jobs[k] = "done" => jobs'[k] = "done"
                      /\ jobs'[k] = "running" => jobs[k] = "running"
                      /\ jobs'[k] = "done" => \/ jobs[k] = "done"
                                              \/ k = <<Kind(w), Of(w)>> /\ wk[w].fate = "done"
                      /\ jobs'[k] # "none" => jobs[k] # "none" \/ k \in wk[w].next
  BY <1>3, RecordRows DEF Fates
<1>5. ASSUME NEW p \in Posts
      PROVE  PublishRow(p)'
  <2>1. PublishRow(p) /\ <<"publish", p>> \in Jobs
    BY <1>0, JobShapes DEF PublishChained
  <2>2. posts[p].state # "absent" => <<"render", posts[p].clip>> \in Jobs
    BY JobShapes DEF ClipInv, BookedBySelection
  <2>3. posts[p].ready => posts[p].state # "absent" /\ jobs'[<<"render", posts[p].clip>>] # "none"
    BY <1>4, <2>1, <2>2 DEF PublishRow
  <2>4. ASSUME jobs'[<<"publish", p>>] # "none"
        PROVE  posts[p].state # "absent" /\ jobs'[<<"render", posts[p].clip>>] = "done"
    <3>1. CASE jobs[<<"publish", p>>] # "none"
      BY <1>4, <2>1, <2>2, <3>1 DEF PublishRow
    <3>2. CASE <<"publish", p>> \in wk[w].next
      <4>1. /\ Kind(w) = "render" /\ wk[w].fate = "done"
            /\ posts[p].clip = Of(w) /\ posts[p].state # "absent"
        BY <1>1, <3>2, NextNames
      <4> QED  BY <4>1, RecordRows
    <3> QED  BY <1>4, <2>1, <2>4, <3>1, <3>2
  <2>5. jobs'[<<"publish", p>>] = "running" => posts[p].arrived
    BY <1>4, <2>1 DEF PublishRow
  <2>6. ASSUME jobs'[<<"publish", p>>] = "done"
        PROVE  ~Fresh(p)
    <3>1. CASE jobs[<<"publish", p>>] = "done"
      BY <2>1, <3>1 DEF PublishRow
    <3>2. CASE <<"publish", p>> = <<Kind(w), Of(w)>>
      BY <1>0, <1>1, <3>2 DEF PublishChained, PublishHand
    <3> QED  BY <1>4, <2>1, <2>6, <3>1, <3>2
  <2> QED  BY <1>1, <2>3, <2>4, <2>5, <2>6 DEF PublishRow, Fresh
<1>6. ASSUME NEW c \in Sources, jobs'[<<"render", c>>] = "done"
      PROVE  LetGo(c, {p \in Posts : jobs[<<"publish", p>>] # "none"})'
  <2>1. ASSUME NEW p \in Posts, posts[p].clip = c
        PROVE  posts[p].state # "draft" /\ (Fresh(p) => jobs'[<<"publish", p>>] # "none")
    <3>0. <<"publish", p>> \in Jobs /\ <<"render", c>> \in Jobs
      BY JobShapes
    <3>1. CASE jobs[<<"render", c>>] = "done"
      BY <1>0, <1>4, <2>1, <3>0, <3>1 DEF PublishChained, LetGo
    <3>2. CASE <<"render", c>> = <<Kind(w), Of(w)>> /\ wk[w].fate = "done"
      <4>1. LetGo(Of(w), {q \in Posts : <<"publish", q>> \in wk[w].next}) /\ Of(w) = c /\ Kind(w) = "render"
        BY <1>0, <1>1, <3>2 DEF PublishChained, PublishHand
      <4>2. posts[p].state # "draft" /\ (Fresh(p) => <<"publish", p>> \in wk[w].next)
        BY <2>1, <4>1 DEF LetGo
      <4>3. <<"publish", p>> # <<Kind(w), Of(w)>>
        BY <4>1
      <4> QED  BY <4>2, <4>3, RecordRows
    <3> QED  BY <1>4, <1>6, <3>0, <3>1, <3>2
  <2> QED  BY <1>1, <2>1 DEF LetGo, Fresh
<1>7. ASSUME NEW v \in Workers
      PROVE  PublishHand(v)'
  <2>1. CASE v = w
    BY <1>2, <2>1 DEF PublishHand, At
  <2>2. CASE v # w
    BY <1>0, <1>1, <1>2, <2>2 DEF PublishChained, PublishHand, LetGo, Fresh, Others, At, Kind, Of
  <2> QED  BY <2>1, <2>2
<1> QED  BY <1>5, <1>6, <1>7 DEF PublishChained

LEMMA PublishCut ==
    ASSUME ClipInv, NEW w \in Workers, Cut(w)
    PROVE  PublishChained'
<1>0. TypeOK /\ HandsOK /\ PublishChained
  BY DEF ClipInv
<1>1. posts' = posts /\ Works(w)
  BY DEF Cut, Works
<1>2. /\ Others(w) /\ wk'[w].step = "idle" /\ jobs'[wk[w].job] \in {"queued", "dead"}
      /\ \A k \in Jobs : k # wk[w].job => jobs'[k] = jobs[k]
  BY <1>0, CutDoes, IdleIs
<1>3. jobs[wk[w].job] = "running"
  BY <1>0, <1>1, InHand
<1>4. \A k \in Jobs : /\ (jobs'[k] = "done" <=> jobs[k] = "done")
                      /\ (jobs'[k] # "none" <=> jobs[k] # "none")
                      /\ jobs'[k] = "running" => jobs[k] = "running"
  BY <1>2, <1>3
<1>5. ASSUME NEW p \in Posts
      PROVE  PublishRow(p)'
  <2>1. PublishRow(p) /\ <<"publish", p>> \in Jobs
    BY <1>0, JobShapes DEF PublishChained
  <2>2. posts[p].state # "absent" => <<"render", posts[p].clip>> \in Jobs
    BY JobShapes DEF ClipInv, BookedBySelection
  <2>3. posts[p].state # "absent" =>
            /\ (jobs'[<<"render", posts[p].clip>>] = "done" <=> jobs[<<"render", posts[p].clip>>] = "done")
            /\ (jobs'[<<"render", posts[p].clip>>] # "none" <=> jobs[<<"render", posts[p].clip>>] # "none")
    BY <1>4, <2>2
  <2> QED  BY <1>1, <1>4, <2>1, <2>3 DEF PublishRow, Fresh
<1>6. ASSUME NEW c \in Sources, jobs'[<<"render", c>>] = "done"
      PROVE  LetGo(c, {p \in Posts : jobs[<<"publish", p>>] # "none"})'
  <2>1. LetGo(c, {p \in Posts : jobs[<<"publish", p>>] # "none"})
    BY <1>0, <1>4, <1>6, JobShapes DEF PublishChained
  <2> QED  BY <1>1, <1>4, <2>1, JobShapes DEF LetGo, Fresh
<1>7. ASSUME NEW v \in Workers
      PROVE  PublishHand(v)'
  <2>1. CASE v = w
    BY <1>2, <2>1 DEF PublishHand, At
  <2>2. CASE v # w
    BY <1>0, <1>1, <1>2, <2>2 DEF PublishChained, PublishHand, LetGo, Fresh, Others, At, Kind, Of
  <2> QED  BY <2>1, <2>2
<1> QED  BY <1>5, <1>6, <1>7 DEF PublishChained

LEMMA PublishStep ==
    ASSUME ClipInv, Next
    PROVE  PublishChained'
<1>0. TypeOK /\ HandsOK /\ PublishChained /\ BookingOK
  BY DEF ClipInv
<1>1. ASSUME NEW w \in Workers, Onward(w), RowsChained, PublishHand(w)'
      PROVE  PublishChained'
  BY <1>1, PublishOthers DEF Onward, Others
<1>2. ASSUME posts' = posts
      PROVE  RowsChained
  BY <1>2 DEF RowsChained, Fresh
<1>3. ASSUME NEW w \in Workers, Onward(w), Kind(w) \notin {"render", "publish"}
      PROVE  PublishHand(w)'
  BY <1>3 DEF Onward, PublishHand, Kind
<1>4. ASSUME NEW w \in Workers, Select(w) \/ SaveClip(w) \/ Verify(w) \/ Ask(w)
      PROVE  PublishChained'
  <2>1. Onward(w) /\ posts' = posts /\ Kind(w) \notin {"render", "publish"}
    BY <1>0, <1>4, SelectDoes, SaveClipDoes, VerifyDoes, AskDoes
  <2> QED  BY <1>1, <1>2, <1>3, <2>1
<1>5. ASSUME NEW w \in Workers, NEW a \in Accounts, Book(w, a)
      PROVE  PublishChained'
  <2>1. Onward(w) /\ Works(w) /\ Kind(w) = "select" /\ Of(w) \notin clips
    BY <1>0, <1>5, BookDoes DEF Onward, BookingOK, BookingHand, Selecting
  <2>2. CASE posts' = posts
    BY <1>1, <1>2, <1>3, <2>1, <2>2
  <2>3. ASSUME NEW p \in Posts, posts[p].state = "absent",
               posts' = [posts EXCEPT ![p] = Booking(Of(w), a)]
        PROVE  PublishChained'
    <3>1. /\ \A q \in Posts : q # p => posts'[q] = posts[q]
          /\ posts'[p].clip = Of(w) /\ ~posts'[p].ready
      BY <1>0, <2>1, <2>3, BookRow
    <3>2. RowsChained
      BY <2>1, <2>3, <3>1 DEF RowsChained, Fresh
    <3> QED  BY <1>1, <1>3, <2>1, <3>2
  <2> QED  BY <1>0, <1>5, <2>2, <2>3, BookDoes
<1>6. ASSUME NEW w \in Workers, StoreDraft(w)
      PROVE  PublishChained'
  <2>1. Onward(w) /\ Kind(w) = "select" /\ Of(w) \notin clips
    BY <1>0, <1>6, StoreDraftDoes DEF Onward, BookingOK, BookingHand, Selecting
  <2>2. RowsChained
    BY <1>0, <1>6, <2>1, DraftRow DEF RowsChained, Fresh
  <2> QED  BY <1>1, <1>3, <2>1, <2>2
<1>7. ASSUME NEW w \in Workers, WriteCamera(w) \/ Encode(w)
      PROVE  PublishChained'
  <2>1. Onward(w) /\ posts' = posts /\ Kind(w) = "render" /\ wk'[w].job = wk[w].job
    BY <1>0, <1>7, WriteCameraDoes, EncodeDoes DEF Onward
  <2>2. wk'[w].step # "record" \/ (wk'[w].fate # "done" /\ wk'[w].next = {})
    BY <1>0, <1>7, WriteCameraDoes, EncodeDoes DEF Returns
  <2>3. PublishHand(w)'
    BY <2>1, <2>2 DEF PublishHand, At, Kind
  <2> QED  BY <1>1, <1>2, <2>1, <2>3
<1>8. ASSUME NEW w \in Workers, Promote(w)
      PROVE  PublishChained'
  <2>1. /\ Onward(w) /\ Works(w) /\ wk'[w].job = wk[w].job /\ Kind(w) = "render" /\ Of(w) \in Sources
        /\ wk'[w].step = "record" /\ wk'[w].fate = "done"
        /\ wk'[w].next = {"publish"} \X Waiting(Of(w))
    BY <1>0, <1>8, PromoteDoes DEF Onward, Returns
  <2>2. /\ \A p \in Posts : p \notin Waiting(Of(w)) => posts'[p] = posts[p]
        /\ \A p \in Waiting(Of(w)) :
                /\ posts'[p].state = "scheduled" /\ posts'[p].ready
                /\ posts'[p].clip = posts[p].clip /\ posts'[p].arrived = posts[p].arrived
    BY <1>0, <1>8, PromoteDoes
  <2>3. \A p \in Waiting(Of(w)) : p \in Posts /\ posts[p].clip = Of(w)
    BY DEF Waiting
  <2>4. \A p \in Posts : <<"publish", p>> \in wk'[w].next <=> p \in Waiting(Of(w))
    BY <2>1
  <2>5. PublishHand(w)'
    <3>1. wk'[w].next \subseteq {"publish"} \X {p \in Posts : posts'[p].clip = Of(w) /\ posts'[p].state # "absent"}
      BY <2>1, <2>2, <2>3
    <3>2. ASSUME NEW p \in Posts, posts'[p].clip = Of(w)
          PROVE  posts'[p].state # "draft" /\ (Fresh(p)' => p \in Waiting(Of(w)))
      BY <2>2, <2>3, <3>2 DEF Waiting, Fresh
    <3>3. Of(w)' = Of(w) /\ Kind(w)' = "render"
      BY <2>1 DEF Of, Kind
    <3>4. LetGo(Of(w), {p \in Posts : <<"publish", p>> \in wk[w].next})'
      BY <2>4, <3>2, <3>3 DEF LetGo
    <3> QED  BY <2>1, <3>1, <3>3, <3>4 DEF PublishHand
  <2>6. jobs[<<"render", Of(w)>>] = "running"
    BY <1>0, <2>1, InHand
  <2>7. RowsChained
    <3>1. ASSUME NEW p \in Posts, p \in Waiting(Of(w))
          PROVE  /\ posts[p].state # "absent" /\ posts'[p].state # "absent"
                 /\ posts'[p].clip = Of(w) /\ posts[p].clip = Of(w) /\ posts'[p].arrived = posts[p].arrived
      BY <2>2, <3>1 DEF Waiting
    <3>2. ASSUME NEW p \in Posts, p \notin Waiting(Of(w))
          PROVE  posts'[p] = posts[p] /\ (Fresh(p)' <=> Fresh(p))
      BY <2>2, <3>2 DEF Fresh
    <3> QED  BY <2>1, <2>5, <2>6, <3>1, <3>2 DEF RowsChained
  <2> QED  BY <1>1, <2>1, <2>5, <2>7
<1>9. ASSUME NEW w \in Workers, Pass(w)
      PROVE  PublishChained'
  <2>1. /\ Onward(w) /\ Works(w) /\ wk'[w].job = wk[w].job /\ Kind(w) = "publish" /\ Of(w) \in Posts
    BY <1>0, <1>9, PassDoes DEF Onward
  <2>2. posts[Of(w)].arrived
    <3>1. jobs[<<"publish", Of(w)>>] = "running"
      BY <1>0, <2>1, InHand
    <3> QED  BY <1>0, <2>1, <3>1 DEF PublishChained, PublishRow
  <2>3. RowsChained /\ ~Fresh(Of(w))'
    <3>1. CASE UNCHANGED posts /\ \A p \in Posts : ~Due(p)
      <4>1. ~Fresh(Of(w))
        BY <2>1, <2>2, <3>1 DEF Due, Fresh
      <4> QED  BY <1>2, <2>1, <3>1, <4>1 DEF Fresh, Of
    <3>2. CASE /\ \A p \in Posts : Due(p) => p \in wk'[w].todo
               /\ \A p \in wk'[w].todo : Due(p) \/ (posts[p].state = "claimed" /\ ~Held(p))
               /\ \A p \in Posts : p \notin wk'[w].todo => posts'[p] = posts[p]
               /\ \A p \in wk'[w].todo :
                        /\ posts'[p].state = "claimed" /\ posts'[p].ready = posts[p].ready
                        /\ posts'[p].clip = posts[p].clip /\ posts'[p].arrived = posts[p].arrived
      <4>1. RowsChained
        BY <3>2 DEF RowsChained, Fresh, Due
      <4>2. posts'[Of(w)].state # "scheduled"
        BY <2>1, <2>2, <3>2 DEF Due
      <4>3. ~Fresh(Of(w))'
        BY <2>1, <4>2 DEF Fresh, Of
      <4> QED  BY <4>1, <4>3
    <3> QED  BY <1>0, <1>9, <3>1, <3>2, PassDoes
  <2>4. PublishHand(w)'
    BY <2>1, <2>3 DEF PublishHand, Kind
  <2> QED  BY <1>1, <2>1, <2>3, <2>4
<1>10. ASSUME NEW w \in Workers, NEW p \in Posts, Deliver(w, p)
       PROVE  PublishChained'
  <2>1. /\ Onward(w) /\ wk'[w].job = wk[w].job /\ Kind(w) = "publish" /\ At(w, "deliver") /\ p \in wk[w].todo
        /\ Of(w) \in Posts
    BY <1>0, <1>10, DeliverDoes DEF Onward
  <2>2. /\ \A q \in Posts : q # p => posts'[q] = posts[q]
        /\ posts'[p].clip = posts[p].clip /\ posts'[p].ready = posts[p].ready
        /\ posts'[p].arrived = posts[p].arrived
        /\ posts'[p].state \in {"published", "retrying", "failed", "needs_attention"}
    BY <1>0, <1>10, DeliverDoes
  <2>3. posts[p].state = "claimed"
    BY <2>1 DEF ClipInv, PassesOK, PassHand
  <2>4. RowsChained
    BY <2>2, <2>3 DEF RowsChained, Fresh
  <2>5. ~Fresh(Of(w))
    BY <1>0, <2>1 DEF PublishChained, PublishHand
  <2>6. ~Fresh(Of(w))'
    BY <2>1, <2>2, <2>5 DEF Fresh, Of
  <2>7. PublishHand(w)'
    BY <2>1, <2>6 DEF PublishHand, Kind
  <2> QED  BY <1>1, <2>1, <2>4, <2>7
<1>11. ASSUME NEW w \in Workers, TakeBack(w)
       PROVE  PublishChained'
  <2>1. /\ Onward(w) /\ Kind(w) \notin {"render", "publish"} /\ Of(w) \in Posts /\ At(w, "take back")
        /\ \A q \in Posts : q # Of(w) => posts'[q] = posts[q]
        /\ posts'[Of(w)].state = "needs_attention"
        /\ posts'[Of(w)].clip = posts[Of(w)].clip /\ posts'[Of(w)].ready = posts[Of(w)].ready
        /\ posts'[Of(w)].arrived = posts[Of(w)].arrived
    BY <1>0, <1>11, TakeBackDoes
  <2>2. posts[Of(w)].state = "published"
    BY <2>1 DEF ClipInv, VerifyOK, VerifyHand
  <2> DEFINE p == Of(w)
  <2>3. p \in Posts /\ \A q \in Posts : q # p => posts'[q] = posts[q]
    BY <2>1
  <2>4. /\ posts'[p].state = "needs_attention" /\ posts'[p].clip = posts[p].clip
        /\ posts'[p].ready = posts[p].ready /\ posts'[p].arrived = posts[p].arrived
        /\ posts[p].state = "published"
    BY <2>1, <2>2
  <2> HIDE DEF p
  <2>5. RowsChained
    BY <2>3, <2>4 DEF RowsChained, Fresh
  <2> QED  BY <1>1, <1>3, <2>1, <2>5
<1>12. ASSUME UNCHANGED <<jobs, wk>>, RowsChained
       PROVE  PublishChained'
  BY <1>12, PublishOthers
<1>13. ASSUME NEW p \in Posts, Arrive(p)
       PROVE  PublishChained'
  <2>1. RowsChained
    BY <1>0, <1>13, ArriveDoes DEF RowsChained, Fresh
  <2> QED  BY <1>0, <1>12, <1>13, <2>1, ArriveDoes
<1>14. ASSUME NEW p \in Posts, RetryUpload(p)
       PROVE  PublishChained'
  <2>1. RowsChained
    BY <1>0, <1>14, RetryUploadDoes DEF RowsChained, Fresh
  <2> QED  BY <1>0, <1>12, <1>14, <2>1, RetryUploadDoes
<1>15. CASE \E p \in Posts, n \in 1..MaxUploads : Judge(p, n)
  BY <1>2, <1>12, <1>15 DEF Judge
<1> QED  BY <1>4, <1>5, <1>6, <1>7, <1>8, <1>9, <1>10, <1>11, <1>13, <1>14, <1>15,
            PublishTake, PublishRecord, PublishCut DEF Next

-----------------------------------------------------------------------------
(* Passes and verification.                                                *)

LEMMA PassesOthers ==
    ASSUME PassesOK,
           \A v \in Workers : wk'[v] = wk[v] \/ (PassHand(v)' /\ wk'[v].todo \subseteq wk[v].todo),
           \A v \in Workers : wk'[v] = wk[v] =>
               \A p \in wk[v].todo : posts[p].state = "claimed" => posts'[p].state = "claimed"
    PROVE  PassesOK'
<1>1. ASSUME NEW v \in Workers
      PROVE  PassHand(v)' /\ wk'[v].todo \subseteq wk[v].todo
  <2>1. CASE wk'[v] = wk[v]
    <3>1. PassHand(v)
      BY DEF PassesOK
    <3> QED  BY <2>1, <3>1 DEF PassHand, At, Kind
  <2> QED  BY <2>1
<1> QED  BY <1>1 DEF PassesOK

LEMMA PassesStep ==
    ASSUME ClipInv, Next
    PROVE  PassesOK'
<1>0. TypeOK /\ HandsOK /\ PassesOK /\ BookingOK
  BY DEF ClipInv
<1>1. \A v \in Workers : \A p \in wk[v].todo : p \in Posts /\ posts[p].state = "claimed"
  BY <1>0 DEF PassesOK, PassHand, TypeOK, Handlers
<1>2. ASSUME NEW w \in Workers, Others(w), wk'[w].todo = {},
             wk'[w].step # "record" \/ (wk'[w].job = wk[w].job /\ Kind(w) # "publish"),
             \A p \in Posts : posts[p].state = "claimed" => posts'[p].state = "claimed"
      PROVE  PassesOK'
  <2>1. PassHand(w)'
    BY <1>2 DEF PassHand, At, Kind
  <2>2. \A v \in Workers : v # w => wk'[v] = wk[v]
    BY <1>2 DEF Others
  <2> QED  BY <1>0, <1>1, <1>2, <2>1, <2>2, PassesOthers
<1>3. ASSUME NEW w \in Workers, NEW j \in Jobs, Take(w, j)
      PROVE  PassesOK'
  <2>1. posts' = posts
    BY <1>3 DEF Take
  <2> QED  BY <1>0, <1>2, <1>3, <2>1, TakeDoes
<1>4. ASSUME NEW w \in Workers, Record(w) \/ Cut(w)
      PROVE  PassesOK'
  <2>1. posts' = posts
    BY <1>4 DEF Record, Cut
  <2> QED  BY <1>0, <1>2, <1>4, <2>1, RecordDoes, CutDoes, IdleIs
<1>5. ASSUME NEW w \in Workers, Select(w) \/ SaveClip(w) \/ Verify(w) \/ Ask(w) \/ WriteCamera(w) \/ Encode(w)
      PROVE  PassesOK'
  <2>1. /\ Onward(w) /\ posts' = posts /\ Kind(w) # "publish" /\ wk'[w].todo \in {wk[w].todo, {}}
        /\ ~At(w, "deliver")
    BY <1>0, <1>5, SelectDoes, SaveClipDoes, VerifyDoes, AskDoes, WriteCameraDoes, EncodeDoes
       DEF At, Returns
  <2>2. wk[w].todo = {}
    BY <1>0, <2>1 DEF HandsOK, HandOK
  <2> QED  BY <1>2, <2>1, <2>2 DEF Onward
<1>6. ASSUME NEW w \in Workers, NEW a \in Accounts, Book(w, a)
      PROVE  PassesOK'
  <2>1. /\ Onward(w) /\ Kind(w) # "publish" /\ wk'[w].todo = wk[w].todo /\ ~At(w, "deliver")
        /\ \A p \in Posts : posts[p].state = "claimed" => posts'[p].state = "claimed"
    BY <1>0, <1>6, BookDoes, BookRow DEF At, Onward
  <2>2. wk[w].todo = {}
    BY <1>0, <2>1 DEF HandsOK, HandOK
  <2> QED  BY <1>2, <2>1, <2>2 DEF Onward
<1>7. ASSUME NEW w \in Workers, StoreDraft(w)
      PROVE  PassesOK'
  <2>1. /\ Onward(w) /\ Kind(w) # "publish" /\ wk'[w].todo = wk[w].todo /\ ~At(w, "deliver")
        /\ \A p \in Posts : posts[p].state = "claimed" => posts'[p].state = "claimed"
    BY <1>0, <1>7, StoreDraftDoes, DraftRow DEF At, Onward
  <2>2. wk[w].todo = {}
    BY <1>0, <2>1 DEF HandsOK, HandOK
  <2> QED  BY <1>2, <2>1, <2>2 DEF Onward
<1>8. ASSUME NEW w \in Workers, Promote(w)
      PROVE  PassesOK'
  <2>1. /\ Onward(w) /\ Kind(w) # "publish" /\ wk'[w].todo = {}
        /\ \A p \in Posts : posts[p].state = "claimed" => posts'[p].state = "claimed"
    BY <1>0, <1>8, PromoteDoes DEF Waiting
  <2> QED  BY <1>2, <2>1 DEF Onward
<1>9. ASSUME NEW w \in Workers, Pass(w)
      PROVE  PassesOK'
  <2>1. Onward(w) /\ Kind(w) = "publish" /\ At(w, "begin") /\ Others(w) /\ wk'[w].got = wk[w].got
    BY <1>0, <1>9, PassDoes DEF Onward
  <2>2. wk[w].todo = {} /\ wk[w].got = {}
    BY <1>0, <2>1 DEF HandsOK, HandOK, At
  <2>3. CASE Returns(w, "done", {}) /\ UNCHANGED posts
    <3>1. Verifications({}) = {}
      BY DEF Verifications
    <3>2. PassHand(w)'
      BY <2>1, <2>2, <2>3, <3>1 DEF PassHand, Returns
    <3>3. \A v \in Workers : wk'[v] = wk[v] \/ (PassHand(v)' /\ wk'[v].todo \subseteq wk[v].todo)
      BY <2>1, <2>3, <3>2 DEF Returns, Others
    <3> QED  BY <1>0, <2>3, <3>3, PassesOthers
  <2>4. CASE /\ wk'[w].step = "deliver"
             /\ \A p \in wk'[w].todo : Due(p) \/ (posts[p].state = "claimed" /\ ~Held(p))
             /\ \A p \in Posts : p \notin wk'[w].todo => posts'[p] = posts[p]
             /\ \A p \in wk'[w].todo : posts'[p].state = "claimed"
    <3>1. PassHand(w)'
      BY <2>4 DEF PassHand, At
    <3>2. ASSUME NEW v \in Workers, v # w
          PROVE  wk'[v] = wk[v] /\ PassHand(v)' /\ wk'[v].todo \intersect wk'[w].todo = {}
      <4>1. wk'[v] = wk[v] /\ PassHand(v)
        BY <1>0, <2>1, <3>2 DEF Others, PassesOK
      <4>2. \A p \in wk[v].todo : p \notin wk'[w].todo
        BY <1>1, <2>4, <3>2 DEF Due, Held
      <4>3. \A p \in wk[v].todo : posts'[p].state = "claimed"
        BY <1>1, <2>4, <4>2
      <4> QED  BY <4>1, <4>2, <4>3 DEF PassHand, At, Kind
    <3> QED  BY <1>0, <3>1, <3>2 DEF PassesOK
  <2> QED  BY <1>0, <1>9, <2>3, <2>4, PassDoes
<1>10. ASSUME NEW w \in Workers, NEW p \in Posts, Deliver(w, p)
       PROVE  PassesOK'
  <2>1. /\ Onward(w) /\ Kind(w) = "publish" /\ wk'[w].job = wk[w].job /\ p \in wk[w].todo
        /\ \A q \in Posts : q # p => posts'[q] = posts[q]
        /\ \/ /\ wk'[w].step = "record" /\ wk'[w].todo = {} /\ wk'[w].fate = "done"
              /\ wk'[w].next = Verifications(wk'[w].got)
           \/ wk'[w].step = "deliver" /\ wk'[w].todo = wk[w].todo \ {p}
    BY <1>0, <1>10, DeliverDoes DEF Onward
  <2>2. \A q \in wk'[w].todo : q # p /\ q \in wk[w].todo
    BY <2>1
  <2>3. \A q \in wk'[w].todo : posts'[q].state = "claimed"
    BY <1>1, <2>1, <2>2
  <2>4. PassHand(w)' /\ wk'[w].todo \subseteq wk[w].todo
    BY <2>1, <2>2, <2>3 DEF PassHand, At
  <2>5. ASSUME NEW v \in Workers, v # w
        PROVE  wk'[v] = wk[v] /\ \A q \in wk[v].todo : posts'[q] = posts[q]
    <3>1. wk'[v] = wk[v]
      BY <2>1, <2>5 DEF Onward, Others
    <3>2. p \notin wk[v].todo
      BY <1>0, <2>1, <2>5 DEF PassesOK
    <3> QED  BY <1>1, <2>1, <3>1, <3>2
  <2>6. \A v \in Workers : wk'[v] = wk[v] /\ v = w => \A q \in wk[v].todo : posts'[q].state = "claimed"
    BY <2>3
  <2> QED  BY <1>0, <2>4, <2>5, <2>6, PassesOthers
<1>11. ASSUME NEW w \in Workers, TakeBack(w)
       PROVE  PassesOK'
  <2>1. /\ Onward(w) /\ Kind(w) # "publish" /\ wk'[w].todo = {}
        /\ \A p \in Posts : posts[p].state = "claimed" => posts'[p].state = "claimed"
    BY <1>0, <1>11, TakeBackDoes DEF ClipInv, VerifyOK, VerifyHand
  <2> QED  BY <1>2, <2>1 DEF Onward
<1>12. ASSUME UNCHANGED wk, \A p \in Posts : posts[p].state = "claimed" => posts'[p].state = "claimed"
       PROVE  PassesOK'
  BY <1>0, <1>1, <1>12, PassesOthers
<1>13. ASSUME NEW p \in Posts, Arrive(p)
       PROVE  PassesOK'
  BY <1>0, <1>12, <1>13, ArriveDoes
<1>14. ASSUME NEW p \in Posts, RetryUpload(p)
       PROVE  PassesOK'
  BY <1>0, <1>12, <1>14, RetryUploadDoes
<1>15. CASE \E p \in Posts, n \in 1..MaxUploads : Judge(p, n)
  BY <1>12, <1>15 DEF Judge
<1> QED  BY <1>3, <1>4, <1>5, <1>6, <1>7, <1>8, <1>9, <1>10, <1>11, <1>13, <1>14, <1>15 DEF Next

\* One verification of a post at a time.
LEMMA OneVerification ==
    ASSUME ClipInv, NEW v \in Workers, NEW w \in Workers, Works(v), Works(w),
           Kind(v) \in {"verify", "verify again"}, Kind(w) \in {"verify", "verify again"},
           Of(v) = Of(w)
    PROVE  v = w
<1>1. /\ jobs[<<Kind(v), Of(w)>>] = "running" /\ jobs[<<Kind(w), Of(w)>>] = "running"
      /\ Of(w) \in Posts
  BY InHand DEF ClipInv
<1>2. jobs[<<"verify again", Of(w)>>] # "none" => jobs[<<"verify", Of(w)>>] = "done"
  BY <1>1 DEF ClipInv, VerifyOK, VerifyRow
<1>3. Kind(v) = Kind(w)
  BY <1>1, <1>2
<1> QED  BY <1>3, Alone DEF ClipInv

\* A step of the rows that verification does not mind: what is published stays,
\* and what comes back stays back.
RowVerified(p) ==
    /\ posts'[p].state = "published" => posts'[p].remote # 0
    /\ posts'[p].back =>
        /\ posts'[p].state = "needs_attention" /\ posts'[p].remote # 0
        /\ plat'[p][posts'[p].remote] = "refused"

RowsVerified == \A p \in Posts : RowVerified(p)

StaysPublished(p) ==
    posts[p].state = "published" =>
        /\ posts'[p].state = "published" /\ posts'[p].remote = posts[p].remote
        /\ \A n \in 1..MaxUploads : plat[p][n] = "refused" => plat'[p][n] = "refused"

LEMMA RowQuiet ==
    ASSUME VerifyOK, NEW p \in Posts,
           \/ /\ posts'[p].state = posts[p].state /\ posts'[p].remote = posts[p].remote
              /\ posts'[p].back = posts[p].back /\ plat'[p] = plat[p]
           \/ /\ posts[p].state \notin {"published", "needs_attention"}
              /\ posts'[p].back => posts[p].back
              /\ posts'[p].state = "published" => posts'[p].remote # 0
           \/ posts[p].state # "published" /\ posts'[p].state # "published" /\ ~posts'[p].back
    PROVE  RowVerified(p) /\ StaysPublished(p)
<1>1. /\ posts[p].state = "published" => posts[p].remote # 0
      /\ posts[p].back => /\ posts[p].state = "needs_attention" /\ posts[p].remote # 0
                          /\ plat[p][posts[p].remote] = "refused"
  BY DEF VerifyOK, VerifyRow
<1> QED  BY <1>1 DEF RowVerified, StaysPublished

LEMMA VerifyOthers ==
    ASSUME ClipInv, UNCHANGED jobs, RowsVerified,
           \A v \in Workers : \/ VerifyHand(v)'
                              \/ wk'[v] = wk[v] /\ \A p \in Posts : p = Of(v) => StaysPublished(p)
    PROVE  VerifyOK'
<1>0. TypeOK /\ HandsOK /\ VerifyOK
  BY DEF ClipInv
<1>1. \A p \in Posts : VerifyRow(p)'
  BY <1>0 DEF RowsVerified, RowVerified, VerifyOK, VerifyRow
<1>2. ASSUME NEW v \in Workers, wk'[v] = wk[v], \A p \in Posts : p = Of(v) => StaysPublished(p)
      PROVE  VerifyHand(v)'
  <2>1. VerifyHand(v) /\ wk[v].remote \in 0..MaxUploads
    BY <1>0 DEF VerifyOK, TypeOK, Handlers
  <2>2. CASE At(v, "ask") \/ At(v, "take back")
    <3>1. Of(v) \in Posts /\ StaysPublished(Of(v))
      BY <1>0, <1>2, <2>2, InHand DEF HandsOK, HandOK, Works, At
    <3>2. /\ posts[Of(v)].state = "published" /\ posts[Of(v)].remote = wk[v].remote
          /\ At(v, "take back") => plat[Of(v)][wk[v].remote] = "refused"
      BY <2>1, <2>2 DEF VerifyHand
    <3>4. wk[v].remote \in 1..MaxUploads
      <4>1. wk[v].remote # 0
        BY <1>0, <3>1, <3>2 DEF VerifyOK, VerifyRow
      <4> QED  BY <2>1, <4>1
    <3>3. /\ posts'[Of(v)].state = "published" /\ posts'[Of(v)].remote = wk[v].remote
          /\ At(v, "take back") => plat'[Of(v)][wk[v].remote] = "refused"
      BY <3>1, <3>2, <3>4 DEF StaysPublished
    <3> QED  BY <1>2, <2>2, <3>3 DEF VerifyHand, At, Kind, Of
  <2>3. CASE ~(At(v, "ask") \/ At(v, "take back"))
    BY <1>2, <2>1, <2>3 DEF VerifyHand, At, Kind, Of
  <2> QED  BY <2>2, <2>3
<1> QED  BY <1>1, <1>2 DEF VerifyOK

LEMMA VerifyJobs ==
    ASSUME ClipInv, UNCHANGED <<posts, plat>>, NEW w \in Workers, Others(w),
           wk'[w].step \in {"begin", "idle"},
           \A p \in Posts : jobs'[<<"verify again", p>>] # "none" => jobs'[<<"verify", p>>] = "done"
    PROVE  VerifyOK'
<1>1. \A p \in Posts : VerifyRow(p)'
  BY DEF ClipInv, VerifyOK, VerifyRow
<1>2. VerifyHand(w)'
  BY DEF VerifyHand, At
<1>3. ASSUME NEW v \in Workers, v # w
      PROVE  VerifyHand(v)'
  <2>1. wk'[v] = wk[v] /\ VerifyHand(v)
    BY <1>3 DEF Others, ClipInv, VerifyOK
  <2> QED  BY <2>1 DEF VerifyHand, At, Kind, Of
<1> QED  BY <1>1, <1>2, <1>3 DEF VerifyOK

LEMMA VerifyStep ==
    ASSUME ClipInv, Next
    PROVE  VerifyOK'
<1>0. TypeOK /\ HandsOK /\ VerifyOK /\ BookingOK
  BY DEF ClipInv
<1>1. ASSUME NEW p \in Posts
      PROVE  /\ <<"verify again", p>> \in Jobs /\ <<"verify", p>> \in Jobs
             /\ jobs[<<"verify again", p>>] # "none" => jobs[<<"verify", p>>] = "done"
  BY <1>0, JobShapes DEF VerifyOK, VerifyRow
<1>2. ASSUME UNCHANGED <<posts, plat>>
      PROVE  RowsVerified /\ \A p \in Posts : StaysPublished(p)
  BY <1>0, <1>2, RowQuiet DEF RowsVerified
<1>3. ASSUME NEW w \in Workers, NEW j \in Jobs, Take(w, j)
      PROVE  VerifyOK'
  <2>1. UNCHANGED <<posts, plat>> /\ jobs[j] = "queued"
    BY <1>3 DEF Take
  <2>2. /\ Others(w) /\ wk'[w].step = "begin" /\ jobs'[j] = "running"
        /\ \A k \in Jobs : k # j => jobs'[k] = jobs[k]
    BY <1>0, <1>3, TakeDoes
  <2> QED  BY <1>1, <2>1, <2>2, VerifyJobs
<1>4. ASSUME NEW w \in Workers, Record(w)
      PROVE  VerifyOK'
  <2>1. UNCHANGED <<posts, plat>> /\ At(w, "record") /\ Works(w)
    BY <1>4 DEF Record, Works, At
  <2>2. Others(w) /\ wk'[w].step = "idle"
    BY <1>0, <1>4, RecordDoes, IdleIs
  <2>3. jobs[<<Kind(w), Of(w)>>] = "running"
    BY <1>0, <2>1, InHand
  <2>4. ASSUME NEW p \in Posts, jobs'[<<"verify again", p>>] # "none"
        PROVE  jobs'[<<"verify", p>>] = "done"
    <3>1. CASE jobs[<<"verify again", p>>] # "none"
      BY <1>1, <1>4, <2>3, <3>1, RecordRows
    <3>2. CASE <<"verify again", p>> \in wk[w].next
      BY <1>4, <2>1, <3>2, NextNames, RecordRows
    <3> QED  BY <1>1, <1>4, <2>3, <2>4, <3>1, <3>2, RecordRows
  <2> QED  BY <2>1, <2>2, <2>4, VerifyJobs
<1>5. ASSUME NEW w \in Workers, Cut(w)
      PROVE  VerifyOK'
  <2>1. UNCHANGED <<posts, plat>> /\ Works(w)
    BY <1>5 DEF Cut, Works
  <2>2. /\ Others(w) /\ wk'[w].step = "idle" /\ jobs[wk[w].job] = "running"
        /\ \A k \in Jobs : k # wk[w].job => jobs'[k] = jobs[k]
    BY <1>0, <1>5, <2>1, CutDoes, IdleIs, InHand
  <2> QED  BY <1>1, <2>1, <2>2, VerifyJobs
<1>6. ASSUME NEW w \in Workers, Onward(w), RowsVerified, VerifyHand(w)',
             \A p \in Posts : StaysPublished(p)
      PROVE  VerifyOK'
  BY <1>6, VerifyOthers DEF Onward, Others
<1>7. ASSUME NEW w \in Workers, Onward(w), Kind(w) \notin {"verify", "verify again"},
             wk'[w].step \notin {"ask", "take back"}, RowsVerified, \A p \in Posts : StaysPublished(p)
      PROVE  VerifyOK'
  <2>1. VerifyHand(w)'
    BY <1>7 DEF Onward, VerifyHand, At, Kind
  <2> QED  BY <1>6, <1>7, <2>1
<1>8. ASSUME NEW w \in Workers, Select(w) \/ SaveClip(w) \/ WriteCamera(w) \/ Encode(w)
      PROVE  VerifyOK'
  <2>1. /\ Onward(w) /\ UNCHANGED <<posts, plat>> /\ Kind(w) \notin {"verify", "verify again"}
        /\ wk'[w].step \notin {"ask", "take back"}
    BY <1>0, <1>8, SelectDoes, SaveClipDoes, WriteCameraDoes, EncodeDoes DEF Returns
  <2> QED  BY <1>2, <1>7, <2>1
<1>9. ASSUME NEW w \in Workers, NEW a \in Accounts, Book(w, a)
      PROVE  VerifyOK'
  <2>1. /\ Onward(w) /\ Works(w) /\ Kind(w) = "select" /\ plat' = plat
        /\ wk'[w].step \notin {"ask", "take back"}
    BY <1>0, <1>9, BookDoes DEF Onward
  <2>2. CASE posts' = posts
    BY <1>2, <1>7, <2>1, <2>2
  <2>3. ASSUME NEW p \in Posts, posts[p].state = "absent",
               posts' = [posts EXCEPT ![p] = Booking(Of(w), a)]
        PROVE  VerifyOK'
    <3>1. /\ \A q \in Posts : q # p => posts'[q] = posts[q]
          /\ posts'[p].state = "scheduled" /\ ~posts'[p].back
      BY <1>0, <2>1, <2>3, BookRow
    <3>2. RowsVerified /\ \A q \in Posts : StaysPublished(q)
      BY <1>0, <2>1, <2>3, <3>1, RowQuiet DEF RowsVerified
    <3> QED  BY <1>7, <2>1, <3>2
  <2> QED  BY <1>0, <1>9, <2>2, <2>3, BookDoes
<1>10. ASSUME NEW w \in Workers, StoreDraft(w)
       PROVE  VerifyOK'
  <2>1. /\ Onward(w) /\ Kind(w) = "select" /\ plat' = plat /\ wk'[w].step = "book"
    BY <1>0, <1>10, StoreDraftDoes
  <2>2. RowsVerified /\ \A q \in Posts : StaysPublished(q)
    BY <1>0, <1>10, <2>1, DraftRow, RowQuiet DEF RowsVerified
  <2> QED  BY <1>7, <2>1, <2>2
<1>11. ASSUME NEW w \in Workers, Promote(w)
       PROVE  VerifyOK'
  <2>1. /\ Onward(w) /\ Kind(w) = "render" /\ plat' = plat /\ wk'[w].step = "record"
        /\ \A p \in Posts : p \notin Waiting(Of(w)) => posts'[p] = posts[p]
        /\ \A p \in Waiting(Of(w)) : /\ posts'[p].state = "scheduled" /\ posts'[p].back = posts[p].back
    BY <1>0, <1>11, PromoteDoes DEF Returns
  <2>2. \A p \in Waiting(Of(w)) : p \in Posts /\ posts[p].state \in {"draft", "scheduled"}
    BY DEF Waiting
  <2>3. RowsVerified /\ \A q \in Posts : StaysPublished(q)
    BY <1>0, <2>1, <2>2, RowQuiet DEF RowsVerified
  <2> QED  BY <1>7, <2>1, <2>3
<1>12. ASSUME NEW w \in Workers, Pass(w)
       PROVE  VerifyOK'
  <2>1. /\ Onward(w) /\ Kind(w) = "publish" /\ plat' = plat /\ wk'[w].step \notin {"ask", "take back"}
    BY <1>0, <1>12, PassDoes DEF Returns
  <2>2. CASE posts' = posts
    BY <1>2, <1>7, <2>1, <2>2
  <2>3. CASE /\ \A p \in wk'[w].todo : Due(p) \/ (posts[p].state = "claimed" /\ ~Held(p))
             /\ \A p \in Posts : p \notin wk'[w].todo => posts'[p] = posts[p]
             /\ \A p \in wk'[w].todo : posts'[p].state = "claimed" /\ posts'[p].back = posts[p].back
    <3>1. RowsVerified /\ \A q \in Posts : StaysPublished(q)
      BY <1>0, <2>1, <2>3, RowQuiet DEF RowsVerified, Due
    <3> QED  BY <1>7, <2>1, <3>1
  <2> QED  BY <1>0, <1>12, <2>2, <2>3, PassDoes
<1>13. ASSUME NEW w \in Workers, NEW p \in Posts, Deliver(w, p)
       PROVE  VerifyOK'
  <2>1. /\ Onward(w) /\ Kind(w) = "publish" /\ wk'[w].step \notin {"ask", "take back"} /\ p \in wk[w].todo
        /\ \A q \in Posts : q # p => posts'[q] = posts[q] /\ plat'[q] = plat[q]
        /\ posts'[p].back = posts[p].back
        /\ posts'[p].state = "published" => posts'[p].remote # 0
    BY <1>0, <1>13, DeliverDoes
  <2>2. posts[p].state = "claimed"
    BY <2>1 DEF ClipInv, PassesOK, PassHand
  <2>3. RowsVerified /\ \A q \in Posts : StaysPublished(q)
    BY <1>0, <2>1, <2>2, RowQuiet DEF RowsVerified
  <2> QED  BY <1>7, <2>1, <2>3
<1>14. ASSUME NEW w \in Workers, Verify(w)
       PROVE  VerifyOK'
  <2>1. /\ Onward(w) /\ UNCHANGED <<posts, plat>> /\ wk'[w].job = wk[w].job
        /\ \/ /\ posts[Of(w)].state = "published" /\ wk'[w].step = "ask"
              /\ wk'[w].remote = posts[Of(w)].remote
           \/ Returns(w, "done", {})
    BY <1>0, <1>14, VerifyDoes DEF Onward
  <2>2. VerifyHand(w)'
    BY <2>1 DEF VerifyHand, Returns, At, Kind, Of
  <2> QED  BY <1>2, <1>6, <2>1, <2>2
<1>15. ASSUME NEW w \in Workers, Ask(w)
       PROVE  VerifyOK'
  <2>1. /\ Onward(w) /\ UNCHANGED <<posts, plat>> /\ wk'[w].job = wk[w].job /\ VerifyHand(w) /\ At(w, "ask")
        /\ \/ Returns(w, "done", IF Kind(w) = "verify" THEN {<<"verify again", Of(w)>>} ELSE {})
           \/ \E fate \in Fates : Returns(w, fate, {})
           \/ /\ plat[Of(w)][wk[w].remote] = "refused"
              /\ wk'[w].step = "take back" /\ wk'[w].remote = wk[w].remote
    BY <1>0, <1>15, AskDoes DEF Onward, VerifyOK
  <2>2. VerifyHand(w)'
    BY <2>1 DEF VerifyHand, Returns, At, Kind, Of
  <2> QED  BY <1>2, <1>6, <2>1, <2>2
<1>16. ASSUME NEW w \in Workers, TakeBack(w)
       PROVE  VerifyOK'
  <2>1. /\ Onward(w) /\ UNCHANGED <<jobs, plat>> /\ At(w, "take back") /\ Of(w) \in Posts
        /\ Kind(w) \in {"verify", "verify again"} /\ wk'[w].job = wk[w].job /\ Works(w) /\ Others(w)
        /\ Returns(w, "done", {})
        /\ \A q \in Posts : q # Of(w) => posts'[q] = posts[q]
        /\ posts'[Of(w)].state = "needs_attention" /\ posts'[Of(w)].remote = posts[Of(w)].remote
    BY <1>0, <1>16, TakeBackDoes DEF Onward
  <2>2. /\ posts[Of(w)].state = "published" /\ posts[Of(w)].remote # 0
        /\ plat[Of(w)][posts[Of(w)].remote] = "refused"
    <3>1. VerifyHand(w) /\ VerifyRow(Of(w))
      BY <1>0, <2>1 DEF VerifyOK
    <3>2. posts[Of(w)].state = "published" /\ plat[Of(w)][posts[Of(w)].remote] = "refused"
      BY <2>1, <3>1 DEF VerifyHand
    <3> QED  BY <3>1, <3>2 DEF VerifyRow
  <2>3. VerifyHand(w)'
    BY <2>1 DEF VerifyHand, Returns, At, Kind, Of
  <2>4. RowsVerified
    <3>1. ASSUME NEW q \in Posts, q # Of(w)
          PROVE  RowVerified(q)
      BY <1>0, <2>1, <3>1, RowQuiet
    <3>2. ASSUME NEW q \in Posts, q = Of(w)
          PROVE  RowVerified(q)
      BY <2>1, <2>2, <3>2 DEF RowVerified
    <3> QED  BY <3>1, <3>2 DEF RowsVerified
  <2>5. ASSUME NEW v \in Workers, v # w
        PROVE  \/ VerifyHand(v)'
               \/ wk'[v] = wk[v] /\ \A p \in Posts : p = Of(v) => StaysPublished(p)
    <3>1. wk'[v] = wk[v] /\ VerifyHand(v)
      BY <1>0, <2>1, <2>5 DEF Others, VerifyOK
    <3>2. CASE At(v, "ask") \/ At(v, "take back")
      <4>1. Works(v) /\ Kind(v) \in {"verify", "verify again"}
        BY <1>0, <3>2 DEF HandsOK, HandOK, Works, At
      <4>2. Of(v) # Of(w)
        BY <2>1, <2>5, <4>1, OneVerification
      <4> QED  BY <2>1, <3>1, <4>2 DEF StaysPublished
    <3>3. CASE ~(At(v, "ask") \/ At(v, "take back"))
      BY <3>1, <3>3 DEF VerifyHand, At, Kind, Of
    <3> QED  BY <3>2, <3>3
  <2> QED  BY <2>1, <2>3, <2>4, <2>5, VerifyOthers
<1>17. ASSUME UNCHANGED <<jobs, wk>>, RowsVerified, \A p \in Posts : StaysPublished(p)
       PROVE  VerifyOK'
  BY <1>17, VerifyOthers
<1>18. ASSUME NEW p \in Posts, Arrive(p)
       PROVE  VerifyOK'
  <2>1. RowsVerified /\ \A q \in Posts : StaysPublished(q)
    BY <1>0, <1>18, ArriveDoes, RowQuiet DEF RowsVerified
  <2> QED  BY <1>0, <1>17, <1>18, <2>1, ArriveDoes
<1>19. ASSUME NEW p \in Posts, RetryUpload(p)
       PROVE  VerifyOK'
  <2>1. RowsVerified /\ \A q \in Posts : StaysPublished(q)
    BY <1>0, <1>19, RetryUploadDoes, RowQuiet DEF RowsVerified
  <2> QED  BY <1>0, <1>17, <1>19, <2>1, RetryUploadDoes
<1>20. ASSUME NEW p \in Posts, NEW n \in 1..MaxUploads, Judge(p, n)
       PROVE  VerifyOK'
  <2>1. /\ UNCHANGED <<jobs, wk, posts>>
        /\ \A q \in Posts : \A m \in 1..MaxUploads : plat[q][m] = "refused" => plat'[q][m] = "refused"
    BY <1>0, <1>20, JudgeDoes
  <2>2. \A q \in Posts : StaysPublished(q)
    BY <2>1 DEF StaysPublished
  <2>3. ASSUME NEW q \in Posts, posts[q].remote # 0
        PROVE  posts[q].remote \in 1..MaxUploads
    <3>1. posts[q] \in Rows
      BY <1>0 DEF TypeOK
    <3>2. posts[q].remote \in 0..MaxUploads
      BY <3>1 DEF Rows
    <3> QED  BY <2>3, <3>2
  <2>4. ASSUME NEW q \in Posts
        PROVE  RowVerified(q)
    BY <1>0, <2>1, <2>3 DEF RowVerified, VerifyOK, VerifyRow
  <2> QED  BY <1>17, <2>1, <2>2, <2>4 DEF RowsVerified
<1> QED  BY <1>3, <1>4, <1>5, <1>8, <1>9, <1>10, <1>11, <1>12, <1>13, <1>14, <1>15, <1>16,
            <1>18, <1>19, <1>20 DEF Next

LEMMA DeliveredOthers ==
    ASSUME DeliveredIsVerified, missed \subseteq missed',
           \A p \in Posts : jobs[<<"verify", p>>] # "none" => jobs'[<<"verify", p>>] # "none",
           \A p \in Posts : \A v \in Workers : p \in wk[v].got =>
               \/ p \in wk'[v].got \/ p \in missed'
               \/ posts'[p].state # "published" \/ jobs'[<<"verify", p>>] # "none",
           \A p \in Posts : posts'[p].state = "published" =>
               posts[p].state = "published" \/ \E v \in Workers : p \in wk'[v].got
    PROVE  DeliveredIsVerified'
BY DEF DeliveredIsVerified

LEMMA DeliveredStep ==
    ASSUME ClipInv, Next
    PROVE  DeliveredIsVerified'
<1>0. TypeOK /\ HandsOK /\ DeliveredIsVerified /\ BookingOK /\ missed \subseteq missed'
  BY Grows DEF ClipInv
<1>1. ASSUME NEW w \in Workers, Others(w), wk[w].got \subseteq wk'[w].got, UNCHANGED jobs,
             \A p \in Posts : posts'[p].state = "published" => posts[p].state = "published" \/ p \in wk'[w].got
      PROVE  DeliveredIsVerified'
  <2>1. \A v \in Workers : wk[v].got \subseteq wk'[v].got
    BY <1>1 DEF Others
  <2> QED  BY <1>0, <1>1, <2>1, DeliveredOthers
<1>2. ASSUME NEW w \in Workers, NEW j \in Jobs, Take(w, j)
      PROVE  DeliveredIsVerified'
  <2>1. At(w, "idle") /\ posts' = posts
    BY <1>2 DEF Take
  <2>2. wk[w].got = {}
    BY <1>0, <2>1 DEF HandsOK, HandOK, At
  <2>3. \A p \in Posts : jobs[<<"verify", p>>] # "none" => jobs'[<<"verify", p>>] # "none"
    BY <1>0, <1>2, TakeDoes, JobShapes
  <2>4. \A v \in Workers : wk[v].got \subseteq wk'[v].got
    BY <1>0, <1>2, <2>2, TakeDoes DEF Others
  <2> QED  BY <1>0, <2>1, <2>3, <2>4, DeliveredOthers
<1>3. ASSUME NEW w \in Workers, Record(w)
      PROVE  DeliveredIsVerified'
  <2>1. At(w, "record") /\ Works(w) /\ posts' = posts
    BY <1>3 DEF Record, Works, At
  <2>2. \A p \in Posts : jobs[<<"verify", p>>] # "none" => jobs'[<<"verify", p>>] # "none"
    BY <1>3, JobShapes, RecordRows DEF Fates
  <2>3. ASSUME NEW p \in Posts, p \in wk[w].got
        PROVE  jobs'[<<"verify", p>>] # "none"
    <3>1. Kind(w) = "publish"
      BY <1>0, <2>1, <2>3 DEF HandsOK, HandOK, At
    <3>2. <<"verify", p>> \in wk[w].next
      BY <2>1, <2>3, <3>1 DEF ClipInv, PassesOK, PassHand, Verifications
    <3>3. <<"verify", p>> # <<Kind(w), Of(w)>>
      BY <3>1
    <3> QED  BY <1>3, <3>2, <3>3, RecordRows
  <2>4. \A v \in Workers : v # w => wk[v].got \subseteq wk'[v].got
    BY <1>0, <1>3, RecordDoes DEF Others
  <2> QED  BY <1>0, <2>1, <2>2, <2>3, <2>4, DeliveredOthers
<1>4. ASSUME NEW w \in Workers, Cut(w)
      PROVE  DeliveredIsVerified'
  <2>1. Works(w) /\ posts' = posts
    BY <1>4 DEF Cut, Works
  <2>2. \A p \in Posts : jobs[<<"verify", p>>] # "none" => jobs'[<<"verify", p>>] # "none"
    BY <1>0, <1>4, CutDoes, JobShapes
  <2>3. ASSUME NEW p \in Posts, p \in wk[w].got
        PROVE  posts[p].state # "published" \/ p \in missed'
    <3>1. CASE At(w, "draft")
      BY <1>0, <2>3, <3>1 DEF BookingOK, BookingHand, Selecting
    <3>2. CASE Kind(w) = "publish"
      BY <1>4, <2>3, <3>2 DEF Cut
    <3> QED  BY <1>0, <2>3, <3>1, <3>2 DEF HandsOK, HandOK
  <2>4. \A v \in Workers : v # w => wk[v].got \subseteq wk'[v].got
    BY <1>0, <1>4, CutDoes DEF Others
  <2> QED  BY <1>0, <2>1, <2>2, <2>3, <2>4, DeliveredOthers
<1>5. ASSUME NEW w \in Workers, Select(w) \/ SaveClip(w) \/ Verify(w) \/ Ask(w) \/ WriteCamera(w) \/ Encode(w)
      PROVE  DeliveredIsVerified'
  <2>1. Onward(w) /\ wk'[w].got = wk[w].got /\ posts' = posts
    BY <1>0, <1>5, SelectDoes, SaveClipDoes, VerifyDoes, AskDoes, WriteCameraDoes, EncodeDoes DEF Returns
  <2> QED  BY <1>1, <2>1 DEF Onward
<1>6. ASSUME NEW w \in Workers, NEW a \in Accounts, Book(w, a)
      PROVE  DeliveredIsVerified'
  <2>1. Onward(w) /\ At(w, "book") /\ Kind(w) = "select"
    BY <1>0, <1>6, BookDoes
  <2>2. wk[w].got = {}
    BY <1>0, <2>1 DEF HandsOK, HandOK, At
  <2>3. \A p \in Posts : posts'[p].state = "published" => posts[p].state = "published"
    BY <1>0, <1>6, <2>1, BookDoes, BookRow DEF Onward
  <2> QED  BY <1>1, <2>1, <2>2, <2>3 DEF Onward
<1>7. ASSUME NEW w \in Workers, StoreDraft(w)
      PROVE  DeliveredIsVerified'
  <2>1. Onward(w) /\ UNCHANGED <<jobs, missed>>
    BY <1>0, <1>7, StoreDraftDoes DEF Onward
  <2>2. PICK p \in Posts : /\ wk[w].got = {p} /\ posts'[p].state = "draft"
                           /\ \A q \in Posts : q # p => posts'[q] = posts[q]
    BY <1>0, <1>7, DraftRow
  <2>3. \A v \in Workers : v # w => wk[v].got \subseteq wk'[v].got
    BY <2>1 DEF Onward, Others
  <2> QED  BY <1>0, <2>1, <2>2, <2>3, DeliveredOthers
<1>8. ASSUME NEW w \in Workers, Promote(w)
      PROVE  DeliveredIsVerified'
  <2>1. /\ Onward(w) /\ wk'[w].got = wk[w].got
        /\ \A p \in Posts : posts'[p].state = "published" => posts[p].state = "published"
    BY <1>0, <1>8, PromoteDoes DEF Returns, Waiting
  <2> QED  BY <1>1, <2>1 DEF Onward
<1>9. ASSUME NEW w \in Workers, Pass(w)
      PROVE  DeliveredIsVerified'
  <2>1. /\ Onward(w) /\ wk'[w].got = wk[w].got
        /\ \A p \in Posts : posts'[p].state = "published" => posts[p].state = "published"
    BY <1>0, <1>9, PassDoes
  <2> QED  BY <1>1, <2>1 DEF Onward
<1>10. ASSUME NEW w \in Workers, NEW p \in Posts, Deliver(w, p)
       PROVE  DeliveredIsVerified'
  <2>1. /\ Onward(w) /\ wk[w].got \subseteq wk'[w].got
        /\ \A q \in Posts : posts'[q].state = "published" => posts[q].state = "published" \/ q \in wk'[w].got
    BY <1>0, <1>10, DeliverDoes
  <2> QED  BY <1>1, <2>1 DEF Onward
<1>11. ASSUME NEW w \in Workers, TakeBack(w)
       PROVE  DeliveredIsVerified'
  <2>1. /\ Onward(w) /\ wk'[w].got = wk[w].got
        /\ \A p \in Posts : posts'[p].state = "published" => posts[p].state = "published"
    BY <1>0, <1>11, TakeBackDoes
  <2> QED  BY <1>1, <2>1 DEF Onward
<1>12. ASSUME UNCHANGED <<jobs, wk>>,
              \A p \in Posts : posts'[p].state = "published" => posts[p].state = "published"
       PROVE  DeliveredIsVerified'
  BY <1>0, <1>12, DeliveredOthers
<1>13. ASSUME NEW p \in Posts, Arrive(p)
       PROVE  DeliveredIsVerified'
  BY <1>0, <1>12, <1>13, ArriveDoes
<1>14. ASSUME NEW p \in Posts, RetryUpload(p)
       PROVE  DeliveredIsVerified'
  BY <1>0, <1>12, <1>14, RetryUploadDoes
<1>15. CASE \E p \in Posts, n \in 1..MaxUploads : Judge(p, n)
  BY <1>12, <1>15 DEF Judge
<1> QED  BY <1>2, <1>3, <1>4, <1>5, <1>6, <1>7, <1>8, <1>9, <1>10, <1>11, <1>13, <1>14, <1>15 DEF Next

-----------------------------------------------------------------------------
(* Files, with a host for each worker.                                     *)

\* A post keeps its file: it becomes no more ready, and is not let go.
RowWaits(p) ==
    /\ posts'[p].clip = posts[p].clip /\ posts'[p].ready = posts[p].ready
    /\ posts'[p].state \notin {"absent", "draft"} => posts[p].state \notin {"absent", "draft"}

LEMMA FilesOthers ==
    ASSUME ClipInv, FilesOK, cut \subseteq cut',
           \A c \in Sources : files'[c] \in {files[c], c},
           \A v \in Workers : \/ FileHand(v)'
                              \/ wk'[v] = wk[v] /\ camera'[HostOf[v]] = camera[HostOf[v]],
           \A p \in Posts : \/ FileRow(p)'
                            \/ /\ RowWaits(p)
                               /\ \A v \in Workers : At(v, "draft") /\ p \in wk[v].got => wk'[v] = wk[v]
    PROVE  FilesOK'
<1>1. \A c \in Sources : files'[c] \in {NoSource, c}
  BY DEF FilesOK
<1>2. ASSUME NEW v \in Workers, wk'[v] = wk[v], camera'[HostOf[v]] = camera[HostOf[v]]
      PROVE  FileHand(v)'
  <2>1. FileHand(v)
    BY DEF FilesOK
  <2>2. At(v, "promote") => Of(v) \in Sources
    BY InHand DEF ClipInv, HandsOK, HandOK, Works, At
  <2> QED  BY <1>2, <2>1, <2>2 DEF FileHand, At, Of
<1>3. ASSUME NEW p \in Posts, RowWaits(p),
             \A v \in Workers : At(v, "draft") /\ p \in wk[v].got => wk'[v] = wk[v]
      PROVE  FileRow(p)'
  <2>1. FileRow(p)
    BY DEF FilesOK
  <2>2. posts[p].ready => posts[p].clip \in Sources
    BY DEF ClipInv, PublishChained, PublishRow, BookedBySelection
  <2>3. posts'[p].ready => files'[posts'[p].clip] = posts'[p].clip
    BY <1>3, <2>1, <2>2 DEF FileRow, RowWaits
  <2>4. ASSUME NEW v \in Workers, At(v, "draft"), p \in wk[v].got
        PROVE  At(v, "draft")' /\ p \in wk'[v].got
    BY <1>3, <2>4 DEF At
  <2> QED  BY <1>3, <2>1, <2>3, <2>4 DEF FileRow, RowWaits
<1> QED  BY <1>1, <1>2, <1>3 DEF FilesOK

\* A worker that neither renders nor stores a draft, and takes no step to either.
LEMMA FilesQuiet ==
    ASSUME ClipInv, FilesOK, NEW w \in Workers, Others(w), ~At(w, "draft"), cut \subseteq cut',
           UNCHANGED <<files, camera>>, wk'[w].step \notin {"encode", "promote"},
           \A p \in Posts : RowWaits(p)
    PROVE  FilesOK'
<1>1. FileHand(w)'
  BY DEF FileHand, At
<1>2. \A v \in Workers : v # w => wk'[v] = wk[v]
  BY DEF Others
<1> QED  BY <1>1, <1>2, FilesOthers

LEMMA FilesStep ==
    ASSUME OneHostEach, ClipInv, FilesOK, Next
    PROVE  FilesOK'
<1>0. TypeOK /\ HandsOK /\ BookingOK /\ cut \subseteq cut'
  BY Grows DEF ClipInv
<1>1. ASSUME posts' = posts
      PROVE  \A p \in Posts : RowWaits(p)
  BY <1>1 DEF RowWaits
<1>2. ASSUME NEW w \in Workers, NEW j \in Jobs, Take(w, j)
      PROVE  FilesOK'
  <2>1. UNCHANGED <<posts, files, camera>> /\ ~At(w, "draft")
    BY <1>2 DEF Take, At
  <2>2. Others(w) /\ wk'[w].step = "begin"
    BY <1>0, <1>2, TakeDoes
  <2> QED  BY <1>0, <1>1, <2>1, <2>2, FilesQuiet
<1>3. ASSUME NEW w \in Workers, Record(w)
      PROVE  FilesOK'
  <2>1. UNCHANGED <<posts, files, camera>> /\ ~At(w, "draft")
    BY <1>3 DEF Record, At
  <2>2. Others(w) /\ wk'[w].step = "idle"
    BY <1>0, <1>3, RecordDoes, IdleIs
  <2> QED  BY <1>0, <1>1, <2>1, <2>2, FilesQuiet
<1>4. ASSUME NEW w \in Workers, Cut(w)
      PROVE  FilesOK'
  <2>1. UNCHANGED <<posts, files, camera>>
    BY <1>4 DEF Cut
  <2>2. Others(w) /\ wk'[w].step = "idle"
    BY <1>0, <1>4, CutDoes, IdleIs
  <2>3. CASE ~At(w, "draft")
    BY <1>0, <1>1, <2>1, <2>2, <2>3, FilesQuiet
  <2>4. CASE At(w, "draft")
    <3>1. PICK p \in Posts : wk[w].got = {p} /\ posts[p].state = "scheduled" /\ posts[p].clip = Of(w)
      BY <1>0, <2>4 DEF BookingOK, BookingHand, Selecting
    <3>2. Kind(w) = "select" /\ Of(w) \notin clips /\ p \in Booked(w)
      BY <1>0, <2>4, <3>1 DEF HandsOK, HandOK, BookingOK, BookingHand, Selecting, Booked
    <3>3. posts[p].clip \in cut'
      BY <1>4, <3>1, <3>2 DEF Cut
    <3>4. FileRow(p)'
      <4>1. FileRow(p)
        BY DEF FilesOK
      <4> QED  BY <2>1, <3>3, <4>1 DEF FileRow
    <3>5. FileHand(w)'
      BY <2>2 DEF FileHand, At
    <3>6. \A v \in Workers : v # w => wk'[v] = wk[v]
      BY <2>2 DEF Others
    <3>7. ASSUME NEW q \in Posts, q # p
          PROVE  RowWaits(q) /\ \A v \in Workers : At(v, "draft") /\ q \in wk[v].got => wk'[v] = wk[v]
      BY <1>1, <2>1, <3>1, <3>6, <3>7
    <3>8. \A v \in Workers : FileHand(v)' \/ (wk'[v] = wk[v] /\ camera'[HostOf[v]] = camera[HostOf[v]])
      BY <2>1, <3>5, <3>6
    <3> QED  BY <1>0, <2>1, <3>4, <3>7, <3>8, FilesOthers
  <2> QED  BY <2>3, <2>4
<1>5. ASSUME NEW w \in Workers, Select(w) \/ SaveClip(w) \/ Verify(w) \/ Ask(w)
      PROVE  FilesOK'
  <2>1. /\ Onward(w) /\ UNCHANGED <<posts, files, camera>> /\ ~At(w, "draft")
        /\ wk'[w].step \notin {"encode", "promote"}
    BY <1>0, <1>5, SelectDoes, SaveClipDoes, VerifyDoes, AskDoes DEF Returns, At
  <2> QED  BY <1>0, <1>1, <2>1, FilesQuiet DEF Onward
<1>6. ASSUME NEW w \in Workers, NEW a \in Accounts, Book(w, a)
      PROVE  FilesOK'
  <2>1. /\ Onward(w) /\ Works(w) /\ Kind(w) = "select" /\ UNCHANGED <<files, camera>> /\ At(w, "book")
        /\ wk'[w].step \notin {"encode", "promote"}
    BY <1>0, <1>6, BookDoes DEF Onward
  <2>2. CASE posts' = posts
    BY <1>0, <1>1, <2>1, <2>2, FilesQuiet DEF Onward, At
  <2>3. ASSUME NEW p \in Posts, posts[p].state = "absent", wk'[w].step = "draft", wk'[w].got = {p},
               posts' = [posts EXCEPT ![p] = Booking(Of(w), a)]
        PROVE  FilesOK'
    <3>1. /\ \A q \in Posts : q # p => posts'[q] = posts[q]
          /\ ~posts'[p].ready
      BY <1>0, <2>1, <2>3, BookRow
    <3>2. FileRow(p)'
      BY <2>3, <3>1 DEF FileRow, At
    <3>3. FileHand(w)'
      BY <2>3 DEF FileHand, At
    <3>4. \A v \in Workers : v # w => wk'[v] = wk[v]
      BY <2>1 DEF Onward, Others
    <3>5. \A q \in Posts : q # p =>
            RowWaits(q) /\ \A v \in Workers : At(v, "draft") /\ q \in wk[v].got => wk'[v] = wk[v]
      BY <2>1, <3>1, <3>4 DEF RowWaits, At
    <3> QED  BY <1>0, <2>1, <3>2, <3>3, <3>4, <3>5, FilesOthers
  <2> QED  BY <1>0, <1>6, <2>2, <2>3, BookDoes
<1>7. ASSUME NEW w \in Workers, StoreDraft(w)
      PROVE  FilesOK'
  <2>1. /\ Onward(w) /\ UNCHANGED <<files, camera>> /\ At(w, "draft") /\ wk'[w].step = "book"
    BY <1>0, <1>7, StoreDraftDoes
  <2>2. PICK p \in Posts : /\ wk[w].got = {p} /\ posts'[p].state = "draft" /\ ~posts'[p].ready
                           /\ \A q \in Posts : q # p => posts'[q] = posts[q]
    BY <1>0, <1>7, DraftRow
  <2>3. FileRow(p)' /\ FileHand(w)'
    BY <2>1, <2>2 DEF FileRow, FileHand, At
  <2>4. \A v \in Workers : v # w => wk'[v] = wk[v]
    BY <2>1 DEF Onward, Others
  <2>5. \A q \in Posts : q # p =>
            RowWaits(q) /\ \A v \in Workers : At(v, "draft") /\ q \in wk[v].got => wk'[v] = wk[v]
    BY <2>1, <2>2, <2>4 DEF RowWaits
  <2> QED  BY <1>0, <2>1, <2>3, <2>4, <2>5, FilesOthers
<1>8. ASSUME NEW w \in Workers, WriteCamera(w)
      PROVE  FilesOK'
  <2>1. /\ Onward(w) /\ UNCHANGED <<posts, files>> /\ At(w, "begin") /\ Of(w) \in Sources
        /\ wk'[w].job = wk[w].job
        /\ \/ wk'[w].step = "record" /\ UNCHANGED camera
           \/ wk'[w].step = "encode" /\ camera' = [camera EXCEPT ![HostOf[w]] = Of(w)]
    BY <1>0, <1>8, WriteCameraDoes DEF Returns, Onward
  <2>2. camera \in [{HostOf[v] : v \in Workers} -> Sources \union {NoSource}]
    BY <1>0 DEF TypeOK
  <2>3. FileHand(w)'
    BY <2>1, <2>2 DEF FileHand, At, Of
  <2>4. ASSUME NEW v \in Workers, v # w
        PROVE  wk'[v] = wk[v] /\ camera'[HostOf[v]] = camera[HostOf[v]]
    <3>1. HostOf[v] # HostOf[w]
      BY <2>4 DEF OneHostEach
    <3> QED  BY <2>1, <2>2, <2>4, <3>1 DEF Onward, Others
  <2>5. \A q \in Posts :
            RowWaits(q) /\ \A v \in Workers : At(v, "draft") /\ q \in wk[v].got => wk'[v] = wk[v]
    BY <1>1, <2>1, <2>4 DEF At
  <2> QED  BY <1>0, <2>1, <2>3, <2>4, <2>5, FilesOthers
<1>9. ASSUME NEW w \in Workers, Encode(w)
      PROVE  FilesOK'
  <2>1. /\ Onward(w) /\ UNCHANGED <<posts, camera>> /\ At(w, "encode") /\ Of(w) \in Sources
        /\ wk'[w].job = wk[w].job
        /\ \/ wk'[w].step = "record" /\ UNCHANGED files
           \/ wk'[w].step = "promote" /\ files' = [files EXCEPT ![Of(w)] = camera[HostOf[w]]]
    BY <1>0, <1>9, EncodeDoes DEF Returns, Onward
  <2>2. camera[HostOf[w]] = Of(w) /\ files \in [Sources -> Sources \union {NoSource}]
    BY <1>0, <2>1 DEF FilesOK, FileHand, TypeOK
  <2>3. FileHand(w)' /\ \A c \in Sources : files'[c] \in {files[c], c}
    BY <2>1, <2>2 DEF FileHand, At, Of
  <2>4. \A v \in Workers : v # w => wk'[v] = wk[v]
    BY <2>1 DEF Onward, Others
  <2>5. \A q \in Posts :
            RowWaits(q) /\ \A v \in Workers : At(v, "draft") /\ q \in wk[v].got => wk'[v] = wk[v]
    BY <1>1, <2>1, <2>4 DEF At
  <2> QED  BY <1>0, <2>1, <2>3, <2>4, <2>5, FilesOthers
<1>10. ASSUME NEW w \in Workers, Promote(w)
       PROVE  FilesOK'
  <2>1. /\ Onward(w) /\ UNCHANGED <<files, camera>> /\ At(w, "promote") /\ wk'[w].step = "record"
        /\ \A p \in Posts : p \notin Waiting(Of(w)) => posts'[p] = posts[p]
        /\ \A p \in Waiting(Of(w)) : posts'[p].ready /\ posts'[p].clip = posts[p].clip
    BY <1>0, <1>10, PromoteDoes DEF Returns
  <2>2. files[Of(w)] = Of(w)
    BY <2>1 DEF FilesOK, FileHand
  <2>3. \A p \in Waiting(Of(w)) : FileRow(p)'
    BY <2>1, <2>2 DEF Waiting, FileRow
  <2>4. \A v \in Workers : v # w => wk'[v] = wk[v]
    BY <2>1 DEF Onward, Others
  <2>5. \A q \in Posts : q \notin Waiting(Of(w)) =>
            RowWaits(q) /\ \A v \in Workers : At(v, "draft") /\ q \in wk[v].got => wk'[v] = wk[v]
    BY <2>1, <2>4 DEF RowWaits, At
  <2>6. FileHand(w)'
    BY <2>1 DEF FileHand, At
  <2> QED  BY <1>0, <2>1, <2>3, <2>4, <2>5, <2>6, FilesOthers
<1>11. ASSUME NEW w \in Workers, Pass(w)
       PROVE  FilesOK'
  <2>1. /\ Onward(w) /\ UNCHANGED <<files, camera>> /\ ~At(w, "draft")
        /\ wk'[w].step \notin {"encode", "promote"}
    BY <1>0, <1>11, PassDoes DEF Returns, At
  <2>2. \A p \in Posts : RowWaits(p)
    BY <1>0, <1>1, <1>11, PassDoes DEF RowWaits, Due
  <2> QED  BY <1>0, <2>1, <2>2, FilesQuiet DEF Onward
<1>12. ASSUME NEW w \in Workers, NEW p \in Posts, Deliver(w, p)
       PROVE  FilesOK'
  <2>1. /\ Onward(w) /\ UNCHANGED <<files, camera>> /\ ~At(w, "draft") /\ p \in wk[w].todo
        /\ wk'[w].step \notin {"encode", "promote"}
        /\ \A q \in Posts : q # p => posts'[q] = posts[q]
        /\ posts'[p].clip = posts[p].clip /\ posts'[p].ready = posts[p].ready
    BY <1>0, <1>12, DeliverDoes DEF At
  <2>2. posts[p].state = "claimed"
    BY <2>1 DEF ClipInv, PassesOK, PassHand
  <2>3. \A q \in Posts : RowWaits(q)
    BY <2>1, <2>2 DEF RowWaits
  <2> QED  BY <1>0, <2>1, <2>3, FilesQuiet DEF Onward
<1>13. ASSUME NEW w \in Workers, TakeBack(w)
       PROVE  FilesOK'
  <2>1. /\ Onward(w) /\ UNCHANGED <<files, camera>> /\ At(w, "take back") /\ Of(w) \in Posts
        /\ wk'[w].step = "record"
        /\ \A q \in Posts : q # Of(w) => posts'[q] = posts[q]
        /\ posts'[Of(w)].clip = posts[Of(w)].clip /\ posts'[Of(w)].ready = posts[Of(w)].ready
    BY <1>0, <1>13, TakeBackDoes DEF Returns
  <2>2. posts[Of(w)].state = "published"
    BY <2>1 DEF ClipInv, VerifyOK, VerifyHand
  <2>3. RowWaits(Of(w)) /\ \A q \in Posts : q # Of(w) => RowWaits(q)
    BY <2>1, <2>2 DEF RowWaits
  <2> QED  BY <1>0, <2>1, <2>3, FilesQuiet DEF Onward, At
<1>14. ASSUME UNCHANGED <<wk, files, camera>>, \A p \in Posts : RowWaits(p)
       PROVE  FilesOK'
  BY <1>0, <1>14, FilesOthers
<1>15. ASSUME NEW p \in Posts, Arrive(p)
       PROVE  FilesOK'
  <2>1. \A q \in Posts : RowWaits(q)
    BY <1>0, <1>15, ArriveDoes DEF RowWaits
  <2> QED  BY <1>0, <1>14, <1>15, <2>1, ArriveDoes
<1>16. ASSUME NEW p \in Posts, RetryUpload(p)
       PROVE  FilesOK'
  <2>1. \A q \in Posts : RowWaits(q)
    BY <1>0, <1>16, RetryUploadDoes DEF RowWaits
  <2> QED  BY <1>0, <1>14, <1>16, <2>1, RetryUploadDoes
<1>17. CASE \E p \in Posts, n \in 1..MaxUploads : Judge(p, n)
  BY <1>1, <1>14, <1>17 DEF Judge
<1> QED  BY <1>2, <1>3, <1>4, <1>5, <1>6, <1>7, <1>8, <1>9, <1>10, <1>11, <1>12, <1>13,
            <1>15, <1>16, <1>17 DEF Next

-----------------------------------------------------------------------------
(* From the start, and always.                                             *)

LEMMA InitClipInv ==
    ASSUME Init
    PROVE  ClipInv /\ FilesOK
<1> DEFINE base == Booking(NoSource, CHOOSE a \in Accounts : TRUE)
           absent == [base EXCEPT !.state = "absent"]
<1>1. base \in Rows /\ ~base.ready /\ ~base.back /\ ~base.arrived /\ ~base.retried
  BY DEF Booking, Rows, PostStates
<1>2. posts = [p \in Posts |-> absent]
  BY DEF Init
<1> HIDE DEF base
<1>3. "absent" \in PostStates
  BY DEF PostStates
<1>4. absent \in Rows /\ absent.state = "absent" /\ ~absent.ready /\ ~absent.back
  BY <1>1, <1>3, RowIs
<1> HIDE DEF absent
<1>5. posts \in [Posts -> Rows]
      /\ \A p \in Posts : posts[p].state = "absent" /\ ~posts[p].ready /\ ~posts[p].back
  BY <1>2, <1>4
<1>6. wk \in [Workers -> Handlers]
      /\ \A w \in Workers : /\ ~Works(w) /\ At(w, "idle") /\ wk[w].todo = {} /\ wk[w].got = {}
  BY IdleIs DEF Init, Works, At
<1>7. /\ jobs \in [Jobs -> JobStates]
      /\ \A c \in Sources : jobs[<<"render", c>>] = "none" /\ jobs[<<"select", c>>] = "queued"
      /\ \A p \in Posts : jobs[<<"publish", p>>] = "none" /\ jobs[<<"verify again", p>>] = "none"
  BY JobShapes DEF Init, JobStates
<1>8. TypeOK
  <2>1. budget \in [cuts : 0..MaxCuts, retries : 0..MaxRetries]
    BY DEF Init
  <2> QED  BY <1>5, <1>6, <1>7, <2>1 DEF Init, TypeOK
<1>9. HandsOK /\ BookingOK
  BY <1>6 DEF HandsOK, HandOK, BookingOK, BookingHand, Selecting, At
<1>10. BookedBySelection /\ OncePerAccount /\ DeliveredIsVerified
  BY <1>5 DEF BookedBySelection, OncePerAccount, DeliveredIsVerified
<1>11. RenderChained /\ PublishChained
  BY <1>5, <1>6, <1>7 DEF Init, RenderChained, RenderHand, PublishChained, PublishHand, PublishRow, At
<1>12. PassesOK /\ VerifyOK
  BY <1>5, <1>6, <1>7 DEF PassesOK, PassHand, VerifyOK, VerifyRow, VerifyHand, At
<1>13. FilesOK
  BY <1>5, <1>6 DEF Init, FilesOK, FileHand, FileRow, At
<1> QED  BY <1>8, <1>9, <1>10, <1>11, <1>12, <1>13 DEF ClipInv

LEMMA ClipInvStep ==
    ASSUME ClipInv, [Next]_vars
    PROVE  ClipInv'
<1>1. CASE Next
  BY <1>1, TypesStep, HandsStep, BookingStep, BookedStep, OnceStep, RenderStep, PublishStep,
     PassesStep, VerifyStep, DeliveredStep DEF ClipInv
<1>2. CASE UNCHANGED vars
  <2>1. TypeOK' /\ HandsOK' /\ BookingOK' /\ BookedBySelection' /\ OncePerAccount'
    BY <1>2 DEF vars, ClipInv, TypeOK, HandsOK, HandOK, Works, BookingOK, BookingHand, Selecting, At,
                Kind, Of, BookedBySelection, OncePerAccount
  <2>2. RenderChained' /\ PublishChained'
    BY <1>2 DEF vars, ClipInv, RenderChained, RenderHand, PublishChained, PublishHand, PublishRow,
                LetGo, Fresh, At, Kind, Of
  <2>3. PassesOK' /\ VerifyOK' /\ DeliveredIsVerified'
    BY <1>2 DEF vars, ClipInv, PassesOK, PassHand, VerifyOK, VerifyRow, VerifyHand,
                DeliveredIsVerified, At, Kind, Of
  <2> QED  BY <2>1, <2>2, <2>3 DEF ClipInv
<1> QED  BY <1>1, <1>2

\* The whole invariant, at every moment of every run of selection.py,
\* handlers.py and verify.py over one channel.
THEOREM Invariant == Spec => []ClipInv
<1>1. Init => ClipInv
  BY InitClipInv
<1>2. ClipInv /\ [Next]_vars => ClipInv'
  BY ClipInvStep
<1> QED  BY <1>1, <1>2, PTL DEF Spec

\* Jobs, rows, files and handlers keep the shapes the code gives them: a state
\* of chain.py's rows, of a ScheduledPost, of a handler between two transactions.
THEOREM TypeCorrect == Spec => []TypeOK
<1>1. ClipInv => TypeOK
  BY DEF ClipInv
<1> QED  BY <1>1, Invariant, PTL

\* selection_handler books an account once for a clip (selection.py, "Running it
\* twice does nothing twice"), but for a run cut off between its bookings.
THEOREM BookedOnce == Spec => []OncePerAccount
<1>1. ClipInv => OncePerAccount
  BY DEF ClipInv
<1> QED  BY <1>1, Invariant, PTL

\* What publish_handler delivers has a verification chained, is in the hands of
\* the pass that delivered it, or was missed by a pass cut off before recording.
THEOREM Verified == Spec => []DeliveredIsVerified
<1>1. ClipInv => DeliveredIsVerified
  BY DEF ClipInv
<1> QED  BY <1>1, Invariant, PTL

\* verification_handler takes back only what the platform refused: between its
\* answer and the second transaction no other verification moves the row.
THEOREM TakenBack == Spec => []TakenBackIsGone
<1>1. ClipInv => TakenBackIsGone
  BY DEF ClipInv, VerifyOK, VerifyRow, TakenBackIsGone
<1> QED  BY <1>1, Invariant, PTL

\* A draft has a live selection or render that will let it go, or a dead one an
\* operator sees; _promote_uploads leaves none of a rendered clip behind.
THEOREM DraftsWait == Spec => []DraftWaits
<1>1. ASSUME ClipInv, NEW p \in Posts, posts[p].state = "draft"
      PROVE  \/ \E kind \in {"select", "render"} :
                    LET j == <<kind, posts[p].clip>> IN Open(j) \/ jobs[j] = "dead"
             \/ posts[p].clip \in cut \ clips
  <2> DEFINE c == posts[p].clip
  <2>1. /\ c \in Sources
        /\ \/ c \in clips \union cut
           \/ \E w \in Workers : Selecting(w) /\ Of(w) = c
    BY <1>1 DEF ClipInv, BookedBySelection
  <2>2. <<"select", c>> \in Jobs /\ <<"render", c>> \in Jobs /\ jobs \in [Jobs -> JobStates]
    BY <1>1, <2>1, JobShapes DEF ClipInv, TypeOK
  <2>3. CASE c \in clips
    <3>1. CASE jobs[<<"render", c>>] = "none"
      BY <1>1, <2>1, <2>3, <3>1 DEF ClipInv, RenderChained, Open
    <3>2. CASE jobs[<<"render", c>>] = "done"
      BY <1>1, <2>1, <3>2 DEF ClipInv, PublishChained, LetGo
    <3> QED  BY <2>2, <3>1, <3>2 DEF JobStates, Open
  <2>4. CASE c \notin clips /\ c \notin cut
    <3>1. PICK w \in Workers : Selecting(w) /\ Of(w) = c
      BY <2>1, <2>4
    <3>2. Works(w) /\ Kind(w) = "select"
      BY <1>1, <3>1 DEF ClipInv, HandsOK, HandOK, Selecting, Works, At
    <3>3. jobs[<<"select", c>>] = "running"
      BY <1>1, <3>1, <3>2, InHand DEF ClipInv
    <3> QED  BY <3>3 DEF Open
  <2> QED  BY <2>3, <2>4
<1>2. ClipInv => DraftWaits
  BY <1>1 DEF DraftWaits
<1> QED  BY <1>2, Invariant, PTL

\* A post that _promote_uploads let go has its publish job until a pass has seen
\* it due: render_handler names the jobs with the rows it lets go.
THEOREM LetGoQueued == Spec => []LetGoIsQueued
<1>1. ASSUME ClipInv, NEW p \in Posts,
             posts[p].state = "scheduled", posts[p].ready, ~posts[p].retried
      PROVE  LET render == <<"render", posts[p].clip>>
                 publish == <<"publish", p>> IN
             \/ Open(render) \/ jobs[render] = "dead"
             \/ Open(publish) \/ jobs[publish] = "dead"
  <2> DEFINE c == posts[p].clip
  <2>1. c \in Sources /\ Fresh(p)
    BY <1>1 DEF ClipInv, BookedBySelection, Fresh
  <2>2. <<"render", c>> \in Jobs /\ <<"publish", p>> \in Jobs /\ jobs \in [Jobs -> JobStates]
    BY <1>1, <2>1, JobShapes DEF ClipInv, TypeOK
  <2>3. PublishRow(p)
    BY <1>1 DEF ClipInv, PublishChained
  <2>4. jobs[<<"render", c>>] # "none" /\ jobs[<<"publish", p>>] # "done"
    BY <1>1, <2>1, <2>3 DEF PublishRow
  <2>5. jobs[<<"render", c>>] = "done" => jobs[<<"publish", p>>] # "none"
    BY <1>1, <2>1 DEF ClipInv, PublishChained, LetGo
  <2> QED  BY <2>2, <2>4, <2>5 DEF JobStates, Open
<1>2. ClipInv => LetGoIsQueued
  BY <1>1 DEF LetGoIsQueued
<1> QED  BY <1>2, Invariant, PTL

\* With a host for each worker, what a publisher holds or has sent has a file
\* that render/engine.py cut along the clip's own camera path.  Workers that
\* share a host share camera.cmd, and it is false (README, section 6).
THEOREM RenderedBefore ==
    ASSUME OneHostEach
    PROVE  Spec => []RenderedFirst
<1>1. Init => ClipInv /\ FilesOK
  BY InitClipInv
<1>2. ClipInv /\ FilesOK /\ [Next]_vars => ClipInv' /\ FilesOK'
  <2>1. ASSUME ClipInv, FilesOK, UNCHANGED vars
        PROVE  FilesOK'
    BY <2>1 DEF vars, FilesOK, FileHand, FileRow, At, Of
  <2> QED  BY <2>1, ClipInvStep, FilesStep
<1>3. ASSUME ClipInv, FilesOK
      PROVE  RenderedFirst
  <2>1. ASSUME NEW p \in Posts, posts[p].state \in {"claimed", "retrying", "published"}
        PROVE  \/ posts[p].ready /\ files[posts[p].clip] = posts[p].clip
               \/ posts[p].clip \in cut
    <3>1. FileRow(p)
      BY <1>3 DEF FilesOK
    <3>2. \A w \in Workers : At(w, "draft") /\ p \in wk[w].got => posts[p].state = "scheduled"
      BY <1>3 DEF ClipInv, BookingOK, BookingHand, Selecting
    <3> QED  BY <2>1, <3>1, <3>2 DEF FileRow
  <2> QED  BY <2>1 DEF RenderedFirst
<1> QED  BY <1>1, <1>2, <1>3, PTL DEF Spec
=============================================================================
