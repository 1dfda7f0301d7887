------------------------------- MODULE Upload -------------------------------
(* One post on its way to a platform: the three upload protocols of          *)
(* publish/adapters.py, driven request by request by engine._run_post, over  *)
(* a network that loses replies and platforms that are slow, refuse, or      *)
(* answer with errors.  An attempt is one run of the loop; a post that comes  *)
(* back later is begun anew.  Publishing models what happens around a run    *)
(* (claims, rows, crashes); here the run itself is taken apart.              *)
(* Files are counted in units: 256 KiB is one granule of Google's.           *)
EXTENDS Integers, FiniteSets

CONSTANTS
    Kinds,          \* "youtube", "tiktok", "draft" (TikTok, not audited), "instagram"
    Sizes,          \* sizes of a file, in units
    Granule,        \* GOOGLE_CHUNK_MULTIPLE
    GoogleChunk,    \* google_chunk_size()
    MinChunk,       \* TIKTOK_MIN_CHUNK
    MaxChunk,       \* TIKTOK_MAX_CHUNK
    MaxChunks,      \* TIKTOK_MAX_CHUNKS
    MaxPolls,       \* polls an adapter makes before it gives up
    MaxRequests,    \* max_requests of run_post
    MaxAttempts     \* MAX_ATTEMPTS of retry.py

ASSUME UploadAssumption ==
    /\ Kinds \subseteq {"youtube", "tiktok", "draft", "instagram"}
    /\ Sizes \subseteq 1..(MaxChunk * MaxChunks)
    /\ Granule \in Nat \ {0} /\ GoogleChunk \in Nat \ {0}
    /\ GoogleChunk % Granule = 0
    /\ MinChunk \in Nat \ {0} /\ MaxChunk \in Nat /\ MinChunk <= MaxChunk
    /\ MaxChunks \in Nat \ {0}
    /\ MaxPolls \in Nat /\ MaxRequests \in Nat \ {0} /\ MaxAttempts \in Nat \ {0}

VARIABLES
    kind,       \* the platform of the post, with or without its audit
    size,       \* the size of its file
    post,       \* state, attempts, disposition, and how the attempt ended
    run,        \* the loop: the adapter's context and the request on the wire
    remote,     \* what the platform holds of this attempt
    healthy     \* nothing has gone wrong on the wire or at the platform

vars == <<kind, size, post, run, remote, healthy>>

Lesser(a, b) == IF a < b THEN a ELSE b
Units == 0..(size - 1)

-----------------------------------------------------------------------------
(* What is sent *)

\* The sizes the loop goes through: doubled from the least, up to the largest.
ChunkSizes ==
    {c \in MinChunk..MaxChunk : c = MaxChunk \/ \E k \in 0..MaxChunk : c = MinChunk * 2 ^ k}

(* tiktok_chunking: the size of a chunk and how many of them *)
ChunkSize ==
    IF size <= MinChunk THEN size
    ELSE CHOOSE c \in ChunkSizes :
            /\ c = MaxChunk \/ size <= c * MaxChunks
            /\ \A d \in ChunkSizes : d < c => size > d * MaxChunks

(* A buggy variant: a short chunk of its own for the remainder *)
ChunkCountCeil ==
    IF size <= MinChunk THEN 1 ELSE (size + ChunkSize - 1) \div ChunkSize

ChunkCount == IF size <= MinChunk THEN 1
              ELSE LET n == size \div ChunkSize IN IF n = 0 THEN 1 ELSE n

NoRun == [phase |-> "idle", ask |-> "none", from |-> 0, to |-> -1, offset |-> 0,
          index |-> 0, polls |-> 0, requests |-> 0, inFlight |-> FALSE]

(* YouTubeAdapter._chunk: the next bytes, or a question when all are sent *)
GoogleAsk(r) ==
    IF r.offset >= size
    THEN [r EXCEPT !.phase = "upload", !.ask = "query"]
    ELSE LET end == Lesser(r.offset + GoogleChunk, size) - 1
         IN  [r EXCEPT !.phase = "upload", !.ask = "bytes", !.from = r.offset,
                       !.to = end, !.offset = end + 1]

(* where the index-th chunk of a TikTok upload ends *)
ChunkEnd(index) ==
    IF index = ChunkCount - 1 THEN size - 1
    ELSE Lesser((index + 1) * ChunkSize, size) - 1

(* TikTokAdapter._chunk *)
TikTokAsk(r) ==
    [r EXCEPT !.phase = "upload", !.ask = "bytes", !.from = r.index * ChunkSize,
              !.to = ChunkEnd(r.index), !.index = r.index + 1]

Poll(r) == [r EXCEPT !.phase = "poll", !.ask = "poll", !.inFlight = TRUE]

-----------------------------------------------------------------------------
(* The platforms, as the adapters and their comments rely on them *)

NoRemote == [got |-> {}, chunks |-> 0, job |-> "open"]

(* a chunk the platform rejects: undersized in an upload of several, too     *)
(* many, or not a multiple of the granule                                     *)
Undersized(r) ==
    LET length == r.to - r.from + 1 IN
    CASE kind = "youtube" -> length % Granule # 0 /\ r.to # size - 1
      [] OTHER -> (ChunkCount > 1 /\ length < MinChunk) \/ ChunkCount > MaxChunks

(* the parts of the bytes sent that may have arrived: Google keeps whole      *)
(* granules of a request cut short, TikTok whole chunks                       *)
Arrivals(r) ==
    IF kind = "youtube"
    THEN {r.from..k : k \in {k \in (r.from - 1)..r.to : k = r.to \/ (k + 1) % Granule = 0}}
    ELSE {r.from..r.to}

(* what the platform may make of a request that reached it *)
Acted(r) ==
    CASE r.ask = "bytes" /\ ~Undersized(r) ->
            LET Kept(a) == [remote EXCEPT !.got = @ \union a, !.chunks = @ + 1]
                Done(m) ==
                    IF kind = "youtube" /\ size - 1 \in m.got
                    THEN [m EXCEPT !.job = "live"]
                    ELSE IF kind # "youtube" /\ m.chunks = ChunkCount
                    THEN [m EXCEPT !.job = "processing"] ELSE m
            IN {Done(Kept(a)) : a \in Arrivals(r)}
      [] r.ask = "open" /\ kind = "instagram" -> {[remote EXCEPT !.job = "processing"]}
      [] r.ask = "publish" -> {[remote EXCEPT !.job = IF @ = "ready" THEN "live" ELSE @]}
      [] OTHER -> {remote}

(* the Range header of a 308: the bytes held without a gap *)
Confirmed(m) == CHOOSE n \in 0..size : n \notin m.got /\ 0..(n - 1) \subseteq m.got

(* processing goes on whether anybody asks or not, and may fail; a container *)
(* that waits is discarded in time                                            *)
Process ==
    /\ \/ /\ remote.job = "processing"
          /\ \/ /\ remote' = [remote EXCEPT !.job = IF kind = "instagram" THEN "ready" ELSE "live"]
                /\ UNCHANGED healthy
             \/ remote' = [remote EXCEPT !.job = "dead"] /\ healthy' = FALSE
       \/ /\ kind = "instagram" /\ remote.job = "ready"
          /\ remote' = [remote EXCEPT !.job = "dead"] /\ healthy' = FALSE
    /\ UNCHANGED <<kind, size, post, run>>

-----------------------------------------------------------------------------
(* The end of an attempt *)

(* classify: what to do about a failure, by how the attempt ended *)
Disposition(end, inFlight) ==
    CASE end = "timeout" -> IF inFlight THEN "reconcile" ELSE "retry"
      [] end \in {"unreached", "lost"} -> "retry"
      [] end = "unauthorized" -> "reauth"
      [] end = "rate_limited" -> "reschedule"
      [] end \in {"forbidden", "rejected"} -> "fail"
      [] end = "conflict" -> "reconcile"
      [] end = "server_error" -> IF inFlight THEN "reconcile" ELSE "retry"
      [] end = "not_now" -> "retry"

(* _handle_failure *)
HandleFailure(end, inFlight) ==
    LET d == Disposition(end, inFlight) IN
    /\ post' = [post EXCEPT
                  !.state = IF d = "reauth" THEN "needs_attention"
                            ELSE IF d = "fail" \/ post.attempts >= MaxAttempts THEN "failed"
                            ELSE "retrying",
                  !.disposition = d, !.end = end]
    /\ run' = NoRun

(* _escalate *)
Escalate(end) ==
    /\ post' = [post EXCEPT !.state = "needs_attention", !.end = end]
    /\ run' = NoRun

(* Action.DONE *)
Deliver ==
    /\ post' = [post EXCEPT !.state = IF kind = "draft" THEN "awaiting_creator" ELSE "published",
                            !.end = "done"]
    /\ run' = NoRun

-----------------------------------------------------------------------------
(* Beginning *)

(* Adapter.begin: a new attempt opens a new session; what an earlier one left *)
(* on the platform is not asked for                                           *)
Begin ==
    /\ run = NoRun /\ post.state \in {"scheduled", "retrying"}
    /\ post' = [post EXCEPT !.state = "uploading", !.attempts = @ + 1, !.end = "none"]
    /\ run' = [NoRun EXCEPT !.phase = "init", !.ask = "open"]
    /\ remote' = NoRemote
    /\ UNCHANGED <<kind, size, healthy>>

(* no credentials, or none that can be renewed *)
NoCredentials ==
    /\ run = NoRun /\ post.state \in {"scheduled", "retrying"}
    /\ Escalate("no_credentials") /\ healthy' = FALSE
    /\ UNCHANGED <<kind, size, remote>>

(* Instagram fetches the file itself and there is no address to fetch it from *)
NoPublicUrl ==
    /\ kind = "instagram" /\ run = NoRun /\ post.state \in {"scheduled", "retrying"}
    /\ post' = [post EXCEPT !.state = "failed", !.attempts = @ + 1,
                            !.disposition = "fail", !.end = "rejected"]
    /\ healthy' = FALSE
    /\ UNCHANGED <<kind, size, run, remote>>

-----------------------------------------------------------------------------
(* One exchange *)

(* A buggy variant: resume from what was sent, not from what was confirmed *)
YouTubeTrusting(r, m) == GoogleAsk(r)

(* Adapter.advance on a reply that answers the request: the next request *)
YouTubeNext(r, m) ==
    IF r.phase = "init" THEN GoogleAsk(r)
    ELSE GoogleAsk([r EXCEPT !.offset = Confirmed(m)])

TikTokNext(r) ==
    IF r.index < ChunkCount THEN TikTokAsk(r) ELSE Poll(r)

StepAfter(r, m) ==
    CASE kind = "youtube" -> YouTubeNext(r, m)
      [] kind \in {"tiktok", "draft"} /\ r.phase # "poll" -> TikTokNext(r)
      [] kind = "instagram" /\ r.phase = "init" -> Poll(r)
      [] kind = "instagram" /\ m.job = "ready" ->
            [r EXCEPT !.phase = "publish", !.ask = "publish"]
      [] OTHER -> Poll([r EXCEPT !.polls = @ + 1])

(* the reply says the post exists *)
Succeeded(r, m) ==
    m.job = "live" /\ (r.ask \in {"poll", "publish"} \/ (kind = "youtube" /\ r.ask # "open"))

(* the reply refuses what was asked, by its status *)
Refused(r, m) ==
    \/ r.ask = "bytes" /\ Undersized(r)
    \/ r.ask = "publish" /\ m.job # "live"

(* a poll says that processing failed, or was one too many *)
PolledOut(r, m) ==
    r.ask = "poll" /\ (m.job = "dead" \/ (m.job \notin {"ready", "live"} /\ r.polls >= MaxPolls))

(* A buggy variant: only a poll says that the platform has been asked *)
CountedOnly(r) == [r EXCEPT !.requests = @ + 1]

(* any reply that is no error is counted and tells that the platform has been *)
(* asked to create something                                                   *)
Counted(r) == [r EXCEPT !.requests = @ + 1, !.inFlight = TRUE]

(* The request arrives, the platform acts and its answer comes back.  The     *)
(* bound on requests is looked at before the answer's meaning is.             *)
Answered ==
    /\ run # NoRun
    /\ \E m \in Acted(run) :
         LET r == Counted(run) IN
         /\ remote' = m
         /\ CASE Refused(run, m) -> HandleFailure("rejected", run.inFlight)
              [] ~Refused(run, m) /\ r.requests >= MaxRequests -> Escalate("too_many_requests")
              [] OTHER ->
                   CASE Succeeded(run, m) -> Deliver
                     [] PolledOut(run, m) ->
                          \E end \in {"rejected", "rate_limited"} :
                             /\ end = "rate_limited" => m.job = "dead" /\ kind # "instagram"
                             /\ HandleFailure(end, TRUE)
                     [] OTHER ->
                          /\ run' = StepAfter(r, m)
                          /\ post' = [post EXCEPT !.state =
                                        IF run'.ask = "poll" THEN "processing" ELSE @]
    /\ UNCHANGED <<kind, size, healthy>>

(* no connection could be made, after the transport's own tries, or the file  *)
(* is gone: nothing was sent                                                  *)
Unreached ==
    /\ run # NoRun /\ healthy' = FALSE
    /\ HandleFailure("unreached", run.inFlight)
    /\ UNCHANGED <<kind, size, remote>>

(* the reply times out, or is cut off, with or without the platform's having  *)
(* acted, or the platform answers that it broke                               *)
Unheard ==
    /\ run # NoRun /\ healthy' = FALSE
    /\ remote' \in Acted(run) \union {remote}
    /\ \E end \in {"timeout", "lost", "server_error"} : HandleFailure(end, run.inFlight)
    /\ UNCHANGED <<kind, size>>

(* the platform turns the request down *)
TurnedDown ==
    /\ run # NoRun /\ healthy' = FALSE
    /\ \E end \in {"unauthorized", "rate_limited", "forbidden", "rejected", "conflict", "not_now"} :
          HandleFailure(end, run.inFlight)
    /\ UNCHANGED <<kind, size, remote>>

(* the answer lacks the session, the container or the video it should name *)
Garbled ==
    /\ run # NoRun /\ run.ask # "poll" /\ healthy' = FALSE
    /\ remote' \in Acted(run)
    /\ HandleFailure("rejected", TRUE)
    /\ UNCHANGED <<kind, size>>

-----------------------------------------------------------------------------
Init ==
    /\ kind \in Kinds
    /\ size \in Sizes
    /\ post = [state |-> "scheduled", attempts |-> 0, disposition |-> "none", end |-> "none"]
    /\ run = NoRun
    /\ remote = NoRemote
    /\ healthy = TRUE

Next ==
    \/ Begin \/ NoCredentials \/ NoPublicUrl
    \/ Answered \/ Unreached \/ Unheard \/ TurnedDown \/ Garbled
    \/ Process

Spec == Init /\ [][Next]_vars

-----------------------------------------------------------------------------
(* Properties *)

PostStates == {"scheduled", "uploading", "processing", "retrying", "published",
               "awaiting_creator", "failed", "needs_attention"}

(* Types: everything an upload keeps. *)
TypeOK ==
    /\ kind \in Kinds /\ size \in Sizes
    /\ post.state \in PostStates /\ post.attempts \in 0..MaxAttempts
    /\ run.polls \in 0..MaxPolls /\ run.requests \in 0..MaxRequests
    /\ run.offset \in 0..size /\ run.index \in Nat
    /\ remote.got \subseteq Units
    /\ remote.job \in {"open", "processing", "ready", "live", "dead"}
    /\ healthy \in BOOLEAN

(* A post recorded delivered exists on the platform, and the platform holds    *)
(* every byte of the file: resumed from what the platform confirmed, not from  *)
(* what was sent (adapters.py:214-220), and cut into chunks that tile it.      *)
DeliveredIsWhole ==
    post.state \in {"published", "awaiting_creator"} =>
        remote.job = "live" /\ (kind # "instagram" => remote.got = Units)

(* An upload that nothing went wrong with ends delivered, unless the adapter   *)
(* ran out of polls or the engine out of requests: no chunk is refused for its *)
(* size, no resume goes astray, no protocol stops half-way.                    *)
HealthyIsDelivered ==
    healthy /\ post.state \in {"retrying", "failed", "needs_attention"} =>
        \/ post.end = "too_many_requests"
        \/ remote.job \in {"processing", "ready", "live"} /\ kind # "youtube" /\ post.end = "rejected"

(* A post that comes back after a timeout or a platform error, while the       *)
(* platform has all it needs to make the video, is marked for reconciliation   *)
(* and not for a plain retry (retry.py:160-176, 252-266).                      *)
AmbiguousIsReconciled ==
    post.state = "retrying" /\ post.end \in {"timeout", "server_error"}
        /\ (remote.job = "live" \/ (kind # "instagram" /\ remote.job = "processing"))
    => post.disposition = "reconcile"
=============================================================================
