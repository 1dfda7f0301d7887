---------------------------- MODULE UploadProofs ----------------------------
(***************************************************************************)
(* Proofs about Upload, for files of every size and any sizes and numbers  *)
(* of chunks, polls, requests and attempts.                                *)
(***************************************************************************)
EXTENDS Upload, WellFoundedInduction, TLAPS

TikToks == {"tiktok", "draft"}

LEMMA Products ==
    ASSUME NEW a \in Nat, NEW b \in Nat, NEW c \in Nat, a <= b
    PROVE  a * c <= b * c /\ a * c \in Nat /\ b * c \in Nat
<1>1. PICK d \in Nat : b = a + d
  <2>1. b - a \in Nat /\ b = a + (b - a)
    OBVIOUS
  <2> QED  BY <2>1
<1>2. b * c = a * c + d * c
  BY <1>1
<1>3. a * c \in Nat /\ d * c \in Nat
  OBVIOUS
<1> QED  BY <1>2, <1>3

\* Division with a remainder.
LEMMA Division ==
    ASSUME NEW a \in Nat, NEW b \in Nat \ {0}
    PROVE  /\ a \div b \in Nat /\ a % b \in 0..(b - 1)
           /\ a = (a \div b) * b + (a % b)
<1>1. a \div b \in Nat /\ a % b \in 0..(b - 1)
  OBVIOUS
<1>2. a = (a \div b) * b + (a % b)
  OBVIOUS
<1> QED  BY <1>1, <1>2

\* A multiple leaves no remainder.
LEMMA NoRemainder ==
    ASSUME NEW x \in Nat, NEW g \in Nat \ {0}, NEW a, a = x * g
    PROVE  a % g = 0
  OBVIOUS

\* The multiples of g are closed under addition.
LEMMA Multiples ==
    ASSUME NEW a \in Nat, NEW b \in Nat, NEW g \in Nat \ {0}, a % g = 0, b % g = 0
    PROVE  (a + b) % g = 0
<1>1. PICK x \in Nat, y \in Nat : a = x * g /\ b = y * g
  <2>1. a = (a \div g) * g /\ b = (b \div g) * g /\ a \div g \in Nat /\ b \div g \in Nat
    BY Division
  <2> QED  BY <2>1
<1>2. x * g + y * g = (x + y) * g
  OBVIOUS
<1>3. a + b = (x + y) * g /\ x + y \in Nat
  BY <1>1, <1>2
<1> QED  BY <1>3, NoRemainder

LEMMA Differences ==
    ASSUME NEW a \in Nat, NEW b \in Nat, NEW g \in Nat \ {0}, a % g = 0, b % g = 0, b <= a
    PROVE  (a - b) % g = 0
<1>1. PICK x \in Nat, y \in Nat : a = x * g /\ b = y * g
  <2>1. a = (a \div g) * g /\ b = (b \div g) * g /\ a \div g \in Nat /\ b \div g \in Nat
    BY Division
  <2> QED  BY <2>1
<1>2. y <= x
  <2>1. CASE x < y
    <3>1. (x + 1) * g <= y * g /\ (x + 1) * g = x * g + g /\ x * g \in Nat /\ y * g \in Nat
      BY <2>1, Products
    <3> QED  BY <3>1, <1>1
  <2> QED  BY <2>1
<1>3. x * g - y * g = (x - y) * g
  OBVIOUS
<1>4. a - b = (x - y) * g /\ x - y \in Nat
  BY <1>1, <1>2, <1>3
<1> QED  BY <1>4, NoRemainder

-----------------------------------------------------------------------------
(* The chunks of a file.                                                   *)

LEMMA Constants ==
    ASSUME size \in Sizes
    PROVE  /\ size \in Nat \ {0} /\ size <= MaxChunk * MaxChunks
           /\ MinChunk \in Nat \ {0} /\ MaxChunk \in Nat \ {0} /\ MinChunk <= MaxChunk
           /\ MaxChunks \in Nat \ {0}
           /\ Granule \in Nat \ {0} /\ GoogleChunk \in Nat \ {0} /\ GoogleChunk % Granule = 0
           /\ MaxPolls \in Nat /\ MaxRequests \in Nat \ {0} /\ MaxAttempts \in Nat \ {0}
  BY UploadAssumption
\* A size of chunk the loop comes to.
LEMMA ChunkSizeRange ==
    ASSUME size \in Sizes
    PROVE  /\ ChunkSize \in Nat \ {0}
           /\ size > MinChunk => /\ ChunkSize \in MinChunk..MaxChunk
                                /\ size <= ChunkSize * MaxChunks
<1>1. CASE size <= MinChunk
  BY <1>1, Constants DEF ChunkSize
<1>2. CASE size > MinChunk
  <2> DEFINE Fits(c) == c = MaxChunk \/ size <= c * MaxChunks
             Good == {c \in ChunkSizes : Fits(c)}
  <2>1. Good \subseteq Nat /\ MaxChunk \in Good
    BY Constants DEF ChunkSizes
  <2>2. PICK c \in Good : \A d \in Good : c <= d
    <3> DEFINE Less == {p \in Nat \X Nat : p[1] < p[2]}
    <3> HIDE DEF Good
    <3>1. IsWellFoundedOn(Less, Nat)
      BY NatLessThanWellFounded DEF OpToRel
    <3>2. \E c \in Good : \A d \in Good : ~(<<d, c>> \in Less)
      <4> HIDE DEF Less
      <4> QED  BY <3>1, <2>1, WFMin
    <3>3. PICK c \in Good : \A d \in Good : <<d, c>> \notin Less
      BY <3>2
    <3>4. ASSUME NEW d \in Good  PROVE c <= d
      <4>1. c \in Nat /\ d \in Nat
        BY <2>1
      <4>2. ~(d < c)
        BY <3>3, <4>1
      <4> QED  BY <4>1, <4>2
    <3> QED  BY <3>4
  <2>3. \A d \in ChunkSizes : d < c => size > d * MaxChunks
    <3> SUFFICES ASSUME NEW d \in ChunkSizes, d < c  PROVE size > d * MaxChunks
      OBVIOUS
    <3>1. d \in Nat /\ c \in Nat
      BY <2>1, Constants DEF ChunkSizes
    <3>2. d \notin Good
      BY <2>2, <3>1
    <3>3. ~(size <= d * MaxChunks)
      BY <3>2
    <3> QED  BY <3>1, <3>3, Constants
  <2>4. ChunkSize \in Good
    <3> DEFINE Chosen(k) == /\ k = MaxChunk \/ size <= k * MaxChunks
                            /\ \A d \in ChunkSizes : d < k => size > d * MaxChunks
    <3>1. ChunkSize = CHOOSE k \in ChunkSizes : Chosen(k)
      BY <1>2, Constants DEF ChunkSize
    <3>2. c \in ChunkSizes /\ Chosen(c)
      BY <2>3
    <3> HIDE DEF Chosen
    <3>3. ChunkSize \in ChunkSizes /\ Chosen(ChunkSize)
      BY <3>1, <3>2
    <3> QED  BY <3>3 DEF Chosen
  <2>5. ChunkSize \in MinChunk..MaxChunk /\ size <= ChunkSize * MaxChunks
    BY <2>4, Constants DEF ChunkSizes
  <2> QED  BY <2>5, <1>2, Constants
<1> QED  BY <1>1, <1>2, Constants

\* How many chunks: as many as fit, and the platform takes that many.
LEMMA ChunkCountRange ==
    ASSUME size \in Sizes
    PROVE  /\ ChunkCount \in 1..MaxChunks
           /\ ChunkCount # 1 => size > MinChunk /\ ChunkCount * ChunkSize <= size
<1>1. CASE size <= MinChunk
  BY <1>1, Constants DEF ChunkCount
<1>2. CASE size > MinChunk
  <2> DEFINE n == size \div ChunkSize
  <2>1. ChunkSize \in Nat \ {0} /\ size \in Nat /\ size <= ChunkSize * MaxChunks
    BY <1>2, ChunkSizeRange, Constants
  <2>2. n \in Nat /\ n * ChunkSize <= size
    BY <2>1, Division
  <2>3. n <= MaxChunks
    <3>1. CASE n >= MaxChunks + 1
      <4>1. (MaxChunks + 1) * ChunkSize <= n * ChunkSize
        BY <3>1, <2>1, <2>2, Constants, Products
      <4>2. (MaxChunks + 1) * ChunkSize = ChunkSize * MaxChunks + ChunkSize
        BY <2>1, Constants
      <4> QED  BY <4>1, <4>2, <2>1, <2>2, Constants
    <3> QED  BY <3>1, <2>2, Constants
  <2>4. ChunkCount = IF n = 0 THEN 1 ELSE n
    BY <1>2, Constants DEF ChunkCount
  <2>5. CASE n = 0
    BY <2>4, <2>5, Constants
  <2>6. CASE n # 0
    BY <2>2, <2>3, <2>4, <2>6, <1>2, Constants
  <2> QED  BY <2>5, <2>6
<1> QED  BY <1>1, <1>2, Constants

\* The chunks tile the file: each but the last ends where the next begins, the
\* last at the file's end, and none of several is too small.
LEMMA ChunksTile ==
    ASSUME size \in Sizes, NEW i \in 0..(ChunkCount - 1)
    PROVE  /\ i * ChunkSize \in Nat /\ ChunkEnd(i) \in (i * ChunkSize)..(size - 1)
           /\ i = ChunkCount - 1 => ChunkEnd(i) = size - 1
           /\ i # ChunkCount - 1 => ChunkEnd(i) = (i + 1) * ChunkSize - 1
           /\ ChunkCount # 1 => ChunkEnd(i) - i * ChunkSize + 1 >= MinChunk
<1>1. size \in Nat \ {0} /\ ChunkSize \in Nat \ {0} /\ ChunkCount \in Nat \ {0} /\ i \in Nat
  BY Constants, ChunkSizeRange, ChunkCountRange
<1>2. (i + 1) * ChunkSize = i * ChunkSize + ChunkSize /\ i * ChunkSize \in Nat
  BY <1>1
<1>3. CASE ChunkCount = 1
  BY <1>1, <1>3 DEF ChunkEnd
<1>4. CASE ChunkCount # 1
  <2>1. ChunkCount * ChunkSize <= size /\ ChunkSize >= MinChunk /\ MinChunk \in Nat
    BY <1>4, Constants, ChunkSizeRange, ChunkCountRange
  <2>2. (i + 1) * ChunkSize <= ChunkCount * ChunkSize /\ ChunkCount * ChunkSize \in Nat
    BY <1>1, Products
  <2>3. (i + 1) * ChunkSize <= size /\ (i + 1) * ChunkSize \in Nat
    BY <2>1, <2>2, <1>1
  <2>4. CASE i = ChunkCount - 1
    BY <2>4, <2>3, <2>1, <1>2, <1>1 DEF ChunkEnd
  <2>5. CASE i # ChunkCount - 1
    <3>1. ChunkEnd(i) = (i + 1) * ChunkSize - 1
      BY <2>5, <2>3, <1>1 DEF ChunkEnd, Lesser
    <3> QED  BY <3>1, <2>5, <2>3, <2>1, <1>2, <1>1
  <2> QED  BY <2>4, <2>5
<1> QED  BY <1>3, <1>4

-----------------------------------------------------------------------------
(* The inductive invariant: what the platform holds, and what the run has  *)
(* on the wire in view of it.                                              *)

RunRecords ==
    [phase : {"idle", "init", "upload", "poll", "publish"},
     ask : {"none", "open", "query", "bytes", "poll", "publish"},
     from : Nat, to : Int, offset : 0..size, index : Nat, polls : 0..MaxPolls,
     requests : 0..MaxRequests, inFlight : BOOLEAN]

RemoteRecords ==
    [got : SUBSET Units, chunks : Nat, job : {"open", "processing", "ready", "live", "dead"}]

Ends == {"none", "done", "too_many_requests", "no_credentials", "timeout", "unreached",
         "lost", "unauthorized", "rate_limited", "forbidden", "rejected", "conflict",
         "server_error", "not_now"}

PostRecords ==
    [state : PostStates, attempts : 0..MaxAttempts,
     disposition : {"none", "retry", "reconcile", "reauth", "reschedule", "fail"}, end : Ends]

\* how many units the first i chunks are
Sent(i) == IF i = ChunkCount THEN size ELSE i * ChunkSize

\* n units without a gap, a number Google acknowledges
Acknowledged(m, n) ==
    /\ m.got = 0..(n - 1)
    /\ n = size \/ n % Granule = 0
    /\ m.job = IF n = size THEN "live" ELSE "open"

RemoteOK(m) ==
    /\ m \in RemoteRecords
    /\ kind = "youtube" => \E n \in 0..size : Acknowledged(m, n)
    /\ kind \in TikToks =>
         /\ m.chunks \in 0..ChunkCount /\ m.got = 0..(Sent(m.chunks) - 1)
         /\ m.job \in {"open", "processing", "live", "dead"}
         /\ m.job = "open" <=> m.chunks # ChunkCount

RunOK(r, m) ==
    /\ r \in RunRecords /\ r.requests < MaxRequests
    /\ r.phase = "init" => r.ask = "open" /\ r.offset = 0 /\ r.index = 0 /\ m = NoRemote
    /\ r.phase # "init" => r.inFlight
    /\ kind = "youtube" =>
         /\ r.phase \in {"init", "upload"}
         /\ r.phase = "upload" =>
              /\ r.ask = "bytes" /\ Acknowledged(m, r.from)
              /\ r.to \in r.from..(size - 1)
              /\ r.to = size - 1 \/ (r.to + 1) % Granule = 0
    /\ kind \in TikToks =>
         /\ r.phase \in {"init", "upload", "poll"}
         /\ r.phase = "upload" =>
              /\ r.ask = "bytes" /\ r.index = m.chunks + 1 /\ m.chunks < ChunkCount
              /\ r.from = m.chunks * ChunkSize /\ r.to = ChunkEnd(m.chunks)
         /\ r.phase = "poll" => r.ask = "poll" /\ m.chunks = ChunkCount
    /\ kind = "instagram" =>
         /\ r.phase \in {"init", "poll", "publish"}
         /\ r.phase = "poll" => r.ask = "poll" /\ m.job # "open"
         /\ r.phase = "publish" => r.ask = "publish" /\ m.job \in {"ready", "dead"}

Typed ==
    /\ kind \in Kinds /\ size \in Sizes
    /\ post \in PostRecords /\ run \in RunRecords /\ healthy \in BOOLEAN

InRun == run # NoRun => RunOK(run, remote) /\ post.state \in {"uploading", "processing"}

Spared == post.state \in {"scheduled", "retrying"} => post.attempts < MaxAttempts

\* a platform nothing went wrong with discards nothing
Sound == healthy => remote.job # "dead"

\* what a failed attempt leaves behind if it is to be tried again
Left ==
    post.state = "retrying" /\ post.end \in {"timeout", "server_error"}
        /\ post.disposition # "reconcile"
    => remote.job = "open" \/ (kind = "instagram" /\ remote.job # "live")

UploadInv ==
    /\ Typed /\ RemoteOK(remote) /\ InRun /\ Spared /\ Sound /\ Left
    /\ DeliveredIsWhole /\ HealthyIsDelivered

LEMMA UploadInit == Init => UploadInv
<1> SUFFICES ASSUME Init  PROVE UploadInv
  OBVIOUS
<1>1. size \in Nat \ {0} /\ MaxAttempts \in Nat \ {0} /\ MaxPolls \in Nat /\ MaxRequests \in Nat \ {0}
      /\ Granule \in Nat \ {0}
  BY Constants DEF Init
<1>2. ChunkCount \in Nat \ {0} /\ ChunkSize \in Nat
  BY ChunkCountRange, ChunkSizeRange, Constants DEF Init
<1>3. Typed
  BY <1>1 DEF Init, Typed, PostRecords, PostStates, Ends, RunRecords, NoRun
<1>4. RemoteOK(remote)
  <2>1. remote \in RemoteRecords /\ remote.got = {} /\ remote.job = "open" /\ remote.chunks = 0
    BY DEF Init, NoRemote, RemoteRecords
  <2>2. Acknowledged(remote, 0)
    <3>1. 0 % Granule = 0
      BY <1>1, NoRemainder
    <3> QED  BY <3>1, <2>1, <1>1 DEF Acknowledged
  <2>3. Sent(0) = 0
    BY <1>2 DEF Sent
  <2> QED  BY <2>1, <2>2, <2>3, <1>1, <1>2 DEF RemoteOK
<1>5. InRun /\ Spared /\ Sound /\ Left /\ DeliveredIsWhole /\ HealthyIsDelivered
  BY <1>1 DEF Init, InRun, Spared, Sound, Left, DeliveredIsWhole, HealthyIsDelivered, NoRemote
<1> QED  BY <1>3, <1>4, <1>5 DEF UploadInv

-----------------------------------------------------------------------------
(* What a request does at the platform.                                    *)

LEMMA ConfirmedIs ==
    ASSUME size \in Nat, NEW m, NEW n \in 0..size, Acknowledged(m, n)
    PROVE  Confirmed(m) = n
<1> DEFINE Held(k) == k \notin m.got /\ 0..(k - 1) \subseteq m.got
<1>1. n \in 0..size /\ Held(n)
  BY DEF Acknowledged
<1>2. ASSUME NEW k \in 0..size, Held(k)  PROVE k = n
  BY <1>2 DEF Acknowledged
<1>3. Confirmed(m) = CHOOSE k \in 0..size : Held(k)
  BY DEF Confirmed
<1> HIDE DEF Held
<1> QED  BY <1>1, <1>2, <1>3

\* No chunk is of a size the platform refuses.
LEMMA NeverUndersized ==
    ASSUME Typed, RemoteOK(remote), RunOK(run, remote), run.ask = "bytes"
    PROVE  ~Undersized(run)
<1>1. /\ size \in Nat \ {0} /\ Granule \in Nat \ {0} /\ MaxChunks \in Nat /\ MinChunk \in Nat
      /\ run.to \in Int /\ run.from \in Nat
      /\ kind \in {"youtube", "tiktok", "draft", "instagram"}
  BY Constants, UploadAssumption DEF Typed, RunRecords
<1>2. CASE kind = "youtube"
  <2>1. run.from <= run.to /\ run.to < size
    BY <1>1, <1>2 DEF RunOK
  <2>2. run.from % Granule = 0
    BY <1>1, <1>2, <2>1 DEF RunOK, Acknowledged
  <2>3. CASE run.to = size - 1
    BY <1>2, <2>3 DEF Undersized
  <2>4. CASE run.to # size - 1
    <3>1. (run.to + 1) % Granule = 0
      BY <1>2, <2>4 DEF RunOK
    <3>2. ((run.to + 1) - run.from) % Granule = 0
      BY <3>1, <2>1, <2>2, <1>1, Differences
    <3>3. (run.to + 1) - run.from = run.to - run.from + 1
      BY <1>1
    <3> QED  BY <3>2, <3>3, <1>2 DEF Undersized
  <2> QED  BY <2>3, <2>4
<1>3. CASE kind \in TikToks
  <2> DEFINE i == remote.chunks
  <2>1. i \in Nat /\ i < ChunkCount /\ run.from = i * ChunkSize /\ run.to = ChunkEnd(i)
    BY <1>3 DEF RunOK, TikToks, RunRecords, RemoteOK, RemoteRecords
  <2>2. ChunkCount \in 1..MaxChunks
    BY ChunkCountRange DEF Typed
  <2>3. ChunkCount # 1 => run.to - run.from + 1 >= MinChunk
    BY <2>1, <2>2, <1>1, ChunksTile DEF Typed
  <2> QED  BY <2>2, <2>3, <1>1, <1>3 DEF Undersized, TikToks
<1>4. CASE kind = "instagram"
  BY <1>4 DEF RunOK
<1> QED  BY <1>1, <1>2, <1>3, <1>4 DEF TikToks

\* A chunk that arrives.
LEMMA KeptTypes ==
    ASSUME NEW m \in RemoteRecords, NEW g \in SUBSET Units, NEW c \in Nat
    PROVE  [m EXCEPT !.got = g, !.chunks = c] \in RemoteRecords
  BY DEF RemoteRecords

\* A chunk of a YouTube upload leaves whole granules without a gap.
LEMMA ActedYouTube ==
    ASSUME Typed, RemoteOK(remote), RunOK(run, remote), kind = "youtube",
           NEW m \in Acted(run)
    PROVE  RemoteOK(m) /\ m.job # "dead" /\ (run.phase = "init" => m = remote)
<1>1. /\ size \in Nat \ {0} /\ Granule \in Nat \ {0} /\ run.to \in Int /\ run.from \in Nat
      /\ remote \in RemoteRecords
  BY Constants DEF Typed, RunRecords, RemoteOK
<1>2. CASE run.phase = "init"
  <2>1. run.ask = "open" /\ remote = NoRemote
    BY <1>2 DEF RunOK
  <2>2. m = remote
    BY <2>1 DEF Acted
  <2> QED  BY <2>1, <2>2 DEF NoRemote
<1>3. CASE run.phase = "upload"
  <2>1. /\ run.ask = "bytes" /\ Acknowledged(remote, run.from) /\ run.to \in run.from..(size - 1)
        /\ run.to = size - 1 \/ (run.to + 1) % Granule = 0
    BY <1>3 DEF RunOK
  <2>2. remote.job = "open" /\ remote.got = 0..(run.from - 1)
    BY <1>1, <2>1 DEF Acknowledged
  <2>3. PICK k \in (run.from - 1)..run.to :
             /\ k = run.to \/ (k + 1) % Granule = 0
             /\ m = LET kept == [remote EXCEPT !.got = @ \union (run.from..k), !.chunks = @ + 1]
                    IN  IF size - 1 \in kept.got THEN [kept EXCEPT !.job = "live"] ELSE kept
    <3>1. run.ask = "bytes" /\ ~Undersized(run)
      BY <2>1, NeverUndersized
    <3> QED  BY <3>1 DEF Acted, Arrivals
  <2>4. k \in Int /\ run.from - 1 <= k /\ k <= size - 1
    BY <1>1, <2>1
  <2>5. remote.got \union (run.from..k) = 0..k
    BY <2>2, <2>4, <1>1
  <2>6. m.got = 0..k /\ m.job = IF k + 1 = size THEN "live" ELSE "open"
    <3>1. size - 1 \in 0..k <=> k + 1 = size
      BY <2>4, <1>1
    <3> QED  BY <2>2, <2>3, <2>5, <3>1, <1>1 DEF RemoteRecords
  <2>7. m \in RemoteRecords
    <3> DEFINE kept == [remote EXCEPT !.got = @ \union (run.from..k), !.chunks = @ + 1]
    <3>1. 0..k \subseteq Units
      BY <2>4, <1>1 DEF Units
    <3>2. kept \in RemoteRecords
      <4>1. remote.chunks + 1 \in Nat
        BY <1>1 DEF RemoteRecords
      <4> QED  BY <4>1, <2>5, <3>1, <1>1, KeptTypes
    <3>3. [kept EXCEPT !.job = "live"] \in RemoteRecords
      BY <3>2 DEF RemoteRecords
    <3>4. m = kept \/ m = [kept EXCEPT !.job = "live"]
      BY <2>3
    <3> QED  BY <3>2, <3>3, <3>4
  <2>8. k + 1 \in 0..size /\ Acknowledged(m, k + 1)
    <3>1. (k + 1) - 1 = k
      BY <2>4
    <3>2. k + 1 = size \/ (k + 1) % Granule = 0
      BY <2>1, <2>3, <2>4, <1>1
    <3> QED  BY <3>1, <3>2, <2>4, <2>6, <1>1 DEF Acknowledged
  <2> QED  BY <2>6, <2>7, <2>8, <1>3 DEF RemoteOK, TikToks
<1> QED  BY <1>2, <1>3 DEF RunOK

\* A chunk of a TikTok upload is the next one, whole.
LEMMA ActedTikTok ==
    ASSUME Typed, RemoteOK(remote), RunOK(run, remote), kind \in TikToks,
           NEW m \in Acted(run)
    PROVE  /\ RemoteOK(m) /\ (m.job = "dead" => remote.job = "dead")
           /\ run.phase # "upload" => m = remote
           /\ run.phase = "upload" => m.chunks = remote.chunks + 1
<1>1. /\ size \in Nat \ {0} /\ remote \in RemoteRecords /\ ChunkCount \in Nat \ {0}
      /\ ChunkSize \in Nat \ {0} /\ remote.chunks \in Nat
  BY Constants, ChunkCountRange, ChunkSizeRange DEF Typed, RemoteOK, RemoteRecords
<1>2. CASE run.phase # "upload"
  <2>1. run.ask \in {"open", "poll"} /\ kind # "instagram"
    BY <1>2 DEF RunOK, TikToks
  <2>2. m = remote
    BY <2>1 DEF Acted
  <2> QED  BY <2>2, <1>2
<1>3. CASE run.phase = "upload"
  <2> DEFINE i == remote.chunks
  <2>1. /\ run.ask = "bytes" /\ i < ChunkCount
        /\ run.from = i * ChunkSize /\ run.to = ChunkEnd(i)
    BY <1>3 DEF RunOK
  <2>2. /\ i * ChunkSize \in Nat /\ ChunkEnd(i) \in (i * ChunkSize)..(size - 1)
        /\ i = ChunkCount - 1 => ChunkEnd(i) = size - 1
        /\ i # ChunkCount - 1 => ChunkEnd(i) = (i + 1) * ChunkSize - 1
    BY <2>1, <1>1, ChunksTile DEF Typed
  <2>3. m = LET kept == [remote EXCEPT !.got = @ \union (run.from..run.to), !.chunks = @ + 1]
            IN  IF kept.chunks = ChunkCount THEN [kept EXCEPT !.job = "processing"] ELSE kept
    <3>1. run.ask = "bytes" /\ ~Undersized(run) /\ kind # "youtube"
      BY <2>1, NeverUndersized DEF TikToks
    <3> QED  BY <3>1 DEF Acted, Arrivals
  <2>4. remote.job = "open" /\ remote.got = 0..(i * ChunkSize - 1)
    BY <2>1, <1>1 DEF RemoteOK, Sent
  <2>5. 0..(i * ChunkSize - 1) \union (run.from..run.to) = 0..ChunkEnd(i)
    BY <2>1, <2>2, <1>1
  <2>6. ChunkEnd(i) = Sent(i + 1) - 1
    BY <2>1, <2>2, <1>1 DEF Sent
  <2>7. /\ m.got = 0..(Sent(i + 1) - 1) /\ m.chunks = i + 1
        /\ m.job = IF i + 1 = ChunkCount THEN "processing" ELSE "open"
    BY <2>3, <2>4, <2>5, <2>6, <1>1 DEF RemoteRecords
  <2>8. m \in RemoteRecords
    <3> DEFINE kept == [remote EXCEPT !.got = @ \union (run.from..run.to), !.chunks = @ + 1]
    <3>1. 0..ChunkEnd(i) \subseteq Units
      BY <2>2, <1>1 DEF Units
    <3>2. remote.got \union (run.from..run.to) = 0..ChunkEnd(i)
      BY <2>4, <2>5
    <3>3. kept \in RemoteRecords
      <4>1. remote.chunks + 1 \in Nat
        BY <1>1
      <4> QED  BY <4>1, <3>1, <3>2, <1>1, KeptTypes
    <3>4. [kept EXCEPT !.job = "processing"] \in RemoteRecords
      BY <3>3 DEF RemoteRecords
    <3>5. m = kept \/ m = [kept EXCEPT !.job = "processing"]
      BY <2>3
    <3> QED  BY <3>3, <3>4, <3>5
  <2> QED  BY <2>1, <2>7, <2>8, <1>1, <1>3 DEF RemoteOK, TikToks
<1> QED  BY <1>2, <1>3

LEMMA ActedInstagram ==
    ASSUME Typed, RemoteOK(remote), RunOK(run, remote), kind = "instagram",
           NEW m \in Acted(run)
    PROVE  /\ RemoteOK(m) /\ (m.job = "dead" => remote.job = "dead")
           /\ run.phase = "init" => m.job = "processing"
           /\ run.phase = "poll" => m = remote
           /\ run.phase = "publish" => m.job \in {"live", "dead"}
<1>1. /\ run.phase \in {"init", "poll", "publish"} /\ remote \in RemoteRecords
      /\ run.phase = "init" => run.ask = "open"
      /\ run.phase # "init" => run.ask = run.phase
  BY DEF RunOK, RemoteOK
<1>2. CASE run.phase = "init"
  <2>1. m = [remote EXCEPT !.job = "processing"]
    BY <1>1, <1>2 DEF Acted
  <2> QED  BY <2>1, <1>1, <1>2 DEF RemoteOK, RemoteRecords, TikToks
<1>3. CASE run.phase = "poll"
  <2>1. m = remote
    BY <1>1, <1>3 DEF Acted
  <2> QED  BY <2>1, <1>3
<1>4. CASE run.phase = "publish"
  <2>1. m = [remote EXCEPT !.job = IF @ = "ready" THEN "live" ELSE @]
    BY <1>1, <1>4 DEF Acted
  <2>2. remote.job \in {"ready", "dead"}
    BY <1>4 DEF RunOK
  <2> QED  BY <2>1, <2>2, <1>1, <1>4 DEF RemoteOK, RemoteRecords, TikToks
<1> QED  BY <1>1, <1>2, <1>3, <1>4

-----------------------------------------------------------------------------
(* The kind and the file of a post stay what they are.                     *)

LEMMA SameSizes ==
    ASSUME size' = size
    PROVE  ChunkSize' = ChunkSize
  BY DEF ChunkSize

LEMMA SameFile ==
    ASSUME size' = size, kind' = kind
    PROVE  /\ ChunkCount' = ChunkCount /\ Units' = Units
           /\ RemoteOK(remote)' <=> RemoteOK(remote')
           /\ RunOK(run, remote)' <=> RunOK(run', remote')
<1>1. ChunkCount' = ChunkCount /\ Units' = Units
  BY SameSizes DEF ChunkCount, Units
<1>2. RemoteRecords' = RemoteRecords /\ RunRecords' = RunRecords
  BY <1>1 DEF RemoteRecords, RunRecords
<1>3. \A i : Sent(i)' = Sent(i) /\ ChunkEnd(i)' = ChunkEnd(i)
  BY <1>1, SameSizes DEF Sent, ChunkEnd
<1>4. \A n : Acknowledged(remote, n)' <=> Acknowledged(remote', n)
  BY DEF Acknowledged
<1> QED  BY <1>1, <1>2, <1>3, <1>4, SameSizes DEF RemoteOK, RunOK

-----------------------------------------------------------------------------
(* The next request fits what the platform holds.                          *)

LEMMA CountedTypes ==
    ASSUME NEW r \in RunRecords, Counted(r).requests < MaxRequests, MaxRequests \in Nat
    PROVE  /\ Counted(r) \in RunRecords /\ Counted(r).inFlight
           /\ Counted(r).offset = r.offset /\ Counted(r).index = r.index
           /\ Counted(r).phase = r.phase /\ Counted(r).ask = r.ask
           /\ Counted(r).polls = r.polls
<1>1. r.requests \in Nat
  BY DEF RunRecords
<1>2. Counted(r).requests = r.requests + 1
  BY DEF Counted, RunRecords
<1> DEFINE n == r.requests + 1
<1>3. n \in 0..MaxRequests
  BY <1>1, <1>2
<1>4. Counted(r) = [r EXCEPT !.requests = n, !.inFlight = TRUE]
  BY DEF Counted
<1> HIDE DEF n
<1>5. [r EXCEPT !.requests = n, !.inFlight = TRUE] \in RunRecords
  BY <1>3 DEF RunRecords
<1>6. Counted(r) \in RunRecords
  BY <1>4, <1>5
<1> QED  BY <1>6 DEF RunRecords, Counted

\* More bytes of a YouTube upload, from where the platform is.
LEMMA GoogleAskFits ==
    ASSUME size \in Sizes, kind = "youtube", NEW r \in RunRecords, NEW m,
           r.inFlight, r.requests < MaxRequests, Acknowledged(m, r.offset), r.offset # size
    PROVE  RunOK(GoogleAsk(r), m)
<1> DEFINE end == Lesser(r.offset + GoogleChunk, size) - 1
           x == [r EXCEPT !.phase = "upload", !.ask = "bytes", !.from = r.offset,
                          !.to = end, !.offset = end + 1]
<1>1. /\ size \in Nat \ {0} /\ Granule \in Nat \ {0} /\ GoogleChunk \in Nat \ {0}
      /\ GoogleChunk % Granule = 0 /\ r.offset \in Nat /\ r.offset < size
  BY Constants DEF RunRecords
<1>2. end \in r.offset..(size - 1) /\ end + 1 \in 0..size
  BY <1>1 DEF Lesser
<1>3. end = size - 1 \/ (end + 1) % Granule = 0
  <2>1. CASE r.offset + GoogleChunk >= size
    BY <2>1, <1>1 DEF Lesser
  <2>2. CASE r.offset + GoogleChunk < size
    <3>1. end + 1 = r.offset + GoogleChunk
      BY <2>2, <1>1 DEF Lesser
    <3>2. r.offset % Granule = 0
      BY <1>1 DEF Acknowledged
    <3> QED  BY <3>1, <3>2, <1>1, Multiples
  <2> QED  BY <2>1, <2>2, <1>1
<1>4. GoogleAsk(r) = x
  BY <1>1 DEF GoogleAsk
<1> HIDE DEF end
<1>5. x \in RunRecords
  <2> DEFINE next == end + 1
  <2>1. end \in Int /\ next \in 0..size
    BY <1>1, <1>2
  <2> HIDE DEF next
  <2>2. [r EXCEPT !.phase = "upload", !.ask = "bytes", !.from = r.offset,
                  !.to = end, !.offset = next] \in RunRecords
    BY <2>1, <1>1 DEF RunRecords
  <2> QED  BY <2>2 DEF next
<1>6. /\ x.phase = "upload" /\ x.ask = "bytes" /\ x.from = r.offset /\ x.to = end
      /\ x.inFlight /\ x.requests < MaxRequests
  BY <1>1 DEF RunRecords
<1> HIDE DEF x
<1> QED  BY <1>2, <1>3, <1>4, <1>5, <1>6 DEF RunOK, TikToks

LEMMA NextYouTube ==
    ASSUME Typed, RemoteOK(remote), RunOK(run, remote), kind = "youtube",
           NEW m \in Acted(run), Counted(run).requests < MaxRequests, ~Succeeded(run, m)
    PROVE  RunOK(StepAfter(Counted(run), m), m)
<1> DEFINE r == Counted(run)
<1>1. size \in Sizes /\ size \in Nat \ {0} /\ MaxRequests \in Nat /\ run \in RunRecords
  BY Constants DEF Typed
<1>2. /\ r \in RunRecords /\ r.inFlight /\ r.offset = run.offset /\ r.phase = run.phase
      /\ r.requests < MaxRequests
  BY <1>1, CountedTypes
<1>3. RemoteOK(m) /\ (run.phase = "init" => m = remote)
  BY ActedYouTube
<1>4. PICK n \in 0..size : Acknowledged(m, n)
  BY <1>3 DEF RemoteOK
<1>5. run.phase \in {"init", "upload"}
  BY DEF RunOK
<1> HIDE DEF r
<1>6. CASE run.phase = "init"
  <2>1. m.got = {} /\ run.offset = 0
    BY <1>3, <1>6 DEF RunOK, NoRemote
  <2>2. n = 0
    <3>1. 0 \notin 0..(n - 1)
      BY <2>1, <1>4 DEF Acknowledged
    <3> QED  BY <3>1, <1>1
  <2>3. StepAfter(r, m) = GoogleAsk(r)
    BY <1>2, <1>6 DEF StepAfter, YouTubeNext
  <2> QED  BY <2>1, <2>2, <2>3, <1>1, <1>2, <1>4, GoogleAskFits DEF r
<1>7. CASE run.phase = "upload"
  <2> DEFINE x == [r EXCEPT !.offset = n]
  <2>1. run.ask = "bytes"
    BY <1>7 DEF RunOK
  <2>2. n # size
    BY <2>1, <1>4 DEF Succeeded, Acknowledged
  <2>3. StepAfter(r, m) = GoogleAsk(x)
    BY <1>1, <1>2, <1>4, <1>7, ConfirmedIs DEF StepAfter, YouTubeNext
  <2>4. x \in RunRecords /\ x.inFlight /\ x.requests < MaxRequests /\ x.offset = n
    BY <1>2, <1>4 DEF RunRecords
  <2> HIDE DEF x
  <2> QED  BY <2>2, <2>3, <2>4, <1>1, <1>4, GoogleAskFits DEF r
<1> QED  BY <1>5, <1>6, <1>7

\* The next chunk of a TikTok upload.
LEMMA TikTokAskFits ==
    ASSUME size \in Sizes, kind \in TikToks, NEW r \in RunRecords, NEW m \in RemoteRecords,
           r.inFlight, r.requests < MaxRequests, r.index = m.chunks, r.index < ChunkCount
    PROVE  RunOK(TikTokAsk(r), m)
<1> DEFINE x == [r EXCEPT !.phase = "upload", !.ask = "bytes", !.from = r.index * ChunkSize,
                          !.to = ChunkEnd(r.index), !.index = r.index + 1]
<1>1. r.index \in Nat /\ ChunkCount \in Nat
  BY ChunkCountRange DEF RunRecords
<1>2. r.index * ChunkSize \in Nat /\ ChunkEnd(r.index) \in Int
  <2>1. r.index \in 0..(ChunkCount - 1) /\ size \in Nat
    BY <1>1, Constants
  <2> QED  BY <2>1, ChunksTile
<1>3. x \in RunRecords
  <2> DEFINE from == r.index * ChunkSize
             to == ChunkEnd(r.index)
             next == r.index + 1
  <2>1. from \in Nat /\ to \in Int /\ next \in Nat
    BY <1>1, <1>2
  <2> HIDE DEF from, to, next
  <2>2. [r EXCEPT !.phase = "upload", !.ask = "bytes", !.from = from,
                  !.to = to, !.index = next] \in RunRecords
    BY <2>1 DEF RunRecords
  <2> QED  BY <2>2 DEF from, to, next
<1>4. /\ x.phase = "upload" /\ x.ask = "bytes" /\ x.from = r.index * ChunkSize
      /\ x.to = ChunkEnd(r.index) /\ x.index = r.index + 1
      /\ x.inFlight /\ x.requests < MaxRequests
  BY DEF RunRecords
<1>5. TikTokAsk(r) = x
  BY DEF TikTokAsk
<1> HIDE DEF x
<1> QED  BY <1>3, <1>4, <1>5 DEF RunOK, TikToks

\* A question to the platform.
LEMMA PollTypes ==
    ASSUME NEW r \in RunRecords
    PROVE  /\ Poll(r) \in RunRecords /\ Poll(r).phase = "poll" /\ Poll(r).ask = "poll"
           /\ Poll(r).inFlight /\ Poll(r).requests = r.requests
  BY DEF RunRecords, Poll

LEMMA NextTikTok ==
    ASSUME Typed, RemoteOK(remote), RunOK(run, remote), kind \in TikToks,
           NEW m \in Acted(run), Counted(run).requests < MaxRequests,
           ~Succeeded(run, m), ~PolledOut(run, m)
    PROVE  RunOK(StepAfter(Counted(run), m), m)
<1> DEFINE r == Counted(run)
<1>1. size \in Sizes /\ MaxRequests \in Nat /\ MaxPolls \in Nat /\ run \in RunRecords
      /\ ChunkCount \in Nat \ {0}
  BY Constants, ChunkCountRange DEF Typed
<1>2. /\ r \in RunRecords /\ r.inFlight /\ r.index = run.index /\ r.phase = run.phase
      /\ r.requests < MaxRequests /\ r.polls = run.polls
  BY <1>1, CountedTypes
<1>3. /\ RemoteOK(m) /\ m \in RemoteRecords
      /\ run.phase # "upload" => m = remote
      /\ run.phase = "upload" => m.chunks = remote.chunks + 1
  BY ActedTikTok DEF RemoteOK
<1>4. m.chunks \in 0..ChunkCount /\ m.job # "ready"
  BY <1>3 DEF RemoteOK
<1>5. run.phase \in {"init", "upload", "poll"} /\ kind \notin {"youtube", "instagram"}
  BY DEF RunOK, TikToks
<1> HIDE DEF r
<1>6. CASE run.phase # "poll"
  <2>1. r.index = m.chunks
    <3>1. CASE run.phase = "init"
      BY <3>1, <1>2, <1>3 DEF RunOK, NoRemote
    <3>2. CASE run.phase = "upload"
      BY <3>2, <1>2, <1>3 DEF RunOK
    <3> QED  BY <3>1, <3>2, <1>5, <1>6
  <2>2. StepAfter(r, m) = IF r.index < ChunkCount THEN TikTokAsk(r) ELSE Poll(r)
    BY <1>2, <1>5, <1>6 DEF StepAfter, TikTokNext, TikToks
  <2>3. CASE r.index < ChunkCount
    BY <2>1, <2>2, <2>3, <1>1, <1>2, <1>3, TikTokAskFits DEF r
  <2>4. CASE ~(r.index < ChunkCount)
    <3>1. m.chunks = ChunkCount
      BY <2>1, <2>4, <1>1, <1>4
    <3> QED  BY <3>1, <2>2, <2>4, <1>2, <1>5, PollTypes DEF RunOK, r
  <2> QED  BY <2>3, <2>4
<1>7. CASE run.phase = "poll"
  <2> DEFINE x == [r EXCEPT !.polls = @ + 1]
  <2>1. run.ask = "poll" /\ m.chunks = ChunkCount
    BY <1>3, <1>7, <1>5 DEF RunOK
  <2>2. run.polls < MaxPolls
    BY <2>1, <1>1, <1>4 DEF PolledOut, Succeeded, RunRecords
  <2>3. StepAfter(r, m) = Poll(x)
    BY <1>2, <1>5, <1>7 DEF StepAfter, TikToks
  <2>4. x \in RunRecords /\ x.requests < MaxRequests
    BY <2>2, <1>1, <1>2 DEF RunRecords
  <2> HIDE DEF x
  <2> QED  BY <2>1, <2>3, <2>4, <1>5, PollTypes DEF RunOK, r
<1> QED  BY <1>6, <1>7

LEMMA NextInstagram ==
    ASSUME Typed, RemoteOK(remote), RunOK(run, remote), kind = "instagram",
           NEW m \in Acted(run), Counted(run).requests < MaxRequests,
           ~Refused(run, m), ~Succeeded(run, m), ~PolledOut(run, m)
    PROVE  RunOK(StepAfter(Counted(run), m), m)
<1> DEFINE r == Counted(run)
<1>1. MaxRequests \in Nat /\ MaxPolls \in Nat /\ run \in RunRecords
  BY Constants DEF Typed
<1>2. /\ r \in RunRecords /\ r.inFlight /\ r.phase = run.phase
      /\ r.requests < MaxRequests /\ r.polls = run.polls
  BY <1>1, CountedTypes
<1>3. /\ run.phase \in {"init", "poll", "publish"}
      /\ run.phase = "init" => m.job = "processing"
      /\ run.phase = "poll" => m = remote /\ m.job # "open" /\ run.ask = "poll"
      /\ run.phase # "publish"
  BY ActedInstagram DEF RunOK, Refused, Succeeded
<1> HIDE DEF r
<1>4. CASE run.phase = "init"
  BY <1>2, <1>3, <1>4, PollTypes DEF StepAfter, RunOK, r, TikToks
<1>5. CASE run.phase = "poll" /\ m.job = "ready"
  <2> DEFINE x == [r EXCEPT !.phase = "publish", !.ask = "publish"]
  <2>1. StepAfter(r, m) = x
    BY <1>2, <1>5 DEF StepAfter
  <2>2. /\ x \in RunRecords /\ x.requests < MaxRequests /\ x.inFlight
        /\ x.phase = "publish" /\ x.ask = "publish"
    BY <1>2 DEF RunRecords
  <2> HIDE DEF x
  <2> QED  BY <2>1, <2>2, <1>5 DEF RunOK, r, TikToks
<1>6. CASE run.phase = "poll" /\ m.job # "ready"
  <2> DEFINE x == [r EXCEPT !.polls = @ + 1]
  <2>1. run.polls < MaxPolls
    BY <1>1, <1>3, <1>6 DEF PolledOut, Succeeded, RunRecords
  <2>2. StepAfter(r, m) = Poll(x)
    BY <1>2, <1>6 DEF StepAfter
  <2>3. x \in RunRecords /\ x.requests < MaxRequests
    BY <2>1, <1>1, <1>2 DEF RunRecords
  <2> HIDE DEF x
  <2> QED  BY <2>2, <2>3, <1>3, <1>6, PollTypes DEF RunOK, r, TikToks
<1> QED  BY <1>3, <1>4, <1>5, <1>6

-----------------------------------------------------------------------------
(* The end of an attempt.                                                  *)

Failures == {"timeout", "unreached", "lost", "unauthorized", "rate_limited", "forbidden",
             "rejected", "conflict", "server_error", "not_now"}

LEMMA Handled ==
    ASSUME Typed, NEW end \in Failures, NEW f \in BOOLEAN, HandleFailure(end, f)
    PROVE  /\ post' \in PostRecords /\ run' = NoRun
           /\ post'.state \in {"needs_attention", "failed", "retrying"}
           /\ post'.state = "retrying" => post'.attempts < MaxAttempts
           /\ post'.end = end /\ post'.disposition = Disposition(end, f)
<1>1. Disposition(end, f) \in {"retry", "reconcile", "reauth", "reschedule", "fail"}
  BY DEF Disposition, Failures
<1>2. MaxAttempts \in Nat /\ post \in PostRecords
  BY UploadAssumption DEF Typed
<1>3. post'.end = end /\ post'.disposition = Disposition(end, f) /\ post'.attempts = post.attempts
  BY <1>2 DEF HandleFailure, PostRecords
<1>4. /\ post'.state \in {"needs_attention", "failed", "retrying"}
      /\ post'.state = "retrying" => ~(post.attempts >= MaxAttempts)
  BY <1>2 DEF HandleFailure, PostRecords
<1>5. post' \in PostRecords
  <2> DEFINE d == Disposition(end, f)
             s == IF d = "reauth" THEN "needs_attention"
                  ELSE IF d = "fail" \/ post.attempts >= MaxAttempts THEN "failed"
                  ELSE "retrying"
  <2>1. post' = [post EXCEPT !.state = s, !.disposition = d, !.end = end]
    BY DEF HandleFailure
  <2>2. /\ s \in PostStates /\ end \in Ends
        /\ d \in {"none", "retry", "reconcile", "reauth", "reschedule", "fail"}
    BY <1>1 DEF Failures, Ends, PostStates
  <2> HIDE DEF s, d
  <2> QED  BY <2>1, <2>2, <1>2 DEF PostRecords
<1>6. post.attempts \in Nat
  BY <1>2 DEF PostRecords
<1> QED  BY <1>2, <1>3, <1>4, <1>5, <1>6 DEF HandleFailure

\* A run that is over leaves only what is said of the post and the platform.
LEMMA RunOver ==
    ASSUME Typed, kind' = kind, size' = size, healthy' \in BOOLEAN,
           RemoteOK(remote'), run' = NoRun, post' \in PostRecords,
           post'.state = "retrying" => post'.attempts < MaxAttempts,
           post'.state # "scheduled",
           Sound', Left', DeliveredIsWhole', HealthyIsDelivered'
    PROVE  UploadInv'
<1>1. Typed'
  <2>1. NoRun \in RunRecords
    <3>1. size \in Nat /\ MaxPolls \in Nat /\ MaxRequests \in Nat
      BY Constants DEF Typed
    <3> QED  BY <3>1 DEF NoRun, RunRecords
  <2>2. RunRecords' = RunRecords /\ PostRecords' = PostRecords
    BY DEF RunRecords, PostRecords
  <2> QED  BY <2>1, <2>2 DEF Typed
<1>2. RemoteOK(remote)'
  BY SameFile
<1>3. InRun'
  BY DEF InRun, NoRun
<1>4. Spared'
  BY DEF Spared
<1> QED  BY <1>1, <1>2, <1>3, <1>4 DEF UploadInv

\* What the platform makes of any request.
LEMMA ActedOK ==
    ASSUME UploadInv, run # NoRun, NEW m \in Acted(run)
    PROVE  /\ RemoteOK(m) /\ (m.job = "dead" => remote.job = "dead")
           /\ ~run.inFlight => \/ m.job = "open"
                               \/ kind = "instagram" /\ m.job # "live"
<1>1. Typed /\ RemoteOK(remote) /\ RunOK(run, remote)
  BY DEF UploadInv, InRun
<1>2. kind = "youtube" \/ kind \in TikToks \/ kind = "instagram"
  BY <1>1, UploadAssumption DEF Typed, TikToks
<1>3. run.phase # "init" => run.inFlight
  BY <1>1 DEF RunOK
<1>4. run.phase = "init" => remote.job = "open"
  BY <1>1 DEF RunOK, NoRemote
<1>5. CASE kind = "youtube"
  BY <1>1, <1>3, <1>4, <1>5, ActedYouTube
<1>6. CASE kind \in TikToks
  BY <1>1, <1>3, <1>4, <1>6, ActedTikTok
<1>7. CASE kind = "instagram"
  BY <1>1, <1>3, <1>4, <1>7, ActedInstagram
<1> QED  BY <1>2, <1>5, <1>6, <1>7

\* A request that failed, when the platform may or may not have acted.
LEMMA FailedStep ==
    ASSUME UploadInv, run # NoRun, kind' = kind, size' = size, healthy' = FALSE,
           remote' \in Acted(run) \union {remote},
           NEW end \in Failures, NEW f \in {TRUE, run.inFlight}, HandleFailure(end, f)
    PROVE  UploadInv'
<1>1. Typed /\ RemoteOK(remote) /\ RunOK(run, remote)
  BY DEF UploadInv, InRun
<1>2. run.inFlight \in BOOLEAN
  BY <1>1 DEF Typed, RunRecords
<1>3. /\ post' \in PostRecords /\ run' = NoRun
      /\ post'.state \in {"needs_attention", "failed", "retrying"}
      /\ post'.state = "retrying" => post'.attempts < MaxAttempts
      /\ post'.end = end /\ post'.disposition = Disposition(end, f)
  BY <1>1, <1>2, Handled
<1>4. RemoteOK(remote')
  BY <1>1, ActedOK
<1>5. ~run.inFlight => \/ remote'.job = "open"
                       \/ kind = "instagram" /\ remote'.job # "live"
  <2>1. CASE remote' \in Acted(run)
    BY <2>1, ActedOK
  <2>2. CASE remote' = remote
    BY <2>2, <1>1, <1>2 DEF RunOK, NoRemote
  <2> QED  BY <2>1, <2>2
<1>6. end \in {"timeout", "server_error"} /\ f => Disposition(end, f) = "reconcile"
  BY DEF Disposition
<1>7. Left'
  BY <1>2, <1>3, <1>5, <1>6 DEF Left
<1>8. Sound' /\ DeliveredIsWhole' /\ HealthyIsDelivered'
  BY <1>3 DEF Sound, DeliveredIsWhole, HealthyIsDelivered
<1> QED  BY <1>1, <1>3, <1>4, <1>7, <1>8, RunOver

-----------------------------------------------------------------------------
(* The steps.                                                              *)

LEMMA NoRemoteOK ==
    ASSUME size \in Sizes
    PROVE  RemoteOK(NoRemote)
<1>1. size \in Nat \ {0} /\ Granule \in Nat \ {0} /\ ChunkCount \in Nat \ {0} /\ ChunkSize \in Nat
  BY Constants, ChunkCountRange, ChunkSizeRange
<1>2. NoRemote \in RemoteRecords /\ NoRemote.got = {} /\ NoRemote.job = "open" /\ NoRemote.chunks = 0
  BY DEF NoRemote, RemoteRecords
<1>3. Acknowledged(NoRemote, 0)
  <2>1. 0 % Granule = 0
    BY <1>1, NoRemainder
  <2> QED  BY <2>1, <1>1, <1>2 DEF Acknowledged
<1>4. Sent(0) = 0
  BY <1>1 DEF Sent
<1> QED  BY <1>1, <1>2, <1>3, <1>4 DEF RemoteOK

LEMMA BeginStep == UploadInv /\ Begin => UploadInv'
<1> SUFFICES ASSUME UploadInv, Begin  PROVE UploadInv'
  OBVIOUS
<1>1. /\ Typed /\ kind' = kind /\ size' = size /\ healthy' = healthy /\ remote' = NoRemote
      /\ size \in Nat /\ MaxRequests \in Nat \ {0} /\ MaxPolls \in Nat /\ MaxAttempts \in Nat
  BY Constants DEF UploadInv, Typed, Begin
<1>2. /\ run' \in RunRecords /\ run'.phase = "init" /\ run'.ask = "open" /\ run'.offset = 0
      /\ run'.index = 0 /\ run'.requests = 0 /\ run' # NoRun
  <2>1. run' = [phase |-> "init", ask |-> "open", from |-> 0, to |-> -1, offset |-> 0,
                index |-> 0, polls |-> 0, requests |-> 0, inFlight |-> FALSE]
    BY DEF Begin, NoRun
  <2>2. run' \in RunRecords
    BY <1>1, <2>1 DEF RunRecords
  <2>3. NoRun.phase = "idle"
    BY DEF NoRun
  <2> QED  BY <2>1, <2>2, <2>3
<1>3. RunOK(run', remote')
  BY <1>1, <1>2 DEF RunOK, TikToks
<1>4. post.attempts < MaxAttempts /\ post \in PostRecords
  BY DEF Begin, UploadInv, Spared, Typed
<1> DEFINE n == post.attempts + 1
<1>5. n \in 0..MaxAttempts
  BY <1>1, <1>4 DEF PostRecords
<1>6. post' = [post EXCEPT !.state = "uploading", !.attempts = n, !.end = "none"]
  BY DEF Begin
<1> HIDE DEF n
<1>7. post' \in PostRecords /\ post'.state = "uploading"
  BY <1>4, <1>5, <1>6 DEF PostRecords, PostStates, Ends
<1>8. Typed'
  <2>1. RunRecords' = RunRecords /\ PostRecords' = PostRecords
    BY <1>1 DEF RunRecords, PostRecords
  <2> QED  BY <2>1, <1>1, <1>2, <1>7 DEF Typed
<1>9. RemoteOK(remote)' /\ InRun'
  <2>1. RemoteOK(remote')
    BY <1>1, NoRemoteOK DEF Typed
  <2> QED  BY <2>1, <1>1, <1>3, <1>7, SameFile DEF InRun
<1>10. Spared' /\ Sound' /\ Left' /\ DeliveredIsWhole' /\ HealthyIsDelivered'
  BY <1>1, <1>7 DEF Spared, Sound, Left, DeliveredIsWhole, HealthyIsDelivered, NoRemote
<1> QED  BY <1>8, <1>9, <1>10 DEF UploadInv

LEMMA NoCredentialsStep == UploadInv /\ NoCredentials => UploadInv'
<1> SUFFICES ASSUME UploadInv, NoCredentials  PROVE UploadInv'
  OBVIOUS
<1>1. /\ Typed /\ RemoteOK(remote) /\ kind' = kind /\ size' = size /\ healthy' = FALSE
      /\ remote' = remote /\ run' = NoRun /\ post \in PostRecords
  BY DEF UploadInv, Typed, NoCredentials, Escalate
<1>2. post' \in PostRecords /\ post'.state = "needs_attention"
  BY <1>1 DEF NoCredentials, Escalate, PostRecords, PostStates, Ends
<1>3. Sound' /\ Left' /\ DeliveredIsWhole' /\ HealthyIsDelivered'
  BY <1>1, <1>2 DEF Sound, Left, DeliveredIsWhole, HealthyIsDelivered
<1> QED  BY <1>1, <1>2, <1>3, RunOver

LEMMA NoPublicUrlStep == UploadInv /\ NoPublicUrl => UploadInv'
<1> SUFFICES ASSUME UploadInv, NoPublicUrl  PROVE UploadInv'
  OBVIOUS
<1>1. /\ Typed /\ RemoteOK(remote) /\ kind' = kind /\ size' = size /\ healthy' = FALSE
      /\ remote' = remote /\ run' = NoRun /\ post \in PostRecords /\ MaxAttempts \in Nat
      /\ post.attempts < MaxAttempts
  BY UploadAssumption DEF UploadInv, Typed, NoPublicUrl, Spared
<1> DEFINE n == post.attempts + 1
<1>2. n \in 0..MaxAttempts
  BY <1>1 DEF PostRecords
<1>3. post' = [post EXCEPT !.state = "failed", !.attempts = n,
                           !.disposition = "fail", !.end = "rejected"]
  BY DEF NoPublicUrl
<1> HIDE DEF n
<1>4. post' \in PostRecords /\ post'.state = "failed"
  BY <1>1, <1>2, <1>3 DEF PostRecords, PostStates, Ends
<1>5. Sound' /\ Left' /\ DeliveredIsWhole' /\ HealthyIsDelivered'
  BY <1>1, <1>4 DEF Sound, Left, DeliveredIsWhole, HealthyIsDelivered
<1> QED  BY <1>1, <1>4, <1>5, RunOver

LEMMA FaultStep == UploadInv /\ (Unreached \/ Unheard \/ TurnedDown \/ Garbled) => UploadInv'
<1> SUFFICES ASSUME UploadInv, Unreached \/ Unheard \/ TurnedDown \/ Garbled  PROVE UploadInv'
  OBVIOUS
<1>1. CASE Unreached
  BY <1>1, FailedStep DEF Unreached, Failures
<1>2. CASE Unheard
  <2>1. PICK end \in {"timeout", "lost", "server_error"} : HandleFailure(end, run.inFlight)
    BY <1>2 DEF Unheard
  <2> QED  BY <1>2, <2>1, FailedStep DEF Unheard, Failures
<1>3. CASE TurnedDown
  <2>1. PICK end \in {"unauthorized", "rate_limited", "forbidden", "rejected", "conflict", "not_now"} :
            HandleFailure(end, run.inFlight)
    BY <1>3 DEF TurnedDown
  <2> QED  BY <1>3, <2>1, FailedStep DEF TurnedDown, Failures
<1>4. CASE Garbled
  BY <1>4, FailedStep DEF Garbled, Failures
<1> QED  BY <1>1, <1>2, <1>3, <1>4

LEMMA ProcessStep == UploadInv /\ Process => UploadInv'
<1> SUFFICES ASSUME UploadInv, Process  PROVE UploadInv'
  OBVIOUS
<1> DEFINE job == remote'.job
<1>1. /\ Typed /\ RemoteOK(remote) /\ remote \in RemoteRecords /\ kind' = kind /\ size' = size
      /\ post' = post /\ run' = run
  BY DEF UploadInv, Process, RemoteOK
<1>2. /\ remote' = [remote EXCEPT !.job = job] /\ job \in {"ready", "live", "dead"}
      /\ remote.job = "processing" \/ (kind = "instagram" /\ remote.job = "ready")
      /\ kind = "instagram" => job # "live"
      /\ kind # "instagram" => job # "ready"
      /\ remote.job = "ready" => job = "dead"
      /\ job # "dead" => healthy' = healthy
      /\ job = "dead" => healthy' = FALSE
  BY <1>1 DEF Process, RemoteRecords
<1> HIDE DEF job
<1>3. /\ remote' \in RemoteRecords /\ remote'.got = remote.got /\ remote'.chunks = remote.chunks
      /\ remote'.job = job
  BY <1>1, <1>2 DEF RemoteRecords
<1>4. kind # "youtube"
  BY <1>1, <1>2 DEF RemoteOK, Acknowledged
<1>5. remote'.job # "open" /\ remote.job # "open"
  BY <1>2, <1>3
<1>6. RemoteOK(remote')
  BY <1>1, <1>2, <1>3, <1>4, <1>5 DEF RemoteOK, TikToks
<1>7. run # NoRun => RunOK(run, remote')
  <2> SUFFICES ASSUME run # NoRun  PROVE RunOK(run, remote')
    OBVIOUS
  <2>1. RunOK(run, remote)
    BY DEF UploadInv, InRun
  <2>2. run.phase # "init"
    BY <2>1, <1>5 DEF RunOK, NoRemote
  <2>3. kind \in TikToks => run.phase # "upload"
    BY <2>1, <1>1, <1>5 DEF RunOK, RemoteOK, RemoteRecords
  <2>4. kind = "instagram" /\ run.phase = "publish" => job = "dead"
    <3>1. kind = "instagram" /\ run.phase = "publish" => remote.job \in {"ready", "dead"}
      BY <2>1 DEF RunOK
    <3> QED  BY <3>1, <1>2
  <2> QED  BY <2>1, <2>2, <2>3, <2>4, <1>3, <1>4, <1>5 DEF RunOK
<1>8. Typed' /\ Spared'
  <2>1. RunRecords' = RunRecords /\ PostRecords' = PostRecords
    BY <1>1 DEF RunRecords, PostRecords
  <2> QED  BY <2>1, <1>1, <1>2 DEF Typed, Spared, UploadInv
<1>9. RemoteOK(remote)' /\ InRun'
  BY <1>1, <1>6, <1>7, SameFile DEF InRun, UploadInv
<1>10. Sound' /\ Left' /\ DeliveredIsWhole'
  BY <1>1, <1>2, <1>3, <1>4 DEF UploadInv, Sound, Left, DeliveredIsWhole
<1>11. HealthyIsDelivered'
  BY <1>1, <1>2, <1>3, <1>4 DEF UploadInv, HealthyIsDelivered
<1> QED  BY <1>8, <1>9, <1>10, <1>11 DEF UploadInv

\* A reply that is no error: what becomes of the run.
LEMMA AnsweredStep == UploadInv /\ Answered => UploadInv'
<1> SUFFICES ASSUME UploadInv, Answered  PROVE UploadInv'
  OBVIOUS
<1> DEFINE r == Counted(run)
<1>1. /\ Typed /\ RemoteOK(remote) /\ run # NoRun /\ RunOK(run, remote) /\ post \in PostRecords
      /\ post.state \in {"uploading", "processing"}
      /\ kind' = kind /\ size' = size /\ healthy' = healthy /\ healthy \in BOOLEAN
      /\ run.inFlight \in BOOLEAN /\ run \in RunRecords
  BY DEF UploadInv, InRun, Answered, Typed, RunRecords
<1>2. kind = "youtube" \/ kind \in TikToks \/ kind = "instagram"
  BY <1>1, UploadAssumption DEF Typed, TikToks
<1>3. PICK m \in Acted(run) :
        /\ remote' = m
        /\ \/ Refused(run, m) /\ HandleFailure("rejected", run.inFlight)
           \/ r.requests >= MaxRequests /\ Escalate("too_many_requests")
           \/ ~Refused(run, m) /\ Succeeded(run, m) /\ Deliver
           \/ /\ PolledOut(run, m) /\ ~Succeeded(run, m)
              /\ \E end \in {"rejected", "rate_limited"} :
                   /\ end = "rate_limited" => m.job = "dead" /\ kind # "instagram"
                   /\ HandleFailure(end, TRUE)
           \/ /\ ~Refused(run, m) /\ ~(r.requests >= MaxRequests)
              /\ ~Succeeded(run, m) /\ ~PolledOut(run, m)
              /\ run' = StepAfter(r, m)
              /\ post' = [post EXCEPT !.state = IF run'.ask = "poll" THEN "processing" ELSE @]
  <2>1. PICK m \in Acted(run) :
          /\ remote' = m
          /\ CASE Refused(run, m) -> HandleFailure("rejected", run.inFlight)
               [] ~Refused(run, m) /\ r.requests >= MaxRequests -> Escalate("too_many_requests")
               [] OTHER ->
                   CASE Succeeded(run, m) -> Deliver
                     [] PolledOut(run, m) ->
                          \E end \in {"rejected", "rate_limited"} :
                             /\ end = "rate_limited" => m.job = "dead" /\ kind # "instagram"
                             /\ HandleFailure(end, TRUE)
                     [] OTHER ->
                          /\ run' = StepAfter(r, m)
                          /\ post' = [post EXCEPT !.state =
                                        IF run'.ask = "poll" THEN "processing" ELSE @]
    BY DEF Answered
  <2>2. ~(Succeeded(run, m) /\ PolledOut(run, m))
    BY DEF Succeeded, PolledOut
  <2>3. CASE Refused(run, m)
    BY <2>1, <2>3
  <2>4. CASE ~Refused(run, m) /\ r.requests >= MaxRequests
    BY <2>1, <2>4
  <2>5. CASE ~Refused(run, m) /\ ~(r.requests >= MaxRequests) /\ Succeeded(run, m)
    BY <2>1, <2>2, <2>5
  <2>6. CASE ~Refused(run, m) /\ ~(r.requests >= MaxRequests) /\ PolledOut(run, m)
    BY <2>1, <2>2, <2>6
  <2>7. CASE ~Refused(run, m) /\ ~(r.requests >= MaxRequests) /\ ~Succeeded(run, m) /\ ~PolledOut(run, m)
    BY <2>1, <2>7
  <2> QED  BY <2>3, <2>4, <2>5, <2>6, <2>7
<1>4. /\ RemoteOK(m) /\ (m.job = "dead" => remote.job = "dead")
  BY <1>1, ActedOK
<1>5. Sound'
  BY <1>1, <1>3, <1>4 DEF UploadInv, Sound
<1>6. healthy => m.job # "dead"
  BY <1>4 DEF UploadInv, Sound
<1>7. CASE Refused(run, m) /\ HandleFailure("rejected", run.inFlight)
  <2>1. /\ post' \in PostRecords /\ run' = NoRun
        /\ post'.state \in {"needs_attention", "failed", "retrying"}
        /\ post'.state = "retrying" => post'.attempts < MaxAttempts
        /\ post'.end = "rejected"
    BY <1>1, <1>7, Handled DEF Failures
  <2>2. ~healthy
    <3>1. run.ask = "publish" /\ m.job # "live"
      BY <1>1, <1>7, NeverUndersized DEF Refused
    <3>2. kind = "instagram" /\ run.phase = "publish"
      BY <3>1, <1>1, <1>2 DEF RunOK, TikToks
    <3> QED  BY <3>1, <3>2, <1>1, <1>6, ActedInstagram
  <2>3. Left' /\ DeliveredIsWhole' /\ HealthyIsDelivered'
    BY <1>1, <2>1, <2>2 DEF Left, DeliveredIsWhole, HealthyIsDelivered
  <2> QED  BY <1>1, <1>3, <1>4, <1>5, <2>1, <2>3, RunOver
<1>8. CASE Escalate("too_many_requests")
  <2>1. /\ post' \in PostRecords /\ run' = NoRun /\ post'.state = "needs_attention"
        /\ post'.end = "too_many_requests"
    BY <1>1, <1>8 DEF Escalate, PostRecords, PostStates, Ends
  <2>2. Left' /\ DeliveredIsWhole' /\ HealthyIsDelivered'
    BY <2>1 DEF Left, DeliveredIsWhole, HealthyIsDelivered
  <2> QED  BY <1>1, <1>3, <1>4, <1>5, <2>1, <2>2, RunOver
<1>9. CASE Succeeded(run, m) /\ Deliver
  <2>1. post' \in PostRecords /\ run' = NoRun /\ post'.state \in {"published", "awaiting_creator"}
    BY <1>1, <1>9 DEF Deliver, PostRecords, PostStates, Ends
  <2>2. m.job = "live"
    BY <1>9 DEF Succeeded
  <2>3. kind # "instagram" => m.got = Units
    <3>1. size \in Nat \ {0}
      BY <1>1, Constants DEF Typed
    <3>2. CASE kind = "youtube"
      BY <3>1, <3>2, <2>2, <1>4 DEF RemoteOK, Acknowledged, Units
    <3>3. CASE kind \in TikToks
      BY <3>1, <3>3, <2>2, <1>4 DEF RemoteOK, Sent, Units
    <3> QED  BY <3>2, <3>3, <1>2
  <2>4. Units' = Units
    BY <1>1 DEF Units
  <2>5. Left' /\ DeliveredIsWhole' /\ HealthyIsDelivered'
    BY <1>1, <1>3, <2>1, <2>2, <2>3, <2>4 DEF Left, DeliveredIsWhole, HealthyIsDelivered
  <2> QED  BY <1>1, <1>3, <1>4, <1>5, <2>1, <2>5, RunOver
<1>10. CASE /\ PolledOut(run, m) /\ ~Succeeded(run, m)
            /\ \E end \in {"rejected", "rate_limited"} :
                 /\ end = "rate_limited" => m.job = "dead" /\ kind # "instagram"
                 /\ HandleFailure(end, TRUE)
  <2>1. PICK end \in {"rejected", "rate_limited"} :
                 /\ end = "rate_limited" => m.job = "dead" /\ kind # "instagram"
                 /\ HandleFailure(end, TRUE)
    BY <1>10
  <2>2. /\ post' \in PostRecords /\ run' = NoRun
        /\ post'.state \in {"needs_attention", "failed", "retrying"}
        /\ post'.state = "retrying" => post'.attempts < MaxAttempts
        /\ post'.end = end
    BY <1>1, <2>1, Handled DEF Failures
  <2>3. healthy => end = "rejected" /\ m.job = "processing" /\ kind # "youtube"
    <3> SUFFICES ASSUME healthy  PROVE end = "rejected" /\ m.job = "processing" /\ kind # "youtube"
      OBVIOUS
    <3>1. run.ask = "poll" /\ m.job # "ready" /\ m.job # "live" /\ m.job # "dead"
      BY <1>6, <1>10 DEF PolledOut, Succeeded
    <3>2. run.phase = "poll" /\ kind # "youtube"
      BY <3>1, <1>1, <1>2 DEF RunOK, TikToks
    <3>3. m = remote
      BY <3>2, <1>1, <1>2, ActedTikTok, ActedInstagram
    <3>4. m.job # "open"
      BY <3>2, <3>3, <1>1, <1>2 DEF RunOK, RemoteOK
    <3>5. m.job \in {"open", "processing", "ready", "live", "dead"}
      BY <1>4 DEF RemoteOK, RemoteRecords
    <3> QED  BY <2>1, <3>1, <3>2, <3>4, <3>5
  <2>4. Left' /\ DeliveredIsWhole' /\ HealthyIsDelivered'
    BY <1>1, <1>3, <2>2, <2>3 DEF Left, DeliveredIsWhole, HealthyIsDelivered
  <2> QED  BY <1>1, <1>3, <1>4, <1>5, <2>2, <2>4, RunOver
<1>11. CASE /\ ~Refused(run, m) /\ ~(r.requests >= MaxRequests)
            /\ ~Succeeded(run, m) /\ ~PolledOut(run, m)
            /\ run' = StepAfter(r, m)
            /\ post' = [post EXCEPT !.state = IF run'.ask = "poll" THEN "processing" ELSE @]
  <2>1. r.requests < MaxRequests
    <3>1. r.requests = run.requests + 1 /\ run.requests \in Nat /\ MaxRequests \in Nat
      BY <1>1, UploadAssumption DEF Counted, RunRecords
    <3> QED  BY <3>1, <1>11
  <2>2. RunOK(run', m)
    <3> HIDE DEF r
    <3>1. StepAfter(r, m) = StepAfter(Counted(run), m)
      BY DEF r
    <3>2. RunOK(StepAfter(Counted(run), m), m)
      BY <2>1, <1>1, <1>2, <1>11, NextYouTube, NextTikTok, NextInstagram DEF r
    <3> QED  BY <3>1, <3>2, <1>11
  <2>3. post' \in PostRecords /\ post'.state \in {"uploading", "processing"}
        /\ post'.attempts = post.attempts
    BY <1>1, <1>11 DEF PostRecords, PostStates
  <2>4. Typed' /\ Spared'
    <3>1. RunRecords' = RunRecords /\ PostRecords' = PostRecords /\ run' \in RunRecords
      BY <1>1, <2>2 DEF RunRecords, PostRecords, RunOK
    <3> QED  BY <3>1, <2>3, <1>1 DEF Typed, Spared
  <2>5. RemoteOK(remote)' /\ InRun'
    BY <2>2, <2>3, <1>1, <1>3, <1>4, SameFile DEF InRun
  <2>6. Left' /\ DeliveredIsWhole' /\ HealthyIsDelivered'
    BY <2>3 DEF Left, DeliveredIsWhole, HealthyIsDelivered
  <2> QED  BY <1>5, <2>4, <2>5, <2>6 DEF UploadInv
<1> QED  BY <1>3, <1>7, <1>8, <1>9, <1>10, <1>11

-----------------------------------------------------------------------------
(* The theorems.                                                           *)

LEMMA UploadStep == UploadInv /\ [Next]_vars => UploadInv'
<1> SUFFICES ASSUME UploadInv, [Next]_vars  PROVE UploadInv'
  OBVIOUS
<1>1. CASE UNCHANGED vars
  <2>1. /\ kind' = kind /\ size' = size /\ post' = post /\ run' = run /\ remote' = remote
        /\ healthy' = healthy
    BY <1>1 DEF vars
  <2>2. Units' = Units /\ RunRecords' = RunRecords /\ PostRecords' = PostRecords
    BY <2>1 DEF Units, RunRecords, PostRecords
  <2>3. RemoteOK(remote)' /\ InRun'
    BY <2>1, SameFile DEF UploadInv, InRun
  <2>4. Typed' /\ Spared' /\ Sound' /\ Left'
    BY <2>1, <2>2 DEF UploadInv, Typed, Spared, Sound, Left
  <2>5. DeliveredIsWhole' /\ HealthyIsDelivered'
    BY <2>1, <2>2 DEF UploadInv, DeliveredIsWhole, HealthyIsDelivered
  <2> QED  BY <2>3, <2>4, <2>5 DEF UploadInv
<1> QED  BY <1>1, BeginStep, NoCredentialsStep, NoPublicUrlStep, AnsweredStep, FaultStep,
            ProcessStep DEF Next

LEMMA UploadInvariant == Spec => []UploadInv
  BY UploadInit, UploadStep, PTL DEF Spec

(* Every value an upload keeps is of its type: in particular no run makes more *)
(* requests or polls than it is allowed (engine._run_post, the adapters'       *)
(* MAX_STATUS_POLLS).                                                          *)
THEOREM TypeCorrect == Spec => []TypeOK
<1>1. UploadInv => TypeOK
  BY DEF UploadInv, Typed, RunRecords, PostRecords, RemoteOK, RemoteRecords, TypeOK
<1> QED  BY <1>1, UploadInvariant, PTL

(* Whatever the size of the file and however the chunks are cut, what is       *)
(* recorded delivered exists on the platform and is the whole file             *)
(* (tiktok_chunking, YouTubeAdapter.advance, engine._deliver).                 *)
THEOREM DeliveredWhole == Spec => []DeliveredIsWhole
<1>1. UploadInv => DeliveredIsWhole
  BY DEF UploadInv
<1> QED  BY <1>1, UploadInvariant, PTL

(* An upload that nothing goes wrong with ends delivered unless it runs out of *)
(* polls or requests, for every size a platform takes (adapters.py,            *)
(* engine._run_post).                                                          *)
THEOREM HealthyDelivered == Spec => []HealthyIsDelivered
<1>1. UploadInv => HealthyIsDelivered
  BY DEF UploadInv
<1> QED  BY <1>1, UploadInvariant, PTL

(* A timeout or a platform error that may hide a video is never followed by a  *)
(* plain retry (retry.classify, engine._handle_failure).                       *)
THEOREM AmbiguousReconciled == Spec => []AmbiguousIsReconciled
<1>1. UploadInv => AmbiguousIsReconciled
  <2> SUFFICES ASSUME UploadInv, post.state = "retrying", post.end \in {"timeout", "server_error"},
                      remote.job = "live" \/ (kind # "instagram" /\ remote.job = "processing"),
                      post.disposition # "reconcile"
               PROVE  FALSE
    BY DEF AmbiguousIsReconciled
  <2>1. remote.job = "open" \/ (kind = "instagram" /\ remote.job # "live")
    BY DEF UploadInv, Left
  <2> QED  BY <2>1
<1> QED  BY <1>1, UploadInvariant, PTL
=============================================================================
