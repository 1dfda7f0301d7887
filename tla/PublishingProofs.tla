-------------------------- MODULE PublishingProofs --------------------------
(***************************************************************************)
(* Proofs about Publishing for every set of posts and workers, every       *)
(* lease, wait, budget, limit and number of faults; and, in the second     *)
(* half, about the calendar of Scheduling for any rules, clocks and floors.*)
(*                                                                         *)
(* The argument.  Types and the shape of a pass (PassShape: a current post *)
(* exactly while the platform is worked, which is no longer among the      *)
(* claimed ones) are inductive together.  What the rows promise is not     *)
(* inductive by itself, because any pass may write back any copy it        *)
(* restored long ago: the same must be true of every copy in memory, and   *)
(* of what a pass knows but has not written yet.  With one worker on the   *)
(* channel there is one such copy, which agrees with the rows on what is   *)
(* published (OneInv).                                                     *)
(*                                                                         *)
(* A calendar is kept apart only as long as it is kept in order, which the *)
(* search for a neighbour relies on (CalendarInvariant).  A series is      *)
(* placed by a fold, so each step of one is an induction over its items.   *)
(***************************************************************************)
EXTENDS Publishing, Scheduling, SequenceTheorems, FiniteSetTheorems, WellFoundedInduction,
        TLAPS

\* What a pass has in hand at each of its stages.
PassShape ==
    \A s \in Systems :
        /\ stage[s] \in Working => cur[s] \in Posts
        /\ stage[s] \notin Working => cur[s] = NoPost
        /\ stage[s] \in {"idle", "restored"} => todo[s] = {}
        /\ cur[s] \notin todo[s]

Inv == TypeOK /\ PassShape

-----------------------------------------------------------------------------
(* Lemmas about the helpers.                                               *)

\* Records changed in their state and one other field stay records.
Leased(r, st, n) == [r EXCEPT !.state = st, !.lease = n]
Waiting(r, st, n) == [r EXCEPT !.state = st, !.wait = n]
Begun(r) == [r EXCEPT !.state = "uploading", !.tries = r.tries + 1]
Unleased(r) == [r EXCEPT !.lease = 0]

LEMMA UnleasedRow ==
    ASSUME NEW r \in Row
    PROVE  /\ Unleased(r) \in Row
           /\ Unleased(r).state = r.state
           /\ Unleased(r).tries = r.tries
  BY DEF Row, Unleased

LEMMA LeasedRow ==
    ASSUME NEW r \in Row, NEW st \in PostStates, NEW n \in Nat
    PROVE  /\ Leased(r, st, n) \in Row
           /\ Leased(r, st, n).state = st
           /\ Leased(r, st, n).tries = r.tries
<1>1. Leased(r, st, n) \in Row
  BY DEF Row, Leased
<1> QED  BY <1>1 DEF Row, Leased

LEMMA WaitingRow ==
    ASSUME NEW r \in Row, NEW st \in PostStates, NEW n \in Nat
    PROVE  /\ Waiting(r, st, n) \in Row
           /\ Waiting(r, st, n).state = st
           /\ Waiting(r, st, n).tries = r.tries
<1>1. Waiting(r, st, n) \in Row
  BY DEF Row, Waiting
<1> QED  BY <1>1 DEF Row, Waiting

LEMMA BegunRow ==
    ASSUME NEW r \in Row
    PROVE  /\ Begun(r) \in Row
           /\ Begun(r).state = "uploading"
           /\ Begun(r).tries = r.tries + 1
<1>1. PICK n \in Nat : n = r.tries + 1
  BY DEF Row
<1>2. Begun(r) = [r EXCEPT !.state = "uploading", !.tries = n]
  BY <1>1 DEF Begun
<1>3. Begun(r) \in Row
  BY <1>2 DEF Row, PostStates
<1>4. Begun(r).state = "uploading" /\ Begun(r).tries = n
  BY <1>2 DEF Row
<1> QED  BY <1>1, <1>3, <1>4

\* A tick ages a record and changes neither its state nor its attempts.
LEMMA AgedRow ==
    ASSUME NEW r \in Row
    PROVE  /\ Aged(r) \in Row
           /\ Aged(r).state = r.state
           /\ Aged(r).tries = r.tries
<1>1. Down(r.lease) \in Nat /\ Down(r.wait) \in Nat
  BY DEF Row, Down
<1>2. Aged(r) \in Row
  BY <1>1 DEF Row, Aged
<1> QED  BY <1>1, <1>2 DEF Row, Aged

\* A claim leaves the claimed posts claimed and the others as they were.
ClaimedCopy(c, S) ==
    [p \in Posts |-> IF p \in S
                     THEN [c[p] EXCEPT !.state = "claimed", !.lease = PostLease]
                     ELSE c[p]]

LEMMA ClaimedRows ==
    ASSUME NEW c \in [Posts -> Row], NEW S \in SUBSET Posts
    PROVE  /\ ClaimedCopy(c, S) \in [Posts -> Row]
           /\ \A p \in Posts : ClaimedCopy(c, S)[p].tries = c[p].tries
           /\ \A p \in Posts :
                ClaimedCopy(c, S)[p].state = IF p \in S THEN "claimed" ELSE c[p].state
<1>d. PICK d : d = ClaimedCopy(c, S)
  OBVIOUS
<1>1. PostLease \in Nat /\ "claimed" \in PostStates
  BY PublishingAssumption DEF PostStates
<1>2. ASSUME NEW p \in Posts
      PROVE  /\ d[p] \in Row
             /\ d[p].tries = c[p].tries
             /\ d[p].state = IF p \in S THEN "claimed" ELSE c[p].state
  <2>1. c[p] \in Row
    OBVIOUS
  <2>2. CASE p \in S
    <3>1. d[p] = Leased(c[p], "claimed", PostLease)
      BY <1>d, <2>2 DEF Leased, ClaimedCopy
    <3>2. /\ Leased(c[p], "claimed", PostLease) \in Row
          /\ Leased(c[p], "claimed", PostLease).state = "claimed"
          /\ Leased(c[p], "claimed", PostLease).tries = c[p].tries
      BY ONLY <1>1, <2>1, LeasedRow
    <3> QED  BY <2>2, <3>1, <3>2
  <2>3. CASE p \notin S
    BY <1>d, <2>1, <2>3 DEF ClaimedCopy
  <2> QED  BY <2>2, <2>3
<1>3. d \in [Posts -> Row]
  BY <1>d, <1>2 DEF ClaimedCopy
<1> QED  BY <1>d, <1>2, <1>3

\* Every verdict on a failure is a record that differs in state and wait, is
\* not published, and goes back to the queue only with attempts to spare.
LEMMA VerdictRow ==
    ASSUME NEW r \in Row, NEW v \in Verdicts(r)
    PROVE  /\ v \in Row
           /\ v.tries = r.tries
           /\ v.state \in {"failed", "needs_attention", "retrying"}
           /\ v.state = "retrying" => r.tries < MaxTries
<1>1. CASE v = [r EXCEPT !.state = "failed"]
  BY <1>1 DEF Row, PostStates
<1>2. CASE v = [r EXCEPT !.state = "needs_attention"]
  BY <1>2 DEF Row, PostStates
<1>3. CASE /\ r.tries < MaxTries
           /\ v \in {[r EXCEPT !.state = "retrying", !.wait = d] : d \in 0..RetryWait}
  <2>1. PICK d \in 0..RetryWait : v = [r EXCEPT !.state = "retrying", !.wait = d]
    BY <1>3
  <2>2. d \in Nat
    BY PublishingAssumption
  <2> QED  BY <1>3, <2>1, <2>2 DEF Row, PostStates
<1> QED  BY <1>1, <1>2, <1>3 DEF Verdicts

\* Writing a record of the current post keeps rows and copies typed, and
\* changes that post's row and copy alone.
LEMMA WriteTyped ==
    ASSUME TypeOK, NEW s \in Systems, cur[s] \in Posts, NEW r \in Row, Write(s, r)
    PROVE  /\ row' \in [Posts -> Row]
           /\ copy' \in [Systems -> [Posts -> Row]]
           /\ \A p \in Posts : row'[p] = IF p = cur[s] THEN r ELSE row[p]
           /\ \A t \in Systems, p \in Posts :
                copy'[t][p] = IF t = s /\ p = cur[s] THEN r ELSE copy[t][p]
  BY DEF TypeOK, Write

\* Stopping a pass keeps it typed and shaped.
LEMMA AbandonShape ==
    ASSUME Inv, NEW s \in Systems, NEW w \in Nat, Abandon(s, w)
    PROVE  /\ job' \in [Posts -> {"none", "owed", "queued", "running", "done"}]
           /\ jobwait' \in [Posts -> Nat]
           /\ stage' \in [Systems -> Stages]
           /\ trigger' \in [Systems -> Posts \union {NoPost}]
           /\ todo' \in [Systems -> SUBSET Posts]
           /\ cur' \in [Systems -> Posts \union {NoPost}]
           /\ PassShape'
  BY DEF Inv, TypeOK, PassShape, Abandon, Stages, Working

-----------------------------------------------------------------------------
(* Types and shapes.                                                       *)

LEMMA InitInv == Init => Inv
<1> SUFFICES ASSUME Init PROVE Inv
  OBVIOUS
<1>1. row \in [Posts -> Row]
  BY PublishingAssumption DEF Init, Row, PostStates
<1>2. TypeOK
  BY <1>1, PublishingAssumption DEF Init, TypeOK, Stages
<1>3. PassShape
  BY DEF Init, PassShape, Working
<1> QED  BY <1>2, <1>3 DEF Inv

LEMMA NextInv == Inv /\ [Next]_vars => Inv'
<1> SUFFICES ASSUME Inv, [Next]_vars PROVE Inv'
  OBVIOUS
<1>0. TypeOK /\ PassShape
  BY DEF Inv
<1>1. ASSUME NEW p \in Posts, Promote(p) PROVE Inv'
  <2>1. row' \in [Posts -> Row]
    <3>1. row[p] \in Row
      BY <1>0 DEF TypeOK
    <3>2. [row[p] EXCEPT !.state = "scheduled"] \in Row
      BY <3>1 DEF Row, PostStates
    <3>3. row' = [row EXCEPT ![p] = [row[p] EXCEPT !.state = "scheduled"]]
      BY <1>1 DEF Promote
    <3> QED  BY <1>0, <3>2, <3>3 DEF TypeOK
  <2>2. jobwait' \in [Posts -> Nat]
    BY <1>0, <1>1 DEF TypeOK, Promote, Row
  <2>3. TypeOK'
    BY <1>0, <1>1, <2>1, <2>2 DEF TypeOK, Promote, pass
  <2> QED  BY <1>0, <1>1, <2>3 DEF Inv, PassShape, Promote, pass
<1>2. ASSUME NEW p \in Posts, RetryUpload(p) PROVE Inv'
  <2>0. Waiting(row[p], "scheduled", 0) \in Row
    BY <1>0, WaitingRow DEF TypeOK, PostStates
  <2>1. row' \in [Posts -> Row]
    <3>1. row' = [row EXCEPT ![p] = Waiting(row[p], "scheduled", 0)]
      BY <1>2 DEF RetryUpload, Waiting
    <3> QED  BY <1>0, <2>0, <3>1 DEF TypeOK
  <2>2. TypeOK'
    BY <1>0, <1>2, <2>1 DEF TypeOK, RetryUpload, pass
  <2> QED  BY <1>0, <1>2, <2>2 DEF Inv, PassShape, RetryUpload, pass
<1>3. CASE Tick
  <2>1. row' \in [Posts -> Row] /\ copy' \in [Systems -> [Posts -> Row]]
    BY <1>0, <1>3, AgedRow DEF TypeOK, Tick
  <2>2. jobwait' \in [Posts -> Nat]
    BY <1>0, <1>3 DEF TypeOK, Tick, Down
  <2>3. TypeOK'
    BY <1>0, <1>3, <2>1, <2>2 DEF TypeOK, Tick
  <2> QED  BY <1>0, <1>3, <2>3 DEF Inv, PassShape, Tick
<1>c. ASSUME NEW p \in Posts, Chain(p) PROVE Inv'
  <2>1. TypeOK'
    BY <1>0, <1>c DEF TypeOK, Chain, pass
  <2> QED  BY <1>0, <1>c, <2>1 DEF Inv, PassShape, Chain, pass
<1>4. ASSUME NEW s \in Systems, PassStep(s) PROVE Inv'
  <2>1. ASSUME NEW p \in Posts, StartPass(s, p) PROVE Inv'
    <3>1. TypeOK'
      BY <1>0, <2>1 DEF TypeOK, StartPass, Stages
    <3> QED  BY <1>0, <3>1, <2>1 DEF Inv, TypeOK, PassShape, StartPass, Working
  <2>2. CASE ClaimDue(s)
    <3>1. PICK S \in ClaimSets(copy[s]) :
            /\ copy' = [copy EXCEPT ![s] = ClaimedCopy(copy[s], S)]
            /\ row' = [p \in Posts |-> IF p \in S \/ S = {}
                                       THEN ClaimedCopy(copy[s], S)[p] ELSE row[p]]
            /\ todo' = [todo EXCEPT ![s] = S]
      BY <2>2 DEF ClaimDue, ClaimedCopy
    <3>2. S \subseteq Posts
      BY DEF ClaimSets, Due
    <3>3. ClaimedCopy(copy[s], S) \in [Posts -> Row]
      <4>1. copy[s] \in [Posts -> Row]
        BY <1>0 DEF TypeOK
      <4> QED  BY <3>2, <4>1, ClaimedRows
    <3>4. row' \in [Posts -> Row] /\ copy' \in [Systems -> [Posts -> Row]]
      BY <1>0, <3>1, <3>3 DEF TypeOK
    <3>5. todo' \in [Systems -> SUBSET Posts] /\ stage' \in [Systems -> Stages]
      BY <1>0, <2>2, <3>1, <3>2 DEF TypeOK, ClaimDue, Stages
    <3>6. TypeOK'
      BY <1>0, <2>2, <3>4, <3>5 DEF TypeOK, ClaimDue
    <3>7. PassShape'
      <4>1. stage[s] = "restored" /\ cur[s] = NoPost
        BY <1>0, <2>2 DEF PassShape, ClaimDue, Working
      <4>2. /\ todo' = [todo EXCEPT ![s] = S]
            /\ stage' = [stage EXCEPT ![s] = "next"] /\ cur' = cur
        BY <2>2, <3>1 DEF ClaimDue
      <4> QED  BY <1>0, <3>2, <4>1, <4>2, PublishingAssumption
               DEF TypeOK, PassShape, Working
    <3> QED  BY <3>6, <3>7 DEF Inv
  <2>3. CASE StartPost(s)
    <3>1. PICK p \in todo[s] :
            /\ cur' = [cur EXCEPT ![s] = p]
            /\ todo' = [todo EXCEPT ![s] = @ \ {p}]
            /\ copy' = [copy EXCEPT ![s][p] = Begun(copy[s][p])]
      BY <2>3 DEF StartPost, Begun
    <3>2. p \in Posts
      BY <1>0 DEF TypeOK
    <3>3. copy' \in [Systems -> [Posts -> Row]]
      <4>1. Begun(copy[s][p]) \in Row
        BY <1>0, <3>2, BegunRow DEF TypeOK
      <4> QED  BY <1>0, <3>1, <3>2, <4>1 DEF TypeOK
    <3>4. TypeOK'
      BY <1>0, <2>3, <3>1, <3>2, <3>3 DEF TypeOK, StartPost, Stages
    <3>5. PassShape'
      BY <1>0, <2>3, <3>1, <3>2 DEF TypeOK, PassShape, StartPost, Working
    <3> QED  BY <3>4, <3>5 DEF Inv
  <2>4. CASE Escalate(s)
    <3>1. PICK p \in todo[s] :
            /\ todo' = [todo EXCEPT ![s] = @ \ {p}]
            /\ copy' = [copy EXCEPT ![s][p] = Leased(copy[s][p], "needs_attention", 0)]
            /\ row' = [row EXCEPT ![p] = Leased(copy[s][p], "needs_attention", 0)]
      BY <2>4 DEF Escalate, Leased
    <3>2. p \in Posts
      BY <1>0 DEF TypeOK
    <3>3. Leased(copy[s][p], "needs_attention", 0) \in Row
      BY <1>0, <3>2, LeasedRow DEF TypeOK, PostStates
    <3>4. row' \in [Posts -> Row] /\ copy' \in [Systems -> [Posts -> Row]]
      BY <1>0, <3>1, <3>2, <3>3 DEF TypeOK
    <3>5. TypeOK'
      BY <1>0, <2>4, <3>1, <3>4 DEF TypeOK, Escalate
    <3>6. PassShape'
      BY <1>0, <2>4, <3>1 DEF TypeOK, PassShape, Escalate, Working
    <3> QED  BY <3>5, <3>6 DEF Inv
  <2>5. CASE Accept(s)
    <3>0. cur[s] \in Posts
      BY <1>0, <2>5 DEF PassShape, Accept, Working
    <3>1. live' \in [Posts -> Nat]
      BY <1>0, <2>5, <3>0 DEF TypeOK, Accept
    <3>2. TypeOK'
      BY <1>0, <2>5, <3>1 DEF TypeOK, Accept, Stages
    <3> QED  BY <1>0, <2>5, <3>2 DEF Inv, TypeOK, PassShape, Accept, Working
  <2>6. CASE Confirm(s)
    <3> DEFINE r == Leased(copy[s][cur[s]], "published", 0)
    <3>1. cur[s] \in Posts
      BY <1>0, <2>6 DEF PassShape, Confirm, Working
    <3>2. r \in Row
      BY <1>0, <3>1, LeasedRow DEF TypeOK, PostStates
    <3>3. Write(s, r)
      BY <2>6 DEF Confirm, Leased
    <3>4. row' \in [Posts -> Row] /\ copy' \in [Systems -> [Posts -> Row]]
      <4> HIDE DEF r
      <4> QED  BY <1>0, <3>1, <3>2, <3>3, WriteTyped
    <3>5. TypeOK'
      BY <1>0, <2>6, <3>4 DEF TypeOK, Confirm, Stages
    <3> QED
      BY <1>0, <2>6, <3>5, PublishingAssumption DEF Inv, TypeOK, PassShape, Confirm, Working
  <2>7. CASE Fail(s)
    <3> DEFINE r == Unleased(copy[s][cur[s]])
    <3>1. cur[s] \in Posts
      BY <1>0, <2>7 DEF PassShape, Fail, Working
    <3>2. r \in Row
      BY <1>0, <3>1, UnleasedRow DEF TypeOK
    <3>3. Write(s, r)
      BY <2>7 DEF Fail, Unleased
    <3>4. row' \in [Posts -> Row] /\ copy' \in [Systems -> [Posts -> Row]]
      <4> HIDE DEF r
      <4> QED  BY <1>0, <3>1, <3>2, <3>3, WriteTyped
    <3>5. faults' \in Nat /\ stage' \in [Systems -> Stages]
      BY <1>0, <2>7 DEF TypeOK, Fail, Stages
    <3>6. TypeOK'
      BY <1>0, <2>7, <3>4, <3>5 DEF TypeOK, Fail
    <3> QED  BY <1>0, <2>7, <3>6 DEF Inv, TypeOK, PassShape, Fail, Working
  <2>8. CASE Settle(s)
    <3>1. cur[s] \in Posts
      BY <1>0, <2>8 DEF PassShape, Settle, Working
    <3>2. PICK r \in Verdicts(copy[s][cur[s]]) : Write(s, r)
      BY <2>8 DEF Settle
    <3>3. r \in Row
      BY <1>0, <3>1, VerdictRow DEF TypeOK
    <3>4. row' \in [Posts -> Row] /\ copy' \in [Systems -> [Posts -> Row]]
      BY <1>0, <3>1, <3>2, <3>3, WriteTyped
    <3>5. TypeOK'
      BY <1>0, <2>8, <3>4 DEF TypeOK, Settle, Stages
    <3> QED
      BY <1>0, <2>8, <3>5, PublishingAssumption DEF Inv, TypeOK, PassShape, Settle, Working
  <2>9. CASE EndPass(s)
    <3>1. TypeOK'
      BY <1>0, <2>9 DEF TypeOK, EndPass, Stages
    <3> QED  BY <1>0, <2>9, <3>1 DEF Inv, TypeOK, PassShape, EndPass, Working
  <2>10. CASE Raise(s)
    <3>1. cur[s] \in Posts
      BY <1>0, <2>10 DEF PassShape, Raise
    <3>2. row' \in [Posts -> Row] /\ faults' \in Nat
      BY <1>0, <2>10, <3>1 DEF TypeOK, Raise
    <3>3. PICK w \in 0..RetryWait : Abandon(s, w)
      BY <2>10 DEF Raise
    <3>4. w \in Nat
      BY PublishingAssumption
    <3> QED  BY <1>0, <2>10, <3>2, <3>3, <3>4, AbandonShape DEF Inv, TypeOK, Raise
  <2>11. CASE Crash(s)
    <3>1. faults' \in Nat
      BY <1>0, <2>11 DEF TypeOK, Crash
    <3>2. Abandon(s, JobLease) /\ JobLease \in Nat
      BY <2>11, PublishingAssumption DEF Crash
    <3> QED  BY <1>0, <2>11, <3>1, <3>2, AbandonShape DEF Inv, TypeOK, Crash
  <2> QED
    BY <1>4, <2>1, <2>2, <2>3, <2>4, <2>5, <2>6, <2>7, <2>8, <2>9, <2>10, <2>11
       DEF PassStep
<1>5. CASE UNCHANGED vars
  BY <1>0, <1>5 DEF Inv, TypeOK, PassShape, vars
<1> QED  BY <1>1, <1>c, <1>2, <1>3, <1>4, <1>5 DEF Next

\* Every record, copy and pass keeps its type, and a pass its shape.
THEOREM Shapes == Spec => []Inv
  BY InitInv, NextInv, PTL DEF Spec

\* Every record, copy and pass keeps its type.
THEOREM TypeCorrect == Spec => []TypeOK
<1>1. Inv => TypeOK
  BY DEF Inv
<1> QED  BY <1>1, Shapes, PTL

-----------------------------------------------------------------------------
(* What one step may make of a record.  Both promises below follow from    *)
(* this classification, so the actions are gone through once.              *)

\* Every record of post p: its row, and its copies in the passes' memory.
Records(p) == {row[p]} \union {copy[s][p] : s \in Systems}

\* Some pass has seen the platform complete post p.
Sent(p) == \E s \in Systems : stage[s] = "sent" /\ cur[s] = p

\* Record r of the next state comes from record q of this one.
Change(p, q, r) ==
    \/ /\ r.tries = q.tries
       /\ \/ r.state = q.state
          \/ r.state \in {"failed", "needs_attention"}
          \/ r.state = "scheduled" /\ (q.state = "draft" \/ retries' = retries + 1)
          \/ r.state = "claimed" /\ q.state \in {"scheduled", "claimed", "retrying"}
          \/ r.state = "retrying" /\ q.tries < MaxTries
          \/ r.state = "published" /\ Sent(p)
    \/ r.state = "uploading" /\ q.state = "claimed" /\ r.tries = q.tries + 1

Origin(p, r) == \E q \in Records(p) : Change(p, q, r)

\* A pass works only posts it claimed, as it claimed them.
Claimed == \A s \in Systems : \A p \in todo[s] : copy[s][p].state = "claimed"

AllOrigins ==
    /\ \A p \in Posts : Origin(p, row'[p])
    /\ \A s \in Systems, p \in Posts : Origin(p, copy'[s][p])

\* A record kept, or copied between memory and the table, has an origin.
LEMMA SameOrigin ==
    /\ \A p \in Posts : Origin(p, row[p])
    /\ \A s \in Systems, p \in Posts : Origin(p, copy[s][p])
  BY DEF Origin, Records, Change

\* A change of a record of p, by whoever, gives its result an origin.
LEMMA ChangeOrigin ==
    ASSUME NEW p \in Posts, NEW r
    PROVE  /\ Change(p, row[p], r) => Origin(p, r)
           /\ \A s \in Systems : Change(p, copy[s][p], r) => Origin(p, r)
  BY DEF Origin, Records

\* Where one post's row and one pass's copy of it become r, an origin of r
\* is all there is to show.
LEMMA WriteOrigins ==
    ASSUME Inv, NEW s \in Systems, cur[s] \in Posts, NEW r \in Row, Write(s, r),
           Origin(cur[s], r)
    PROVE  AllOrigins
  BY WriteTyped, SameOrigin DEF Inv, AllOrigins

\* Writing the current post leaves the posts still to do as they were.
LEMMA WriteClaimed ==
    ASSUME TypeOK, PassShape, Claimed, NEW s \in Systems, cur[s] \in Posts,
           NEW r \in Row, Write(s, r), todo' = todo
    PROVE  Claimed'
<1> SUFFICES ASSUME NEW t \in Systems, NEW p \in todo[t]
             PROVE  copy'[t][p].state = "claimed"
  BY DEF Claimed
<1>1. p \in Posts
  BY DEF TypeOK
<1>2. ~(t = s /\ p = cur[s])
  BY DEF PassShape
<1>3. copy'[t][p] = copy[t][p]
  BY <1>1, <1>2, WriteTyped
<1> QED  BY <1>3 DEF Claimed

LEMMA StepOrigins == Inv /\ Claimed /\ [Next]_vars => AllOrigins /\ Claimed'
<1> SUFFICES ASSUME Inv, Claimed, [Next]_vars PROVE AllOrigins /\ Claimed'
  OBVIOUS
<1>0. TypeOK /\ PassShape
  BY DEF Inv
<1>1. ASSUME NEW p \in Posts, Promote(p) PROVE AllOrigins /\ Claimed'
  <2>1. copy' = copy /\ todo' = todo
    BY <1>1 DEF Promote, pass
  <2>2. \A q \in Posts : Origin(q, row'[q])
    <3>1. row' = [row EXCEPT ![p] = [row[p] EXCEPT !.state = "scheduled"]]
      BY <1>1 DEF Promote
    <3>2. row[p] \in Row
      BY <1>0 DEF TypeOK
    <3>3. /\ row'[p].state = "scheduled"
          /\ row'[p].tries = row[p].tries
      BY <1>0, <3>1, <3>2 DEF TypeOK, Row
    <3>4. Change(p, row[p], row'[p])
      BY <1>1, <3>3 DEF Change, Promote
    <3> QED  BY <1>0, <3>1, <3>4, ChangeOrigin, SameOrigin DEF TypeOK
  <2> QED  BY <2>1, <2>2, SameOrigin DEF AllOrigins, Claimed
<1>c. ASSUME NEW p \in Posts, Chain(p) PROVE AllOrigins /\ Claimed'
  BY <1>c, SameOrigin DEF Chain, pass, AllOrigins, Claimed
<1>2. ASSUME NEW p \in Posts, RetryUpload(p) PROVE AllOrigins /\ Claimed'
  <2>1. copy' = copy /\ todo' = todo
    BY <1>2 DEF RetryUpload, pass
  <2>2. \A q \in Posts : Origin(q, row'[q])
    <3>1. row' = [row EXCEPT ![p] = Waiting(row[p], "scheduled", 0)]
      BY <1>2 DEF RetryUpload, Waiting
    <3>2. /\ row'[p].state = "scheduled"
          /\ row'[p].tries = row[p].tries
      <4>1. row[p] \in Row /\ "scheduled" \in PostStates /\ 0 \in Nat
        BY <1>0 DEF TypeOK, PostStates
      <4>2. row'[p] = Waiting(row[p], "scheduled", 0)
        BY <1>0, <3>1 DEF TypeOK
      <4> QED  BY ONLY <4>1, <4>2, WaitingRow
    <3>3. Change(p, row[p], row'[p])
      BY <1>2, <3>2 DEF Change, RetryUpload
    <3> QED  BY <1>0, <3>1, <3>3, ChangeOrigin, SameOrigin DEF TypeOK
  <2> QED  BY <2>1, <2>2, SameOrigin DEF AllOrigins, Claimed
<1>3. CASE Tick
  <2>1. ASSUME NEW p \in Posts PROVE Origin(p, row'[p])
    <3>1. Change(p, row[p], Aged(row[p]))
      BY <1>0, AgedRow DEF TypeOK, Change
    <3> QED  BY <1>3, <3>1, ChangeOrigin DEF Tick
  <2>2. ASSUME NEW s \in Systems, NEW p \in Posts
        PROVE  Origin(p, copy'[s][p]) /\ copy'[s][p].state = copy[s][p].state
    <3>1. Change(p, copy[s][p], Aged(copy[s][p]))
      BY <1>0, AgedRow DEF TypeOK, Change
    <3>2. copy'[s][p] = Aged(copy[s][p])
      BY <1>3 DEF Tick
    <3> QED  BY <1>0, <3>1, <3>2, AgedRow, ChangeOrigin DEF TypeOK
  <2>3. Claimed'
    BY <1>0, <1>3, <2>2 DEF Claimed, Tick, TypeOK
  <2> QED  BY <2>1, <2>2, <2>3 DEF AllOrigins
<1>4. ASSUME NEW s \in Systems, PassStep(s) PROVE AllOrigins /\ Claimed'
  <2>1. ASSUME NEW p \in Posts, StartPass(s, p) PROVE AllOrigins /\ Claimed'
    <3>1. row' = row /\ copy' = [copy EXCEPT ![s] = row] /\ todo' = todo
      BY <2>1 DEF StartPass
    <3>2. AllOrigins
      BY <1>0, <3>1, SameOrigin DEF AllOrigins, TypeOK
    <3>3. todo[s] = {}
      BY <1>0, <2>1 DEF PassShape, StartPass
    <3> QED  BY <1>0, <3>1, <3>2, <3>3 DEF Claimed, TypeOK
  <2>2. CASE ClaimDue(s)
    <3>0. PICK S \in ClaimSets(copy[s]) :
            /\ copy' = [copy EXCEPT ![s] = ClaimedCopy(copy[s], S)]
            /\ row' = [p \in Posts |-> IF p \in S \/ S = {}
                                       THEN ClaimedCopy(copy[s], S)[p] ELSE row[p]]
            /\ todo' = [todo EXCEPT ![s] = S]
      BY <2>2 DEF ClaimDue, ClaimedCopy
    <3>d. PICK d : d = ClaimedCopy(copy[s], S)
      OBVIOUS
    <3>1. /\ copy' = [copy EXCEPT ![s] = d]
          /\ row' = [p \in Posts |-> IF p \in S \/ S = {} THEN d[p] ELSE row[p]]
          /\ todo' = [todo EXCEPT ![s] = S]
      BY <3>0, <3>d
    <3>2. S \in SUBSET Posts
      BY DEF ClaimSets, Due
    <3>3. copy[s] \in [Posts -> Row]
      BY <1>0 DEF TypeOK
    <3>4. \A p \in S : copy[s][p].state \in {"scheduled", "claimed", "retrying"}
      BY DEF ClaimSets, Due
    <3>5. \A p \in Posts : /\ d[p].tries = copy[s][p].tries
                           /\ d[p].state = IF p \in S THEN "claimed"
                                           ELSE copy[s][p].state
      BY <3>2, <3>3, <3>d, ClaimedRows
    <3>6. \A p \in Posts : Origin(p, d[p])
      <4> SUFFICES ASSUME NEW p \in Posts PROVE Origin(p, d[p])
        OBVIOUS
      <4>1. Change(p, copy[s][p], d[p])
        BY ONLY <3>4, <3>5 DEF Change
      <4> QED  BY <4>1, ChangeOrigin
    <3>7. AllOrigins
      BY <1>0, <3>1, <3>6, SameOrigin DEF AllOrigins, TypeOK
    <3>8. Claimed'
      BY <1>0, <3>1, <3>2, <3>5 DEF Claimed, TypeOK
    <3> QED  BY <3>7, <3>8
  <2>3. CASE StartPost(s)
    <3>1. PICK p \in todo[s] :
            /\ todo' = [todo EXCEPT ![s] = @ \ {p}]
            /\ copy' = [copy EXCEPT ![s][p] = Begun(copy[s][p])]
            /\ row' = row
      BY <2>3 DEF StartPost, Begun
    <3>2. p \in Posts /\ copy[s][p] \in Row /\ copy[s][p].state = "claimed"
      BY <1>0 DEF TypeOK, Claimed
    <3>3. Origin(p, Begun(copy[s][p]))
      <4>1. Change(p, copy[s][p], Begun(copy[s][p]))
        BY <3>2, BegunRow DEF Change
      <4> QED  BY <3>2, <4>1, ChangeOrigin
    <3>4. AllOrigins
      BY <1>0, <3>1, <3>2, <3>3, SameOrigin DEF AllOrigins, TypeOK
    <3>5. Claimed'
      BY <1>0, <3>1 DEF Claimed, TypeOK
    <3> QED  BY <3>4, <3>5
  <2>4. CASE Escalate(s)
    <3>1. PICK p \in todo[s] :
            /\ todo' = [todo EXCEPT ![s] = @ \ {p}]
            /\ copy' = [copy EXCEPT ![s][p] = Leased(copy[s][p], "needs_attention", 0)]
            /\ row' = [row EXCEPT ![p] = Leased(copy[s][p], "needs_attention", 0)]
      BY <2>4 DEF Escalate, Leased
    <3>2. p \in Posts /\ copy[s][p] \in Row
      BY <1>0 DEF TypeOK
    <3>3. Origin(p, Leased(copy[s][p], "needs_attention", 0))
      <4>0. "needs_attention" \in PostStates /\ 0 \in Nat
        BY DEF PostStates
      <4>1. Change(p, copy[s][p], Leased(copy[s][p], "needs_attention", 0))
        BY ONLY <3>2, <4>0, LeasedRow DEF Change
      <4> QED  BY <3>2, <4>1, ChangeOrigin
    <3>4. AllOrigins
      BY <1>0, <3>1, <3>2, <3>3, SameOrigin DEF AllOrigins, TypeOK
    <3>5. Claimed'
      BY <1>0, <3>1 DEF Claimed, TypeOK
    <3> QED  BY <3>4, <3>5
  <2>5. CASE Accept(s)
    <3>1. row' = row /\ copy' = copy /\ todo' = todo
      BY <2>5 DEF Accept
    <3> QED  BY <3>1, SameOrigin DEF AllOrigins, Claimed
  <2>6. CASE Confirm(s)
    <3> DEFINE r == Leased(copy[s][cur[s]], "published", 0)
    <3>1. cur[s] \in Posts
      BY <1>0, <2>6 DEF PassShape, Confirm, Working
    <3>2. copy[s][cur[s]] \in Row
      BY <1>0, <3>1 DEF TypeOK
    <3>3. r \in Row /\ r.state = "published" /\ r.tries = copy[s][cur[s]].tries
      <4>1. "published" \in PostStates /\ 0 \in Nat
        BY DEF PostStates
      <4> QED  BY ONLY <3>2, <4>1, LeasedRow
    <3>4. Write(s, r) /\ Sent(cur[s])
      BY <2>6 DEF Confirm, Leased, Sent
    <3> HIDE DEF r
    <3>5. Origin(cur[s], r)
      <4>1. Change(cur[s], copy[s][cur[s]], r)
        BY <3>3, <3>4 DEF Change
      <4> QED  BY <3>1, <4>1, ChangeOrigin
    <3>6. Claimed'
      <4>1. todo' = todo
        BY <2>6 DEF Confirm
      <4> QED  BY <1>0, <3>1, <3>3, <3>4, <4>1, WriteClaimed
    <3> QED  BY <3>1, <3>3, <3>4, <3>5, <3>6, WriteOrigins
  <2>7. CASE Fail(s)
    <3> DEFINE r == Unleased(copy[s][cur[s]])
    <3>1. cur[s] \in Posts
      BY <1>0, <2>7 DEF PassShape, Fail, Working
    <3>2. copy[s][cur[s]] \in Row
      BY <1>0, <3>1 DEF TypeOK
    <3>3. r \in Row /\ r.state = copy[s][cur[s]].state /\ r.tries = copy[s][cur[s]].tries
      BY <3>2, UnleasedRow
    <3>4. Write(s, r)
      BY <2>7 DEF Fail, Unleased
    <3> HIDE DEF r
    <3>5. Origin(cur[s], r)
      <4>1. Change(cur[s], copy[s][cur[s]], r)
        BY <3>3 DEF Change
      <4> QED  BY <3>1, <4>1, ChangeOrigin
    <3>6. Claimed'
      <4>1. todo' = todo
        BY <2>7 DEF Fail
      <4> QED  BY <1>0, <3>1, <3>3, <3>4, <4>1, WriteClaimed
    <3> QED  BY <3>1, <3>3, <3>4, <3>5, <3>6, WriteOrigins
  <2>8. CASE Settle(s)
    <3>1. cur[s] \in Posts
      BY <1>0, <2>8 DEF PassShape, Settle, Working
    <3>2. copy[s][cur[s]] \in Row
      BY <1>0, <3>1 DEF TypeOK
    <3>3. PICK r \in Verdicts(copy[s][cur[s]]) : Write(s, r)
      BY <2>8 DEF Settle
    <3>4. /\ r \in Row /\ r.tries = copy[s][cur[s]].tries
          /\ r.state \in {"failed", "needs_attention", "retrying"}
          /\ r.state = "retrying" => copy[s][cur[s]].tries < MaxTries
      BY <3>2, VerdictRow
    <3>5. Origin(cur[s], r)
      <4>1. Change(cur[s], copy[s][cur[s]], r)
        BY <3>4 DEF Change
      <4> QED  BY <3>1, <4>1, ChangeOrigin
    <3>6. Claimed'
      <4>1. todo' = todo
        BY <2>8 DEF Settle
      <4> QED  BY <1>0, <3>1, <3>3, <3>4, <4>1, WriteClaimed
    <3> QED  BY <3>1, <3>3, <3>4, <3>5, <3>6, WriteOrigins
  <2>9. CASE EndPass(s)
    <3>1. row' = row /\ copy' = copy /\ todo' = todo
      BY <2>9 DEF EndPass
    <3> QED  BY <3>1, SameOrigin DEF AllOrigins, Claimed
  <2>10. CASE Raise(s)
    <3>1. /\ row' = [row EXCEPT ![cur[s]] = copy[s][cur[s]]]
          /\ copy' = copy
          /\ todo' = [todo EXCEPT ![s] = {}]
      BY <2>10 DEF Raise, Abandon
    <3>2. cur[s] \in Posts
      BY <1>0, <2>10 DEF PassShape, Raise
    <3> QED
      BY <1>0, <3>1, <3>2, SameOrigin DEF AllOrigins, Claimed, TypeOK
  <2>11. CASE Crash(s)
    <3>1. row' = row /\ copy' = copy /\ todo' = [todo EXCEPT ![s] = {}]
      BY <2>11 DEF Crash, Abandon
    <3> QED  BY <1>0, <3>1, SameOrigin DEF AllOrigins, Claimed, TypeOK
  <2> QED
    BY <1>4, <2>1, <2>2, <2>3, <2>4, <2>5, <2>6, <2>7, <2>8, <2>9, <2>10, <2>11
       DEF PassStep
<1>5. CASE UNCHANGED vars
  <2>1. row' = row /\ copy' = copy /\ todo' = todo
    BY <1>5 DEF vars
  <2> QED  BY <2>1, SameOrigin DEF AllOrigins, Claimed
<1> QED  BY <1>1, <1>c, <1>2, <1>3, <1>4, <1>5 DEF Next

-----------------------------------------------------------------------------
(* What the records promise.                                               *)

\* No row, no copy and no pass about to confirm claims a delivery that the
\* platform does not hold.
AllReal ==
    \A p \in Posts :
        /\ \A r \in Records(p) : r.state = "published" => live[p] > 0
        /\ Sent(p) => live[p] > 0

\* A record within its budget; one that may yet be worked has some left.
Within(r) ==
    /\ r.tries <= MaxTries + retries
    /\ r.state \in {"draft", "scheduled", "claimed", "retrying"}
          => r.tries < MaxTries + retries

AllWithin == \A p \in Posts : \A r \in Records(p) : Within(r)

\* The platform never loses a post, and a pass has sent one only if the
\* platform took it.
LEMMA StepLive ==
    ASSUME Inv, [Next]_vars, NEW p \in Posts
    PROVE  /\ live'[p] >= live[p]
           /\ Sent(p)' => Sent(p) \/ live'[p] > 0
<1>0. TypeOK /\ PassShape
  BY DEF Inv
<1>1. CASE \E s \in Systems : Accept(s)
  <2>1. PICK s \in Systems : Accept(s)
    BY <1>1
  <2>2. cur[s] \in Posts /\ live' = [live EXCEPT ![cur[s]] = live[cur[s]] + 1]
    BY <1>0, <2>1 DEF Accept, PassShape, Working
  <2>3. live'[p] >= live[p] /\ (p = cur[s] => live'[p] > 0)
    BY <1>0, <2>2 DEF TypeOK
  <2>4. Sent(p)' => Sent(p) \/ p = cur[s]
    BY <1>0, <2>1 DEF Sent, Accept, TypeOK
  <2> QED  BY <2>3, <2>4
<1>2. CASE ~ \E s \in Systems : Accept(s)
  <2>1. live' = live
    BY <1>2 DEF Next, vars, Promote, Chain, RetryUpload, Tick, PassStep, StartPass, ClaimDue,
                StartPost, Escalate, Confirm, Fail, Settle, EndPass, Raise, Crash
  <2>2. ASSUME NEW s \in Systems, stage'[s] = "sent", cur'[s] = p
        PROVE  stage[s] = "sent" /\ cur[s] = p
    <3>1. CASE \E t \in Systems : PassStep(t)
      <4>1. PICK t \in Systems : PassStep(t)
        BY <3>1
      <4>2. \E x \in {"idle", "restored", "next", "sending", "failing"},
               c \in Posts \union {NoPost} :
              /\ stage' = [stage EXCEPT ![t] = x]
              /\ cur' = cur \/ cur' = [cur EXCEPT ![t] = c]
        <5>1. CASE StartPost(t)
          BY <1>0, <5>1 DEF StartPost, TypeOK
        <5>2. CASE ~StartPost(t)
          <6>1. CASE Escalate(t)
            <7>1. stage' = [stage EXCEPT ![t] = "next"] /\ cur' = cur
              BY <1>0, <6>1 DEF Escalate, TypeOK
            <7> QED  BY <7>1
          <6>2. CASE ~Escalate(t)
            BY <1>2, <4>1, <5>2, <6>2
               DEF PassStep, StartPass, ClaimDue, Confirm, Fail, Settle, EndPass,
                   Raise, Crash, Abandon
          <6> QED  BY <6>1, <6>2
        <5> QED  BY <5>1, <5>2
      <4> QED  BY <1>0, <2>2, <4>2 DEF TypeOK
    <3>2. CASE ~ \E t \in Systems : PassStep(t)
      <4>1. stage' = stage /\ cur' = cur
        BY <3>2 DEF Next, vars, Promote, Chain, RetryUpload, Tick, pass
      <4> QED  BY <2>2, <4>1
    <3> QED  BY <3>1, <3>2
  <2> QED  BY <1>0, <2>1, <2>2 DEF Sent, TypeOK
<1> QED  BY <1>1, <1>2

\* The operator's retries are counted up.
LEMMA StepRetries == Inv /\ [Next]_vars => retries' \in Nat /\ retries' >= retries
<1> SUFFICES ASSUME Inv, [Next]_vars PROVE retries' \in Nat /\ retries' >= retries
  OBVIOUS
<1>1. retries' = retries + 1 \/ retries' = retries
  BY DEF Next, vars, Promote, Chain, RetryUpload, Tick, PassStep, StartPass, ClaimDue,
         StartPost, Escalate, Accept, Confirm, Fail, Settle, EndPass, Raise, Crash
<1> QED  BY <1>1 DEF Inv, TypeOK

\* The records of the next state are rows and copies, each with its origin.
LEMMA NextRecords ==
    ASSUME Inv, AllOrigins, NEW p \in Posts, NEW r \in Records(p)'
    PROVE  \E q \in Records(p) : Change(p, q, r)
  BY DEF Records, AllOrigins, Origin

\* Every record of a post is a record.
LEMMA RecordTypes == ASSUME Inv, NEW p \in Posts, NEW r \in Records(p)
                     PROVE  r \in Row
  BY DEF Inv, TypeOK, Records

LEMMA RealStep == Inv /\ Claimed /\ AllReal /\ [Next]_vars => AllReal'
<1> SUFFICES ASSUME Inv, Claimed, AllReal, [Next]_vars PROVE AllReal'
  OBVIOUS
<1>1. AllOrigins
  BY StepOrigins
<1> SUFFICES ASSUME NEW p \in Posts
             PROVE  /\ \A r \in Records(p)' : r.state = "published" => live'[p] > 0
                    /\ Sent(p)' => live'[p] > 0
  BY DEF AllReal
<1>2. live[p] \in Nat /\ live'[p] \in Nat
  BY NextInv DEF Inv, TypeOK
<1>3. /\ live'[p] >= live[p]
      /\ Sent(p)' => Sent(p) \/ live'[p] > 0
  BY StepLive
<1>4. Sent(p)' => live'[p] > 0
  BY <1>2, <1>3 DEF AllReal
<1>5. ASSUME NEW r \in Records(p)', r.state = "published" PROVE live'[p] > 0
  <2>1. PICK q \in Records(p) : Change(p, q, r)
    BY <1>1, NextRecords
  <2>2. q.state = "published" \/ Sent(p)
    BY <1>5, <2>1 DEF Change
  <2>3. live[p] > 0
    BY <2>2 DEF AllReal
  <2> QED  BY <1>2, <1>3, <2>3
<1> QED  BY <1>4, <1>5

LEMMA WithinStep == Inv /\ Claimed /\ AllWithin /\ [Next]_vars => AllWithin'
<1> SUFFICES ASSUME Inv, Claimed, AllWithin, [Next]_vars PROVE AllWithin'
  OBVIOUS
<1>1. AllOrigins
  BY StepOrigins
<1>2. /\ retries \in Nat /\ retries' \in Nat /\ retries' >= retries
      /\ MaxTries \in Nat
  BY StepRetries, PublishingAssumption DEF Inv, TypeOK
<1> SUFFICES ASSUME NEW p \in Posts, NEW r \in Records(p)'
             PROVE  /\ r.tries <= MaxTries + retries'
                    /\ r.state \in {"draft", "scheduled", "claimed", "retrying"}
                          => r.tries < MaxTries + retries'
  BY DEF AllWithin, Within
<1>3. PICK q \in Records(p) : Change(p, q, r)
  BY <1>1, NextRecords
<1>4. /\ q.tries \in Nat
      /\ q.tries <= MaxTries + retries
      /\ q.state \in {"draft", "scheduled", "claimed", "retrying"}
            => q.tries < MaxTries + retries
  BY RecordTypes DEF AllWithin, Within, Row
<1>5. CASE r.tries = q.tries
  BY <1>2, <1>3, <1>4, <1>5 DEF Change
<1>6. CASE r.state = "uploading" /\ q.state = "claimed" /\ r.tries = q.tries + 1
  BY <1>2, <1>4, <1>6
<1> QED  BY <1>3, <1>5, <1>6 DEF Change

LEMMA InitRecords == Init => Claimed /\ AllReal /\ AllWithin
<1> SUFFICES ASSUME Init PROVE Claimed /\ AllReal /\ AllWithin
  OBVIOUS
<1>1. \A p \in Posts : \A r \in Records(p) :
        r = [state |-> IF p \in Drafts THEN "draft" ELSE "scheduled",
             lease |-> 0, wait |-> Slot[p], tries |-> 0]
  BY DEF Init, Records
<1>2. \A p \in Posts : \A r \in Records(p) :
        r.state \in {"draft", "scheduled"} /\ r.tries = 0
  BY <1>1
<1>3. Claimed /\ AllReal
  BY <1>2 DEF Init, Claimed, AllReal, Sent
<1>4. AllWithin
  BY <1>2, PublishingAssumption DEF Init, AllWithin, Within
<1> QED  BY <1>3, <1>4

\* What every record of a post says at every moment, whoever holds it.
THEOREM RecordsInvariant == Spec => [](Claimed /\ AllReal /\ AllWithin)
<1>1. Inv /\ (Claimed /\ AllReal /\ AllWithin) /\ [Next]_vars
        => (Claimed /\ AllReal /\ AllWithin)'
  BY StepOrigins, RealStep, WithinStep
<1> QED  BY <1>1, InitRecords, Shapes, PTL DEF Spec

\* A row says published only if the platform holds the post: for any number
\* of overlapping passes, crashes, lost replies, exceptions and retries.
THEOREM NoFalseDelivery == Spec => []PublishedIsReal
<1>1. AllReal => PublishedIsReal
  BY DEF AllReal, PublishedIsReal, Records
<1> QED  BY <1>1, RecordsInvariant, PTL

\* No row records more attempts than the budget, and one more for each time
\* an operator put a post back: restoring and writing back stale copies may
\* forget attempts, and never adds one.
THEOREM BudgetHolds == Spec => []AttemptsBudgeted
<1>1. AllWithin => AttemptsBudgeted
  BY DEF AllWithin, Within, AttemptsBudgeted, Records
<1> QED  BY <1>1, RecordsInvariant, PTL
-----------------------------------------------------------------------------
(* One worker on the channel.  Between StartPass and the end of its pass   *)
(* nobody else touches the rows of its claims, so rows and copies agree on *)
(* what is published, and a request goes out only for a post that is not.  *)

OneWorker == \E s : Systems = {s}

Done(r) == r.state = "published"

\* Rows and copies agree on what is published.
Alike == \A s \in Systems, p \in Posts : Done(row[p]) <=> Done(copy[s][p])

\* What is being worked is not published.
Undone == \A s \in Systems : stage[s] \in Working => ~Done(copy[s][cur[s]])

\* The platform holds one copy for the record that says so, or for the reply
\* under way, and one at most for each fault.
Paid ==
    \A p \in Posts :
        /\ live[p] <= faults + 1
        /\ ~Done(row[p]) /\ ~Sent(p) => live[p] <= faults

OneInv == Alike /\ Undone /\ Paid

\* Pass s confirms post p.
Confirms(s, p) == Confirm(s) /\ p = cur[s]

\* Written as it stands unleased, waiting or stopped, a record is as published
\* as its state says.
LEMMA WriteDone ==
    ASSUME OneWorker, Inv, Alike, NEW s \in Systems, NEW p \in Posts,
           cur[s] \in Posts, NEW r \in Row, Write(s, r),
           Done(r) <=> Done(copy[s][cur[s]])
    PROVE  /\ Done(row'[p]) <=> Done(row[p])
           /\ Done(copy'[s][p]) <=> Done(copy[s][p])
  BY WriteTyped DEF Inv, Alike

\* The one way a record comes to say published is the pass's confirmation, and
\* no record ever stops saying so.
LEMMA StepDone ==
    ASSUME OneWorker, Inv, Claimed, Alike, Undone, [Next]_vars,
           NEW s \in Systems, NEW p \in Posts
    PROVE  /\ Done(row'[p]) <=> Done(row[p]) \/ Confirms(s, p)
           /\ Done(copy'[s][p]) <=> Done(copy[s][p]) \/ Confirms(s, p)
<1> DEFINE Goal == /\ Done(row'[p]) <=> Done(row[p]) \/ Confirms(s, p)
                   /\ Done(copy'[s][p]) <=> Done(copy[s][p]) \/ Confirms(s, p)
<1> SUFFICES Goal
  OBVIOUS
<1>0. /\ TypeOK /\ PassShape
      /\ row[p] \in Row /\ copy[s][p] \in Row /\ copy[s] \in [Posts -> Row]
      /\ \A t \in Systems : t = s
  BY DEF Inv, TypeOK, OneWorker
<1>e. ASSUME ~Confirm(s), Done(row'[p]) <=> Done(row[p]),
             Done(copy'[s][p]) <=> Done(copy[s][p])
      PROVE  Goal
  BY <1>e DEF Confirms
<1>n. stage[s] # "sent" => ~Confirm(s)
  BY DEF Confirm
<1>1. ASSUME ~Confirm(s), NEW q \in Posts, Promote(q) PROVE Goal
  <2>1. copy' = copy /\ row' = [row EXCEPT ![q].state = "scheduled"] /\ row[q].state = "draft"
    BY <1>1 DEF Promote, pass
  <2>2. Done(row'[p]) <=> Done(row[p])
    BY <1>0, <2>1 DEF TypeOK, Row, Done
  <2> QED  BY <1>1, <1>e, <2>1, <2>2
<1>2. ASSUME ~Confirm(s), NEW q \in Posts, RetryUpload(q) PROVE Goal
  <2>1. /\ copy' = copy
        /\ row' = [row EXCEPT ![q] = Waiting(row[q], "scheduled", 0)]
        /\ row[q].state \in {"failed", "needs_attention"}
    BY <1>2 DEF RetryUpload, pass, Waiting
  <2>2. Waiting(row[q], "scheduled", 0).state = "scheduled"
    BY <1>0, WaitingRow DEF TypeOK, PostStates
  <2>3. Done(row'[p]) <=> Done(row[p])
    BY <1>0, <2>1, <2>2 DEF TypeOK, Done
  <2> QED  BY <1>2, <1>e, <2>1, <2>3
<1>3. CASE ~Confirm(s) /\ Tick
  <2>1. row'[p] = Aged(row[p]) /\ copy'[s][p] = Aged(copy[s][p])
    BY <1>3 DEF Tick
  <2>2. Aged(row[p]).state = row[p].state /\ Aged(copy[s][p]).state = copy[s][p].state
    BY <1>0, AgedRow
  <2> QED  BY <1>3, <1>e, <2>1, <2>2 DEF Done
<1>4. ASSUME ~Confirm(s), row' = row, copy' = copy PROVE Goal
  BY <1>4, <1>e
<1>5. ASSUME ~Confirm(s), NEW q \in Posts, StartPass(s, q) PROVE Goal
  <2>1. row' = row /\ copy'[s] = row
    BY <1>0, <1>5 DEF StartPass, TypeOK
  <2> QED  BY <1>5, <1>e, <2>1 DEF Alike
<1>6. CASE ~Confirm(s) /\ ClaimDue(s)
  <2>0. PICK S \in ClaimSets(copy[s]) :
            /\ copy' = [copy EXCEPT ![s] = ClaimedCopy(copy[s], S)]
            /\ row' = [q \in Posts |-> IF q \in S \/ S = {}
                                       THEN ClaimedCopy(copy[s], S)[q] ELSE row[q]]
    BY <1>6 DEF ClaimDue, ClaimedCopy
  <2>1. S \in SUBSET Posts /\ \A q \in S : ~Done(copy[s][q])
    BY DEF ClaimSets, Due, Done
  <2>d. PICK d : d = ClaimedCopy(copy[s], S)
    OBVIOUS
  <2>2. d[p].state = IF p \in S THEN "claimed" ELSE copy[s][p].state
    BY <1>0, <2>1, <2>d, ClaimedRows
  <2>3. Done(d[p]) <=> Done(copy[s][p])
    BY <2>1, <2>2 DEF Done
  <2>4. copy'[s][p] = d[p] /\ (row'[p] = d[p] \/ row'[p] = row[p])
    BY <1>0, <2>0, <2>d DEF TypeOK
  <2> QED  BY <1>6, <1>e, <2>3, <2>4 DEF Alike
<1>7. CASE ~Confirm(s) /\ StartPost(s)
  <2>1. PICK q \in todo[s] :
            /\ copy' = [copy EXCEPT ![s][q] = Begun(copy[s][q])]
            /\ row' = row
    BY <1>7 DEF StartPost, Begun
  <2>2. q \in Posts /\ copy[s][q] \in Row /\ ~Done(copy[s][q])
    BY <1>0 DEF TypeOK, Claimed, Done
  <2>3. ~Done(Begun(copy[s][q]))
    BY <2>2, BegunRow DEF Done
  <2>4. Done(copy'[s][p]) <=> Done(copy[s][p])
    BY <1>0, <2>1, <2>2, <2>3 DEF TypeOK
  <2> QED  BY <1>7, <1>e, <2>1, <2>4
<1>8. CASE ~Confirm(s) /\ Escalate(s)
  <2>1. PICK q \in todo[s] :
            /\ copy' = [copy EXCEPT ![s][q] = Leased(copy[s][q], "needs_attention", 0)]
            /\ row' = [row EXCEPT ![q] = Leased(copy[s][q], "needs_attention", 0)]
    BY <1>8 DEF Escalate, Leased
  <2>2. q \in Posts /\ copy[s][q] \in Row /\ ~Done(copy[s][q]) /\ ~Done(row[q])
    BY <1>0 DEF TypeOK, Claimed, Done, Alike
  <2>3. ~Done(Leased(copy[s][q], "needs_attention", 0))
    BY <2>2, LeasedRow DEF Done, PostStates
  <2>4. Done(copy'[s][p]) <=> Done(copy[s][p])
    BY <1>0, <2>1, <2>2, <2>3 DEF TypeOK
  <2>5. Done(row'[p]) <=> Done(row[p])
    BY <1>0, <2>1, <2>2, <2>3 DEF TypeOK
  <2> QED  BY <1>8, <1>e, <2>4, <2>5
<1>9. CASE Confirm(s)
  <2> DEFINE r == Leased(copy[s][cur[s]], "published", 0)
  <2>1. cur[s] \in Posts /\ copy[s][cur[s]] \in Row
    BY <1>0, <1>9 DEF PassShape, Confirm, Working, TypeOK
  <2>2. r \in Row /\ Done(r)
    <3>1. "published" \in PostStates /\ 0 \in Nat
      BY DEF PostStates
    <3>2. r \in Row /\ r.state = "published"
      BY ONLY <2>1, <3>1, LeasedRow
    <3> QED  BY <3>2 DEF Done
  <2>3. Write(s, r)
    BY <1>9 DEF Confirm, Leased
  <2> HIDE DEF r
  <2>4. /\ row'[p] = IF p = cur[s] THEN r ELSE row[p]
        /\ copy'[s][p] = IF p = cur[s] THEN r ELSE copy[s][p]
    BY <1>0, <2>1, <2>2, <2>3, WriteTyped
  <2> QED  BY <1>9, <2>2, <2>4 DEF Confirms
<1>10. CASE ~Confirm(s) /\ Fail(s)
  <2> DEFINE r == Unleased(copy[s][cur[s]])
  <2>1. cur[s] \in Posts /\ copy[s][cur[s]] \in Row
    BY <1>0, <1>10 DEF PassShape, Fail, Working, TypeOK
  <2>2. r \in Row /\ r.state = copy[s][cur[s]].state
    BY <2>1, UnleasedRow
  <2>3. Write(s, r)
    BY <1>10 DEF Fail, Unleased
  <2> HIDE DEF r
  <2> QED  BY <1>10, <1>e, <2>1, <2>2, <2>3, WriteDone DEF Done
<1>11. CASE ~Confirm(s) /\ Settle(s)
  <2>1. cur[s] \in Posts /\ copy[s][cur[s]] \in Row /\ ~Done(copy[s][cur[s]])
    BY <1>0, <1>11 DEF PassShape, Settle, Working, TypeOK, Undone
  <2>2. PICK r \in Verdicts(copy[s][cur[s]]) : Write(s, r)
    BY <1>11 DEF Settle
  <2>3. r \in Row /\ ~Done(r)
    BY <2>1, VerdictRow DEF Done
  <2> QED  BY <1>11, <1>e, <2>1, <2>2, <2>3, WriteDone
<1>12. CASE ~Confirm(s) /\ Raise(s)
  <2>1. /\ row' = [row EXCEPT ![cur[s]] = copy[s][cur[s]]]
        /\ copy' = copy
        /\ cur[s] \in Posts
    BY <1>0, <1>12 DEF Raise, PassShape
  <2>2. Done(row'[p]) <=> Done(row[p])
    BY <1>0, <2>1 DEF TypeOK, Alike
  <2> QED  BY <1>12, <1>e, <2>1, <2>2
<1>13. CASE PassStep(s) /\ ~Confirm(s)
  <2>1. CASE Accept(s) \/ EndPass(s) \/ Crash(s)
    <3>1. row' = row /\ copy' = copy
      BY <2>1 DEF Accept, EndPass, Crash
    <3> QED  BY <1>13, <1>4, <3>1
  <2> QED  BY <1>13, <2>1, <1>5, <1>6, <1>7, <1>8, <1>10, <1>11, <1>12 DEF PassStep
<1>14. CASE ~Confirm(s) /\ ((\E q \in Posts : Chain(q)) \/ UNCHANGED vars)
  <2>1. row' = row /\ copy' = copy
    BY <1>14 DEF Chain, pass, vars
  <2> QED  BY <1>14, <1>4, <2>1
<1> HIDE DEF Goal
<1> QED  BY <1>0, <1>1, <1>2, <1>3, <1>9, <1>13, <1>14 DEF Next

LEMMA AlikeStep ==
    ASSUME OneWorker, Inv, Claimed, Alike, Undone, [Next]_vars
    PROVE  Alike'
<1> SUFFICES ASSUME NEW s \in Systems, NEW p \in Posts
             PROVE  Done(row'[p]) <=> Done(copy'[s][p])
  BY DEF Alike, Done
<1> QED  BY StepDone DEF Alike

\* A pass takes up what it claimed, and works on it until it is confirmed.
LEMMA UndoneStep ==
    ASSUME OneWorker, Inv, Claimed, Alike, Undone, [Next]_vars
    PROVE  Undone'
<1> SUFFICES ASSUME NEW s \in Systems, stage'[s] \in Working
             PROVE  ~Done(copy'[s][cur'[s]])
  BY DEF Undone, Done
<1>0. TypeOK /\ PassShape /\ \A t \in Systems : t = s
  BY DEF Inv, OneWorker
<1>1. cur'[s] \in Posts
  BY NextInv DEF Inv, PassShape
<1>2. CASE StartPost(s)
  <2>1. PICK q \in todo[s] :
            /\ cur' = [cur EXCEPT ![s] = q]
            /\ copy' = [copy EXCEPT ![s][q] = Begun(copy[s][q])]
    BY <1>2 DEF StartPost, Begun
  <2>2. q \in Posts /\ copy[s][q] \in Row
    BY <1>0 DEF TypeOK
  <2>3. ~Done(Begun(copy[s][q]))
    BY <2>2, BegunRow DEF Done
  <2>4. cur'[s] = q /\ copy'[s][q] = Begun(copy[s][q])
    BY <1>0, <2>1, <2>2 DEF TypeOK
  <2> QED  BY <2>3, <2>4
<1>3. CASE ~StartPost(s)
  <2>1. stage[s] \in Working /\ cur'[s] = cur[s] /\ ~Confirm(s)
    <3>1. CASE PassStep(s)
      <4>1. ~Confirm(s) /\ ~Settle(s) /\ ~EndPass(s) /\ ~Escalate(s) /\ ~ClaimDue(s)
        BY <1>0 DEF TypeOK, Working, Confirm, Settle, EndPass, Escalate, ClaimDue
      <4>2. ~Raise(s) /\ ~Crash(s) /\ \A q \in Posts : ~StartPass(s, q)
        BY <1>0 DEF TypeOK, Working, Raise, Crash, Abandon, StartPass
      <4> QED  BY <1>0, <1>3, <3>1, <4>1, <4>2 DEF PassStep, Accept, Fail, Working
    <3>2. CASE ~PassStep(s)
      <4>1. stage' = stage /\ cur' = cur
        BY <1>0, <3>2 DEF Next, vars, Promote, Chain, RetryUpload, Tick, pass
      <4> QED  BY <3>2, <4>1 DEF PassStep
    <3> QED  BY <3>1, <3>2
  <2>2. ~Done(copy[s][cur[s]])
    BY <2>1 DEF Undone
  <2> QED  BY <1>1, <2>1, <2>2, StepDone DEF Confirms
<1> QED  BY <1>2, <1>3

\* Faults are counted up, and a post goes out by Accept alone: when nothing says
\* it is out.  What was sent stays known until it is confirmed, or is put down to
\* a fault.
LEMMA StepPaid ==
    ASSUME OneWorker, Inv, Claimed, Alike, Undone, [Next]_vars,
           NEW p \in Posts
    PROVE  /\ faults' \in Nat /\ faults' >= faults
           /\ \/ live'[p] = live[p]
              \/ live'[p] = live[p] + 1 /\ ~Done(row[p]) /\ ~Sent(p) /\ Sent(p)'
           /\ Sent(p) => Sent(p)' \/ Done(row'[p]) \/ faults' = faults + 1
<1>0. TypeOK /\ PassShape /\ \A t, u \in Systems : t = u
  BY DEF Inv, OneWorker
<1>1. faults' \in Nat /\ faults' >= faults
  <2>1. faults' = faults \/ faults' = faults + 1
    BY DEF Next, vars, Promote, Chain, RetryUpload, Tick, PassStep, StartPass, ClaimDue,
           StartPost, Escalate, Accept, Confirm, Fail, Settle, EndPass, Raise, Crash
  <2> QED  BY <1>0, <2>1 DEF TypeOK
<1>2. \/ live'[p] = live[p]
      \/ live'[p] = live[p] + 1 /\ ~Done(row[p]) /\ ~Sent(p) /\ Sent(p)'
  <2>1. ASSUME NEW s \in Systems, Accept(s), p = cur[s]
        PROVE  live'[p] = live[p] + 1 /\ ~Done(row[p]) /\ ~Sent(p) /\ Sent(p)'
    <3>1. stage[s] = "sending" /\ stage'[s] = "sent" /\ cur' = cur /\ live'[p] = live[p] + 1
      BY <1>0, <2>1 DEF Accept, TypeOK
    <3>2. ~Done(row[p])
      BY <2>1, <3>1 DEF Undone, Alike, Working
    <3>3. ~Sent(p)
      BY <1>0, <3>1 DEF Sent
    <3>4. Sent(p)'
      BY <2>1, <3>1 DEF Sent
    <3> QED  BY <3>1, <3>2, <3>3, <3>4
  <2>2. ASSUME NEW s \in Systems, Accept(s), p # cur[s] PROVE live'[p] = live[p]
    BY <1>0, <2>2 DEF Accept, TypeOK
  <2>3. ASSUME \A s \in Systems : ~Accept(s) PROVE live' = live
    BY <2>3 DEF Next, vars, Promote, Chain, RetryUpload, Tick, PassStep, StartPass, ClaimDue,
                StartPost, Escalate, Confirm, Fail, Settle, EndPass, Raise, Crash
  <2> QED  BY <2>1, <2>2, <2>3
<1>3. ASSUME Sent(p) PROVE Sent(p)' \/ Done(row'[p]) \/ faults' = faults + 1
  <2>1. PICK s \in Systems : stage[s] = "sent" /\ cur[s] = p
    BY <1>3 DEF Sent
  <2>2. CASE Confirm(s)
    BY <2>1, <2>2, StepDone DEF Confirms
  <2>3. CASE Fail(s) \/ Raise(s) \/ Crash(s)
    BY <2>1, <2>3 DEF Fail, Raise, Crash
  <2>4. CASE ~(Confirm(s) \/ Fail(s) \/ Raise(s) \/ Crash(s))
    <3>1. ~PassStep(s)
      BY <2>1, <2>4 DEF PassStep, StartPass, ClaimDue, StartPost, Escalate, Accept, Settle, EndPass
    <3>2. stage' = stage /\ cur' = cur
      BY <1>0, <3>1 DEF Next, vars, Promote, Chain, RetryUpload, Tick, pass
    <3> QED  BY <2>1, <3>2 DEF Sent
  <2> QED  BY <2>2, <2>3, <2>4
<1> QED  BY <1>1, <1>2, <1>3

LEMMA PaidStep ==
    ASSUME OneWorker, Inv, Claimed, OneInv, [Next]_vars
    PROVE  Paid'
<1> SUFFICES ASSUME NEW p \in Posts
             PROVE  /\ live'[p] <= faults' + 1
                    /\ ~Done(row'[p]) /\ ~Sent(p)' => live'[p] <= faults'
  BY DEF Paid, Done
<1>1. /\ live[p] \in Nat /\ faults \in Nat
      /\ live[p] <= faults + 1
      /\ ~Done(row[p]) /\ ~Sent(p) => live[p] <= faults
  BY DEF Inv, TypeOK, OneInv, Paid
<1>2. /\ faults' \in Nat /\ faults' >= faults
      /\ \/ live'[p] = live[p]
         \/ live'[p] = live[p] + 1 /\ ~Done(row[p]) /\ ~Sent(p) /\ Sent(p)'
      /\ Sent(p) => Sent(p)' \/ Done(row'[p]) \/ faults' = faults + 1
  BY StepPaid DEF OneInv
<1>3. Done(row[p]) => Done(row'[p])
  <2>1. PICK s : s \in Systems
    BY DEF OneWorker
  <2> QED  BY <2>1, StepDone DEF OneInv
<1> QED  BY <1>1, <1>2, <1>3

LEMMA InitOne == Init => OneInv
<1> SUFFICES ASSUME Init PROVE OneInv
  OBVIOUS
<1>1. \A p \in Posts : ~Done(row[p])
  BY DEF Init, Done
<1>2. Alike
  BY <1>1 DEF Init, Alike
<1>3. Undone
  BY DEF Init, Undone, Working
<1>4. Paid
  BY DEF Init, Paid
<1> QED  BY <1>2, <1>3, <1>4 DEF OneInv

\* With one worker: what the rows, its memory and the platform say of each other.
THEOREM OneWorkerInvariant == OneWorker => (Spec => []OneInv)
<1> SUFFICES ASSUME OneWorker PROVE Spec => []OneInv
  OBVIOUS
<1>1. Inv /\ Claimed /\ OneInv /\ [Next]_vars => OneInv'
  BY AlikeStep, UndoneStep, PaidStep DEF OneInv
<1> QED  BY <1>1, InitOne, Shapes, RecordsInvariant, PTL DEF Spec

\* With one worker on the channel, the platform holds more than one copy of a
\* post only for a crash, a lost reply or an exception each: neither the passes
\* of tick() nor the operator's retries send what was delivered again.
THEOREM DuplicatesPaid == ASSUME OneWorker PROVE Spec => []DuplicatesArePaid
<1>1. Inv /\ OneInv => DuplicatesArePaid
  <2> SUFFICES ASSUME Inv, OneInv, NEW p \in Posts PROVE live[p] <= 1 + faults
    BY DEF DuplicatesArePaid
  <2>1. live[p] \in Nat /\ faults \in Nat /\ live[p] <= faults + 1
    BY DEF Inv, TypeOK, OneInv, Paid
  <2> QED  BY <2>1
<1> QED  BY <1>1, OneWorkerInvariant, Shapes, PTL

\* With one worker and nothing gone wrong, a row no pass is working on says what
\* the platform holds: _save writes through what run_post learned.
THEOREM RowsAgree == ASSUME OneWorker PROVE Spec => []RecordsAgree
<1>1. Inv /\ AllReal /\ OneInv => RecordsAgree
  <2> SUFFICES ASSUME Inv, AllReal, OneInv, faults = 0, NEW p \in Posts,
                      \A s \in Systems : cur[s] # p
               PROVE  live[p] > 0 <=> row[p].state = "published"
    BY DEF RecordsAgree
  <2>1. ~Sent(p) /\ live[p] \in Nat
    BY DEF Sent, Inv, TypeOK
  <2>2. row[p].state = "published" => live[p] > 0
    BY DEF AllReal, Records
  <2>3. ~Done(row[p]) => live[p] <= 0
    BY <2>1 DEF OneInv, Paid
  <2> QED  BY <2>1, <2>2, <2>3 DEF Done
<1> QED  BY <1>1, OneWorkerInvariant, RecordsInvariant, Shapes, PTL

-----------------------------------------------------------------------------
(* Induction, and what a fold of a sequence reaches.                       *)

\* Every set of natural numbers with a member has a least one.
LEMMA LeastOf ==
    ASSUME NEW T, T \subseteq Nat, T # {}
    PROVE  \E n \in T : \A m \in T : n <= m
<1>1. PICK x \in T : \A y \in T : ~(<<y, x>> \in OpToRel(<, Nat))
  BY NatLessThanWellFounded, WFMin
<1>2. ASSUME NEW y \in T, y < x PROVE FALSE
  BY <1>1, <1>2 DEF OpToRel
<1>3. ASSUME NEW y \in T PROVE x <= y
  BY <1>2
<1> QED  BY <1>3

\* So a set that has 0, and with each number the next, has all of them.
LEMMA AllOf ==
    ASSUME NEW T, 0 \in T, \A n \in Nat : n \in T => n + 1 \in T
    PROVE  Nat \subseteq T
<1> SUFFICES ASSUME Nat \ T # {} PROVE FALSE
  OBVIOUS
<1>1. PICK n \in Nat \ T : \A m \in Nat \ T : n <= m
  BY LeastOf
<1>2. n - 1 \in Nat /\ n - 1 \in T
  BY <1>1
<1> QED  BY <1>1, <1>2

\* The sets of positions a fold of n items goes down through, by their size.
Upto(n, k) == {t \in SUBSET (1..n) : Cardinality(t) <= k}

LEMMA MaxOf ==
    ASSUME NEW n \in Nat, NEW t \in SUBSET (1..n), t # {}
    PROVE  Max(t) \in t /\ \A y \in t : y <= Max(t)
<1> DEFINE T == {n - x : x \in t}
<1>1. T \subseteq Nat /\ T # {}
  <2>1. \A x \in t : n - x \in Nat
    OBVIOUS
  <2> QED  BY <2>1
<1>5. PICK m \in T : \A y \in T : m <= y
  <2> HIDE DEF T
  <2> QED  BY <1>1, LeastOf
<1>2. PICK x \in t : m = n - x
  OBVIOUS
<1>3. ASSUME NEW y \in t PROVE x >= y
  <2>1. n - x <= n - y
    BY <1>5, <1>2
  <2> QED  BY <2>1
<1>4. \A y \in t : x >= y
  BY <1>3
<1> QED  BY <1>4 DEF Max

LEMMA MaxLess ==
    ASSUME NEW n \in Nat, NEW k \in Nat
    PROVE  /\ {} \in Upto(n, k) /\ Upto(n, 0) = {{}}
           /\ Upto(n, k) \subseteq Upto(n, k + 1)
           /\ \A t \in Upto(n, k + 1) \ {{}} : Max(t) \in 1..n /\ t \ {Max(t)} \in Upto(n, k)
           /\ Upto(n, n) = SUBSET (1..n)
<1>1. IsFiniteSet(1..n) /\ Cardinality(1..n) = n
  BY FS_Interval
<1>2. \A t \in SUBSET (1..n) :
        /\ IsFiniteSet(t) /\ Cardinality(t) \in Nat /\ Cardinality(t) <= n
        /\ Cardinality(t) = 0 <=> t = {}
  <2> TAKE t \in SUBSET (1..n)
  <2>1. IsFiniteSet(t) /\ Cardinality(t) <= n
    BY <1>1, FS_Subset
  <2> QED  BY <2>1, FS_CardinalityType, FS_EmptySet
<1>3. {} \in Upto(n, k) /\ Upto(n, k) \subseteq Upto(n, k + 1) /\ Upto(n, n) = SUBSET (1..n)
  BY <1>2 DEF Upto
<1>4. Upto(n, 0) \subseteq {{}} /\ {} \in Upto(n, 0)
  BY <1>2 DEF Upto
<1>5. ASSUME NEW t \in Upto(n, k + 1), t # {}
      PROVE  Max(t) \in 1..n /\ t \ {Max(t)} \in Upto(n, k)
  <2>1. t \in SUBSET (1..n) /\ Cardinality(t) <= k + 1
    BY DEF Upto
  <2>2. Max(t) \in t
    BY <1>5, <2>1, MaxOf
  <2>3. Cardinality(t \ {Max(t)}) = Cardinality(t) - 1 /\ Cardinality(t) \in Nat
    BY <1>2, <2>1, <2>2, FS_RemoveElement
  <2>4. Cardinality(t \ {Max(t)}) <= k
    BY <2>1, <2>3
  <2>5. t \ {Max(t)} \in SUBSET (1..n)
    BY <2>1
  <2> QED  BY <2>1, <2>2, <2>4, <2>5 DEF Upto
<1> QED  BY <1>3, <1>4, <1>5

\* f records what a fold of n items has come to after those in t.
FoldOf(f, n, base, step) ==
    \A t \in SUBSET (1..n) : f[t] = IF t = {} THEN base ELSE step[<<f[t \ {Max(t)}], Max(t)>>]

\* Whatever the steps of a fold do, there is a function that records them.
LEMMA FoldExists ==
    ASSUME NEW Acc, NEW base \in Acc, NEW n \in Nat, NEW step \in [Acc \X (1..n) -> Acc]
    PROVE  \E f \in [SUBSET (1..n) -> Acc] : FoldOf(f, n, base, step)
<1> DEFINE Kept(f, k) ==
              \A t \in Upto(n, k) :
                  f[t] = IF t = {} THEN base ELSE step[<<f[t \ {Max(t)}], Max(t)>>]
           T == {k \in Nat : \E f \in [Upto(n, k) -> Acc] : Kept(f, k)}
<1>1. 0 \in T
  <2> DEFINE f == [t \in Upto(n, 0) |-> base]
  <2>1. f \in [Upto(n, 0) -> Acc] /\ Kept(f, 0)
    BY MaxLess
  <2> QED  BY <2>1
<1>2. ASSUME NEW k \in Nat, k \in T PROVE k + 1 \in T
  <2>1. PICK f \in [Upto(n, k) -> Acc] : Kept(f, k)
    BY <1>2
  <2> HIDE DEF T
  <2> DEFINE rest(t) == t \ {Max(t)}
             more(t) == step[<<f[rest(t)], Max(t)>>]
             h == [t \in Upto(n, k + 1) |-> IF t \in Upto(n, k) THEN f[t] ELSE more(t)]
  <2>2. /\ {} \in Upto(n, k) /\ Upto(n, k) \subseteq Upto(n, k + 1)
        /\ \A t \in Upto(n, k + 1) \ {{}} : Max(t) \in 1..n /\ rest(t) \in Upto(n, k)
    BY MaxLess
  <2> HIDE DEF rest
  <2>3. ASSUME NEW t \in Upto(n, k + 1), t # {} PROVE more(t) \in Acc
    <3>1. Max(t) \in 1..n /\ f[rest(t)] \in Acc
      BY <2>1, <2>2, <2>3
    <3> QED  BY <3>1
  <2>4. h \in [Upto(n, k + 1) -> Acc]
    <3> HIDE DEF more
    <3> QED  BY <2>1, <2>2, <2>3
  <2>5. ASSUME NEW t \in Upto(n, k + 1)
        PROVE  h[t] = IF t = {} THEN base ELSE step[<<h[rest(t)], Max(t)>>]
    <3>1. t # {} => h[rest(t)] = f[rest(t)]
      <4> HIDE DEF more
      <4> QED  BY <2>2
    <3>2. t \in Upto(n, k) => f[t] = IF t = {} THEN base ELSE more(t)
      BY <2>1 DEF rest
    <3>3. h[t] = IF t \in Upto(n, k) THEN f[t] ELSE more(t)
      OBVIOUS
    <3>4. t \notin Upto(n, k) => t # {}
      BY <2>2
    <3> HIDE DEF h
    <3>5. h[t] = IF t = {} THEN base ELSE more(t)
      <4> HIDE DEF more
      <4> QED  BY <3>2, <3>3, <3>4
    <3>6. t # {} => more(t) = step[<<h[rest(t)], Max(t)>>]
      BY <3>1
    <3> QED  BY <3>5, <3>6
  <2> HIDE DEF h
  <2>6. Kept(h, k + 1)
    BY <2>5 DEF rest
  <2> HIDE DEF Kept
  <2>7. \E e \in [Upto(n, k + 1) -> Acc] : Kept(e, k + 1)
    BY <2>4, <2>6
  <2> QED  BY <2>7 DEF T
<1>3. n \in T
  <2> HIDE DEF T
  <2> QED  BY <1>1, <1>2, AllOf
<1> QED  BY <1>3, MaxLess DEF FoldOf

\* f takes a step from every value in Acc, and g goes through the same values one
\* item at a time.
Stepwise(f, n, step, Acc) ==
    \A t \in SUBSET (1..n) :
        t # {} /\ f[t \ {Max(t)}] \in Acc => f[t] = step[<<f[t \ {Max(t)}], Max(t)>>]

Runs(g, f, n, step) ==
    g[0] = f[{}] /\ g[n] = f[1..n] /\ \A k \in 1..n : g[k] = step[<<g[k - 1], k>>]

\* So a fold runs through the items one by one.
LEMMA FoldRuns ==
    ASSUME NEW Acc, NEW n \in Nat, NEW step \in [Acc \X (1..n) -> Acc], NEW f, f[{}] \in Acc,
           Stepwise(f, n, step, Acc)
    PROVE  \E g \in [0..n -> Acc] : Runs(g, f, n, step)
<1> DEFINE T == {k \in Nat : k <= n => f[1..k] \in Acc}
           g == [k \in 0..n |-> f[1..k]]
<1>1. ASSUME NEW k \in 1..n, f[1..(k - 1)] \in Acc PROVE f[1..k] = step[<<f[1..(k - 1)], k>>]
  <2>1. 1..k \in SUBSET (1..n) /\ k \in 1..k /\ \A y \in 1..k : y <= k
    OBVIOUS
  <2>2. Max(1..k) \in 1..k /\ k <= Max(1..k)
    BY <2>1, MaxOf
  <2>3. Max(1..k) = k /\ (1..k) \ {k} = 1..(k - 1)
    BY <2>1, <2>2
  <2> QED  BY <1>1, <2>1, <2>3 DEF Stepwise
<1>2. 1..0 = {}
  OBVIOUS
<1>3. 0 \in T
  BY <1>2
<1>4. ASSUME NEW k \in Nat, k \in T PROVE k + 1 \in T
  <2>1. CASE k + 1 <= n
    <3>1. k + 1 \in 1..n /\ k <= n /\ (k + 1) - 1 = k
      BY <2>1
    <3>2. f[1..k] \in Acc /\ <<f[1..k], k + 1>> \in Acc \X (1..n)
      BY <1>4, <3>1
    <3>3. f[1..(k + 1)] = step[<<f[1..k], k + 1>>]
      BY <1>1, <3>1, <3>2
    <3> QED  BY <3>2, <3>3
  <2>2. CASE ~(k + 1 <= n)
    BY <2>2
  <2> QED  BY <2>1, <2>2
<1>5. \A k \in 0..n : f[1..k] \in Acc
  <2>1. Nat \subseteq T
    <3> HIDE DEF T
    <3> QED  BY <1>3, <1>4, AllOf
  <2> QED  BY <2>1
<1>6. g \in [0..n -> Acc] /\ g[0] = f[{}] /\ g[n] = f[1..n]
  BY <1>2, <1>5
<1>7. ASSUME NEW k \in 1..n PROVE g[k] = step[<<g[k - 1], k>>]
  <2>1. k \in 0..n /\ k - 1 \in 0..n
    OBVIOUS
  <2> QED  BY <1>1, <1>5, <2>1
<1> HIDE DEF g
<1> QED  BY <1>6, <1>7 DEF Runs

\* A series is placed item by item, from rows.
Placing(g, rows, items, s, n) ==
    /\ g[0] = rows /\ g[n] = Place(rows, items, s)
    /\ \A k \in 1..n : g[k] = PlaceStep(g[k - 1], items[k], s)

LEMMA PlaceRuns ==
    ASSUME NEW Acc, NEW rows \in Acc, NEW items, NEW n \in Nat, DOMAIN items = 1..n, NEW s,
           \A acc \in Acc, i \in 1..n : PlaceStep(acc, items[i], s) \in Acc
    PROVE  \E g \in [0..n -> Acc] : Placing(g, rows, items, s, n)
<1> DEFINE step == [p \in Acc \X (1..n) |-> PlaceStep(p[1], items[p[2]], s)]
<1>1. step \in [Acc \X (1..n) -> Acc]
  OBVIOUS
<1>2. PICK f \in [SUBSET (1..n) -> Acc] : FoldOf(f, n, rows, step)
  <2> HIDE DEF step
  <2> QED  BY <1>1, FoldExists
<1>3. ASSUME NEW t \in SUBSET (1..n), t # {}
      PROVE  f[t] = PlaceStep(f[t \ {Max(t)}], items[Max(t)], s)
  <2>1. Max(t) \in 1..n /\ t \ {Max(t)} \in SUBSET (1..n)
    BY <1>3, MaxOf
  <2>2. <<f[t \ {Max(t)}], Max(t)>> \in Acc \X (1..n)
    BY <1>2, <2>1
  <2> QED  BY <1>2, <1>3, <2>2 DEF FoldOf
<1> DEFINE iter[t \in SUBSET (DOMAIN items)] ==
        IF t = {} THEN rows
        ELSE LET x == Max(t) IN PlaceStep(iter[t \ {x}], items[x], s)
<1>4. Place(rows, items, s) = iter[DOMAIN items]
  BY DEF Place, FoldLeft, MapThenFoldSet
<1>5. f = [t \in SUBSET (DOMAIN items) |->
              IF t = {} THEN rows
              ELSE LET x == Max(t) IN PlaceStep(f[t \ {x}], items[x], s)]
  <2> HIDE DEF step
  <2> QED  BY <1>2, <1>3 DEF FoldOf
<1>6. iter = [t \in SUBSET (DOMAIN items) |->
              IF t = {} THEN rows
              ELSE LET x == Max(t) IN PlaceStep(iter[t \ {x}], items[x], s)]
  BY <1>5
<1> HIDE DEF iter
<1>7. iter[{}] = rows
  BY <1>6
<1>8. ASSUME NEW t \in SUBSET (1..n), t # {}, iter[t \ {Max(t)}] \in Acc
      PROVE  iter[t] = step[<<iter[t \ {Max(t)}], Max(t)>>]
  <2>1. Max(t) \in 1..n
    BY <1>8, MaxOf
  <2>2. iter[t] = PlaceStep(iter[t \ {Max(t)}], items[Max(t)], s)
    BY <1>6, <1>8
  <2> QED  BY <1>8, <2>1, <2>2
<1>9. PICK g \in [0..n -> Acc] : Runs(g, iter, n, step)
  <2> HIDE DEF step
  <2>1. iter[{}] \in Acc
    BY <1>7
  <2>2. Stepwise(iter, n, step, Acc)
    BY <1>8 DEF Stepwise
  <2> QED  BY <1>1, <2>1, <2>2, FoldRuns
<1>10. ASSUME NEW k \in 1..n PROVE g[k] = PlaceStep(g[k - 1], items[k], s)
  <2>1. k - 1 \in 0..n /\ g[k - 1] \in Acc
    BY <1>9
  <2> QED  BY <1>9, <2>1 DEF Runs
<1> HIDE DEF step
<1> QED  BY <1>4, <1>7, <1>9, <1>10 DEF Runs, Placing

\* A batch is placed clip by clip.
LEMMA BulkIn ==
    ASSUME NEW Acc, NEW rows, NEW items, NEW s,
           NEW specs, NEW n \in Nat, DOMAIN specs = 1..n, [next |-> 1, rows |-> rows] \in Acc,
           \A acc \in Acc, i \in 1..n : BulkStep(items, acc, specs[i], s) \in Acc
    PROVE  PlaceBulk(rows, items, s, specs) \in Acc
<1> DEFINE start == [next |-> 1, rows |-> rows]
           step == [p \in Acc \X (1..n) |-> BulkStep(items, p[1], specs[p[2]], s)]
<1>1. step \in [Acc \X (1..n) -> Acc]
  OBVIOUS
<1>2. PICK f \in [SUBSET (1..n) -> Acc] : FoldOf(f, n, start, step)
  <2> HIDE DEF step
  <2> QED  BY <1>1, FoldExists
<1>3. ASSUME NEW t \in SUBSET (1..n), t # {}
      PROVE  f[t] = BulkStep(items, f[t \ {Max(t)}], specs[Max(t)], s)
  <2>1. Max(t) \in 1..n /\ t \ {Max(t)} \in SUBSET (1..n)
    BY <1>3, MaxOf
  <2>2. <<f[t \ {Max(t)}], Max(t)>> \in Acc \X (1..n)
    BY <1>2, <2>1
  <2> QED  BY <1>2, <1>3, <2>2 DEF FoldOf
<1> DEFINE iter[t \in SUBSET (DOMAIN specs)] ==
        IF t = {} THEN start
        ELSE LET x == Max(t) IN BulkStep(items, iter[t \ {x}], specs[x], s)
<1>4. PlaceBulk(rows, items, s, specs) = iter[DOMAIN specs]
  BY DEF PlaceBulk, FoldLeft, MapThenFoldSet
<1>5. f = [t \in SUBSET (DOMAIN specs) |->
              IF t = {} THEN start
              ELSE LET x == Max(t) IN BulkStep(items, f[t \ {x}], specs[x], s)]
  <2> HIDE DEF step
  <2> QED  BY <1>2, <1>3 DEF FoldOf
<1>6. iter = [t \in SUBSET (DOMAIN specs) |->
              IF t = {} THEN start
              ELSE LET x == Max(t) IN BulkStep(items, iter[t \ {x}], specs[x], s)]
  BY <1>5
<1> HIDE DEF iter, start
<1>7. iter[{}] = start /\ start \in Acc
  BY <1>6 DEF start
<1>8. ASSUME NEW t \in SUBSET (1..n), t # {}, iter[t \ {Max(t)}] \in Acc
      PROVE  iter[t] = step[<<iter[t \ {Max(t)}], Max(t)>>]
  <2>1. Max(t) \in 1..n
    BY <1>8, MaxOf
  <2>2. iter[t] = BulkStep(items, iter[t \ {Max(t)}], specs[Max(t)], s)
    BY <1>6, <1>8
  <2> QED  BY <1>8, <2>1, <2>2
<1>9. PICK g \in [0..n -> Acc] : Runs(g, iter, n, step)
  <2> HIDE DEF step
  <2>1. iter[{}] \in Acc
    BY <1>7
  <2>2. Stepwise(iter, n, step, Acc)
    BY <1>8 DEF Stepwise
  <2> QED  BY <1>1, <2>1, <2>2, FoldRuns
<1> QED  BY <1>4, <1>9 DEF Runs

-----------------------------------------------------------------------------
(* The calendar in order.                                                  *)

Items == Int \X Int \X Int

Bookings ==
    [at : Int, state : States, series : Series \union {NoRule},
     item : Items \union {NoItem}, moved : BOOLEAN]

Sorted(rows) == \A i, j \in DOMAIN rows : i < j => rows[i].at <= rows[j].at

\* SpacedApart, of any list of posts.
Apart(rows) ==
    \A i, j \in DOMAIN rows :
        /\ i < j /\ ~Settled(rows[i]) /\ ~Settled(rows[j])
        /\ ~rows[i].moved /\ ~rows[j].moved
        /\ rows[j].at - rows[i].at < Spacing
        => \E k \in DOMAIN rows :
               Settled(rows[k]) /\ rows[i].at <= rows[k].at /\ rows[k].at <= rows[j].at

Calendars == {rows \in Seq(Bookings) : Sorted(rows) /\ Apart(rows)}

\* The posts before a moment are the first ones.
LEMMA Bisect ==
    ASSUME NEW rows \in Seq(Bookings), Sorted(rows), NEW t \in Int
    PROVE  LET n == Cardinality({i \in DOMAIN rows : rows[i].at < t}) IN
           n \in 0..Len(rows) /\ \A i \in DOMAIN rows : rows[i].at < t <=> i <= n
<1> DEFINE D == {i \in DOMAIN rows : rows[i].at < t}
<1>1. Len(rows) \in Nat /\ DOMAIN rows = 1..Len(rows)
  BY LenProperties
<1>2. ASSUME NEW i \in DOMAIN rows PROVE rows[i].at \in Int
  <2>1. rows[i] \in Bookings
    BY <1>1, ElementOfSeq
  <2> QED  BY <2>1 DEF Bookings
<1>3. \E n \in 0..Len(rows) : D = 1..n
  <2>1. CASE D = DOMAIN rows
    BY <1>1, <2>1
  <2>2. CASE D # DOMAIN rows
    <3>1. DOMAIN rows \ D # {} /\ DOMAIN rows \ D \subseteq Nat
      BY <1>1, <2>2
    <3>2. PICK m \in DOMAIN rows \ D : \A j \in DOMAIN rows \ D : m <= j
      <4> HIDE DEF D
      <4> QED  BY <3>1, LeastOf
    <3>3. ASSUME NEW i \in DOMAIN rows PROVE i \in D <=> i < m
      <4>1. i \in Nat /\ m \in Nat
        BY <1>1
      <4>2. i < m => i \in D
        BY <3>2, <4>1
      <4>3. m < i => rows[m].at <= rows[i].at
        BY <4>1 DEF Sorted
      <4>4. m <= i => i \notin D
        BY <1>2, <3>2, <4>1, <4>3
      <4> QED  BY <4>1, <4>2, <4>4
    <3>4. D = 1..(m - 1) /\ m - 1 \in 0..Len(rows)
      <4>1. D \subseteq DOMAIN rows /\ m \in 1..Len(rows)
        BY <1>1, <3>2
      <4> HIDE DEF D
      <4>2. \A i \in 1..(m - 1) : i \in DOMAIN rows /\ i < m
        BY <1>1, <4>1
      <4>3. \A i \in DOMAIN rows : i < m => i \in 1..(m - 1)
        BY <1>1, <4>1
      <4>4. D = 1..(m - 1)
        BY <3>3, <4>1, <4>2, <4>3
      <4> QED  BY <1>1, <4>1, <4>4
    <3> QED  BY <3>4
  <2> QED  BY <2>1, <2>2
<1>4. PICK n \in 0..Len(rows) : D = 1..n
  BY <1>3
<1>5. Cardinality(D) = n
  <2>1. Cardinality(1..n) = IF 1 > n THEN 0 ELSE n - 1 + 1
    BY <1>1, <1>4, FS_Interval
  <2> HIDE DEF D
  <2> QED  BY <1>1, <1>4, <2>1
<1>6. ASSUME NEW i \in DOMAIN rows PROVE rows[i].at < t <=> i <= n
  <2>1. i \in D <=> i \in 1..n
    BY <1>4
  <2> QED  BY <1>1, <2>1
<1> QED  BY <1>4, <1>5, <1>6

\* Pieces of a list, and lists joined.
LEMMA Piece ==
    ASSUME NEW S, NEW rows \in Seq(S), NEW m \in 1..(Len(rows) + 1), NEW k \in Nat,
           m + k <= Len(rows) + 1
    PROVE  LET a == SubSeq(rows, m, m + k - 1) IN
           /\ a \in Seq(S) /\ Len(a) = k
           /\ \A i \in 1..k : a[i] = rows[m + i - 1]
<1>1. Len(rows) \in Nat /\ \A i \in 1..Len(rows) : rows[i] \in S
  BY LenProperties, ElementOfSeq
<1> DEFINE n == m + k - 1
           a == SubSeq(rows, m, n)
<1>2. m \in Int /\ n \in Int /\ \A i \in m..n : rows[i] \in S
  BY <1>1
<1>3. n - m + 1 = k /\ (m <= n <=> k # 0)
  BY <1>1
<1> HIDE DEF n
<1>4. /\ a \in Seq(S) /\ Len(a) = IF m <= n THEN n - m + 1 ELSE 0
      /\ \A i \in 1..(n - m + 1) : a[i] = rows[m + i - 1]
  BY <1>2, SubSeqProperties
<1> HIDE DEF a
<1>5. /\ a \in Seq(S) /\ Len(a) = k
      /\ \A i \in 1..k : a[i] = rows[m + i - 1]
  BY <1>3, <1>4
<1> QED  BY <1>5 DEF a, n

LEMMA Joined ==
    ASSUME NEW S, NEW a \in Seq(S), NEW b \in Seq(S)
    PROVE  /\ a \o b \in Seq(S) /\ Len(a \o b) = Len(a) + Len(b)
           /\ \A i \in 1..Len(a) : (a \o b)[i] = a[i]
           /\ \A i \in 1..Len(b) : (a \o b)[Len(a) + i] = b[i]
<1>1. /\ a \o b \in Seq(S) /\ Len(a \o b) = Len(a) + Len(b)
      /\ \A i \in 1..(Len(a) + Len(b)) :
             (a \o b)[i] = IF i <= Len(a) THEN a[i] ELSE b[i - Len(a)]
  BY ConcatProperties
<1>2. Len(a) \in Nat /\ Len(b) \in Nat
  BY LenProperties
<1>3. ASSUME NEW i \in 1..Len(a) PROVE (a \o b)[i] = a[i]
  BY <1>1, <1>2
<1>4. ASSUME NEW i \in 1..Len(b) PROVE (a \o b)[Len(a) + i] = b[i]
  <2>1. Len(a) + i \in 1..(Len(a) + Len(b)) /\ ~(Len(a) + i <= Len(a))
        /\ (Len(a) + i) - Len(a) = i
    BY <1>2
  <2> QED  BY <1>1, <2>1
<1> QED  BY <1>1, <1>3, <1>4

\* r is rows with e put in at p; r is rows without what was at p.
WithAt(r, rows, p, e) ==
    /\ Len(r) = Len(rows) + 1 /\ DOMAIN r = 1..(Len(rows) + 1)
    /\ r[p] = e
    /\ \A i \in 1..(p - 1) : r[i] = rows[i]
    /\ \A i \in p..Len(rows) : r[i + 1] = rows[i]

WithoutAt(r, rows, p) ==
    /\ Len(r) = Len(rows) - 1 /\ DOMAIN r = 1..(Len(rows) - 1)
    /\ \A i \in 1..(p - 1) : r[i] = rows[i]
    /\ \A i \in p..(Len(rows) - 1) : r[i] = rows[i + 1]

\* What InsertAt and RemoveAt return.
LEMMA Inserted ==
    ASSUME NEW S, NEW rows \in Seq(S), NEW p \in 1..(Len(rows) + 1), NEW e \in S
    PROVE  InsertAt(rows, p, e) \in Seq(S) /\ WithAt(InsertAt(rows, p, e), rows, p, e)
<1> DEFINE n == Len(rows)
           a == SubSeq(rows, 1, p - 1)
           b == SubSeq(rows, p, n)
           m == <<e>>
           r == (a \o m) \o b
<1>1. n \in Nat /\ p \in Nat /\ 1 <= p /\ p <= n + 1
  BY LenProperties
<1>13. PICK k \in Nat : k = p - 1
  BY <1>1
<1>14. PICK j \in Nat : j = n - p + 1
  BY <1>1
<1>2. /\ a \in Seq(S) /\ Len(a) = k
      /\ \A i \in 1..k : a[i] = rows[1 + i - 1]
  <2>1. 1 \in 1..(n + 1) /\ p - 1 \in Nat /\ 1 + (p - 1) <= n + 1 /\ 1 + (p - 1) - 1 = p - 1
    BY <1>1
  <2> QED  BY <1>13, <2>1, Piece
<1>3. /\ b \in Seq(S) /\ Len(b) = j
      /\ \A i \in 1..j : b[i] = rows[p + i - 1]
  <2>1. n - p + 1 \in Nat /\ p + (n - p + 1) <= n + 1 /\ p + (n - p + 1) - 1 = n
    BY <1>1
  <2> QED  BY <1>14, <2>1, Piece
<1>4. m \in Seq(S) /\ Len(m) = 1 /\ m[1] = e
  OBVIOUS
<1>5. InsertAt(rows, p, e) = r
  BY DEF InsertAt
<1> HIDE DEF a, b, m
<1>6. /\ a \o m \in Seq(S) /\ Len(a \o m) = k + 1
      /\ \A i \in 1..k : (a \o m)[i] = a[i]
      /\ \A i \in 1..1 : (a \o m)[k + i] = m[i]
  <2>1. a \in Seq(S) /\ m \in Seq(S) /\ Len(a) = k /\ Len(m) = 1
        /\ k \in Nat /\ 1 \in Nat
    BY <1>2, <1>4, <1>13
  <2>2. /\ a \o m \in Seq(S) /\ Len(a \o m) = Len(a) + Len(m)
        /\ \A i \in 1..Len(a) : (a \o m)[i] = a[i]
        /\ \A i \in 1..Len(m) : (a \o m)[Len(a) + i] = m[i]
    <3>1. a \in Seq(S) /\ m \in Seq(S)
      BY <2>1
    <3> QED  BY <3>1, Joined
  <2> QED  BY <2>1, <2>2
<1>7. Len(a \o m) = p /\ (a \o m)[p] = e
  BY <1>1, <1>4, <1>6, <1>13
<1>8. /\ r \in Seq(S) /\ Len(r) = p + j
      /\ \A i \in 1..p : r[i] = (a \o m)[i]
      /\ \A i \in 1..j : r[p + i] = b[i]
  <2>1. a \o m \in Seq(S) /\ b \in Seq(S) /\ Len(a \o m) = p /\ Len(b) = j
        /\ p \in Nat /\ j \in Nat
    BY <1>1, <1>3, <1>6, <1>7, <1>14
  <2>2. /\ (a \o m) \o b \in Seq(S) /\ Len((a \o m) \o b) = Len((a \o m)) + Len(b)
        /\ \A i \in 1..Len((a \o m)) : ((a \o m) \o b)[i] = (a \o m)[i]
        /\ \A i \in 1..Len(b) : ((a \o m) \o b)[Len((a \o m)) + i] = b[i]
    <3>1. (a \o m) \in Seq(S) /\ b \in Seq(S)
      BY <2>1
    <3> QED  BY <3>1, Joined
  <2> QED  BY <2>1, <2>2
<1> HIDE DEF r
<1>9. Len(r) = n + 1 /\ DOMAIN r = 1..(n + 1)
  <2>1. DOMAIN r = 1..Len(r)
    BY <1>8, LenProperties
  <2> QED  BY <1>1, <1>8, <1>14, <2>1
<1>10. r[p] = e
  BY <1>1, <1>7, <1>8
<1>11. ASSUME NEW i \in 1..(p - 1) PROVE r[i] = rows[i]
  <2>1. i \in 1..p /\ i \in 1..k /\ 1 + i - 1 = i
    BY <1>1, <1>13
  <2> QED  BY <1>2, <1>6, <1>8, <2>1
<1>12. ASSUME NEW i \in p..n PROVE r[i + 1] = rows[i]
  <2>1. i + 1 - p \in 1..j /\ p + (i + 1 - p) = i + 1 /\ p + (i + 1 - p) - 1 = i
    BY <1>1, <1>14
  <2>2. r[i + 1] = b[i + 1 - p] /\ b[i + 1 - p] = rows[i]
    BY <1>3, <1>8, <2>1
  <2> QED  BY <2>2
<1>15. r \in Seq(S) /\ WithAt(r, rows, p, e)
  BY <1>8, <1>9, <1>10, <1>11, <1>12 DEF WithAt
<1> QED  BY <1>5, <1>15

LEMMA Removed ==
    ASSUME NEW S, NEW rows \in Seq(S), NEW p \in 1..Len(rows)
    PROVE  RemoveAt(rows, p) \in Seq(S) /\ WithoutAt(RemoveAt(rows, p), rows, p)
<1> DEFINE n == Len(rows)
           a == SubSeq(rows, 1, p - 1)
           b == SubSeq(rows, p + 1, n)
           r == a \o b
<1>1. n \in Nat /\ p \in Nat /\ 1 <= p /\ p <= n
  BY LenProperties
<1>13. PICK k \in Nat : k = p - 1
  BY <1>1
<1>14. PICK j \in Nat : j = n - p
  BY <1>1
<1>2. /\ a \in Seq(S) /\ Len(a) = k
      /\ \A i \in 1..k : a[i] = rows[1 + i - 1]
  <2>1. 1 \in 1..(n + 1) /\ p - 1 \in Nat /\ 1 + (p - 1) <= n + 1 /\ 1 + (p - 1) - 1 = p - 1
    BY <1>1
  <2> QED  BY <1>13, <2>1, Piece
<1>3. /\ b \in Seq(S) /\ Len(b) = j
      /\ \A i \in 1..j : b[i] = rows[p + 1 + i - 1]
  <2>1. p + 1 \in 1..(n + 1) /\ n - p \in Nat /\ p + 1 + (n - p) <= n + 1
        /\ p + 1 + (n - p) - 1 = n
    BY <1>1
  <2> QED  BY <1>14, <2>1, Piece
<1>4. RemoveAt(rows, p) = r
  BY DEF RemoveAt
<1> HIDE DEF a, b
<1>5. /\ r \in Seq(S) /\ Len(r) = k + j
      /\ \A i \in 1..k : r[i] = a[i]
      /\ \A i \in 1..j : r[k + i] = b[i]
  <2>1. a \in Seq(S) /\ b \in Seq(S) /\ Len(a) = k /\ Len(b) = j
        /\ k \in Nat /\ j \in Nat
    BY <1>2, <1>3, <1>13, <1>14
  <2>2. /\ a \o b \in Seq(S) /\ Len(a \o b) = Len(a) + Len(b)
        /\ \A i \in 1..Len(a) : (a \o b)[i] = a[i]
        /\ \A i \in 1..Len(b) : (a \o b)[Len(a) + i] = b[i]
    <3>1. a \in Seq(S) /\ b \in Seq(S)
      BY <2>1
    <3> QED  BY <3>1, Joined
  <2> QED  BY <2>1, <2>2
<1> HIDE DEF r
<1>6. Len(r) = n - 1 /\ DOMAIN r = 1..(n - 1)
  <2>1. DOMAIN r = 1..Len(r)
    BY <1>5, LenProperties
  <2> QED  BY <1>1, <1>5, <1>13, <1>14, <2>1
<1>7. ASSUME NEW i \in 1..(p - 1) PROVE r[i] = rows[i]
  <2>1. i \in 1..k /\ 1 + i - 1 = i
    BY <1>1, <1>13
  <2> QED  BY <1>2, <1>5, <2>1
<1>8. ASSUME NEW i \in p..(n - 1) PROVE r[i] = rows[i + 1]
  <2>1. i - p + 1 \in 1..j /\ k + (i - p + 1) = i /\ p + 1 + (i - p + 1) - 1 = i + 1
    BY <1>1, <1>13, <1>14
  <2>2. r[i] = b[i - p + 1] /\ b[i - p + 1] = rows[i + 1]
    BY <1>3, <1>5, <2>1
  <2> QED  BY <2>2
<1>9. r \in Seq(S) /\ WithoutAt(r, rows, p)
  BY <1>5, <1>6, <1>7, <1>8 DEF WithoutAt
<1> QED  BY <1>4, <1>9

-----------------------------------------------------------------------------
(* What the calls do to a calendar.                                        *)

LEMMA RowsAt ==
    ASSUME NEW rows \in Seq(Bookings)
    PROVE  /\ Len(rows) \in Nat /\ DOMAIN rows = 1..Len(rows)
           /\ \A i \in DOMAIN rows : rows[i] \in Bookings /\ rows[i].at \in Int
<1>1. Len(rows) \in Nat /\ DOMAIN rows = 1..Len(rows)
  BY LenProperties
<1>2. ASSUME NEW i \in DOMAIN rows PROVE rows[i] \in Bookings /\ rows[i].at \in Int
  <2>1. rows[i] \in Bookings
    BY <1>1, ElementOfSeq
  <2> QED  BY <2>1 DEF Bookings
<1> QED  BY <1>1, <1>2

\* Where insort puts a post.
LEMMA BisectTo ==
    ASSUME NEW rows \in Seq(Bookings), Sorted(rows), NEW t \in Int
    PROVE  LET n == Cardinality({i \in DOMAIN rows : rows[i].at <= t}) IN
           n \in 0..Len(rows) /\ \A i \in DOMAIN rows : rows[i].at <= t <=> i <= n
<1>1. \A i \in DOMAIN rows : rows[i].at <= t <=> rows[i].at < t + 1
  BY RowsAt
<1>2. {i \in DOMAIN rows : rows[i].at <= t} = {i \in DOMAIN rows : rows[i].at < t + 1}
  BY <1>1
<1> DEFINE n == Cardinality({i \in DOMAIN rows : rows[i].at < t + 1})
<1>3. n \in 0..Len(rows) /\ \A i \in DOMAIN rows : rows[i].at < t + 1 <=> i <= n
  BY Bisect
<1> HIDE DEF n
<1>4. n \in 0..Len(rows) /\ \A i \in DOMAIN rows : rows[i].at <= t <=> i <= n
  BY <1>1, <1>3
<1> QED  BY <1>2, <1>4 DEF n

\* What nearest overlooks lies behind a settled post.
LEMMA NearestSees ==
    ASSUME NEW rows \in Calendars, NEW t \in Int, Nearest(rows, t) = {},
           NEW i \in DOMAIN rows
    PROVE  /\ rows[i].at <= t /\ t - rows[i].at < Spacing
              => \E k \in DOMAIN rows :
                     Settled(rows[k]) /\ rows[i].at <= rows[k].at /\ rows[k].at <= t
           /\ t <= rows[i].at /\ rows[i].at - t < Spacing
              => \E k \in DOMAIN rows :
                     Settled(rows[k]) /\ t <= rows[k].at /\ rows[k].at <= rows[i].at
<1>1. rows \in Seq(Bookings) /\ Sorted(rows)
  BY DEF Calendars
<1>2. /\ Len(rows) \in Nat /\ DOMAIN rows = 1..Len(rows) /\ Spacing \in Nat \ {0}
      /\ \A j \in DOMAIN rows : rows[j].at \in Int
  BY <1>1, RowsAt, TimeAssumption
<1> DEFINE left == Cardinality({j \in DOMAIN rows : rows[j].at < t})
<1>3. left \in 0..Len(rows) /\ \A j \in DOMAIN rows : rows[j].at < t <=> j <= left
  BY <1>1, Bisect
<1>4. \A j \in {left, left + 1} \intersect DOMAIN rows :
          ~(~Settled(rows[j]) /\ t - rows[j].at < Spacing /\ rows[j].at - t < Spacing)
  BY DEF Nearest
<1> HIDE DEF left
<1>5. ASSUME rows[i].at < t, t - rows[i].at < Spacing
      PROVE  Settled(rows[left]) /\ left \in DOMAIN rows
             /\ rows[i].at <= rows[left].at /\ rows[left].at < t
  <2>1. i <= left /\ left \in DOMAIN rows
    BY <1>2, <1>3, <1>5
  <2>2. rows[i].at <= rows[left].at /\ rows[left].at < t
    <3>1. rows[left].at < t
      BY <1>2, <1>3, <2>1
    <3>2. i < left \/ i = left
      BY <1>2, <1>3, <2>1
    <3>3. i < left => rows[i].at <= rows[left].at
      BY <1>1, <2>1 DEF Sorted
    <3> QED  BY <1>2, <3>1, <3>2, <3>3
  <2>3. rows[i].at \in Int /\ rows[left].at \in Int
    BY <1>2, <2>1
  <2>4. t - rows[left].at < Spacing /\ rows[left].at - t < Spacing
    BY <1>2, <1>5, <2>2, <2>3
  <2> QED  BY <1>4, <2>1, <2>2, <2>4
<1>6. ASSUME t <= rows[i].at, rows[i].at - t < Spacing
      PROVE  Settled(rows[left + 1]) /\ left + 1 \in DOMAIN rows
             /\ t <= rows[left + 1].at /\ rows[left + 1].at <= rows[i].at
  <2>1. ~(i <= left)
    BY <1>2, <1>3, <1>6
  <2>2. left + 1 <= i /\ left + 1 \in DOMAIN rows /\ ~(left + 1 <= left)
    BY <1>2, <1>3, <2>1
  <2>3. t <= rows[left + 1].at
    BY <1>2, <1>3, <2>2
  <2>4. rows[left + 1].at <= rows[i].at
    <3>1. left + 1 < i \/ left + 1 = i
      BY <1>2, <1>3, <2>2
    <3>2. left + 1 < i => rows[left + 1].at <= rows[i].at
      BY <1>1, <2>2 DEF Sorted
    <3> QED  BY <1>2, <3>1, <3>2
  <2>5. rows[i].at \in Int /\ rows[left + 1].at \in Int
    BY <1>2, <2>2
  <2>6. t - rows[left + 1].at < Spacing /\ rows[left + 1].at - t < Spacing
    BY <1>2, <1>6, <2>3, <2>4, <2>5
  <2> QED  BY <1>4, <2>2, <2>3, <2>4, <2>6
<1>7. rows[i].at <= t => rows[i].at < t \/ t <= rows[i].at
  BY <1>2
<1>8. rows[i].at <= t /\ t <= rows[i].at => rows[i].at = t
  BY <1>2
<1>9. ASSUME rows[i].at <= t, t - rows[i].at < Spacing
      PROVE  \E k \in DOMAIN rows :
                 Settled(rows[k]) /\ rows[i].at <= rows[k].at /\ rows[k].at <= t
  <2>1. CASE rows[i].at < t
    BY <1>2, <1>5, <1>9, <2>1
  <2>2. CASE t <= rows[i].at
    <3>1. rows[i].at = t /\ rows[i].at - t < Spacing
      BY <1>2, <1>8, <1>9, <2>2
    <3> QED  BY <1>6, <2>2, <3>1
  <2> QED  BY <1>7, <1>9, <2>1, <2>2
<1> QED  BY <1>6, <1>9

\* r has the post b at p, and the posts of rows, in their order, elsewhere: old
\* says which, and 0 at p.
Joins(r, rows, p, b, old) ==
    /\ r \in Seq(Bookings) /\ p \in DOMAIN r /\ r[p] = b
    /\ old \in [DOMAIN r -> DOMAIN rows \union {0}] /\ old[p] = 0
    /\ \A i \in DOMAIN r : i # p => old[i] \in DOMAIN rows /\ r[i] = rows[old[i]]
    /\ \A i, j \in DOMAIN r : i < j /\ i # p /\ j # p => old[i] < old[j]
    /\ \A k \in DOMAIN rows : \E i \in DOMAIN r : i # p /\ old[i] = k
    /\ \A i \in DOMAIN r : (i < p => r[i].at <= b.at) /\ (p < i => b.at < r[i].at)

\* insort puts a post among the others.
LEMMA AddedTo ==
    ASSUME NEW rows \in Calendars, NEW b \in Bookings
    PROVE  \E p, old : Joins(Add(rows, b), rows, p, b, old)
<1>1. rows \in Seq(Bookings) /\ Sorted(rows) /\ b.at \in Int
  BY DEF Calendars, Bookings
<1>2. /\ Len(rows) \in Nat /\ DOMAIN rows = 1..Len(rows)
      /\ \A j \in DOMAIN rows : rows[j].at \in Int
  BY <1>1, RowsAt
<1> DEFINE n == Cardinality({i \in DOMAIN rows : rows[i].at <= b.at})
           p == 1 + n
           r == InsertAt(rows, p, b)
           old == [i \in DOMAIN r |-> IF i < p THEN i ELSE IF i = p THEN 0 ELSE i - 1]
<1>3. n \in 0..Len(rows) /\ \A i \in DOMAIN rows : rows[i].at <= b.at <=> i <= n
  BY <1>1, BisectTo
<1>4. Add(rows, b) = r
  BY DEF Add
<1> HIDE DEF n
<1>5. p \in 1..(Len(rows) + 1)
  BY <1>2, <1>3
<1>6. /\ r \in Seq(Bookings) /\ DOMAIN r = 1..(Len(rows) + 1) /\ r[p] = b
      /\ \A i \in 1..(p - 1) : r[i] = rows[i]
      /\ \A i \in p..Len(rows) : r[i + 1] = rows[i]
  <2> HIDE DEF p, old
  <2>1. r \in Seq(Bookings) /\ WithAt(r, rows, p, b)
    BY <1>1, <1>5, Inserted
  <2> HIDE DEF r
  <2> QED  BY <2>1 DEF WithAt
<1> HIDE DEF r
<1>7. ASSUME NEW i \in DOMAIN r, i # p
      PROVE  /\ old[i] \in DOMAIN rows /\ r[i] = rows[old[i]]
             /\ (i < p => r[i].at <= b.at) /\ (p < i => b.at < r[i].at)
  <2>1. CASE i < p
    <3>1. i \in 1..(p - 1) /\ i \in DOMAIN rows /\ old[i] = i /\ i <= n
      BY <1>2, <1>3, <1>6, <2>1
    <3>2. rows[i].at <= b.at /\ r[i] = rows[i]
      BY <1>3, <1>6, <3>1
    <3> QED  BY <1>2, <1>5, <2>1, <3>1, <3>2
  <2>2. CASE ~(i < p)
    <3>1. i - 1 \in p..Len(rows) /\ i - 1 \in DOMAIN rows /\ old[i] = i - 1
          /\ ~(i - 1 <= n) /\ (i - 1) + 1 = i
      BY <1>2, <1>3, <1>6, <1>7, <2>2
    <3>2. ~(rows[i - 1].at <= b.at) /\ r[i] = rows[i - 1]
      <4>1. ~(rows[i - 1].at <= b.at)
        BY <1>3, <3>1
      <4>2. r[(i - 1) + 1] = rows[i - 1]
        BY <1>6, <3>1
      <4> QED  BY <3>1, <4>1, <4>2
    <3>3. b.at < rows[i - 1].at
      BY <1>1, <1>2, <3>1, <3>2
    <3> QED  BY <1>2, <2>2, <3>1, <3>2, <3>3
  <2> QED  BY <2>1, <2>2
<1>8. ASSUME NEW k \in DOMAIN rows PROVE \E i \in DOMAIN r : i # p /\ old[i] = k
  <2>1. CASE k < p
    <3>1. k \in DOMAIN r /\ k # p /\ old[k] = k
      BY <1>2, <1>3, <1>6, <2>1
    <3> QED  BY <3>1
  <2>2. CASE ~(k < p)
    <3>1. k + 1 \in DOMAIN r /\ k + 1 # p /\ old[k + 1] = k
      BY <1>2, <1>3, <1>6, <2>2
    <3> QED  BY <3>1
  <2> QED  BY <2>1, <2>2
<1>9. ASSUME NEW i \in DOMAIN r, NEW j \in DOMAIN r, i < j, i # p, j # p
      PROVE  old[i] < old[j]
  BY <1>2, <1>3, <1>6, <1>9
<1>10. p \in DOMAIN r /\ old[p] = 0 /\ ~(p < p) /\ old = [i \in DOMAIN r |-> old[i]]
  BY <1>3, <1>5, <1>6
<1> HIDE DEF old, p
<1>11. old \in [DOMAIN r -> DOMAIN rows \union {0}]
  BY <1>7, <1>10
<1>12. Joins(r, rows, p, b, old)
  BY <1>6, <1>7, <1>8, <1>9, <1>10, <1>11 DEF Joins
<1> QED  BY <1>4, <1>12

\* A post that the spacing check lets through, or that is moved, is added.
LEMMA AddKeeps ==
    ASSUME NEW rows \in Calendars, NEW b \in Bookings, b.moved \/ Nearest(rows, b.at) = {}
    PROVE  Add(rows, b) \in Calendars
<1>1. rows \in Seq(Bookings) /\ Sorted(rows) /\ Apart(rows) /\ b.at \in Int
  BY DEF Calendars, Bookings
<1> DEFINE r == Add(rows, b)
<1>2. PICK p, old : Joins(r, rows, p, b, old)
  BY AddedTo
<1> HIDE DEF r
<1>3. /\ r \in Seq(Bookings) /\ p \in DOMAIN r /\ r[p] = b
      /\ \A i \in DOMAIN r : i # p => old[i] \in DOMAIN rows /\ r[i] = rows[old[i]]
      /\ \A i, j \in DOMAIN r : i < j /\ i # p /\ j # p => old[i] < old[j]
      /\ \A k \in DOMAIN rows : \E i \in DOMAIN r : i # p /\ old[i] = k
      /\ \A i \in DOMAIN r : (i < p => r[i].at <= b.at) /\ (p < i => b.at < r[i].at)
  BY <1>2 DEF Joins
<1>4. /\ \A i \in DOMAIN r : i \in Int /\ r[i].at \in Int
      /\ \A k \in DOMAIN rows : rows[k].at \in Int
      /\ Spacing \in Nat \ {0}
  BY <1>1, <1>3, RowsAt, TimeAssumption
<1>5. Sorted(r)
  <2> SUFFICES ASSUME NEW i \in DOMAIN r, NEW j \in DOMAIN r, i < j
               PROVE  r[i].at <= r[j].at
    BY DEF Sorted
  <2>1. CASE i # p /\ j # p
    <3>1. old[i] < old[j] /\ old[i] \in DOMAIN rows /\ old[j] \in DOMAIN rows
          /\ r[i] = rows[old[i]] /\ r[j] = rows[old[j]]
      BY <1>3, <2>1
    <3> QED  BY <1>1, <3>1 DEF Sorted
  <2>2. CASE i = p \/ j = p
    BY <1>1, <1>3, <1>4, <2>2
  <2> QED  BY <2>1, <2>2
<1>6. Apart(r)
  <2> SUFFICES ASSUME NEW i \in DOMAIN r, NEW j \in DOMAIN r, i < j,
                      ~Settled(r[i]), ~Settled(r[j]), ~r[i].moved, ~r[j].moved,
                      r[j].at - r[i].at < Spacing
               PROVE  \E k \in DOMAIN r :
                          Settled(r[k]) /\ r[i].at <= r[k].at /\ r[k].at <= r[j].at
    BY DEF Apart
  <2>1. SUFFICES \E k \in DOMAIN rows :
                     Settled(rows[k]) /\ r[i].at <= rows[k].at /\ rows[k].at <= r[j].at
    <3>1. PICK k \in DOMAIN rows :
              Settled(rows[k]) /\ r[i].at <= rows[k].at /\ rows[k].at <= r[j].at
      BY <2>1
    <3>2. PICK e \in DOMAIN r : e # p /\ old[e] = k
      BY <1>3
    <3>3. r[e] = rows[k]
      BY <1>3, <3>2
    <3> QED  BY <3>1, <3>3
  <2>2. CASE i # p /\ j # p
    <3>1. /\ old[i] < old[j] /\ old[i] \in DOMAIN rows /\ old[j] \in DOMAIN rows
          /\ r[i] = rows[old[i]] /\ r[j] = rows[old[j]]
      BY <1>3, <2>2
    <3> QED  BY <1>1, <3>1 DEF Apart
  <2>3. CASE i = p
    <3>1. p < j /\ j # p
      BY <1>4, <2>3
    <3>2. b.at < r[j].at /\ old[j] \in DOMAIN rows /\ r[j] = rows[old[j]] /\ r[i] = b
      BY <1>3, <2>3, <3>1
    <3>3. Nearest(rows, b.at) = {} /\ b.at <= rows[old[j]].at /\ rows[old[j]].at - b.at < Spacing
      BY <1>1, <1>4, <3>2
    <3>4. \E k \in DOMAIN rows :
              Settled(rows[k]) /\ b.at <= rows[k].at /\ rows[k].at <= rows[old[j]].at
      BY <1>1, <3>2, <3>3, NearestSees
    <3> QED  BY <3>2, <3>4
  <2>4. CASE j = p
    <3>1. i < p /\ i # p
      BY <1>4, <2>4
    <3>2. r[i].at <= b.at /\ old[i] \in DOMAIN rows /\ r[i] = rows[old[i]] /\ r[j] = b
      BY <1>3, <2>4, <3>1
    <3>3. Nearest(rows, b.at) = {} /\ rows[old[i]].at <= b.at /\ b.at - rows[old[i]].at < Spacing
      BY <3>2
    <3>4. \E k \in DOMAIN rows :
              Settled(rows[k]) /\ rows[old[i]].at <= rows[k].at /\ rows[k].at <= b.at
      BY <1>1, <3>2, <3>3, NearestSees
    <3> QED  BY <3>2, <3>4
  <2> QED  BY <2>2, <2>3, <2>4
<1> QED  BY <1>3, <1>5, <1>6 DEF Calendars, r

\* r has the posts of rows, in their order, but the one at p.
Leaves(r, rows, p, old) ==
    /\ r \in Seq(Bookings) /\ old \in [DOMAIN r -> DOMAIN rows \ {p}]
    /\ \A i \in DOMAIN r : r[i] = rows[old[i]]
    /\ \A i, j \in DOMAIN r : i < j => old[i] < old[j]
    /\ \A k \in DOMAIN rows : k # p => \E i \in DOMAIN r : old[i] = k

LEMMA RemovedFrom ==
    ASSUME NEW rows \in Calendars, NEW p \in DOMAIN rows
    PROVE  \E old : Leaves(RemoveAt(rows, p), rows, p, old)
<1>1. rows \in Seq(Bookings)
  BY DEF Calendars
<1>2. Len(rows) \in Nat /\ DOMAIN rows = 1..Len(rows) /\ p \in 1..Len(rows)
  BY <1>1, RowsAt
<1> DEFINE r == RemoveAt(rows, p)
           old == [i \in DOMAIN r |-> IF i < p THEN i ELSE i + 1]
<1>3. /\ r \in Seq(Bookings) /\ DOMAIN r = 1..(Len(rows) - 1)
      /\ \A i \in 1..(p - 1) : r[i] = rows[i]
      /\ \A i \in p..(Len(rows) - 1) : r[i] = rows[i + 1]
  <2> HIDE DEF old
  <2>1. r \in Seq(Bookings) /\ WithoutAt(r, rows, p)
    BY <1>1, <1>2, Removed
  <2> HIDE DEF r
  <2> QED  BY <2>1 DEF WithoutAt
<1> HIDE DEF r
<1>4. ASSUME NEW i \in DOMAIN r PROVE old[i] \in DOMAIN rows \ {p} /\ r[i] = rows[old[i]]
  <2>1. CASE i < p
    <3>1. i \in 1..(p - 1) /\ i \in DOMAIN rows \ {p} /\ old[i] = i
      BY <1>2, <1>3, <2>1
    <3> QED  BY <1>3, <3>1
  <2>2. CASE ~(i < p)
    <3>1. i \in p..(Len(rows) - 1) /\ i + 1 \in DOMAIN rows \ {p} /\ old[i] = i + 1
      BY <1>2, <1>3, <2>2
    <3> QED  BY <1>3, <3>1
  <2> QED  BY <2>1, <2>2
<1>5. ASSUME NEW i \in DOMAIN r, NEW j \in DOMAIN r, i < j PROVE old[i] < old[j]
  BY <1>2, <1>3, <1>5
<1>6. ASSUME NEW k \in DOMAIN rows, k # p PROVE \E i \in DOMAIN r : old[i] = k
  <2>1. CASE k < p
    <3>1. k \in DOMAIN r /\ old[k] = k
      BY <1>2, <1>3, <2>1
    <3> QED  BY <3>1
  <2>2. CASE ~(k < p)
    <3>1. k - 1 \in DOMAIN r /\ old[k - 1] = k
      BY <1>2, <1>3, <1>6, <2>2
    <3> QED  BY <3>1
  <2> QED  BY <2>1, <2>2
<1>7. old = [i \in DOMAIN r |-> old[i]]
  OBVIOUS
<1> HIDE DEF old
<1>8. old \in [DOMAIN r -> DOMAIN rows \ {p}]
  BY <1>4, <1>7
<1>9. Leaves(r, rows, p, old)
  BY <1>3, <1>4, <1>5, <1>6, <1>8 DEF Leaves
<1> QED  BY <1>9 DEF r

\* A live post is taken out.
LEMMA RemoveKeeps ==
    ASSUME NEW rows \in Calendars, NEW p \in DOMAIN rows, ~Settled(rows[p])
    PROVE  RemoveAt(rows, p) \in Calendars
<1>1. rows \in Seq(Bookings) /\ Sorted(rows) /\ Apart(rows)
  BY DEF Calendars
<1> DEFINE r == RemoveAt(rows, p)
<1>2. PICK old : Leaves(r, rows, p, old)
  BY RemovedFrom
<1> HIDE DEF r
<1>3. /\ r \in Seq(Bookings)
      /\ \A i \in DOMAIN r : old[i] \in DOMAIN rows /\ r[i] = rows[old[i]]
      /\ \A i, j \in DOMAIN r : i < j => old[i] < old[j]
      /\ \A k \in DOMAIN rows : k # p => \E i \in DOMAIN r : old[i] = k
  BY <1>2 DEF Leaves
<1>4. Sorted(r)
  <2> SUFFICES ASSUME NEW i \in DOMAIN r, NEW j \in DOMAIN r, i < j
               PROVE  r[i].at <= r[j].at
    BY DEF Sorted
  <2>1. old[i] \in DOMAIN rows /\ old[j] \in DOMAIN rows /\ old[i] < old[j]
    BY <1>3
  <2>2. rows[old[i]].at <= rows[old[j]].at
    BY <1>1, <2>1 DEF Sorted
  <2> QED  BY <1>3, <2>2
<1>5. Apart(r)
  <2> SUFFICES ASSUME NEW i \in DOMAIN r, NEW j \in DOMAIN r, i < j,
                      ~Settled(r[i]), ~Settled(r[j]), ~r[i].moved, ~r[j].moved,
                      r[j].at - r[i].at < Spacing
               PROVE  \E k \in DOMAIN r :
                          Settled(r[k]) /\ r[i].at <= r[k].at /\ r[k].at <= r[j].at
    BY DEF Apart
  <2>1. /\ old[i] < old[j] /\ old[i] \in DOMAIN rows /\ old[j] \in DOMAIN rows
        /\ r[i] = rows[old[i]] /\ r[j] = rows[old[j]]
    BY <1>3
  <2>2. PICK k \in DOMAIN rows :
            Settled(rows[k]) /\ r[i].at <= rows[k].at /\ rows[k].at <= r[j].at
    BY <1>1, <2>1 DEF Apart
  <2>3. PICK e \in DOMAIN r : r[e] = rows[k]
    <3>1. k # p
      BY <2>2
    <3> QED  BY <1>3, <3>1
  <2> QED  BY <2>2, <2>3
<1> QED  BY <1>3, <1>4, <1>5 DEF Calendars, r

\* Posts change state and none comes back to life.
LEMMA SettleKeeps ==
    ASSUME NEW rows \in Calendars, NEW r \in [DOMAIN rows -> Bookings],
           \A i \in DOMAIN rows :
               /\ r[i].at = rows[i].at /\ r[i].moved = rows[i].moved
               /\ Settled(rows[i]) => Settled(r[i])
    PROVE  r \in Calendars
<1>1. rows \in Seq(Bookings) /\ Sorted(rows) /\ Apart(rows)
  BY DEF Calendars
<1>2. r \in Seq(Bookings)
  <2>1. Len(rows) \in Nat /\ r \in [1..Len(rows) -> Bookings]
    BY <1>1, RowsAt
  <2> QED  BY <2>1, SeqDef
<1>3. Sorted(r)
  BY <1>1 DEF Sorted
<1>4. Apart(r)
  <2> SUFFICES ASSUME NEW i \in DOMAIN r, NEW j \in DOMAIN r, i < j,
                      ~Settled(r[i]), ~Settled(r[j]), ~r[i].moved, ~r[j].moved,
                      r[j].at - r[i].at < Spacing
               PROVE  \E k \in DOMAIN r :
                          Settled(r[k]) /\ r[i].at <= r[k].at /\ r[k].at <= r[j].at
    BY DEF Apart
  <2>1. PICK k \in DOMAIN rows :
            Settled(rows[k]) /\ rows[i].at <= rows[k].at /\ rows[k].at <= rows[j].at
    BY <1>1 DEF Apart
  <2> QED  BY <2>1
<1> QED  BY <1>3, <1>4, <1>2 DEF Calendars

-----------------------------------------------------------------------------
(* What a rule asks for.                                                   *)

Below(F, L, a) == {b \in F : <<b, a>> \in L}

\* The ranks of F are the numbers up to its size.
RanksOK(F, L) ==
    /\ Cardinality(F) \in Nat
    /\ \A k \in 1..Cardinality(F) : \E a \in F : Cardinality(Below(F, L, a)) = k - 1
    /\ \A a \in F :
           /\ Cardinality(Below(F, L, a)) \in Nat
           /\ Cardinality(Below(F, L, a)) + 1 \in 1..Cardinality(F)
    /\ \A a, b \in F : Cardinality(Below(F, L, a)) = Cardinality(Below(F, L, b)) => a = b

\* In a strict total order of a finite set, every rank is somebody's.
LEMMA Ranked ==
    ASSUME NEW F, IsFiniteSet(F), NEW L,
           \A a \in F : <<a, a>> \notin L,
           \A a, b, c \in F : <<a, b>> \in L /\ <<b, c>> \in L => <<a, c>> \in L,
           \A a, b \in F : a = b \/ <<a, b>> \in L \/ <<b, a>> \in L
    PROVE  RanksOK(F, L)
<1> DEFINE n == Cardinality(F)
           rank == [a \in F |-> Cardinality(Below(F, L, a))]
<1>1. n \in Nat
  BY FS_CardinalityType
<1>2. ASSUME NEW a \in F PROVE IsFiniteSet(Below(F, L, a)) /\ rank[a] \in 0..(n - 1)
  <2>1. Below(F, L, a) \in SUBSET F /\ a \notin Below(F, L, a)
    BY DEF Below
  <2>2. IsFiniteSet(Below(F, L, a)) /\ Cardinality(Below(F, L, a)) <= n
        /\ (n = Cardinality(Below(F, L, a)) => F = Below(F, L, a))
    BY <2>1, FS_Subset
  <2>3. Cardinality(Below(F, L, a)) \in Nat /\ rank[a] = Cardinality(Below(F, L, a))
    BY <2>2, FS_CardinalityType
  <2>4. n # Cardinality(Below(F, L, a))
    BY <2>1, <2>2
  <2> HIDE DEF rank, n
  <2>5. Cardinality(Below(F, L, a)) \in 0..(n - 1)
    BY <1>1, <2>2, <2>3, <2>4
  <2> QED  BY <2>2, <2>3, <2>5
<1>3. ASSUME NEW a \in F, NEW b \in F, <<a, b>> \in L PROVE rank[a] < rank[b]
  <2>1. Below(F, L, a) \union {a} \in SUBSET Below(F, L, b) /\ a \notin Below(F, L, a)
    BY <1>3 DEF Below
  <2>2. IsFiniteSet(Below(F, L, a)) /\ IsFiniteSet(Below(F, L, b))
        /\ rank[a] = Cardinality(Below(F, L, a)) /\ rank[b] = Cardinality(Below(F, L, b))
    BY <1>2
  <2> HIDE DEF rank
  <2>3. Cardinality(Below(F, L, a) \union {a}) = Cardinality(Below(F, L, a)) + 1
    BY <2>1, <2>2, FS_AddElement
  <2>4. Cardinality(Below(F, L, a) \union {a}) <= Cardinality(Below(F, L, b))
    BY <2>1, <2>2, FS_Subset
  <2>5. Cardinality(Below(F, L, a)) \in Nat /\ Cardinality(Below(F, L, b)) \in Nat
    BY <2>2, FS_CardinalityType
  <2> QED  BY <2>2, <2>3, <2>4, <2>5
<1>4. rank \in [F -> 0..(n - 1)]
  <2>1. rank = [a \in F |-> rank[a]]
    OBVIOUS
  <2> HIDE DEF rank, n
  <2> QED  BY <1>2, <2>1
<1> HIDE DEF rank
<1>5. rank \in Injection(F, 0..(n - 1))
  <2>1. ASSUME NEW a \in F, NEW b \in F, rank[a] = rank[b] PROVE a = b
    <3>1. rank[a] \in Int /\ rank[b] \in Int
      BY <1>1, <1>4
    <3>2. ~(rank[a] < rank[b]) /\ ~(rank[b] < rank[a])
      BY <2>1, <3>1
    <3> QED  BY <1>3, <3>2
  <2> HIDE DEF n
  <2> QED  BY <1>4, <2>1 DEF Injection, IsInjective
<1>6. IsFiniteSet(0..(n - 1)) /\ Cardinality(0..(n - 1)) = n
  <2> HIDE DEF n
  <2>1. 0 \in Int /\ n - 1 \in Int
    BY <1>1
  <2>2. IsFiniteSet(0..(n - 1))
        /\ Cardinality(0..(n - 1)) = IF 0 > n - 1 THEN 0 ELSE (n - 1) - 0 + 1
    BY <2>1, FS_Interval
  <2> QED  BY <1>1, <2>2
<1>7. rank \in Surjection(F, 0..(n - 1))
  BY <1>5, <1>6, FS_Injection
<1>8. ASSUME NEW k \in 1..n PROVE \E a \in F : Cardinality(Below(F, L, a)) = k - 1
  <2> HIDE DEF n
  <2>1. k - 1 \in 0..(n - 1)
    BY <1>1
  <2>2. \E a \in F : rank[a] = k - 1
    BY <1>7, <2>1 DEF Surjection
  <2> QED  BY <2>2 DEF rank
<1>9. \A a \in F : Cardinality(Below(F, L, a)) \in Nat /\ Cardinality(Below(F, L, a)) + 1 \in 1..n
  <2>1. ASSUME NEW a \in F
        PROVE  Cardinality(Below(F, L, a)) \in Nat /\ Cardinality(Below(F, L, a)) + 1 \in 1..n
    <3>1. rank[a] \in 0..(n - 1) /\ rank[a] = Cardinality(Below(F, L, a))
      BY <1>2 DEF rank
    <3> HIDE DEF n
    <3> QED  BY <1>1, <3>1
  <2> QED  BY <2>1
<1>10. \A a, b \in F : Cardinality(Below(F, L, a)) = Cardinality(Below(F, L, b)) => a = b
  BY <1>5 DEF rank, Injection, IsInjective
<1> QED  BY <1>1, <1>8, <1>9, <1>10 DEF RanksOK

LEMMA NoMultiple ==
    ASSUME NEW d \in Int, NEW e \in Int, NEW x \in Int, NEW y \in Int, NEW c \in Int,
           x = d * DayLen + c, y = e * DayLen + c, x - y <= 2, y - x <= 2
    PROVE  d = e
<1>1. DayLen \in Nat /\ DayLen > 2
  BY TimeAssumption
<1>2. ASSUME NEW m \in Int, NEW n \in Int, m > n PROVE m * DayLen - n * DayLen > 2
  <2>1. (m - n) * DayLen >= DayLen
    BY <1>1, <1>2
  <2>2. (m - n) * DayLen = m * DayLen - n * DayLen
    BY <1>1
  <2>3. m * DayLen \in Int /\ n * DayLen \in Int
    BY <1>1
  <2> QED  BY <1>1, <2>1, <2>2, <2>3
<1>3. d * DayLen \in Int /\ e * DayLen \in Int
  BY <1>1
<1>4. ~(d > e)
  BY <1>2, <1>3
<1>5. ~(e > d)
  BY <1>2, <1>3
<1> QED  BY <1>4, <1>5

\* An instant a rule resolves a local time to is within an hour of it.
LEMMA Resolved ==
    ASSUME NEW rule \in Rules, NEW l \in Int
    PROVE  ResolveLocal(l, rule) \subseteq (l - 1)..(l + 1)
<1>1. /\ rule.nonexistent \in {"skip", "next_hour", "shift"}
      /\ rule.ambiguous \in {"first", "second", "both"}
  BY RulesAssumption
<1>2. ASSUME NEW m \in Int PROVE Attached(m) \in {m - 1, m}
  <2>1. CASE Instants(m) = {}
    BY <2>1 DEF Attached, IsNonexistent
  <2>2. CASE Instants(m) # {}
    <3>1. \E t \in Instants(m) : \A u \in Instants(m) : t <= u
      <4>1. Instants(m) \subseteq {m - 1, m}
        BY DEF Instants
      <4>2. CASE m - 1 \in Instants(m)
        BY <4>1, <4>2
      <4>3. CASE m - 1 \notin Instants(m)
        BY <2>2, <4>1, <4>3
      <4> QED  BY <4>2, <4>3
    <3>2. Attached(m) \in Instants(m)
      <4>1. ~IsNonexistent(m)
        BY <2>2 DEF IsNonexistent
      <4> HIDE DEF Instants
      <4> QED  BY <3>1, <4>1 DEF Attached
    <3> QED  BY <3>2 DEF Instants
  <2> QED  BY <2>1, <2>2
<1>3. Instants(l) \subseteq (l - 1)..(l + 1)
  BY DEF Instants
<1>4. Attached(l) \in (l - 1)..(l + 1) /\ Attached(l + 1) \in (l - 1)..(l + 1)
  <2>1. Attached(l) \in {l - 1, l}
    BY <1>2
  <2>2. Attached(l + 1) \in {(l + 1) - 1, l + 1}
    <3>1. l + 1 \in Int
      OBVIOUS
    <3> QED  BY <1>2, <3>1
  <2> QED  BY <2>1, <2>2
<1>5. l - 1 \in (l - 1)..(l + 1) /\ l \in (l - 1)..(l + 1)
  OBVIOUS
<1>6. IsNonexistent(l) => ~IsAmbiguous(l)
  BY FS_EmptySet DEF IsNonexistent, IsAmbiguous
<1>7. CASE IsNonexistent(l)
  <2>1. CASE rule.nonexistent = "skip"
    <3>1. ResolveLocal(l, rule) = {}
      BY <1>7, <1>6, <2>1 DEF ResolveLocal
    <3> QED  BY <3>1
  <2>2. CASE rule.nonexistent = "next_hour"
    <3>1. ResolveLocal(l, rule) = {Attached(l + 1)}
      BY <1>7, <1>6, <2>2 DEF ResolveLocal
    <3> QED  BY <1>4, <3>1
  <2>3. CASE rule.nonexistent = "shift"
    <3>1. ResolveLocal(l, rule) = {Attached(l)}
      BY <1>7, <1>6, <2>3 DEF ResolveLocal
    <3> QED  BY <1>4, <3>1
  <2> QED  BY <1>1, <2>1, <2>2, <2>3
<1>8. CASE ~IsNonexistent(l) /\ IsAmbiguous(l)
  <2>1. ResolveLocal(l, rule) \in {{l - 1}, {l}, {l - 1, l}}
    BY <1>1, <1>8 DEF ResolveLocal
  <2> QED  BY <1>5, <2>1
<1>9. CASE ~IsNonexistent(l) /\ ~IsAmbiguous(l)
  <2>1. ResolveLocal(l, rule) = Instants(l)
    BY <1>9 DEF ResolveLocal
  <2> QED  BY <1>3, <2>1
<1> QED  BY <1>7, <1>8, <1>9

LEMMA DayTyped ==
    ASSUME NEW t \in Int
    PROVE  Day(Local(t)) \in Int
<1>1. Local(t) \in Int /\ DayLen \in Nat /\ DayLen > 0
  BY TimeAssumption DEF Local
<1> QED  BY <1>1 DEF Day

\* A rule fires finitely often in a window, and what it fires for is told apart
\* by the instant and the clock.
LEMMA FiresFinite ==
    ASSUME NEW rule \in Rules, NEW start \in Int, NEW end \in Int
    PROVE  /\ Fires(rule, start, end) \subseteq Items
           /\ IsFiniteSet(Fires(rule, start, end))
           /\ \A a, b \in Fires(rule, start, end) : a[1] = b[1] /\ a[3] = b[3] => a = b
<1> DEFINE first == Day(Local(start)) - 1
           last == Day(Local(end)) + 1
           days == {d \in CandidateDates(rule, first, last) : InForce(rule, d)}
           F == Fires(rule, start, end)
<1>1. first \in Int /\ last \in Int
  BY DayTyped
<1>2. DayLen \in Nat /\ rule.times \subseteq 0..(DayLen - 1)
  BY TimeAssumption, RulesAssumption
<1>3. days \subseteq first..last
  <2>1. rule.frequency \in {"daily", "weekly", "monthly"}
    BY RulesAssumption
  <2> HIDE DEF first, last
  <2>2. CandidateDates(rule, first, last) \subseteq first..last
    BY <2>1 DEF CandidateDates
  <2> QED  BY <2>2
<1>4. F = {item \in ItemsOf(rule, days) : start <= item[1] /\ item[1] <= end}
  BY DEF Fires
<1> HIDE DEF first, last, days, F
<1>5. ASSUME NEW a \in F
      PROVE  \E d \in first..last, c \in 0..(DayLen - 1), t \in start..end, l \in Int :
                 a = <<t, d, c>> /\ l = d * DayLen + c /\ t \in (l - 1)..(l + 1)
  <2>1. a \in ItemsOf(rule, days) /\ start <= a[1] /\ a[1] <= end
    BY <1>4, <1>5
  <2>2. PICK d \in days, c \in rule.times :
            a \in {<<t, d, c>> : t \in ResolveLocal(d * DayLen + c, rule)}
    BY <2>1 DEF ItemsOf
  <2>3. d \in first..last /\ d \in Int /\ c \in 0..(DayLen - 1) /\ c \in Int
    BY <1>1, <1>2, <1>3, <2>2
  <2>4. d * DayLen + c \in Int
    BY <1>2, <2>3
  <2>5. PICK t \in ResolveLocal(d * DayLen + c, rule) : a = <<t, d, c>>
    BY <2>2
  <2>6. PICK l \in Int : l = d * DayLen + c
    BY <2>4
  <2>7. t \in (l - 1)..(l + 1)
    <3>1. t \in ResolveLocal(l, rule)
      BY <2>5, <2>6
    <3> QED  BY <2>6, <3>1, Resolved
  <2>8. t \in start..end
    <3>1. t \in Int
      BY <2>6, <2>7
    <3> QED  BY <2>1, <2>5, <3>1
  <2> QED  BY <2>3, <2>5, <2>6, <2>7, <2>8
<1>7. F \subseteq Items
  BY <1>1, <1>2, <1>5 DEF Items
<1>8. IsFiniteSet(F)
  <2> DEFINE P == (start..end) \X ((first..last) \X (0..(DayLen - 1)))
             place == [a \in F |-> <<a[1], <<a[2], a[3]>>>>]
  <2>1. IsFiniteSet(start..end) /\ IsFiniteSet(first..last) /\ IsFiniteSet(0..(DayLen - 1))
    BY <1>1, <1>2, FS_Interval
  <2>2. IsFiniteSet((first..last) \X (0..(DayLen - 1)))
    BY <2>1, FS_Product
  <2>3. IsFiniteSet(P)
    BY <2>1, <2>2, FS_Product
  <2>4. ASSUME NEW a \in F PROVE place[a] \in P /\ a = <<a[1], a[2], a[3]>>
    <3>1. PICK d \in first..last, c \in 0..(DayLen - 1), t \in start..end : a = <<t, d, c>>
      BY <1>5
    <3> QED  BY <3>1
  <2>5. place \in [F -> P]
    <3> HIDE DEF P
    <3> QED  BY <2>4
  <2>6. ASSUME NEW a \in F, NEW b \in F, place[a] = place[b] PROVE a = b
    <3>1. a[1] = b[1] /\ a[2] = b[2] /\ a[3] = b[3]
      BY <2>6
    <3> QED  BY <2>4, <3>1
  <2> HIDE DEF place, P
  <2>7. place \in Injection(F, P)
    BY <2>5, <2>6 DEF Injection, IsInjective
  <2> QED  BY <2>3, <2>7, FS_Injection
<1>9. ASSUME NEW a \in F, NEW b \in F, a[1] = b[1], a[3] = b[3] PROVE a = b
  <2>1. PICK d \in first..last, c \in 0..(DayLen - 1), t \in start..end, x \in Int :
            a = <<t, d, c>> /\ x = d * DayLen + c /\ t \in (x - 1)..(x + 1)
    BY <1>5
  <2>2. PICK e \in first..last, g \in 0..(DayLen - 1), u \in start..end, y \in Int :
            b = <<u, e, g>> /\ y = e * DayLen + g /\ u \in (y - 1)..(y + 1)
    BY <1>5
  <2>3. t = u /\ c = g
    BY <1>9, <2>1, <2>2
  <2>4. d \in Int /\ e \in Int /\ c \in Int
    BY <1>1, <1>2, <2>1, <2>2
  <2>5. x = d * DayLen + c /\ y = e * DayLen + c
    BY <2>1, <2>2, <2>3
  <2>6. x - y <= 2 /\ y - x <= 2
    <3>1. t \in (x - 1)..(x + 1)
      BY <2>1
    <3>2. t \in (y - 1)..(y + 1)
      BY <2>2, <2>3
    <3> QED  BY <2>1, <2>2, <3>1, <3>2
  <2>7. d = e
    BY <2>1, <2>2, <2>4, <2>5, <2>6, NoMultiple
  <2> QED  BY <2>1, <2>2, <2>3, <2>7
<1> QED  BY <1>7, <1>8, <1>9 DEF F

-----------------------------------------------------------------------------
(* Days and months.                                                        *)

\* What division into days does.
LEMMA DayBounds ==
    ASSUME NEW x \in Int, NEW k \in Int
    PROVE  Day(x) \in Int /\ (x >= k * DayLen <=> Day(x) >= k)
<1>1. DayLen \in Nat /\ DayLen > 0
  BY TimeAssumption
<1>2. PICK q \in Int : q = Day(x)
  BY <1>1 DEF Day
<1>3. q * DayLen <= x /\ x < q * DayLen + DayLen
  BY <1>1, <1>2 DEF Day
<1>4. ASSUME NEW m \in Int, NEW n \in Int, m >= n PROVE m * DayLen >= n * DayLen
  <2>1. (m - n) * DayLen >= 0
    BY <1>1, <1>4
  <2>2. (m - n) * DayLen = m * DayLen - n * DayLen
    BY <1>1
  <2>3. m * DayLen \in Int /\ n * DayLen \in Int
    BY <1>1
  <2> QED  BY <2>1, <2>2, <2>3
<1>5. q * DayLen \in Int /\ k * DayLen \in Int /\ (q + 1) * DayLen = q * DayLen + DayLen
  BY <1>1
<1>6. q >= k => x >= k * DayLen
  BY <1>3, <1>4, <1>5
<1>7. ~(q >= k) => ~(x >= k * DayLen)
  <2>1. ~(q >= k) => k * DayLen >= (q + 1) * DayLen
    <3>1. q + 1 \in Int /\ (~(q >= k) => k >= q + 1)
      OBVIOUS
    <3> QED  BY <1>4, <3>1
  <2>2. ASSUME NEW b \in Int, NEW c \in Int, b >= c, x < c, b = k * DayLen
        PROVE  ~(x >= k * DayLen)
    BY <2>2
  <2>3. x < (q + 1) * DayLen
    BY <1>3, <1>5
  <2>4. (q + 1) * DayLen \in Int
    BY <1>1
  <2> QED  BY <1>5, <2>1, <2>2, <2>3, <2>4
<1> QED  BY <1>2, <1>6, <1>7

LEMMA LocalBounds ==
    ASSUME NEW t \in Int
    PROVE  Local(t) \in Int /\ t <= Local(t) /\ Local(t) <= t + 1
BY TimeAssumption DEF Local

\* The table of months, as it is computed.
LEMMA MonthStarts ==
    /\ Len(MonthLengths) \in Nat /\ DOMAIN MonthLengths = 1..Len(MonthLengths)
    /\ \A m \in 1..Len(MonthLengths) : MonthLengths[m] \in Nat \ {0}
    /\ MonthStart[1] = 0
    /\ \A m \in 1..Len(MonthLengths) : MonthStart[m + 1] = MonthStart[m] + MonthLengths[m]
    /\ \A m \in 1..(Len(MonthLengths) + 1) : MonthStart[m] \in Nat
<1> DEFINE n == Len(MonthLengths)
           step == [p \in Nat \X (1..n) |-> p[1] + MonthLengths[p[2]]]
<1>1. MonthLengths \in Seq(Nat \ {0})
  BY TimeAssumption
<1>2. n \in Nat /\ DOMAIN MonthLengths = 1..n /\ \A m \in 1..n : MonthLengths[m] \in Nat \ {0}
  BY <1>1, LenProperties, ElementOfSeq
<1> HIDE DEF n
<1>3. step \in [Nat \X (1..n) -> Nat]
  BY <1>2
<1>4. PICK f \in [SUBSET (1..n) -> Nat] : FoldOf(f, n, 0, step)
  <2> HIDE DEF step
  <2> QED  BY <1>2, <1>3, FoldExists
<1>5. PICK g \in [0..n -> Nat] : Runs(g, f, n, step)
  <2> HIDE DEF step
  <2>1. f[{}] \in Nat
    BY <1>4
  <2>2. Stepwise(f, n, step, Nat)
    BY <1>4 DEF Stepwise, FoldOf
  <2> QED  BY <1>2, <1>3, <2>1, <2>2, FoldRuns
<1>6. g[0] = 0 /\ \A k \in 1..n : g[k] = g[k - 1] + MonthLengths[k]
  <2>1. g[0] = 0
    BY <1>4, <1>5 DEF Runs, FoldOf
  <2>2. ASSUME NEW k \in 1..n PROVE g[k] = g[k - 1] + MonthLengths[k]
    <3>1. g[k] = step[<<g[k - 1], k>>] /\ k - 1 \in 0..n
      <4> HIDE DEF step
      <4>1. g[k] = step[<<g[k - 1], k>>]
        BY <1>5 DEF Runs
      <4> QED  BY <1>2, <4>1
    <3>2. <<g[k - 1], k>> \in Nat \X (1..n)
      BY <1>5, <3>1
    <3> QED  BY <3>1, <3>2
  <2> QED  BY <2>1, <2>2
<1> HIDE DEF step
<1> DEFINE h == [m \in 1..(n + 1) |-> g[m - 1]]
<1>7. h = [m \in 1..(n + 1) |-> IF m = 1 THEN 0 ELSE h[m - 1] + MonthLengths[m - 1]]
  <2>1. ASSUME NEW m \in 1..(n + 1)
        PROVE  g[m - 1] = IF m = 1 THEN 0 ELSE h[m - 1] + MonthLengths[m - 1]
    <3>1. CASE m = 1
      BY <1>6, <3>1
    <3>2. CASE m # 1
      <4>1. m - 1 \in 1..n /\ m - 1 \in 1..(n + 1) /\ h[m - 1] = g[(m - 1) - 1]
        BY <1>2, <3>2
      <4> QED  BY <1>6, <3>2, <4>1
    <3> QED  BY <3>1, <3>2
  <2> QED  BY <2>1
<1>8. MonthStart = [m \in 1..(n + 1) |->
                       IF m = 1 THEN 0 ELSE MonthStart[m - 1] + MonthLengths[m - 1]]
  <2> HIDE DEF h
  <2> QED  BY <1>7 DEF MonthStart, n
<1>9. MonthStart[1] = 0
  <2>1. 1 \in 1..(n + 1)
    BY <1>2
  <2> QED  BY <1>8, <2>1
<1>10. ASSUME NEW m \in 1..n PROVE MonthStart[m + 1] = MonthStart[m] + MonthLengths[m]
  <2>1. m + 1 \in 1..(n + 1) /\ m + 1 # 1 /\ (m + 1) - 1 = m
    BY <1>2
  <2> QED  BY <1>8, <2>1
<1> DEFINE T == {k \in Nat : k <= n => MonthStart[k + 1] \in Nat}
<1>11. 0 \in T
  BY <1>9
<1>12. ASSUME NEW k \in Nat, k \in T PROVE k + 1 \in T
  <2>1. k + 1 <= n => k + 1 \in 1..n /\ k <= n
    BY <1>2
  <2>2. k + 1 <= n => MonthStart[(k + 1) + 1] = MonthStart[k + 1] + MonthLengths[k + 1]
    BY <1>10, <2>1
  <2> QED  BY <1>2, <1>12, <2>1, <2>2
<1>13. ASSUME NEW m \in 1..(n + 1) PROVE MonthStart[m] \in Nat
  <2>1. Nat \subseteq T
    <3> HIDE DEF T
    <3> QED  BY <1>11, <1>12, AllOf
  <2>2. m - 1 \in Nat /\ m - 1 <= n /\ (m - 1) + 1 = m
    BY <1>2
  <2> QED  BY <2>1, <2>2
<1> QED  BY <1>2, <1>9, <1>10, <1>13 DEF n

LEMMA MonthsGrow ==
    ASSUME NEW m \in 1..(Len(MonthLengths) + 1), NEW k \in 1..(Len(MonthLengths) + 1), m <= k
    PROVE  MonthStart[m] <= MonthStart[k]
<1> DEFINE n == Len(MonthLengths)
           T == {j \in Nat : m + j <= n + 1 => MonthStart[m] <= MonthStart[m + j]}
<1>1. /\ n \in Nat /\ \A j \in 1..n : MonthLengths[j] \in Nat
      /\ \A j \in 1..n : MonthStart[j + 1] = MonthStart[j] + MonthLengths[j]
      /\ \A j \in 1..(n + 1) : MonthStart[j] \in Nat
  BY MonthStarts
<1> HIDE DEF n
<1>2. m \in 1..(n + 1) /\ k \in 1..(n + 1)
  BY DEF n
<1>3. 0 \in T
  BY <1>1, <1>2
<1>4. ASSUME NEW j \in Nat, j \in T PROVE j + 1 \in T
  <2>1. m + (j + 1) <= n + 1 => m + j \in 1..n /\ m + j <= n + 1 /\ m + j \in 1..(n + 1)
    BY <1>1, <1>2
  <2>2. m + (j + 1) <= n + 1 => MonthStart[(m + j) + 1] = MonthStart[m + j] + MonthLengths[m + j]
    BY <1>1, <2>1
  <2>3. m + (j + 1) <= n + 1 => MonthStart[m] <= MonthStart[m + j]
    BY <1>4, <2>1
  <2>4. m + (j + 1) = (m + j) + 1
    BY <1>2
  <2>5. m + (j + 1) <= n + 1 => MonthStart[m] <= MonthStart[m + (j + 1)]
    BY <1>1, <1>2, <2>1, <2>2, <2>3, <2>4
  <2> QED  BY <2>5
<1>5. k - m \in Nat /\ m + (k - m) = k /\ m + (k - m) <= n + 1
  BY <1>1, <1>2
<1>6. k - m \in T
  <2> HIDE DEF T
  <2> QED  BY <1>3, <1>4, <1>5, AllOf
<1> QED  BY <1>5, <1>6

\* A day of the table is in one of its months, and later days are in no earlier.
LEMMA MonthOf ==
    ASSUME NEW d \in Nat, d < MonthStart[Len(MonthLengths) + 1]
    PROVE  /\ Month(d) \in 1..Len(MonthLengths)
           /\ MonthStart[Month(d)] <= d /\ d < MonthStart[Month(d) + 1]
<1> DEFINE n == Len(MonthLengths)
           T == {m \in 1..n : d < MonthStart[m + 1]}
<1>1. /\ n \in Nat /\ DOMAIN MonthLengths = 1..n /\ MonthStart[1] = 0
      /\ \A j \in 1..(n + 1) : MonthStart[j] \in Nat
  BY MonthStarts
<1>2. d < MonthStart[n + 1]
  OBVIOUS
<1> HIDE DEF n
<1>3. n # 0
  BY <1>1, <1>2
<1>4. n \in T
  BY <1>1, <1>2, <1>3
<1>5. PICK m \in T : \A k \in T : m <= k
  <2>1. T \subseteq Nat /\ T # {}
    BY <1>4
  <2> HIDE DEF T
  <2> QED  BY <2>1, LeastOf
<1>6. MonthStart[m] <= d
  <2>1. CASE m = 1
    BY <1>1, <2>1
  <2>2. CASE m # 1
    <3>1. m - 1 \in 1..n /\ (m - 1) + 1 = m /\ ~(m <= m - 1)
      BY <1>1, <1>5, <2>2
    <3>2. m - 1 \notin T
      BY <1>5, <3>1
    <3>3. ~(d < MonthStart[m]) /\ m \in 1..(n + 1)
      BY <1>1, <3>1, <3>2
    <3> QED  BY <1>1, <3>3
  <2> QED  BY <2>1, <2>2
<1>7. \E k \in 1..n : MonthStart[k] <= d /\ d < MonthStart[k + 1]
  BY <1>5, <1>6
<1>8. Month(d) \in 1..n /\ MonthStart[Month(d)] <= d /\ d < MonthStart[Month(d) + 1]
  BY <1>1, <1>7 DEF Month
<1> QED  BY <1>8 DEF n

LEMMA MonthsOrdered ==
    ASSUME NEW d \in Nat, NEW e \in Nat, d <= e, e < MonthStart[Len(MonthLengths) + 1]
    PROVE  Month(d) <= Month(e) /\ Month(d) \in Nat /\ Month(e) \in Nat
<1> DEFINE n == Len(MonthLengths)
<1>1. /\ n \in Nat /\ n + 1 \in 1..(n + 1)
      /\ \A j \in 1..(n + 1) : MonthStart[j] \in Nat
  BY MonthStarts
<1>2. d < MonthStart[n + 1] /\ e < MonthStart[n + 1]
  BY <1>1
<1>3. Month(d) \in 1..n /\ MonthStart[Month(d)] <= d
  BY <1>2, MonthOf
<1>4. Month(e) \in 1..n /\ e < MonthStart[Month(e) + 1]
  BY <1>2, MonthOf
<1>5. ASSUME ~(Month(d) <= Month(e)) PROVE FALSE
  <2>1. Month(e) + 1 <= Month(d) /\ Month(e) + 1 \in 1..(n + 1) /\ Month(d) \in 1..(n + 1)
    BY <1>1, <1>3, <1>4, <1>5
  <2>2. MonthStart[Month(e) + 1] <= MonthStart[Month(d)]
    BY <2>1, MonthsGrow
  <2>3. MonthStart[Month(e) + 1] \in Nat /\ MonthStart[Month(d)] \in Nat
    BY <1>1, <2>1
  <2> QED  BY <1>3, <1>4, <2>2, <2>3
<1> QED  BY <1>1, <1>3, <1>4, <1>5

-----------------------------------------------------------------------------
(* What a rule asks for does not depend on the window it is asked in.      *)

\* A rule whose interval has a beginning.
Counted(rule) == rule.interval = 1 \/ rule.starts_on # NoDay

Monday(d) == d - (d % 7)

\* The days of a rule, whatever the window.
Suits(rule, d) ==
    /\ InForce(rule, d)
    /\ rule.frequency = "daily" =>
           (rule.starts_on # NoDay => (d - rule.starts_on) % rule.interval = 0)
    /\ rule.frequency = "weekly" =>
           /\ d % 7 \in rule.weekdays
           /\ rule.starts_on # NoDay =>
                  ((Monday(d) - Monday(rule.starts_on)) \div 7) % rule.interval = 0
    /\ rule.frequency = "monthly" =>
           /\ d \in MonthDays(Month(d), rule.month_days)
           /\ rule.starts_on # NoDay =>
                  /\ Month(d) >= Month(rule.starts_on)
                  /\ (Month(d) - Month(rule.starts_on)) % rule.interval = 0

\* What it asks for on them.
Asked(rule) ==
    {item \in Items :
        /\ Suits(rule, item[2]) /\ item[3] \in rule.times
        /\ item[1] \in ResolveLocal(item[2] * DayLen + item[3], rule)}

LEMMA CandidatesAre ==
    ASSUME NEW rule \in Rules, Counted(rule), NEW first \in Nat, NEW last \in Int,
           last < MonthStart[Len(MonthLengths) + 1], NEW d \in Int
    PROVE  d \in CandidateDates(rule, first, last) /\ InForce(rule, d)
             <=> first <= d /\ d <= last /\ Suits(rule, d)
<1>1. /\ rule.frequency \in {"daily", "weekly", "monthly"} /\ rule.interval \in Nat \ {0}
      /\ rule.starts_on # NoDay => rule.starts_on \in Int
      /\ rule.starts_on = NoDay => rule.interval = 1
  BY RulesAssumption DEF Counted
<1>2. d \in first..last <=> first <= d /\ d <= last
  OBVIOUS
<1>3. Anchor(rule, first) = IF rule.starts_on = NoDay THEN first ELSE rule.starts_on
  BY DEF Anchor
<1>4. InForce(rule, d) /\ rule.starts_on # NoDay => rule.starts_on <= d
  BY <1>1 DEF InForce
<1>5. \A x \in Int : x % 1 = 0
  OBVIOUS
<1>6. CASE rule.frequency = "daily"
  <2>1. CandidateDates(rule, first, last)
          = {e \in first..last : first <= e /\ Anchor(rule, first) <= e
                                   /\ (e - Anchor(rule, first)) % rule.interval = 0}
    BY <1>6 DEF CandidateDates
  <2>2. CASE rule.starts_on = NoDay
    <3>1. Suits(rule, d) <=> InForce(rule, d)
      BY <1>6, <2>2 DEF Suits
    <3>2. first <= d => (d - first) % rule.interval = 0
      BY <1>1, <1>5, <2>2
    <3> QED  BY <1>2, <1>3, <2>1, <2>2, <3>1, <3>2
  <2>3. CASE rule.starts_on # NoDay
    <3>1. Suits(rule, d)
            <=> InForce(rule, d) /\ (d - rule.starts_on) % rule.interval = 0
      BY <1>6, <2>3 DEF Suits
    <3> QED  BY <1>2, <1>3, <1>4, <2>1, <2>3, <3>1
  <2> QED  BY <2>2, <2>3
<1>7. CASE rule.frequency = "weekly"
  <2> DEFINE a == Anchor(rule, first)
  <2>1. CandidateDates(rule, first, last)
          = {e \in first..last :
                first <= e /\ a <= e /\ e % 7 \in rule.weekdays
                  /\ (((e - (e % 7)) - (a - (a % 7))) \div 7) % rule.interval = 0}
    BY <1>7 DEF CandidateDates
  <2> HIDE DEF a
  <2>2. CASE rule.starts_on = NoDay
    <3>1. Suits(rule, d) <=> InForce(rule, d) /\ d % 7 \in rule.weekdays
      BY <1>7, <2>2 DEF Suits
    <3>2. a = first
      BY <1>3, <2>2 DEF a
    <3>3. ((d - (d % 7)) - (a - (a % 7))) \div 7 \in Int
      BY <3>2
    <3>4. (((d - (d % 7)) - (a - (a % 7))) \div 7) % rule.interval = 0
      BY <1>1, <1>5, <2>2, <3>3
    <3> QED  BY <1>2, <2>1, <3>1, <3>2, <3>4
  <2>3. CASE rule.starts_on # NoDay
    <3>1. a = rule.starts_on
      BY <1>3, <2>3 DEF a
    <3>2. Suits(rule, d)
            <=> /\ InForce(rule, d) /\ d % 7 \in rule.weekdays
                /\ (((d - (d % 7)) - (a - (a % 7))) \div 7) % rule.interval = 0
      BY <1>7, <2>3, <3>1 DEF Suits, Monday
    <3>3. InForce(rule, d) => a <= d
      BY <1>4, <2>3, <3>1
    <3> QED  BY <1>2, <2>1, <3>2, <3>3
  <2> QED  BY <2>2, <2>3
<1>8. CASE rule.frequency = "monthly"
  <2> DEFINE a == Anchor(rule, first)
  <2>1. CandidateDates(rule, first, last)
          = {e \in first..last :
                e >= 0 /\ Month(e) >= Month(a) /\ (Month(e) - Month(a)) % rule.interval = 0
                  /\ e \in MonthDays(Month(e), rule.month_days)}
    BY <1>8 DEF CandidateDates
  <2> HIDE DEF a
  <2>2. first <= d => d >= 0
    OBVIOUS
  <2>3. CASE rule.starts_on = NoDay
    <3>1. Suits(rule, d) <=> InForce(rule, d) /\ d \in MonthDays(Month(d), rule.month_days)
      BY <1>8, <2>3 DEF Suits
    <3>2. a = first
      BY <1>3, <2>3 DEF a
    <3>3. ASSUME first <= d, d <= last
          PROVE  Month(d) >= Month(a) /\ (Month(d) - Month(a)) % rule.interval = 0
      <4>1. d \in Nat /\ d < MonthStart[Len(MonthLengths) + 1]
        <5>1. MonthStart[Len(MonthLengths) + 1] \in Nat
          BY MonthStarts
        <5> QED  BY <3>3, <5>1
      <4>2. Month(first) <= Month(d) /\ Month(first) \in Nat /\ Month(d) \in Nat
        BY <3>3, <4>1, MonthsOrdered
      <4>3. Month(d) - Month(first) \in Int
        BY <4>2
      <4>4. (Month(d) - Month(first)) % rule.interval = 0
        BY <1>1, <1>5, <2>3, <4>3
      <4> QED  BY <3>2, <4>2, <4>4
    <3> QED  BY <1>2, <2>1, <2>2, <3>1, <3>3
  <2>4. CASE rule.starts_on # NoDay
    <3>1. a = rule.starts_on
      BY <1>3, <2>4 DEF a
    <3>2. Suits(rule, d)
            <=> /\ InForce(rule, d) /\ d \in MonthDays(Month(d), rule.month_days)
                /\ Month(d) >= Month(a) /\ (Month(d) - Month(a)) % rule.interval = 0
      BY <1>8, <2>4, <3>1 DEF Suits
    <3> QED  BY <1>2, <2>1, <2>2, <3>2
  <2> QED  BY <2>3, <2>4
<1> QED  BY <1>1, <1>6, <1>7, <1>8

\* An item falls in the days of a window of which its instant is one.
LEMMA InWindow ==
    ASSUME NEW rule \in Rules, NEW item \in Asked(rule), NEW start \in Int, NEW end \in Int,
           start <= item[1], item[1] <= end
    PROVE  Day(Local(start)) - 1 <= item[2] /\ item[2] <= Day(Local(end)) + 1
<1>1. PICK t \in Int, d \in Int, c \in Int : item = <<t, d, c>>
  BY DEF Asked, Items
<1>2. DayLen \in Nat /\ DayLen > 2 /\ c \in 0..(DayLen - 1)
  BY <1>1, TimeAssumption, RulesAssumption DEF Asked
<1>3. PICK x \in Int : x = d * DayLen
  BY <1>1, <1>2
<1>4. t \in (x + c - 1)..(x + c + 1)
  <2>1. t \in ResolveLocal(x + c, rule) /\ x + c \in Int
    BY <1>1, <1>2, <1>3 DEF Asked
  <2> QED  BY <2>1, Resolved
<1>5. Local(start) \in Int /\ Local(start) <= start + 1 /\ Local(end) \in Int /\ end <= Local(end)
  BY LocalBounds
<1>6. ~(Local(start) >= x + DayLen + DayLen) /\ Local(end) >= x - DayLen
  BY <1>1, <1>2, <1>3, <1>4, <1>5
<1>7. (d + 2) * DayLen = x + DayLen + DayLen /\ (d - 1) * DayLen = x - DayLen
  BY <1>1, <1>2, <1>3
<1>8. Day(Local(start)) \in Int /\ ~(Day(Local(start)) >= d + 2)
  BY <1>1, <1>5, <1>6, <1>7, DayBounds
<1>9. Day(Local(end)) \in Int /\ Day(Local(end)) >= d - 1
  BY <1>1, <1>5, <1>6, <1>7, DayBounds
<1> QED  BY <1>1, <1>8, <1>9

\* So a window fires what is asked for in it.
LEMMA FiresAre ==
    ASSUME NEW rule \in Rules, Counted(rule), NEW start \in Nat, start >= DayLen,
           NEW end \in Horizons
    PROVE  Fires(rule, start, end) = {item \in Asked(rule) : start <= item[1] /\ item[1] <= end}
<1> DEFINE first == Day(Local(start)) - 1
           last == Day(Local(end)) + 1
           days == {d \in CandidateDates(rule, first, last) : InForce(rule, d)}
           F == Fires(rule, start, end)
<1>1. end \in Int /\ DayLen \in Nat /\ rule.times \subseteq 0..(DayLen - 1)
  BY TimeAssumption, RulesAssumption
<1>2. first \in Nat /\ last \in Int
  <2>1. Local(start) \in Int /\ Local(start) >= 1 * DayLen
    BY <1>1, LocalBounds
  <2>2. Day(Local(start)) \in Int /\ Day(Local(start)) >= 1
    BY <2>1, DayBounds
  <2> QED  BY <1>1, <2>2, DayTyped
<1>3. last < MonthStart[Len(MonthLengths) + 1]
  BY MonthsAssumption
<1>4. F = {item \in ItemsOf(rule, days) : start <= item[1] /\ item[1] <= end}
  BY DEF Fires
<1>5. \A item \in Asked(rule) :
          start <= item[1] /\ item[1] <= end => first <= item[2] /\ item[2] <= last
  BY <1>1, InWindow
<1>6. F \subseteq Items
  BY <1>1, FiresFinite
<1> HIDE DEF first, last, F
<1>7. ASSUME NEW d \in Int PROVE d \in days <=> first <= d /\ d <= last /\ Suits(rule, d)
  <2>1. d \in CandidateDates(rule, first, last) /\ InForce(rule, d)
          <=> first <= d /\ d <= last /\ Suits(rule, d)
    BY <1>2, <1>3, CandidatesAre
  <2> QED  BY <2>1
<1> HIDE DEF days
<1>8. ASSUME NEW item \in Items
      PROVE  item \in ItemsOf(rule, days)
               <=> /\ item[2] \in days /\ item[3] \in rule.times
                   /\ item[1] \in ResolveLocal(item[2] * DayLen + item[3], rule)
  <2>1. item = <<item[1], item[2], item[3]>>
    BY DEF Items
  <2>2. ASSUME item \in ItemsOf(rule, days)
        PROVE  /\ item[2] \in days /\ item[3] \in rule.times
               /\ item[1] \in ResolveLocal(item[2] * DayLen + item[3], rule)
    <3>1. PICK d \in days, c \in rule.times :
              item \in {<<t, d, c>> : t \in ResolveLocal(d * DayLen + c, rule)}
      BY <2>2 DEF ItemsOf
    <3> QED  BY <3>1
  <2>3. ASSUME item[2] \in days, item[3] \in rule.times,
               item[1] \in ResolveLocal(item[2] * DayLen + item[3], rule)
        PROVE  item \in ItemsOf(rule, days)
    <3> DEFINE at(d, c) == {<<t, d, c>> : t \in ResolveLocal(d * DayLen + c, rule)}
    <3>1. item \in at(item[2], item[3])
      BY <2>1, <2>3
    <3>2. ItemsOf(rule, days) = UNION {at(d, c) : d \in days, c \in rule.times}
      BY DEF ItemsOf
    <3> HIDE DEF at
    <3> QED  BY <2>3, <3>1, <3>2
  <2> QED  BY <2>2, <2>3
<1>9. ASSUME NEW item \in Items
      PROVE  item \in F <=> item \in Asked(rule) /\ start <= item[1] /\ item[1] <= end
  <2>1. item[2] \in Int
    BY DEF Items
  <2>2. item[2] \in days <=> first <= item[2] /\ item[2] <= last /\ Suits(rule, item[2])
    BY <1>7, <2>1
  <2>3. item \in Asked(rule) <=>
          /\ Suits(rule, item[2]) /\ item[3] \in rule.times
          /\ item[1] \in ResolveLocal(item[2] * DayLen + item[3], rule)
    BY DEF Asked
  <2> QED  BY <1>4, <1>5, <1>8, <2>2, <2>3
<1>10. Asked(rule) \subseteq Items
  BY DEF Asked
<1>11. F = {item \in Asked(rule) : start <= item[1] /\ item[1] <= end}
  BY <1>6, <1>9, <1>10
<1> QED  BY <1>11 DEF F

\* occurrences returns what a rule fires for, each thing once, and all of it
\* where the rule has no limit.
LEMMA OccurrencesAre ==
    ASSUME NEW rule \in Rules, NEW start \in Int, NEW end \in Int
    PROVE  LET items == Occurrences(rule, start, end) IN
           /\ items \in Seq(Items) /\ ToSet(items) \subseteq Fires(rule, start, end)
           /\ \A j, k \in DOMAIN items : items[j] = items[k] => j = k
           /\ rule.max = 0 => ToSet(items) = Fires(rule, start, end)
<1> DEFINE F == Fires(rule, start, end)
           Earlier(a, b) == a[1] < b[1] \/ (a[1] = b[1] /\ a[3] < b[3])
           n == Cardinality(F)
           Before(a) == {b \in F : Earlier(b, a)}
           all == [k \in 1..n |-> CHOOSE a \in F : Cardinality(Before(a)) = k - 1]
           items == Occurrences(rule, start, end)
<1>1. items = IF rule.max = 0 \/ Len(all) <= rule.max THEN all ELSE SubSeq(all, 1, rule.max)
  BY DEF Occurrences
<1>2. F \subseteq Items /\ IsFiniteSet(F)
      /\ \A a, b \in F : a[1] = b[1] /\ a[3] = b[3] => a = b
  BY FiresFinite
<1> HIDE DEF F, items
<1>3. /\ n \in Nat /\ \A k \in 1..n : \E a \in F : Cardinality(Before(a)) = k - 1
      /\ \A a \in F : Cardinality(Before(a)) \in Nat /\ Cardinality(Before(a)) + 1 \in 1..n
      /\ \A a, b \in F : Cardinality(Before(a)) = Cardinality(Before(b)) => a = b
  <2> DEFINE L == {p \in F \X F : Earlier(p[1], p[2])}
  <2>1. \A a, b \in F : <<a, b>> \in L <=> Earlier(a, b)
    OBVIOUS
  <2>2. ASSUME NEW a \in F PROVE a[1] \in Int /\ a[3] \in Int
    <3>1. a \in Items
      BY <1>2
    <3> QED  BY <3>1 DEF Items
  <2> HIDE DEF L
  <2>3. \A a \in F : <<a, a>> \notin L
    BY <2>1, <2>2
  <2>4. \A a, b, c \in F : <<a, b>> \in L /\ <<b, c>> \in L => <<a, c>> \in L
    BY <2>1, <2>2
  <2>5. \A a, b \in F : a = b \/ <<a, b>> \in L \/ <<b, a>> \in L
    <3> SUFFICES ASSUME NEW a \in F, NEW b \in F, a # b, ~Earlier(a, b), ~Earlier(b, a)
                 PROVE  FALSE
      BY <2>1
    <3>1. a[1] \in Int /\ a[3] \in Int /\ b[1] \in Int /\ b[3] \in Int
      BY <2>2
    <3>2. a[1] = b[1] /\ a[3] = b[3]
      BY <3>1
    <3> QED  BY <1>2, <3>2
  <2>6. RanksOK(F, L)
    <3> HIDE DEF Earlier, Before, all
    <3> QED  BY <1>2, <2>3, <2>4, <2>5, Ranked
  <2>7. ASSUME NEW a \in F PROVE Before(a) = Below(F, L, a)
    BY <2>1 DEF Below
  <2> HIDE DEF Before
  <2> QED  BY <2>6, <2>7 DEF RanksOK
<1> HIDE DEF Before, n, Earlier
<1>4. \A k \in 1..n :
          /\ (CHOOSE a \in F : Cardinality(Before(a)) = k - 1) \in F
          /\ Cardinality(Before(CHOOSE a \in F : Cardinality(Before(a)) = k - 1)) = k - 1
  BY <1>3
<1>5. DOMAIN all = 1..n /\ \A k \in 1..n : all[k] \in F /\ Cardinality(Before(all[k])) = k - 1
  BY <1>4
<1>6. all \in Seq(Items) /\ Len(all) = n
  BY <1>2, <1>3, <1>4
<1> HIDE DEF all
<1>7. \A j, k \in 1..n : all[j] = all[k] => j = k
  <2>1. ASSUME NEW j \in 1..n, NEW k \in 1..n, all[j] = all[k] PROVE j = k
    <3>1. j - 1 = k - 1
      BY <1>5, <2>1
    <3> QED  BY <1>3, <3>1
  <2> QED  BY <2>1
<1>8. \A a \in F : \E k \in 1..n : all[k] = a
  <2> TAKE a \in F
  <2>1. PICK k \in 1..n : k = Cardinality(Before(a)) + 1
    BY <1>3
  <2>2. k - 1 = Cardinality(Before(a))
    BY <1>3, <2>1
  <2>3. all[k] \in F /\ Cardinality(Before(all[k])) = Cardinality(Before(a))
    BY <1>5, <2>2
  <2> QED  BY <1>3, <2>1, <2>3
<1>9. CASE rule.max = 0 \/ Len(all) <= rule.max
  <2>1. items = all
    BY <1>1, <1>9
  <2>2. ToSet(all) = F
    BY <1>5, <1>8 DEF ToSet
  <2>3. /\ items \in Seq(Items) /\ ToSet(items) = F
        /\ \A j, k \in DOMAIN items : items[j] = items[k] => j = k
    BY <1>5, <1>6, <1>7, <2>1, <2>2
  <2> QED  BY <2>3 DEF F, items
<1>10. CASE ~(rule.max = 0 \/ Len(all) <= rule.max)
  <2>1. items = SubSeq(all, 1, rule.max) /\ rule.max \in Nat /\ rule.max <= n
    BY <1>1, <1>3, <1>6, <1>10, RulesAssumption
  <2>2. 1 \in 1..(Len(all) + 1) /\ 1 + rule.max <= Len(all) + 1 /\ 1 + rule.max - 1 = rule.max
    BY <1>3, <1>6, <2>1
  <2>3. /\ items \in Seq(Items) /\ Len(items) = rule.max
        /\ \A k \in 1..rule.max : items[k] = all[1 + k - 1]
    BY <1>6, <2>1, <2>2, Piece
  <2>4. DOMAIN items = 1..rule.max
    BY <2>3, LenProperties
  <2>5. ASSUME NEW k \in DOMAIN items PROVE k \in 1..n /\ items[k] = all[k]
    <3>1. k \in 1..n /\ 1 + k - 1 = k /\ k \in 1..rule.max
      BY <1>3, <2>1, <2>4
    <3> QED  BY <2>3, <3>1
  <2>6. ToSet(items) \subseteq F
    BY <1>5, <2>5 DEF ToSet
  <2>7. \A j, k \in DOMAIN items : items[j] = items[k] => j = k
    BY <1>7, <2>5
  <2> QED  BY <1>10, <2>3, <2>6, <2>7 DEF F, items
<1> QED  BY <1>9, <1>10

-----------------------------------------------------------------------------
(* The posts of the series.                                                *)

\* A post of a series is one its rule asks for, in the range laid out.
Fit(post, lays) ==
    /\ post.at >= DayLen
    /\ post.series # NoRule =>
           LET lay == lays[post.series] IN
           /\ lay # NoRule /\ post.item \in Items
           /\ lay.from < post.item[1] /\ post.item[1] <= lay.until
           /\ ~post.moved => post.at = post.item[1]
           /\ Anchored(lay.rule) => post.item \in Asked(lay.rule)

\* No two posts of a series are for the same thing, unless one was moved.
Distinct(rows) ==
    \A i, j \in DOMAIN rows :
        /\ i # j /\ rows[i].series # NoRule /\ rows[i].series = rows[j].series
        /\ rows[i].item = rows[j].item
        => rows[i].moved \/ rows[j].moved

Moved(rows, s) == \E i \in DOMAIN rows : rows[i].series = s /\ rows[i].moved
Has(rows, s, item) == \E i \in DOMAIN rows : rows[i].series = s /\ rows[i].item = item

\* What a series asks for in its range is there, or was refused.
Whole(rows, s, lay) ==
    Anchored(lay.rule) =>
        \/ Moved(rows, s)
        \/ \A item \in Asked(lay.rule) :
               lay.from <= item[1] /\ item[1] <= lay.until =>
                   item \in lay.refused \/ Has(rows, s, item)

Held(rows, lays) ==
    /\ \A i \in DOMAIN rows : Fit(rows[i], lays)
    /\ Distinct(rows)
    /\ \A s \in Series : lays[s] # NoRule => Whole(rows, s, lays[s])

\* The post new is old, perhaps in another state or moved.
Carried(old, new) ==
    /\ new.at >= DayLen /\ new.series = old.series /\ new.item = old.item
    /\ new.moved \/ (~old.moved /\ new.at = old.at)

\* r has the posts of rows, each once, and others that are of no series.
Comes(r, rows, old) ==
    /\ \A i \in DOMAIN r :
           IF old[i] = 0 THEN r[i].at >= DayLen /\ r[i].series = NoRule
           ELSE old[i] \in DOMAIN rows /\ Carried(rows[old[i]], r[i])
    /\ \A i, j \in DOMAIN r : i # j /\ old[i] # 0 => old[i] # old[j]
    /\ \A k \in DOMAIN rows : \E i \in DOMAIN r : old[i] = k

\* Such a change leaves the series what they were.
LEMMA HeldOn ==
    ASSUME NEW lays, NEW rows \in Seq(Bookings), Held(rows, lays), NEW r, NEW old,
           Comes(r, rows, old)
    PROVE  Held(r, lays)
<1>1. /\ \A i \in DOMAIN rows : Fit(rows[i], lays)
      /\ Distinct(rows)
      /\ \A s \in Series : lays[s] # NoRule => Whole(rows, s, lays[s])
  BY DEF Held
<1>2. 0 \notin DOMAIN rows /\ NoRule \notin Series
  BY RowsAt, TimeAssumption
<1>3. \A i \in DOMAIN r :
          IF old[i] = 0 THEN r[i].at >= DayLen /\ r[i].series = NoRule
          ELSE old[i] \in DOMAIN rows /\ Carried(rows[old[i]], r[i])
  BY DEF Comes
<1>4. /\ \A i, j \in DOMAIN r : i # j /\ old[i] # 0 => old[i] # old[j]
      /\ \A k \in DOMAIN rows : \E i \in DOMAIN r : old[i] = k
  BY DEF Comes
<1>5. ASSUME NEW i \in DOMAIN r PROVE Fit(r[i], lays)
  <2>1. CASE old[i] = 0
    BY <1>3, <2>1 DEF Fit
  <2>2. CASE old[i] # 0
    <3>1. Carried(rows[old[i]], r[i]) /\ Fit(rows[old[i]], lays)
      BY <1>1, <1>3, <2>2
    <3> QED  BY <3>1 DEF Carried, Fit
  <2> QED  BY <2>1, <2>2
<1>6. Distinct(r)
  <2> SUFFICES ASSUME NEW i \in DOMAIN r, NEW j \in DOMAIN r, i # j, r[i].series # NoRule,
                      r[i].series = r[j].series, r[i].item = r[j].item
               PROVE  r[i].moved \/ r[j].moved
    BY DEF Distinct
  <2>1. old[i] # 0 /\ old[j] # 0
    BY <1>3
  <2>2. /\ old[i] \in DOMAIN rows /\ old[j] \in DOMAIN rows /\ old[i] # old[j]
        /\ Carried(rows[old[i]], r[i]) /\ Carried(rows[old[j]], r[j])
    BY <1>3, <1>4, <2>1
  <2>3. rows[old[i]].moved \/ rows[old[j]].moved
    BY <1>1, <2>2 DEF Carried, Distinct
  <2> QED  BY <2>2, <2>3 DEF Carried
<1>7. ASSUME NEW s \in Series, lays[s] # NoRule PROVE Whole(r, s, lays[s])
  <2>1. ASSUME NEW k \in DOMAIN rows
        PROVE  \E i \in DOMAIN r : Carried(rows[k], r[i])
    <3>1. PICK i \in DOMAIN r : old[i] = k
      BY <1>4
    <3> QED  BY <1>2, <1>3, <3>1
  <2>2. Moved(rows, s) => Moved(r, s)
    BY <2>1 DEF Moved, Carried
  <2>3. \A item : Has(rows, s, item) => Has(r, s, item)
    BY <2>1 DEF Has, Carried
  <2> QED  BY <1>1, <1>7, <2>2, <2>3 DEF Whole
<1> QED  BY <1>5, <1>6, <1>7 DEF Held

\* A post of no series is added.
LEMMA AddHeld ==
    ASSUME NEW lays, NEW rows \in Calendars, Held(rows, lays), NEW b \in Bookings,
           b.at >= DayLen, b.series = NoRule
    PROVE  Held(Add(rows, b), lays)
<1> DEFINE r == Add(rows, b)
<1>1. rows \in Seq(Bookings)
  BY DEF Calendars
<1>2. PICK p, old : Joins(r, rows, p, b, old)
  BY AddedTo
<1> HIDE DEF r
<1>3. /\ r[p] = b /\ old[p] = 0 /\ r \in Seq(Bookings)
      /\ \A i \in DOMAIN r : i # p => old[i] \in DOMAIN rows /\ r[i] = rows[old[i]]
      /\ \A i, j \in DOMAIN r : i < j /\ i # p /\ j # p => old[i] < old[j]
      /\ \A k \in DOMAIN rows : \E i \in DOMAIN r : i # p /\ old[i] = k
  BY <1>2 DEF Joins
<1>4. \A i \in DOMAIN r : i \in Int
  BY <1>3, RowsAt
<1>5. \A i \in DOMAIN rows : i \in Nat \ {0} /\ rows[i] \in Bookings
  BY <1>1, RowsAt
<1>6. ASSUME NEW i \in DOMAIN r
      PROVE  IF old[i] = 0 THEN r[i].at >= DayLen /\ r[i].series = NoRule
             ELSE old[i] \in DOMAIN rows /\ Carried(rows[old[i]], r[i])
  <2>1. CASE i = p
    BY <1>3, <2>1
  <2>2. CASE i # p
    <3>1. old[i] \in DOMAIN rows /\ r[i] = rows[old[i]] /\ old[i] # 0
      BY <1>3, <1>5, <2>2
    <3>2. Fit(r[i], lays) /\ r[i] \in Bookings
      BY <1>5, <3>1 DEF Held
    <3> QED  BY <3>1, <3>2 DEF Carried, Fit, Bookings
  <2> QED  BY <2>1, <2>2
<1>7. ASSUME NEW i \in DOMAIN r, NEW j \in DOMAIN r, i # j, old[i] # 0
      PROVE  old[i] # old[j]
  <2>1. i # p /\ old[i] \in DOMAIN rows /\ (j # p => old[j] \in DOMAIN rows)
    BY <1>3, <1>7
  <2>2. i < j \/ j < i
    BY <1>4, <1>7
  <2>3. j # p => old[i] < old[j] \/ old[j] < old[i]
    BY <1>3, <2>1, <2>2
  <2> QED  BY <1>3, <1>5, <1>7, <2>1, <2>3
<1>8. Comes(r, rows, old)
  BY <1>3, <1>6, <1>7 DEF Comes
<1> QED  BY <1>1, <1>8, HeldOn DEF r

\* Posts change state.
LEMMA StatesHeld ==
    ASSUME NEW lays, NEW rows \in Calendars, Held(rows, lays),
           NEW r, DOMAIN r = DOMAIN rows,
           \A i \in DOMAIN rows :
               /\ r[i].at = rows[i].at /\ r[i].moved = rows[i].moved
               /\ r[i].series = rows[i].series /\ r[i].item = rows[i].item
    PROVE  Held(r, lays)
<1> DEFINE old == [i \in DOMAIN rows |-> i]
<1>1. rows \in Seq(Bookings)
  BY DEF Calendars
<1>2. \A i \in DOMAIN rows : i \in Nat \ {0} /\ rows[i] \in Bookings
  BY <1>1, RowsAt
<1>3. \A i \in DOMAIN rows : Fit(rows[i], lays)
  BY DEF Held
<1>4. ASSUME NEW i \in DOMAIN rows PROVE Carried(rows[i], r[i])
  <2>1. rows[i] \in Bookings /\ Fit(rows[i], lays)
    BY <1>2, <1>3
  <2> QED  BY <2>1 DEF Carried, Fit, Bookings
<1>5. Comes(r, rows, old)
  BY <1>2, <1>4 DEF Comes
<1> HIDE DEF old
<1> QED  BY <1>1, <1>5, HeldOn

\* A post is moved.
LEMMA MoveHeld ==
    ASSUME NEW lays, NEW rows \in Calendars, Held(rows, lays),
           NEW k \in DOMAIN rows, ~Settled(rows[k]), NEW b \in Bookings,
           b.at >= DayLen, b.moved, b.series = rows[k].series, b.item = rows[k].item
    PROVE  Held(Add(RemoveAt(rows, k), b), lays)
<1> DEFINE m == RemoveAt(rows, k)
           r == Add(m, b)
<1>1. rows \in Seq(Bookings)
  BY DEF Calendars
<1>2. m \in Calendars
  BY RemoveKeeps
<1>3. PICK was : Leaves(m, rows, k, was)
  BY RemovedFrom
<1> HIDE DEF m
<1>4. PICK p, old : Joins(r, m, p, b, old)
  BY <1>2, AddedTo
<1> HIDE DEF r
<1>5. /\ r[p] = b /\ old[p] = 0 /\ r \in Seq(Bookings) /\ p \in DOMAIN r
      /\ \A i \in DOMAIN r : i # p => old[i] \in DOMAIN m /\ r[i] = m[old[i]]
      /\ \A i, j \in DOMAIN r : i < j /\ i # p /\ j # p => old[i] < old[j]
      /\ \A e \in DOMAIN m : \E i \in DOMAIN r : i # p /\ old[i] = e
  BY <1>4 DEF Joins
<1>6. /\ \A i \in DOMAIN m : was[i] \in DOMAIN rows \ {k} /\ m[i] = rows[was[i]]
      /\ \A i, j \in DOMAIN m : i < j => was[i] < was[j]
      /\ \A e \in DOMAIN rows : e # k => \E i \in DOMAIN m : was[i] = e
  BY <1>3 DEF Leaves
<1>7. /\ \A i \in DOMAIN r : i \in Int
      /\ \A i \in DOMAIN rows : i \in Nat \ {0} /\ rows[i] \in Bookings
      /\ \A i \in DOMAIN m : i \in Int
  BY <1>1, <1>2, <1>5, RowsAt DEF Calendars
<1> DEFINE from == [i \in DOMAIN r |-> IF i = p THEN k ELSE was[old[i]]]
<1>8. ASSUME NEW i \in DOMAIN r
      PROVE  from[i] \in DOMAIN rows /\ Carried(rows[from[i]], r[i])
             /\ (i # p => from[i] # k /\ from[i] = was[old[i]] /\ old[i] \in DOMAIN m)
  <2>1. CASE i = p
    BY <1>5, <2>1 DEF Carried
  <2>2. CASE i # p
    <3>1. from[i] = was[old[i]] /\ old[i] \in DOMAIN m
      BY <1>5, <2>2
    <3> HIDE DEF from
    <3>2. from[i] \in DOMAIN rows \ {k} /\ r[i] = rows[from[i]]
      BY <1>5, <1>6, <2>2, <3>1
    <3>3. Fit(r[i], lays) /\ r[i] \in Bookings
      BY <1>7, <3>2 DEF Held
    <3> QED  BY <3>1, <3>2, <3>3 DEF Carried, Fit, Bookings
  <2> QED  BY <2>1, <2>2
<1>9. ASSUME NEW e \in DOMAIN rows PROVE \E i \in DOMAIN r : from[i] = e
  <2>1. CASE e = k
    BY <1>5, <2>1
  <2>2. CASE e # k
    <3>1. PICK j \in DOMAIN m : was[j] = e
      BY <1>6, <2>2
    <3>2. PICK i \in DOMAIN r : i # p /\ old[i] = j
      BY <1>5
    <3>3. from[i] = e
      BY <3>1, <3>2
    <3> QED  BY <3>3
  <2> QED  BY <2>1, <2>2
<1>10. from[p] = k
  BY <1>5
<1> HIDE DEF from
<1>11. ASSUME NEW i \in DOMAIN r, NEW j \in DOMAIN r, i < j PROVE from[i] # from[j]
  <2>1. CASE i = p \/ j = p
    <3>1. i # j
      BY <1>7, <1>11
    <3> QED  BY <1>8, <1>10, <2>1, <3>1
  <2>2. CASE i # p /\ j # p
    <3>1. old[i] < old[j] /\ old[i] \in DOMAIN m /\ old[j] \in DOMAIN m
      BY <1>5, <1>11, <2>2
    <3>2. was[old[i]] < was[old[j]]
      BY <1>6, <3>1
    <3> QED  BY <1>7, <1>8, <2>2, <3>2
  <2> QED  BY <2>1, <2>2
<1>12. \A i, j \in DOMAIN r : i # j => from[i] # from[j]
  <2> SUFFICES ASSUME NEW i \in DOMAIN r, NEW j \in DOMAIN r, i # j PROVE from[i] # from[j]
    OBVIOUS
  <2>1. i < j \/ j < i
    BY <1>7
  <2> QED  BY <1>11, <2>1
<1>13. Comes(r, rows, from)
  BY <1>7, <1>8, <1>9, <1>12 DEF Comes
<1> QED  BY <1>1, <1>13, HeldOn DEF m, r

-----------------------------------------------------------------------------
(* Placing a series, and a batch.                                          *)

LEMMA EntryTyped ==
    ASSUME NEW t \in Int, NEW state \in {"draft", "scheduled"},
           NEW s \in Series \union {NoRule}, NEW item \in Items \union {NoItem}
    PROVE  Entry(t, state, s, item) \in Bookings /\ Entry(t, state, s, item).at = t
BY DEF Entry, Bookings, States

LEMMA ItemsAt ==
    ASSUME NEW items \in Seq(Items)
    PROVE  /\ Len(items) \in Nat /\ DOMAIN items = 1..Len(items)
           /\ \A k \in DOMAIN items : items[k] \in Items /\ items[k][1] \in Int
           /\ ToSet(items) \subseteq Items
<1>1. Len(items) \in Nat /\ DOMAIN items = 1..Len(items)
  BY LenProperties
<1>2. ASSUME NEW k \in DOMAIN items PROVE items[k] \in Items /\ items[k][1] \in Int
  <2>1. items[k] \in Items
    BY <1>1, ElementOfSeq
  <2> QED  BY <2>1 DEF Items
<1> QED  BY <1>1, <1>2 DEF ToSet

\* r has come of base by posts for some of the first k items.
Grown(r, base, items, s, k) ==
    /\ r \in Calendars /\ Distinct(r)
    /\ \A i \in DOMAIN base : \E j \in DOMAIN r : r[j] = base[i]
    /\ \A j \in DOMAIN r :
           \/ \E i \in DOMAIN base : r[j] = base[i]
           \/ \E m \in 1..k :
                  now < items[m][1] /\ r[j] = Entry(items[m][1], "scheduled", s, items[m])

\* The items are all different, and base has none of them.
OnceEach(items) == \A j, k \in DOMAIN items : items[j] = items[k] => j = k

Fresh(base, items, s) ==
    /\ OnceEach(items)
    /\ \A i \in DOMAIN base :
           base[i].series = s => base[i].moved \/ \A m \in DOMAIN items : base[i].item # items[m]

LEMMA GrownMore ==
    ASSUME NEW r, NEW base, NEW items, NEW s, NEW k \in Int, NEW m \in Int, k <= m,
           Grown(r, base, items, s, k)
    PROVE  Grown(r, base, items, s, m)
<1>1. 1..k \subseteq 1..m
  OBVIOUS
<1> QED  BY <1>1 DEF Grown

\* Where no problem is found the moment is free, and the post is a new one.
LEMMA GrowsBy ==
    ASSUME now \in Nat, NEW r, NEW base, NEW items \in Seq(Items), NEW s \in Series,
           NEW k \in Nat, Grown(r, base, items, s, k), Fresh(base, items, s),
           NEW m \in DOMAIN items, k < m, NEW bad, Problems(r, items[m][1], bad) = {}
    PROVE  Grown(Add(r, Entry(items[m][1], "scheduled", s, items[m])), base, items, s, m)
<1> DEFINE t == items[m][1]
           b == Entry(t, "scheduled", s, items[m])
           new == Add(r, b)
<1>1. /\ Len(items) \in Nat /\ DOMAIN items = 1..Len(items)
      /\ \A j \in DOMAIN items : items[j] \in Items /\ items[j][1] \in Int
  BY ItemsAt
<1>2. r \in Calendars /\ Distinct(r)
  BY DEF Grown
<1>3. t \in Int /\ now < t /\ Nearest(r, t) = {}
  <2>1. t \in Int
    BY <1>1
  <2> HIDE DEF t
  <2>2. Problems(r, t, bad) = {}
    BY DEF t
  <2> QED  BY <2>1, <2>2 DEF Problems
<1>4. b \in Bookings /\ b.at = t /\ b.series = s /\ b.item = items[m] /\ ~b.moved
  <2> HIDE DEF t
  <2>1. b \in Bookings
    BY <1>1, <1>3, EntryTyped
  <2> QED  BY <2>1 DEF Entry
<1> HIDE DEF t
<1>5. b = Entry(items[m][1], "scheduled", s, items[m]) /\ now < items[m][1] /\ m \in 1..m
  BY <1>1, <1>3 DEF t
<1> HIDE DEF b
<1>6. new \in Calendars
  BY <1>2, <1>3, <1>4, AddKeeps
<1>7. PICK p, old : Joins(new, r, p, b, old)
  BY <1>2, <1>4, AddedTo
<1> HIDE DEF new
<1>8. /\ p \in DOMAIN new /\ new[p] = b /\ new \in Seq(Bookings)
      /\ \A i \in DOMAIN new : i # p => old[i] \in DOMAIN r /\ new[i] = r[old[i]]
      /\ \A i, j \in DOMAIN new : i < j /\ i # p /\ j # p => old[i] < old[j]
      /\ \A e \in DOMAIN r : \E i \in DOMAIN new : i # p /\ old[i] = e
  BY <1>7 DEF Joins
<1>9. /\ \A i \in DOMAIN new : i \in Int
      /\ \A i \in DOMAIN r : i \in Int
  <2>1. r \in Seq(Bookings)
    BY <1>2 DEF Calendars
  <2> QED  BY <1>8, <2>1, RowsAt
<1>10. \A i \in DOMAIN base : \E j \in DOMAIN new : new[j] = base[i]
  <2> TAKE i \in DOMAIN base
  <2>1. PICK e \in DOMAIN r : r[e] = base[i]
    BY DEF Grown
  <2>2. PICK j \in DOMAIN new : j # p /\ old[j] = e
    BY <1>8
  <2>3. new[j] = base[i]
    BY <1>8, <2>1, <2>2
  <2> QED  BY <2>3
<1>11. ASSUME NEW e \in DOMAIN r
       PROVE  \/ \E i \in DOMAIN base : r[e] = base[i]
              \/ \E j \in 1..k : r[e] = Entry(items[j][1], "scheduled", s, items[j])
                                   /\ now < items[j][1]
  BY DEF Grown
<1>12. ASSUME NEW j \in DOMAIN new
       PROVE  \/ \E i \in DOMAIN base : new[j] = base[i]
              \/ \E e \in 1..m :
                     now < items[e][1] /\ new[j] = Entry(items[e][1], "scheduled", s, items[e])
  <2>1. CASE j = p
    BY <1>5, <1>8, <2>1
  <2>2. CASE j # p
    <3>1. old[j] \in DOMAIN r /\ new[j] = r[old[j]]
      BY <1>8, <2>2
    <3>2. 1..k \subseteq 1..m
      BY <1>1
    <3> QED  BY <1>11, <3>1, <3>2
  <2> QED  BY <2>1, <2>2
<1>13. ASSUME NEW e \in DOMAIN r, r[e].series = s, r[e].item = items[m] PROVE r[e].moved
  <2>1. CASE \E i \in DOMAIN base : r[e] = base[i]
    BY <1>13, <2>1 DEF Fresh
  <2>2. CASE \E j \in 1..k : r[e] = Entry(items[j][1], "scheduled", s, items[j])
    <3>1. PICK j \in 1..k : r[e] = Entry(items[j][1], "scheduled", s, items[j])
      BY <2>2
    <3>2. r[e].item = items[j]
      BY <3>1 DEF Entry
    <3>3. j \in DOMAIN items /\ j # m
      BY <1>1
    <3> QED  BY <1>13, <3>2, <3>3 DEF Fresh, OnceEach
  <2> QED  BY <1>11, <2>1, <2>2
<1>14. Distinct(new)
  <2> SUFFICES ASSUME NEW i \in DOMAIN new, NEW j \in DOMAIN new, i # j, new[i].series # NoRule,
                      new[i].series = new[j].series, new[i].item = new[j].item
               PROVE  new[i].moved \/ new[j].moved
    BY DEF Distinct
  <2>1. CASE i = p
    <3>1. old[j] \in DOMAIN r /\ new[j] = r[old[j]]
      BY <1>8, <2>1
    <3> QED  BY <1>4, <1>8, <1>13, <2>1, <3>1
  <2>2. CASE j = p
    <3>1. old[i] \in DOMAIN r /\ new[i] = r[old[i]]
      BY <1>8, <2>2
    <3> QED  BY <1>4, <1>8, <1>13, <2>2, <3>1
  <2>3. CASE i # p /\ j # p
    <3>1. /\ old[i] \in DOMAIN r /\ new[i] = r[old[i]]
          /\ old[j] \in DOMAIN r /\ new[j] = r[old[j]]
      BY <1>8, <2>3
    <3>2. i < j \/ j < i
      BY <1>9
    <3>3. old[i] < old[j] \/ old[j] < old[i]
      BY <1>8, <2>3, <3>2
    <3>4. old[i] # old[j]
      BY <1>9, <3>1, <3>3
    <3> QED  BY <1>2, <3>1, <3>4 DEF Distinct
  <2> QED  BY <2>1, <2>2, <2>3
<1>15. Grown(new, base, items, s, m)
  BY <1>6, <1>10, <1>12, <1>14 DEF Grown
<1>16. new = Add(r, Entry(items[m][1], "scheduled", s, items[m]))
  BY <1>5 DEF new
<1> QED  BY <1>15, <1>16

LEMMA PlaceGrows ==
    ASSUME now \in Nat, NEW rows \in Calendars, Distinct(rows), NEW items \in Seq(Items),
           NEW s \in Series, Fresh(rows, items, s)
    PROVE  Grown(Place(rows, items, s), rows, items, s, Len(items))
<1> DEFINE n == Len(items)
<1>1. n \in Nat /\ DOMAIN items = 1..n /\ \A k \in DOMAIN items : items[k] \in Items
  BY ItemsAt
<1> HIDE DEF n
<1>2. ASSUME NEW acc \in Calendars, NEW k \in 1..n PROVE PlaceStep(acc, items[k], s) \in Calendars
  <2>1. items[k] \in Items /\ items[k][1] \in Int
    BY <1>1 DEF Items
  <2> DEFINE b == Entry(items[k][1], "scheduled", s, items[k])
  <2>2. b \in Bookings /\ b.at = items[k][1]
    BY <2>1, EntryTyped
  <2>3. PlaceStep(acc, items[k], s) = IF Problems(acc, items[k][1], FALSE) = {}
                                      THEN Add(acc, b) ELSE acc
    BY DEF PlaceStep
  <2>4. Problems(acc, items[k][1], FALSE) = {} => Nearest(acc, items[k][1]) = {}
    BY DEF Problems
  <2> HIDE DEF b
  <2>5. Problems(acc, items[k][1], FALSE) = {} => Add(acc, b) \in Calendars
    BY <2>2, <2>4, AddKeeps
  <2> QED  BY <2>3, <2>5
<1>8. PICK g \in [0..n -> Calendars] : Placing(g, rows, items, s, n)
  <2>1. \A acc \in Calendars, i \in 1..n : PlaceStep(acc, items[i], s) \in Calendars
    BY <1>2
  <2> QED  BY <1>1, <2>1, PlaceRuns
<1>3. /\ g[0] = rows /\ g[n] = Place(rows, items, s)
      /\ \A k \in 1..n : g[k] = PlaceStep(g[k - 1], items[k], s)
  BY <1>8 DEF Placing
<1> DEFINE T == {k \in Nat : k <= n => Grown(g[k], rows, items, s, k)}
<1>4. 0 \in T
  BY <1>3 DEF Grown
<1>5. ASSUME NEW k \in Nat, k \in T, k + 1 <= n PROVE Grown(g[k + 1], rows, items, s, k + 1)
  <2>1. k + 1 \in 1..n /\ (k + 1) - 1 = k /\ k < k + 1 /\ k + 1 \in DOMAIN items /\ k + 1 \in Int
    BY <1>1, <1>5
  <2>2. Grown(g[k], rows, items, s, k)
    BY <1>1, <1>5, <2>1
  <2>3. g[k + 1] = PlaceStep(g[k], items[k + 1], s)
    BY <1>3, <2>1
  <2>4. CASE Problems(g[k], items[k + 1][1], FALSE) = {}
    <3>1. g[k + 1] = Add(g[k], Entry(items[k + 1][1], "scheduled", s, items[k + 1]))
      BY <2>3, <2>4 DEF PlaceStep
    <3> QED  BY <2>1, <2>2, <2>4, <3>1, GrowsBy
  <2>5. CASE Problems(g[k], items[k + 1][1], FALSE) # {}
    <3>1. g[k + 1] = g[k]
      BY <2>3, <2>5 DEF PlaceStep
    <3> QED  BY <2>1, <2>2, <3>1, GrownMore
  <2> QED  BY <2>4, <2>5
<1>6. n \in T
  <2>1. \A k \in Nat : k \in T => k + 1 \in T
    BY <1>5
  <2> HIDE DEF T
  <2> QED  BY <1>1, <1>4, <2>1, AllOf
<1>7. Grown(g[n], rows, items, s, n)
  BY <1>1, <1>6
<1> QED  BY <1>3, <1>7 DEF n

\* A batch that has come to the item before next.
Batches(rows, items, s) ==
    {acc \in [next : 1..(Len(items) + 1), rows : Calendars] :
        Grown(acc.rows, rows, items, s, acc.next - 1)}

LEMMA BulkStepGrows ==
    ASSUME now \in Nat, NEW rows, NEW items \in Seq(Items), NEW s \in Series,
           Fresh(rows, items, s), NEW acc \in Batches(rows, items, s), NEW bad
    PROVE  BulkStep(items, acc, bad, s) \in Batches(rows, items, s)
<1> DEFINE usable == {k \in acc.next..Len(items) :
                        Problems(acc.rows, items[k][1], bad) \intersect {"past", "spacing"} = {}}
<1>1. /\ Len(items) \in Nat /\ DOMAIN items = 1..Len(items)
      /\ \A k \in DOMAIN items : items[k] \in Items
  BY ItemsAt
<1>2. /\ acc.next \in 1..(Len(items) + 1) /\ acc.rows \in Calendars
      /\ Grown(acc.rows, rows, items, s, acc.next - 1)
      /\ acc = [next |-> acc.next, rows |-> acc.rows]
  BY DEF Batches
<1>3. CASE usable = {}
  <2>1. BulkStep(items, acc, bad, s) = [next |-> Len(items) + 1, rows |-> acc.rows]
    BY <1>2, <1>3 DEF BulkStep
  <2>2. acc.next - 1 \in Int /\ Len(items) \in Int /\ acc.next - 1 <= Len(items)
        /\ (Len(items) + 1) - 1 = Len(items) /\ Len(items) + 1 \in 1..(Len(items) + 1)
    BY <1>1, <1>2
  <2>3. Grown(acc.rows, rows, items, s, Len(items))
    BY <1>2, <2>2, GrownMore
  <2> QED  BY <1>2, <2>1, <2>2, <2>3 DEF Batches
<1>4. CASE usable # {}
  <2> DEFINE k == CHOOSE k \in usable : \A j \in usable : k <= j
             new == IF Problems(acc.rows, items[k][1], bad) = {}
                    THEN Add(acc.rows, Entry(items[k][1], "scheduled", s, items[k]))
                    ELSE acc.rows
  <2>1. usable \subseteq Nat
    BY <1>1, <1>2
  <2>2. BulkStep(items, acc, bad, s) = [next |-> k + 1, rows |-> new]
    BY <1>4 DEF BulkStep
  <2>3. k \in usable
    <3>1. \E m \in usable : \A j \in usable : m <= j
      <4> HIDE DEF usable
      <4> QED  BY <1>4, <2>1, LeastOf
    <3> HIDE DEF usable
    <3> QED  BY <3>1
  <2> HIDE DEF k
  <2>4. /\ k \in DOMAIN items /\ k \in Int /\ acc.next - 1 \in Nat /\ acc.next - 1 < k
        /\ acc.next - 1 \in Int /\ acc.next - 1 <= k
        /\ k + 1 \in 1..(Len(items) + 1) /\ (k + 1) - 1 = k
    BY <1>1, <1>2, <2>3
  <2>5. Grown(new, rows, items, s, k)
    <3>1. CASE Problems(acc.rows, items[k][1], bad) = {}
      BY <1>2, <2>4, <3>1, GrowsBy
    <3>2. CASE Problems(acc.rows, items[k][1], bad) # {}
      BY <1>2, <2>4, <3>2, GrownMore
    <3> QED  BY <3>1, <3>2
  <2> HIDE DEF new
  <2>6. new \in Calendars
    BY <2>5 DEF Grown
  <2> QED  BY <2>2, <2>4, <2>5, <2>6 DEF Batches
<1> QED  BY <1>3, <1>4

LEMMA BulkGrows ==
    ASSUME now \in Nat, NEW rows \in Calendars, Distinct(rows), NEW items \in Seq(Items),
           NEW s \in Series, Fresh(rows, items, s),
           NEW specs \in {<<FALSE, FALSE>>, <<FALSE, TRUE, FALSE>>}
    PROVE  Grown(PlaceBulk(rows, items, s, specs).rows, rows, items, s, Len(items))
<1>1. \E n \in Nat : DOMAIN specs = 1..n
  <2>1. CASE specs = <<FALSE, FALSE>>
    <3>1. DOMAIN specs = 1..2
      BY <2>1
    <3> QED  BY <3>1
  <2>2. CASE specs = <<FALSE, TRUE, FALSE>>
    <3>1. DOMAIN specs = 1..3
      BY <2>2
    <3> QED  BY <3>1
  <2> QED  BY <2>1, <2>2
<1>2. PICK n \in Nat : DOMAIN specs = 1..n
  BY <1>1
<1>3. Len(items) \in Nat
  BY ItemsAt
<1>4. [next |-> 1, rows |-> rows] \in Batches(rows, items, s)
  <2>1. 1 \in 1..(Len(items) + 1) /\ Grown(rows, rows, items, s, 1 - 1)
    BY <1>3 DEF Grown
  <2> QED  BY <2>1 DEF Batches
<1>5. \A acc \in Batches(rows, items, s), i \in 1..n :
          BulkStep(items, acc, specs[i], s) \in Batches(rows, items, s)
  BY BulkStepGrows
<1>6. PlaceBulk(rows, items, s, specs) \in Batches(rows, items, s)
  BY <1>2, <1>4, <1>5, BulkIn
<1>7. PICK m \in 1..(Len(items) + 1) :
          Grown(PlaceBulk(rows, items, s, specs).rows, rows, items, s, m - 1)
  BY <1>6 DEF Batches
<1>8. m - 1 \in Int /\ Len(items) \in Int /\ m - 1 <= Len(items)
  BY <1>3
<1> QED  BY <1>7, <1>8, GrownMore

-----------------------------------------------------------------------------
(* The invariant.                                                          *)

Layouts == [rule : Rules, from : {t \in Nat : t >= DayLen}, until : Horizons, refused : SUBSET Items]

CalendarTypeOK ==
    /\ book \in Seq(Bookings)
    /\ series \in [Series -> Layouts \union {NoRule}]
    /\ now \in Nat /\ now >= DayLen
    /\ calls \in 0..MaxCalls

\* The posts are kept in the order of their moments, which the search for a
\* neighbour by bisection relies on, and those of a series are what it asks for.
CalendarInvariant ==
    /\ CalendarTypeOK
    /\ Sorted(book) /\ Apart(book)
    /\ Held(book, series)
    /\ \A s \in Series : series[s] # NoRule => series[s].from <= now

LEMMA CalendarHeld == CalendarInvariant => book \in Calendars
BY DEF CalendarInvariant, CalendarTypeOK, Calendars

LEMMA LayoutsAre ==
    ASSUME NEW lay \in Layouts
    PROVE  /\ lay # NoRule /\ lay.rule \in Rules /\ lay.from \in Nat /\ lay.from >= DayLen
           /\ lay.until \in Horizons /\ lay.until \in Nat /\ lay.refused \subseteq Items
<1>1. lay.rule \in Rules /\ lay.from \in Nat /\ lay.from >= DayLen
      /\ lay.until \in Horizons /\ lay.refused \subseteq Items
  BY DEF Layouts
<1>2. lay.until \in Nat
  BY <1>1, TimeAssumption
<1>3. lay \in [rule : Rules, from : Nat, until : Nat, refused : SUBSET (Int \X Int \X Int)]
  BY <1>1, <1>2 DEF Layouts, Items
<1> QED  BY <1>1, <1>2, <1>3, TimeAssumption

LEMMA CalendarStarts == CalendarInit => CalendarInvariant
<1> SUFFICES ASSUME CalendarInit PROVE CalendarInvariant
  OBVIOUS
<1>1. CalendarTypeOK
  BY TimeAssumption DEF CalendarInit, CalendarTypeOK
<1>2. book = << >> /\ DOMAIN book = {}
  BY DEF CalendarInit
<1>3. Sorted(book) /\ Apart(book)
  BY <1>2 DEF Sorted, Apart
<1>4. \A s \in Series : series[s] = NoRule
  BY DEF CalendarInit
<1>5. Held(book, series)
  BY <1>2, <1>4 DEF Held, Distinct
<1> QED  BY <1>1, <1>3, <1>4, <1>5 DEF CalendarInvariant

\* What a call leaves to be shown when the rules stay.
LEMMA CalendarRests ==
    ASSUME CalendarInvariant, book' \in Calendars, Held(book', series),
           series' = series, now' \in Nat, now' >= now, calls' \in 0..MaxCalls
    PROVE  CalendarInvariant'
<1>1. CalendarTypeOK'
  BY TimeAssumption DEF CalendarInvariant, CalendarTypeOK, Calendars
<1>2. \A s \in Series : series'[s] # NoRule => series'[s].from <= now'
  <2> TAKE s \in Series
  <2>1. CASE series[s] # NoRule
    <3>1. series[s] \in Layouts /\ now \in Nat /\ series[s].from <= now
      BY <2>1 DEF CalendarInvariant, CalendarTypeOK
    <3>2. series[s].from \in Nat
      BY <3>1, LayoutsAre
    <3> QED  BY <3>1, <3>2
  <2> QED  BY <2>1
<1>3. Held(book, series)'
  BY DEF Held, Distinct, Fit, Whole, Moved, Has
<1>4. Sorted(book)' /\ Apart(book)'
  BY DEF Calendars, Sorted, Apart
<1> QED  BY <1>1, <1>2, <1>3, <1>4 DEF CalendarInvariant

LEMMA Called ==
    ASSUME CalendarTypeOK, Call
    PROVE  calls' \in 0..MaxCalls
BY TimeAssumption DEF CalendarTypeOK, Call

\* A post of the calendar changes state, and does not come back to life.
LEMMA StateKeeps ==
    ASSUME NEW lays, NEW rows \in Calendars, Held(rows, lays),
           NEW p \in DOMAIN rows, ~Settled(rows[p]), NEW state \in States
    PROVE  /\ [rows EXCEPT ![p].state = state] \in Calendars
           /\ Held([rows EXCEPT ![p].state = state], lays)
<1> DEFINE r == [rows EXCEPT ![p].state = state]
<1>1. rows \in Seq(Bookings)
  BY DEF Calendars
<1>2. \A i \in DOMAIN rows : rows[i] \in Bookings
  BY <1>1, RowsAt
<1>3. /\ DOMAIN r = DOMAIN rows /\ r = [i \in DOMAIN rows |-> r[i]]
      /\ r[p] = [rows[p] EXCEPT !.state = state]
      /\ \A i \in DOMAIN rows : i # p => r[i] = rows[i]
  BY <1>1, RowsAt
<1>4. /\ [rows[p] EXCEPT !.state = state] \in Bookings
      /\ [rows[p] EXCEPT !.state = state].at = rows[p].at
      /\ [rows[p] EXCEPT !.state = state].moved = rows[p].moved
      /\ [rows[p] EXCEPT !.state = state].series = rows[p].series
      /\ [rows[p] EXCEPT !.state = state].item = rows[p].item
  BY <1>2 DEF Bookings
<1> HIDE DEF r
<1>5. r \in [DOMAIN rows -> Bookings]
  BY <1>2, <1>3, <1>4
<1>6. \A i \in DOMAIN rows :
          /\ r[i].at = rows[i].at /\ r[i].moved = rows[i].moved
          /\ r[i].series = rows[i].series /\ r[i].item = rows[i].item
          /\ Settled(rows[i]) => Settled(r[i])
  BY <1>3, <1>4
<1>7. r \in Calendars
  BY <1>5, <1>6, SettleKeeps
<1>8. Held(r, lays)
  BY <1>3, <1>6, StatesHeld
<1> QED  BY <1>7, <1>8 DEF r

\* An extension of a series begins after its last post, if it has one.
Begin(s) ==
    IF RowsOf(s) = {} THEN now
    ELSE 1 + CHOOSE t \in {book[i].at : i \in RowsOf(s)} : \A i \in RowsOf(s) : book[i].at <= t

LEMMA BeginIs ==
    ASSUME CalendarInvariant, NEW s \in Series
    PROVE  /\ Begin(s) \in Nat /\ Begin(s) >= DayLen
           /\ \A i \in DOMAIN book : book[i].series = s => book[i].at < Begin(s)
           /\ IF RowsOf(s) = {} THEN Begin(s) = now
              ELSE \E i \in DOMAIN book : book[i].series = s /\ Begin(s) = 1 + book[i].at
<1>1. book \in Seq(Bookings) /\ Sorted(book) /\ now \in Nat /\ now >= DayLen
      /\ \A i \in DOMAIN book : Fit(book[i], series)
  BY DEF CalendarInvariant, CalendarTypeOK, Held
<1>2. /\ Len(book) \in Nat /\ DOMAIN book = 1..Len(book)
      /\ \A i \in DOMAIN book : book[i].at \in Int /\ book[i].at >= DayLen
  BY <1>1, RowsAt DEF Fit
<1>3. RowsOf(s) \in SUBSET (1..Len(book))
  BY <1>2 DEF RowsOf
<1>4. CASE RowsOf(s) = {}
  BY <1>1, <1>4 DEF Begin, RowsOf
<1>5. CASE RowsOf(s) # {}
  <2> DEFINE m == Max(RowsOf(s))
             T == {book[i].at : i \in RowsOf(s)}
             last == CHOOSE t \in T : \A i \in RowsOf(s) : book[i].at <= t
  <2>1. m \in RowsOf(s) /\ \A i \in RowsOf(s) : i <= m
    BY <1>2, <1>3, <1>5, MaxOf
  <2> HIDE DEF m
  <2>2. ASSUME NEW i \in RowsOf(s) PROVE book[i].at <= book[m].at
    <3>1. i <= m /\ i \in DOMAIN book /\ m \in DOMAIN book /\ i \in Int /\ m \in Int
      BY <1>2, <1>3, <2>1
    <3>2. i < m \/ i = m
      BY <3>1
    <3>3. i < m => book[i].at <= book[m].at
      BY <1>1, <3>1 DEF Sorted
    <3>4. book[m].at \in Int
      BY <1>2, <3>1
    <3> QED  BY <3>2, <3>3, <3>4
  <2>3. \E t \in T : \A i \in RowsOf(s) : book[i].at <= t
    BY <2>1, <2>2
  <2>4. last \in T /\ \A i \in RowsOf(s) : book[i].at <= last
    <3> HIDE DEF T
    <3> QED  BY <2>3
  <2> HIDE DEF last
  <2>5. PICK e \in RowsOf(s) : last = book[e].at
    BY <2>4
  <2>6. e \in DOMAIN book /\ book[e].series = s
    BY <2>5 DEF RowsOf
  <2>7. last \in Int /\ last >= DayLen /\ DayLen \in Nat
    BY <1>2, <2>5, <2>6, TimeAssumption
  <2>8. Begin(s) = 1 + last
    BY <1>5 DEF Begin, last
  <2>9. \A i \in DOMAIN book : book[i].series = s => book[i].at <= last
    BY <2>4 DEF RowsOf
  <2> QED  BY <1>2, <1>5, <2>5, <2>6, <2>7, <2>8, <2>9
<1> QED  BY <1>4, <1>5

\* What is asked of occurrences when a series is laid out.
LEMMA ItemsAre ==
    ASSUME NEW rule \in Rules, NEW start \in Nat, start >= DayLen, NEW end \in Horizons
    PROVE  LET items == Occurrences(rule, start, end) IN
           /\ items \in Seq(Items) /\ OnceEach(items)
           /\ \A m \in DOMAIN items :
                  /\ start <= items[m][1] /\ items[m][1] <= end
                  /\ Anchored(rule) => items[m] \in Asked(rule)
           /\ Anchored(rule) =>
                  \A item \in Asked(rule) :
                      start <= item[1] /\ item[1] <= end => item \in ToSet(items)
<1> DEFINE items == Occurrences(rule, start, end)
           F == Fires(rule, start, end)
<1>1. end \in Int /\ start \in Int
  BY TimeAssumption
<1>2. /\ items \in Seq(Items) /\ ToSet(items) \subseteq F
      /\ \A j, k \in DOMAIN items : items[j] = items[k] => j = k
      /\ rule.max = 0 => ToSet(items) = F
  BY <1>1, OccurrencesAre
<1> HIDE DEF items
<1>3. \A item \in F : start <= item[1] /\ item[1] <= end
  BY DEF Fires
<1>4. Anchored(rule) => rule.max = 0
                        /\ F = {item \in Asked(rule) : start <= item[1] /\ item[1] <= end}
  BY FiresAre DEF Anchored, Counted
<1> HIDE DEF F
<1>5. \A m \in DOMAIN items : items[m] \in F
  BY <1>2 DEF ToSet
<1>6. /\ items \in Seq(Items) /\ OnceEach(items)
      /\ \A m \in DOMAIN items :
             /\ start <= items[m][1] /\ items[m][1] <= end
             /\ Anchored(rule) => items[m] \in Asked(rule)
      /\ Anchored(rule) =>
             \A item \in Asked(rule) :
                 start <= item[1] /\ item[1] <= end => item \in ToSet(items)
  BY <1>2, <1>3, <1>4, <1>5 DEF OnceEach
<1> QED  BY <1>6 DEF items

\* A series is laid out, or further than it was.
LEMMA SeriesHeld ==
    ASSUME CalendarInvariant, NEW s \in Series, NEW items \in Seq(Items), NEW r,
           Grown(r, book, items, s, Len(items)), NEW kept \in Layouts, kept.from <= now,
           \A i \in DOMAIN book :
               book[i].series = s => /\ kept.rule = series[s].rule /\ kept.from = series[s].from
                                     /\ series[s].until <= kept.until,
           \A m \in DOMAIN items :
               items[m][1] <= kept.until /\ (Anchored(kept.rule) => items[m] \in Asked(kept.rule)),
           Moved(book, s) \/ Whole(r, s, kept)
    PROVE  r \in Calendars /\ Held(r, [series EXCEPT ![s] = kept])
<1> DEFINE lays == [series EXCEPT ![s] = kept]
<1>1. /\ book \in Seq(Bookings) /\ series \in [Series -> Layouts \union {NoRule}]
      /\ now \in Nat /\ now >= DayLen /\ Held(book, series)
  BY DEF CalendarInvariant, CalendarTypeOK
<1>2. /\ Len(items) \in Nat /\ DOMAIN items = 1..Len(items)
      /\ \A m \in DOMAIN items : items[m] \in Items /\ items[m][1] \in Int
  BY ItemsAt
<1>3. /\ kept # NoRule /\ kept.from \in Nat /\ kept.until \in Nat /\ DayLen \in Nat
      /\ NoRule \notin Series
  BY LayoutsAre, TimeAssumption
<1>4. lays[s] = kept /\ \A z \in Series : z # s => lays[z] = series[z]
  BY <1>1
<1> HIDE DEF lays
<1>5. r \in Calendars /\ Distinct(r)
  BY DEF Grown
<1>6. /\ \A i \in DOMAIN book : \E j \in DOMAIN r : r[j] = book[i]
      /\ \A j \in DOMAIN r :
             \/ \E i \in DOMAIN book : r[j] = book[i]
             \/ \E m \in DOMAIN items :
                    now < items[m][1] /\ r[j] = Entry(items[m][1], "scheduled", s, items[m])
  BY <1>2 DEF Grown
<1>7. ASSUME NEW i \in DOMAIN book PROVE Fit(book[i], lays)
  <2>1. Fit(book[i], series) /\ book[i] \in Bookings
    BY <1>1, RowsAt DEF Held
  <2>2. book[i].series \in Series \union {NoRule}
    BY <2>1 DEF Bookings
  <2>3. CASE book[i].series = s
    <3>1. /\ series[s] # NoRule /\ book[i].item \in Items
          /\ series[s].from < book[i].item[1] /\ book[i].item[1] <= series[s].until
          /\ ~book[i].moved => book[i].at = book[i].item[1]
          /\ Anchored(series[s].rule) => book[i].item \in Asked(series[s].rule)
          /\ book[i].at >= DayLen
      BY <1>3, <2>1, <2>3 DEF Fit
    <3>2. series[s].until \in Nat /\ book[i].item[1] \in Int
      BY <1>1, <3>1, LayoutsAre DEF Items
    <3>3. kept.from < book[i].item[1] /\ book[i].item[1] <= kept.until
          /\ kept.rule = series[s].rule
      BY <1>3, <2>3, <3>1, <3>2
    <3> QED  BY <1>3, <1>4, <2>3, <3>1, <3>3 DEF Fit
  <2>4. CASE book[i].series # s
    BY <1>4, <2>1, <2>2, <2>4 DEF Fit
  <2> QED  BY <2>3, <2>4
<1>8. ASSUME NEW m \in DOMAIN items, now < items[m][1]
      PROVE  Fit(Entry(items[m][1], "scheduled", s, items[m]), lays)
  <2>1. items[m] \in Items /\ items[m][1] \in Int
    BY <1>2
  <2>2. items[m][1] >= DayLen /\ kept.from < items[m][1]
    BY <1>1, <1>3, <1>8, <2>1
  <2> DEFINE b == Entry(items[m][1], "scheduled", s, items[m])
  <2>3. b.at = items[m][1] /\ b.series = s /\ b.item = items[m]
    BY DEF Entry
  <2> HIDE DEF b
  <2>4. Fit(b, lays)
    BY <1>3, <1>4, <2>1, <2>2, <2>3 DEF Fit
  <2> QED  BY <2>4 DEF b
<1>9. \A j \in DOMAIN r : Fit(r[j], lays)
  BY <1>6, <1>7, <1>8
<1>10. /\ \A z : Moved(book, z) => Moved(r, z)
       /\ \A z, item : Has(book, z, item) => Has(r, z, item)
  BY <1>6 DEF Moved, Has
<1>11. ASSUME NEW z \in Series, lays[z] # NoRule PROVE Whole(r, z, lays[z])
  <2>1. CASE z = s
    BY <1>4, <1>10, <2>1 DEF Whole
  <2>2. CASE z # s
    <3>1. Whole(book, z, lays[z])
      BY <1>1, <1>4, <1>11, <2>2 DEF Held
    <3> QED  BY <1>10, <3>1 DEF Whole
  <2> QED  BY <2>1, <2>2
<1>12. Held(r, lays)
  BY <1>5, <1>9, <1>11 DEF Held
<1> QED  BY <1>5, <1>12 DEF lays

\* What a call leaves to be shown when a series changes.
LEMMA CalendarTurns ==
    ASSUME CalendarInvariant, NEW s \in Series, NEW kept \in Layouts, kept.from <= now,
           book' \in Calendars, Held(book', [series EXCEPT ![s] = kept]),
           series' = [series EXCEPT ![s] = kept], now' = now, calls' \in 0..MaxCalls
    PROVE  CalendarInvariant'
<1>1. series \in [Series -> Layouts \union {NoRule}]
  BY DEF CalendarInvariant, CalendarTypeOK
<1>2. series' \in [Series -> Layouts \union {NoRule}]
  BY <1>1
<1>3. CalendarTypeOK'
  BY <1>2 DEF CalendarInvariant, CalendarTypeOK, Calendars
<1>4. \A z \in Series : series'[z] # NoRule => series'[z].from <= now'
  BY <1>1 DEF CalendarInvariant
<1>5. Held(book', series')
  OBVIOUS
<1>6. Held(book, series)'
  BY <1>5 DEF Held, Distinct, Fit, Whole, Moved, Has
<1>7. Sorted(book)' /\ Apart(book)'
  BY DEF Calendars, Sorted, Apart
<1> QED  BY <1>3, <1>4, <1>6, <1>7 DEF CalendarInvariant

\* A call that changes the rules.
LEMMA ScheduleSeriesKeeps ==
    ASSUME CalendarInvariant, NEW s \in Series, NEW end \in Horizons, NEW rule \in Rules,
           ScheduleSeries(s, rule, end)
    PROVE  CalendarInvariant'
<1> DEFINE items == Occurrences(rule, now, end)
           placed == Place(book, items, s)
           refused == Refused(placed, items, s)
           kept == [rule |-> rule, from |-> now, until |-> end, refused |-> refused]
<1>1. /\ CalendarTypeOK /\ book \in Calendars /\ Held(book, series)
      /\ now \in Nat /\ now >= DayLen
  BY CalendarHeld DEF CalendarInvariant, CalendarTypeOK
<1>2. /\ items \in Seq(Items) /\ OnceEach(items)
      /\ \A m \in DOMAIN items :
             items[m][1] <= end /\ (Anchored(rule) => items[m] \in Asked(rule))
      /\ Anchored(rule) =>
             \A item \in Asked(rule) : now <= item[1] /\ item[1] <= end => item \in ToSet(items)
  BY <1>1, ItemsAre
<1>3. /\ Call /\ series[s] = NoRule /\ now' = now
      /\ book' = placed /\ series' = [series EXCEPT ![s] = kept]
  BY DEF ScheduleSeries
<1> HIDE DEF items
<1>4. \A i \in DOMAIN book : book[i].series # s
  BY <1>1, <1>3, TimeAssumption DEF Held, Fit
<1>5. Fresh(book, items, s)
  BY <1>2, <1>4 DEF Fresh
<1>6. Grown(placed, book, items, s, Len(items))
  BY <1>1, <1>2, <1>5, PlaceGrows DEF Held
<1> HIDE DEF placed
<1>7. refused \subseteq Items
        /\ \A item \in ToSet(items) : item \in refused \/ Has(placed, s, item)
  BY <1>2, ItemsAt DEF Refused, Has
<1> HIDE DEF refused
<1>8. kept \in Layouts
  BY <1>1, <1>7 DEF Layouts
<1>9. kept.rule = rule /\ kept.from = now /\ kept.until = end /\ kept.refused = refused
  OBVIOUS
<1> HIDE DEF kept
<1>10. Whole(placed, s, kept)
  BY <1>2, <1>7, <1>9 DEF Whole
<1>11. kept.from <= now
  BY <1>1, <1>9
<1>12. placed \in Calendars /\ Held(placed, [series EXCEPT ![s] = kept])
  BY <1>2, <1>4, <1>6, <1>8, <1>9, <1>10, <1>11, SeriesHeld
<1> QED  BY <1>1, <1>3, <1>8, <1>11, <1>12, Called, CalendarTurns

LEMMA ScheduleBulkKeeps ==
    ASSUME CalendarInvariant, NEW s \in Series, NEW end \in Horizons, NEW rule \in Rules,
           NEW specs \in {<<FALSE, FALSE>>, <<FALSE, TRUE, FALSE>>},
           ScheduleBulk(s, rule, end, specs)
    PROVE  CalendarInvariant'
<1> DEFINE items == Occurrences(rule, now, end)
           placed == PlaceBulk(book, items, s, specs).rows
           kept == [rule |-> rule, from |-> now, until |-> end, refused |-> ToSet(items)]
<1>1. /\ CalendarTypeOK /\ book \in Calendars /\ Held(book, series)
      /\ now \in Nat /\ now >= DayLen
  BY CalendarHeld DEF CalendarInvariant, CalendarTypeOK
<1>2. /\ items \in Seq(Items) /\ OnceEach(items)
      /\ \A m \in DOMAIN items :
             items[m][1] <= end /\ (Anchored(rule) => items[m] \in Asked(rule))
      /\ Anchored(rule) =>
             \A item \in Asked(rule) : now <= item[1] /\ item[1] <= end => item \in ToSet(items)
  BY <1>1, ItemsAre
<1>3. /\ Call /\ series[s] = NoRule /\ now' = now
      /\ book' = placed /\ series' = [series EXCEPT ![s] = kept]
  BY DEF ScheduleBulk
<1> HIDE DEF items
<1>4. \A i \in DOMAIN book : book[i].series # s
  BY <1>1, <1>3, TimeAssumption DEF Held, Fit
<1>5. Fresh(book, items, s)
  BY <1>2, <1>4 DEF Fresh
<1>6. Grown(placed, book, items, s, Len(items))
  BY <1>1, <1>2, <1>5, BulkGrows DEF Held
<1> HIDE DEF placed
<1>7. ToSet(items) \subseteq Items
  BY <1>2, ItemsAt
<1>8. kept \in Layouts
  BY <1>1, <1>7 DEF Layouts
<1>9. kept.rule = rule /\ kept.from = now /\ kept.until = end /\ kept.refused = ToSet(items)
  OBVIOUS
<1> HIDE DEF kept
<1>10. Whole(placed, s, kept)
  BY <1>2, <1>9 DEF Whole
<1>11. kept.from <= now
  BY <1>1, <1>9
<1>12. placed \in Calendars /\ Held(placed, [series EXCEPT ![s] = kept])
  BY <1>2, <1>4, <1>6, <1>8, <1>9, <1>10, <1>11, SeriesHeld
<1> QED  BY <1>1, <1>3, <1>8, <1>11, <1>12, Called, CalendarTurns

LEMMA Relaid ==
    ASSUME NEW lay \in Layouts, NEW f, NEW u, NEW r
    PROVE  [lay EXCEPT !.from = f, !.until = u, !.refused = r]
             = [rule |-> lay.rule, from |-> f, until |-> u, refused |-> r]
<1> DEFINE new == [lay EXCEPT !.from = f, !.until = u, !.refused = r]
<1>1. new \in [rule : {lay.rule}, from : {f}, until : {u}, refused : {r}]
  BY DEF Layouts
<1> HIDE DEF new
<1>2. new = [rule |-> lay.rule, from |-> f, until |-> u, refused |-> r]
  BY <1>1
<1> QED  BY <1>2 DEF new

LEMMA ExtendSeriesKeeps ==
    ASSUME CalendarInvariant, NEW s \in Series, NEW until \in Horizons, ExtendSeries(s, until)
    PROVE  CalendarInvariant'
<1> DEFINE rule == series[s].rule
           items == Occurrences(rule, Begin(s), until)
           placed == Place(book, items, s)
           from == IF RowsOf(s) = {} THEN now ELSE series[s].from
           end == IF until > series[s].until THEN until ELSE series[s].until
           refused == series[s].refused \union Refused(placed, items, s)
           kept == [rule |-> rule, from |-> from, until |-> end, refused |-> refused]
<1>1. /\ CalendarTypeOK /\ book \in Calendars /\ Held(book, series)
      /\ series \in [Series -> Layouts \union {NoRule}] /\ now \in Nat /\ now >= DayLen
  BY CalendarHeld DEF CalendarInvariant, CalendarTypeOK
<1>2. Call /\ series[s] # NoRule /\ now' = now /\ book' = placed
  BY DEF ExtendSeries, Begin
<1>3. series[s] \in Layouts
  BY <1>1, <1>2
<1>4. series' = [series EXCEPT ![s].from = from, ![s].until = end, ![s].refused = refused]
  BY DEF ExtendSeries, Begin
<1>5. /\ series[s].rule \in Rules /\ series[s].from \in Nat /\ series[s].from >= DayLen
      /\ series[s].until \in Horizons /\ series[s].until \in Nat
      /\ series[s].refused \subseteq Items /\ series[s].from <= now
      /\ until \in Nat
  BY <1>2, <1>3, LayoutsAre, TimeAssumption DEF CalendarInvariant
<1>6. /\ Begin(s) \in Nat /\ Begin(s) >= DayLen
      /\ \A i \in DOMAIN book : book[i].series = s => book[i].at < Begin(s)
      /\ IF RowsOf(s) = {} THEN Begin(s) = now
         ELSE \E i \in DOMAIN book : book[i].series = s /\ Begin(s) = 1 + book[i].at
  BY BeginIs
<1>7. /\ items \in Seq(Items) /\ OnceEach(items)
      /\ \A m \in DOMAIN items :
             /\ Begin(s) <= items[m][1] /\ items[m][1] <= until
             /\ Anchored(rule) => items[m] \in Asked(rule)
      /\ Anchored(rule) =>
             \A item \in Asked(rule) :
                 Begin(s) <= item[1] /\ item[1] <= until => item \in ToSet(items)
  BY <1>5, <1>6, ItemsAre
<1>8. series' = [series EXCEPT ![s] = kept]
  <2> HIDE DEF from, end, refused
  <2> DEFINE lay == [series[s] EXCEPT !.from = from, !.until = end, !.refused = refused]
  <2>1. lay = kept
    BY <1>3, Relaid
  <2>2. series' = [series EXCEPT ![s] = lay]
    BY <1>1, <1>4
  <2> HIDE DEF lay, kept
  <2> QED  BY <2>1, <2>2
<1> HIDE DEF items
<1>9. ASSUME NEW i \in DOMAIN book, book[i].series = s
      PROVE  /\ series[s].from < book[i].item[1] /\ book[i].item[1] <= series[s].until
             /\ ~book[i].moved => book[i].at = book[i].item[1]
             /\ book[i].item \in Items /\ book[i].item[1] \in Int
  <2>1. Fit(book[i], series)
    BY <1>1 DEF Held
  <2> QED  BY <1>9, <2>1, TimeAssumption DEF Fit, Items
<1>10. Fresh(book, items, s)
  <2>1. ASSUME NEW i \in DOMAIN book, book[i].series = s, ~book[i].moved, NEW m \in DOMAIN items
        PROVE  book[i].item # items[m]
    <3>1. book[i].item[1] < Begin(s) /\ Begin(s) <= items[m][1] /\ items[m][1] \in Int
      BY <1>6, <1>7, <1>9, <2>1, ItemsAt
    <3> QED  BY <1>6, <1>9, <2>1, <3>1
  <2> QED  BY <1>7, <2>1 DEF Fresh
<1>11. Grown(placed, book, items, s, Len(items))
  BY <1>1, <1>7, <1>10, PlaceGrows DEF Held
<1> HIDE DEF placed
<1>12. /\ refused \subseteq Items /\ series[s].refused \subseteq refused
       /\ \A item \in ToSet(items) : item \in refused \/ Has(placed, s, item)
  BY <1>5, <1>7, ItemsAt DEF Refused, Has
<1> HIDE DEF refused
<1>13. /\ from \in Nat /\ from >= DayLen /\ from <= now /\ end \in Horizons
       /\ until <= end /\ series[s].until <= end
       /\ (RowsOf(s) # {} => from = series[s].from) /\ (RowsOf(s) = {} => from = now)
       /\ (until = end \/ series[s].until = end)
  BY <1>1, <1>5
<1> HIDE DEF from, end
<1>14. kept \in Layouts
  BY <1>5, <1>12, <1>13 DEF Layouts
<1>15. kept.rule = series[s].rule /\ kept.from = from /\ kept.until = end /\ kept.refused = refused
  OBVIOUS
<1> HIDE DEF kept
<1>16. ASSUME ~Moved(book, s), Anchored(kept.rule), NEW item \in Asked(kept.rule),
              kept.from <= item[1], item[1] <= kept.until
       PROVE  item \in kept.refused \/ Has(placed, s, item)
  <2>1. item[1] \in Int /\ item \in Asked(rule) /\ Anchored(rule)
    BY <1>15, <1>16 DEF Asked, Items
  <2>2. \A x : Has(book, s, x) => Has(placed, s, x)
    BY <1>11 DEF Grown, Has
  <2>3. series[s].from <= item[1] /\ item[1] <= series[s].until
          => item \in series[s].refused \/ Has(book, s, item)
    BY <1>1, <1>2, <1>16, <2>1 DEF Held, Whole
  <2>4. Begin(s) <= item[1] /\ item[1] <= until => item \in ToSet(items)
    BY <1>7, <2>1
  <2>5. CASE RowsOf(s) = {}
    <3>1. Begin(s) = now /\ now <= item[1] /\ series[s].from <= item[1]
      BY <1>1, <1>5, <1>6, <1>13, <1>15, <1>16, <2>1, <2>5
    <3>2. item[1] <= until \/ item[1] <= series[s].until
      BY <1>13, <1>15, <1>16
    <3> QED  BY <1>12, <1>15, <2>2, <2>3, <2>4, <3>1, <3>2
  <2>6. CASE RowsOf(s) # {}
    <3>1. series[s].from <= item[1]
      BY <1>13, <1>15, <1>16, <2>6
    <3>2. CASE item[1] <= series[s].until
      BY <1>12, <1>15, <2>2, <2>3, <3>1, <3>2
    <3>3. CASE ~(item[1] <= series[s].until)
      <4>1. item[1] <= until
        BY <1>13, <1>15, <1>16, <3>3
      <4>2. PICK i \in DOMAIN book : book[i].series = s /\ Begin(s) = 1 + book[i].at
        BY <1>6, <2>6
      <4>3. book[i].at = book[i].item[1]
        BY <1>9, <1>16, <4>2 DEF Moved
      <4>4. book[i].item[1] <= series[s].until /\ book[i].item[1] \in Int
        BY <1>9, <4>2
      <4>5. Begin(s) <= item[1]
        BY <1>5, <2>1, <3>3, <4>2, <4>3, <4>4
      <4> QED  BY <1>12, <1>15, <2>4, <4>1, <4>5
    <3> QED  BY <3>2, <3>3
  <2> QED  BY <2>5, <2>6
<1>17. Moved(book, s) \/ Whole(placed, s, kept)
  BY <1>16 DEF Whole
<1>18. \A i \in DOMAIN book :
           book[i].series = s => /\ kept.rule = series[s].rule /\ kept.from = series[s].from
                                 /\ series[s].until <= kept.until
  BY <1>13, <1>15 DEF RowsOf
<1>19. \A m \in DOMAIN items :
           items[m][1] <= kept.until /\ (Anchored(kept.rule) => items[m] \in Asked(kept.rule))
  <2> TAKE m \in DOMAIN items
  <2>1. items[m][1] \in Int /\ end \in Int
    BY <1>7, <1>13, ItemsAt, TimeAssumption
  <2> QED  BY <1>5, <1>7, <1>13, <1>15, <2>1
<1>20. kept.from <= now
  BY <1>13, <1>15
<1>21. placed \in Calendars /\ Held(placed, [series EXCEPT ![s] = kept])
  BY <1>7, <1>11, <1>14, <1>17, <1>18, <1>19, <1>20, SeriesHeld
<1> QED  BY <1>1, <1>2, <1>8, <1>14, <1>20, <1>21, Called, CalendarTurns

LEMMA CalendarKept == CalendarInvariant /\ [CalendarNext]_calendarVars => CalendarInvariant'
<1> SUFFICES ASSUME CalendarInvariant, [CalendarNext]_calendarVars
             PROVE  CalendarInvariant'
  OBVIOUS
<1>1. CalendarTypeOK /\ book \in Calendars /\ Held(book, series)
  BY CalendarHeld DEF CalendarInvariant
<1>2. /\ now \in Nat /\ now >= DayLen /\ now >= now /\ DayLen \in Nat /\ calls \in 0..MaxCalls
      /\ book \in Seq(Bookings) /\ DOMAIN book = 1..Len(book)
      /\ \A i \in DOMAIN book : book[i] \in Bookings /\ book[i].at \in Int
  BY <1>1, RowsAt, TimeAssumption DEF CalendarTypeOK
<1>3. ASSUME NEW t \in Moments, Schedule(t) PROVE CalendarInvariant'
  <2>1. t \in Int /\ t >= DayLen
    BY TimeAssumption
  <2> DEFINE b == Entry(t, "scheduled", NoRule, NoItem)
  <2>2. b \in Bookings /\ b.at = t /\ b.series = NoRule
    BY <2>1, EntryTyped DEF Entry
  <2>3. Nearest(book, t) = {}
    BY <1>3 DEF Schedule, Problems
  <2> HIDE DEF b
  <2>4. Add(book, b) \in Calendars
    BY <1>1, <2>2, <2>3, AddKeeps
  <2>5. Held(Add(book, b), series)
    BY <1>1, <2>1, <2>2, AddHeld
  <2>6. book' = Add(book, b) /\ Call /\ series' = series /\ now' = now
    BY <1>3 DEF Schedule, b
  <2> QED  BY <1>1, <1>2, <2>4, <2>5, <2>6, Called, CalendarRests
<1>4. ASSUME BookClip PROVE CalendarInvariant'
  <2>1. PICK k \in 0..(SlotTries - 1) :
            /\ Problems(book, now + Lead + k * SlotStep, FALSE) = {}
            /\ book' = Add(book, Entry(now + Lead + k * SlotStep, "draft", NoRule, NoItem))
    BY <1>4 DEF BookClip
  <2>2. PICK t \in Int : t = now + Lead + k * SlotStep
    BY <1>2, TimeAssumption
  <2> DEFINE b == Entry(t, "draft", NoRule, NoItem)
  <2>3. b \in Bookings /\ b.at = t /\ b.series = NoRule
    BY <2>2, EntryTyped DEF Entry
  <2>4. Problems(book, t, FALSE) = {} /\ book' = Add(book, b)
    BY <2>1, <2>2
  <2>5. Nearest(book, t) = {} /\ now < t
    BY <1>2, <2>2, <2>4 DEF Problems
  <2> HIDE DEF b
  <2>6. book' \in Calendars
    BY <1>1, <2>3, <2>4, <2>5, AddKeeps
  <2>7. t >= DayLen
    BY <1>2, <2>2, <2>5
  <2>8. Held(book', series)
    BY <1>1, <2>3, <2>4, <2>7, AddHeld
  <2>9. Call /\ series' = series /\ now' = now
    BY <1>4 DEF BookClip
  <2> QED  BY <1>1, <1>2, <2>6, <2>8, <2>9, Called, CalendarRests
<1>5. ASSUME NEW s \in Series, NEW end \in Horizons, NEW rule \in Rules, ScheduleSeries(s, rule, end)
      PROVE  CalendarInvariant'
  BY <1>5, ScheduleSeriesKeeps
<1>6. ASSUME NEW s \in Series, NEW end \in Horizons, NEW rule \in Rules,
             NEW specs \in {<<FALSE, FALSE>>, <<FALSE, TRUE, FALSE>>},
             ScheduleBulk(s, rule, end, specs)
      PROVE  CalendarInvariant'
  BY <1>6, ScheduleBulkKeeps
<1>7. ASSUME NEW s \in Series, NEW until \in Horizons, ExtendSeries(s, until)
      PROVE  CalendarInvariant'
  BY <1>7, ExtendSeriesKeeps
<1>8. ASSUME NEW s \in Series, CancelSeries(s) PROVE CalendarInvariant'
  <2> DEFINE gone(i) == book[i].series = s /\ ~Settled(book[i])
             r == [i \in DOMAIN book |->
                      IF gone(i) THEN [book[i] EXCEPT !.state = "cancelled"] ELSE book[i]]
  <2>1. book' = r /\ Call /\ series' = series /\ now' = now
    BY <1>8 DEF CancelSeries
  <2>2. ASSUME NEW i \in DOMAIN book
        PROVE  /\ r[i] \in Bookings /\ r[i].at = book[i].at /\ r[i].moved = book[i].moved
               /\ r[i].series = book[i].series /\ r[i].item = book[i].item
               /\ Settled(book[i]) => Settled(r[i])
    <3>1. /\ [book[i] EXCEPT !.state = "cancelled"] \in Bookings
          /\ [book[i] EXCEPT !.state = "cancelled"].at = book[i].at
          /\ [book[i] EXCEPT !.state = "cancelled"].moved = book[i].moved
          /\ [book[i] EXCEPT !.state = "cancelled"].series = book[i].series
          /\ [book[i] EXCEPT !.state = "cancelled"].item = book[i].item
      BY <1>2 DEF Bookings, States
    <3>2. r[i] = IF gone(i) THEN [book[i] EXCEPT !.state = "cancelled"] ELSE book[i]
      OBVIOUS
    <3>3. gone(i) => ~Settled(book[i])
      OBVIOUS
    <3> HIDE DEF r, gone
    <3> QED  BY <1>2, <3>1, <3>2, <3>3
  <2>3. r \in [DOMAIN book -> Bookings] /\ DOMAIN r = DOMAIN book
    BY <2>2
  <2> HIDE DEF r
  <2>4. r \in Calendars
    BY <1>1, <2>2, <2>3, SettleKeeps
  <2>5. Held(r, series)
    BY <1>1, <2>2, <2>3, StatesHeld
  <2> QED  BY <1>1, <1>2, <2>1, <2>4, <2>5, Called, CalendarRests
<1>9. ASSUME NEW i \in DOMAIN book, Cancel(i) PROVE CalendarInvariant'
  <2>1. book' = [book EXCEPT ![i].state = "cancelled"] /\ ~Settled(book[i])
        /\ Call /\ series' = series /\ now' = now
    BY <1>9 DEF Cancel
  <2>2. book' \in Calendars /\ Held(book', series)
    BY <1>1, <2>1, StateKeeps DEF States
  <2> QED  BY <1>1, <1>2, <2>1, <2>2, Called, CalendarRests
<1>10. ASSUME NEW i \in DOMAIN book, LetGo(i) PROVE CalendarInvariant'
  <2>1. book' = [book EXCEPT ![i].state = "scheduled"] /\ ~Settled(book[i])
        /\ calls' = calls /\ series' = series /\ now' = now
    BY <1>10 DEF LetGo, Settled
  <2>2. book' \in Calendars /\ Held(book', series)
    BY <1>1, <2>1, StateKeeps DEF States
  <2> QED  BY <1>1, <1>2, <2>1, <2>2, CalendarRests
<1>11. ASSUME NEW i \in DOMAIN book, NEW state \in {"published", "failed"}, Publish(i, state)
       PROVE  CalendarInvariant'
  <2>1. book' = [book EXCEPT ![i].state = state] /\ ~Settled(book[i]) /\ state \in States
        /\ Call /\ series' = series /\ now' = now
    BY <1>11 DEF Publish, Settled, States
  <2>2. book' \in Calendars /\ Held(book', series)
    BY <1>1, <2>1, StateKeeps
  <2> QED  BY <1>1, <1>2, <2>1, <2>2, Called, CalendarRests
<1>12. ASSUME NEW i \in DOMAIN book, NEW t \in Moments, Reschedule(i, t) PROVE CalendarInvariant'
  <2> DEFINE b == [book[i] EXCEPT !.at = t, !.state = "scheduled", !.moved = TRUE]
  <2>1. book' = Add(RemoveAt(book, i), b) /\ ~Settled(book[i])
        /\ Call /\ series' = series /\ now' = now
    BY <1>12 DEF Reschedule
  <2>2. /\ b \in Bookings /\ b.moved /\ b.at >= DayLen
        /\ b.series = book[i].series /\ b.item = book[i].item
    <3>1. t \in Int /\ t >= DayLen /\ book[i] \in Bookings
      BY <1>2, TimeAssumption
    <3> QED  BY <3>1 DEF Bookings, States
  <2> HIDE DEF b
  <2>3. RemoveAt(book, i) \in Calendars
    BY <1>1, <2>1, RemoveKeeps
  <2>4. book' \in Calendars
    BY <2>1, <2>2, <2>3, AddKeeps
  <2>5. Held(book', series)
    BY <1>1, <2>1, <2>2, MoveHeld
  <2> QED  BY <1>1, <1>2, <2>1, <2>4, <2>5, Called, CalendarRests
<1>13. ASSUME NEW t \in Moments, Elapse(t) PROVE CalendarInvariant'
  <2>1. book' = book /\ series' = series /\ now' = t /\ calls' = calls /\ t \in Nat /\ t >= now
    BY <1>2, <1>13, TimeAssumption DEF Elapse
  <2> QED  BY <1>1, <1>2, <2>1, CalendarRests
<1>14. ASSUME UNCHANGED calendarVars PROVE CalendarInvariant'
  <2>1. book' = book /\ series' = series /\ now' = now /\ calls' = calls
    BY <1>14 DEF calendarVars
  <2> QED  BY <1>1, <1>2, <2>1, CalendarRests
<1>15. CASE CalendarNext
  BY <1>3, <1>4, <1>5, <1>6, <1>7, <1>8, <1>9, <1>10, <1>11, <1>12, <1>13, <1>15
     DEF CalendarNext
<1> QED  BY <1>14, <1>15

\* The calendar of an account stays in the order of its moments, whatever is
\* booked, moved, cancelled or settled, and the posts of a series stay what its
\* rule asks for.
THEOREM CalendarOrdered == CalendarSpec => []CalendarInvariant
BY CalendarStarts, CalendarKept, PTL DEF CalendarSpec

\* No two live posts booked through the spacing check are closer than the
\* floor, unless a settled post stands between them.
THEOREM Spaced == CalendarSpec => []SpacedApart
<1>1. CalendarInvariant => SpacedApart
  BY DEF CalendarInvariant, Apart, SpacedApart
<1> QED  BY <1>1, CalendarOrdered, PTL

\* However often it was extended, a series with an anchored rule holds what the
\* rule asks for over its whole range, and nothing else.
THEOREM SeriesComplete == CalendarSpec => []SeriesWhole
<1>1. CalendarInvariant => SeriesWhole
  <2> SUFFICES ASSUME CalendarInvariant, NEW s \in Series, Laid(s)
               PROVE  LET asked == Fires(series[s].rule, series[s].from, series[s].until)
                          have == {book[i].item : i \in RowsOf(s)} IN
                      /\ asked \subseteq have \union series[s].refused
                           \/ \E i \in RowsOf(s) : book[i].moved
                      /\ \A i \in RowsOf(s) :
                              book[i].item[1] >= series[s].from => book[i].item \in asked
    BY DEF SeriesWhole
  <2> DEFINE asked == Fires(series[s].rule, series[s].from, series[s].until)
             have == {book[i].item : i \in RowsOf(s)}
  <2>1. series[s] \in Layouts /\ Held(book, series) /\ Anchored(series[s].rule)
    BY DEF Laid, CalendarInvariant, CalendarTypeOK
  <2>2. series[s].rule \in Rules /\ series[s].from \in Nat /\ series[s].from >= DayLen
        /\ series[s].until \in Horizons /\ series[s] # NoRule
    BY <2>1, LayoutsAre
  <2>3. asked = {item \in Asked(series[s].rule) :
                    series[s].from <= item[1] /\ item[1] <= series[s].until}
    BY <2>1, <2>2, FiresAre DEF Anchored, Counted
  <2> HIDE DEF asked
  <2>4. asked \subseteq have \union series[s].refused \/ \E i \in RowsOf(s) : book[i].moved
    <3>1. Whole(book, s, series[s])
      BY <2>1, <2>2 DEF Held
    <3> QED  BY <2>1, <2>3, <3>1 DEF Whole, Moved, Has, RowsOf
  <2>5. ASSUME NEW i \in RowsOf(s), book[i].item[1] >= series[s].from
        PROVE  book[i].item \in asked
    <3>1. i \in DOMAIN book /\ book[i].series = s /\ Fit(book[i], series)
      BY <2>1 DEF RowsOf, Held
    <3>2. book[i].item \in Asked(series[s].rule) /\ book[i].item[1] <= series[s].until
          /\ book[i].item \in Items
      BY <2>1, <3>1, TimeAssumption DEF Fit
    <3>3. book[i].item[1] \in Int
      BY <3>2 DEF Items
    <3> QED  BY <2>2, <2>3, <2>5, <3>2, <3>3
  <2> QED  BY <2>4, <2>5 DEF asked
<1> QED  BY <1>1, CalendarOrdered, PTL

-----------------------------------------------------------------------------
(* The clocks of the zone.                                                 *)

LEMMA ClocksAre ==
    /\ Forward \in Nat /\ Back \in Nat /\ Forward + 1 < Back
    /\ Local(Forward) = Forward + 1 /\ Local(Forward + 1) # Forward + 1
    /\ \A l \in Int : IsNonexistent(l) => l = Forward
    /\ \A l \in Int : IsAmbiguous(l) => Instants(l) = {l - 1, l}
    /\ \A l \in Int : l - 1 \in Instants(l) /\ l \in Instants(l) => IsAmbiguous(l) /\ l = Back
<1>1. Forward \in Nat /\ Back \in Nat /\ Forward + 1 < Back
  BY TimeAssumption
<1>2. ASSUME NEW l \in Int PROVE IsNonexistent(l) => l = Forward
  <2>1. IsNonexistent(l) => Local(l) # l /\ Local(l - 1) # l
    BY DEF IsNonexistent, Instants
  <2>2. l # Forward => Local(l) = l \/ Local(l - 1) = l
    BY <1>1 DEF Local
  <2> QED  BY <2>1, <2>2
<1>3. ASSUME NEW l \in Int, IsAmbiguous(l) PROVE Instants(l) = {l - 1, l}
  <2>1. Instants(l) \subseteq {l - 1, l} /\ Cardinality(Instants(l)) = 2
    BY <1>3 DEF Instants, IsAmbiguous
  <2>2. \A x : Instants(l) # {x} /\ Instants(l) # {}
    <3>1. ASSUME NEW x, Instants(l) = {x} PROVE FALSE
      <4>1. Cardinality({x}) = 1
        BY FS_Singleton
      <4> QED  BY <2>1, <3>1, <4>1
    <3>2. ASSUME Instants(l) = {} PROVE FALSE
      <4>1. Cardinality({}) = 0
        BY FS_EmptySet
      <4> QED  BY <2>1, <3>2, <4>1
    <3> QED  BY <3>1, <3>2
  <2> QED  BY <2>1, <2>2
<1>4. ASSUME NEW l \in Int, l - 1 \in Instants(l), l \in Instants(l)
      PROVE  IsAmbiguous(l) /\ l = Back
  <2>1. Instants(l) = {l - 1} \union {l} /\ l \notin {l - 1}
    BY <1>4 DEF Instants
  <2>2. IsFiniteSet({l - 1}) /\ Cardinality({l - 1}) = 1
    BY FS_Singleton
  <2>3. Cardinality({l - 1} \union {l}) = 1 + 1
    BY <2>1, <2>2, FS_AddElement
  <2>4. Local(l - 1) = l /\ Local(l) = l
    BY <1>4 DEF Instants
  <2>5. l = Back
    BY <1>1, <2>4 DEF Local
  <2> QED  BY <2>1, <2>3, <2>5 DEF IsAmbiguous
<1>5. Local(Forward) = Forward + 1 /\ Local(Forward + 1) # Forward + 1
  <2>1. \A f, b \in Int : f + 1 < b =>
            f <= f /\ f < b /\ f <= f + 1 /\ f + 1 < b /\ (f + 1) + 1 # f + 1
    OBVIOUS
  <2> QED  BY <1>1, <2>1 DEF Local
<1> QED  BY <1>1, <1>2, <1>3, <1>4, <1>5

\* What an instant shows that a rule resolves a local time to.
LEMMA ClockShows ==
    ASSUME NEW rule \in Rules, NEW l \in Int, NEW t \in ResolveLocal(l, rule), Local(t) # l
    PROVE  IsNonexistent(l) /\ rule.nonexistent # "skip" /\ l = Forward /\ t = Forward
<1>1. /\ rule.nonexistent \in {"skip", "next_hour", "shift"}
      /\ rule.ambiguous \in {"first", "second", "both"}
  BY RulesAssumption
<1>2. t \notin Instants(l)
  BY DEF Instants
<1>3. IsNonexistent(l) \/ ~IsNonexistent(l)
  OBVIOUS
<1>4. CASE ~IsNonexistent(l) /\ IsAmbiguous(l)
  <2>1. ResolveLocal(l, rule) \in {{l - 1}, {l}, {l - 1, l}}
    BY <1>1, <1>4 DEF ResolveLocal
  <2> QED  BY <1>2, <1>4, <2>1, ClocksAre
<1>5. CASE ~IsNonexistent(l) /\ ~IsAmbiguous(l)
  <2>1. ResolveLocal(l, rule) = Instants(l)
    BY <1>5 DEF ResolveLocal
  <2> QED  BY <1>2, <2>1
<1>6. CASE IsNonexistent(l)
  <2>1. ~IsAmbiguous(l)
    BY <1>6, FS_EmptySet DEF IsNonexistent, IsAmbiguous
  <2>2. l = Forward /\ Forward \in Nat /\ Forward + 1 < Back
    BY <1>6, ClocksAre
  <2>3. rule.nonexistent # "skip"
    BY <1>6, <2>1 DEF ResolveLocal
  <2>4. t = Attached(l) \/ t = Attached(l + 1)
    BY <1>1, <1>6, <2>1, <2>3 DEF ResolveLocal
  <2>5. Attached(l) = Forward
    BY <1>6, <2>2 DEF Attached
  <2>6. Attached(l + 1) = Forward
    <3>1. Local(Forward) = Forward + 1 /\ Local(Forward + 1) # Forward + 1
      BY ClocksAre
    <3>2. (l + 1) - 1 = Forward /\ l + 1 = Forward + 1
      BY <2>2
    <3>3. Instants(l + 1) = {Forward}
      BY <3>1, <3>2 DEF Instants
    <3>4. ~IsNonexistent(l + 1)
      BY <3>3 DEF IsNonexistent
    <3>5. (CHOOSE x \in {Forward} : \A u \in {Forward} : x <= u) = Forward
      <4>1. \E x \in {Forward} : \A u \in {Forward} : x <= u
        BY <2>2
      <4> QED  BY <4>1
    <3> QED  BY <3>3, <3>4, <3>5 DEF Attached
  <2> QED  BY <1>6, <2>2, <2>3, <2>4, <2>5, <2>6
<1> QED  BY <1>4, <1>5, <1>6

\* A local time is resolved to two instants only where the clocks go back.
LEMMA ClockTwice ==
    ASSUME NEW rule \in Rules, NEW l \in Int, NEW t \in ResolveLocal(l, rule),
           NEW u \in ResolveLocal(l, rule), t # u
    PROVE  /\ IsAmbiguous(l) /\ rule.ambiguous = "both" /\ l = Back
           /\ t = Back - 1 \/ u = Back - 1
           /\ t = Back \/ u = Back
<1>1. /\ rule.nonexistent \in {"skip", "next_hour", "shift"}
      /\ rule.ambiguous \in {"first", "second", "both"}
  BY RulesAssumption
<1>2. IsNonexistent(l) => ~IsAmbiguous(l)
  BY FS_EmptySet DEF IsNonexistent, IsAmbiguous
<1>3. CASE IsNonexistent(l)
  <2>1. ResolveLocal(l, rule) \in {{}, {Attached(l + 1)}, {Attached(l)}}
    BY <1>1, <1>2, <1>3 DEF ResolveLocal
  <2> QED  BY <2>1
<1>4. CASE ~IsNonexistent(l) /\ IsAmbiguous(l)
  <2>1. rule.ambiguous = "both"
    <3>1. rule.ambiguous # "both" => ResolveLocal(l, rule) \in {{l - 1}, {l}}
      BY <1>1, <1>4 DEF ResolveLocal
    <3> QED  BY <3>1
  <2>2. ResolveLocal(l, rule) = {l - 1, l}
    BY <1>4, <2>1 DEF ResolveLocal
  <2>3. l = Back
    BY <1>4, ClocksAre
  <2> QED  BY <1>4, <2>1, <2>2, <2>3
<1>5. CASE ~IsNonexistent(l) /\ ~IsAmbiguous(l)
  <2>1. ResolveLocal(l, rule) = Instants(l)
    BY <1>5 DEF ResolveLocal
  <2>2. l - 1 \in Instants(l) /\ l \in Instants(l)
    BY <2>1 DEF Instants
  <2> QED  BY <1>5, <2>2, ClocksAre
<1> QED  BY <1>3, <1>4, <1>5

\* dst_report looks at every slot whose local time is in its window.
LEMMA InReport ==
    ASSUME NEW rule \in Rules, Counted(rule), NEW start \in Nat, start >= DayLen,
           NEW end \in Horizons, NEW d \in Int, NEW c \in rule.times, Suits(rule, d),
           NEW l \in Int, l = d * DayLen + c, Local(start) <= l, l <= Local(end)
    PROVE  <<d, c>> \in CandidateDates(rule, Day(Local(start)), Day(Local(end))) \X rule.times
<1> DEFINE first == Day(Local(start))
           last == Day(Local(end))
<1>1. DayLen \in Nat /\ c \in 0..(DayLen - 1) /\ end \in Int
  BY TimeAssumption, RulesAssumption
<1>2. PICK x \in Int : x = d * DayLen
  BY <1>1
<1>3. Local(start) \in Int /\ start <= Local(start) /\ Local(end) \in Int
  BY <1>1, LocalBounds
<1>4. (d + 1) * DayLen = x + DayLen
  BY <1>1, <1>2
<1>5. first \in Int /\ ~(first >= d + 1) /\ first >= 1
  <2>1. ~(Local(start) >= x + DayLen) /\ Local(start) >= 1 * DayLen
    BY <1>1, <1>2, <1>3
  <2>2. d + 1 \in Int /\ 1 \in Int
    OBVIOUS
  <2> QED  BY <1>3, <1>4, <2>1, <2>2, DayBounds
<1>6. last \in Int /\ last >= d
  <2>1. Local(end) >= x
    BY <1>1, <1>2, <1>3
  <2> QED  BY <1>2, <1>3, <2>1, DayBounds
<1>7. last < MonthStart[Len(MonthLengths) + 1]
  <2>1. last + 1 < MonthStart[Len(MonthLengths) + 1] /\ MonthStart[Len(MonthLengths) + 1] \in Nat
    <3>1. Len(MonthLengths) + 1 \in 1..(Len(MonthLengths) + 1)
      BY MonthStarts
    <3> QED  BY <3>1, MonthsAssumption, MonthStarts
  <2> HIDE DEF last
  <2> QED  BY <1>6, <2>1
<1> HIDE DEF first, last
<1>8. first \in Nat /\ first <= d /\ d <= last
  BY <1>5, <1>6
<1>9. d \in CandidateDates(rule, first, last)
  BY <1>6, <1>7, <1>8, CandidatesAre
<1> QED  BY <1>9 DEF first, last

\* A post of a series goes out when the clocks of its zone show the time its
\* rule names, once a day, except on the days dst_report names.
THEOREM ClockShown == CalendarSpec => []ClockKept
<1>1. ASSUME CalendarInvariant, NEW s \in Series, Laid(s),
             NEW i \in RowsOf(s), ~book[i].moved
      PROVE  \E t \in Int, d \in Int, c \in series[s].rule.times, l \in Int :
                 /\ book[i].item = <<t, d, c>> /\ book[i].at = t /\ l = d * DayLen + c
                 /\ Suits(series[s].rule, d) /\ t \in ResolveLocal(l, series[s].rule)
                 /\ series[s].from < t /\ t <= series[s].until
  <2>1. i \in DOMAIN book /\ book[i].series = s /\ Fit(book[i], series)
    BY <1>1 DEF RowsOf, CalendarInvariant, Held
  <2>2. /\ series[s].from < book[i].item[1] /\ book[i].item[1] <= series[s].until
        /\ book[i].at = book[i].item[1] /\ book[i].item \in Asked(series[s].rule)
        /\ book[i].item \in Items
    BY <1>1, <2>1, TimeAssumption DEF Fit, Laid
  <2>3. PICK t \in Int, d \in Int, c \in Int : book[i].item = <<t, d, c>>
    BY <2>2 DEF Items
  <2>4. d * DayLen + c \in Int
    BY <2>3, TimeAssumption
  <2>5. /\ Suits(series[s].rule, d) /\ c \in series[s].rule.times
        /\ t \in ResolveLocal(d * DayLen + c, series[s].rule)
    BY <2>2, <2>3 DEF Asked
  <2> QED  BY <2>2, <2>3, <2>4, <2>5
<1>2. ASSUME CalendarInvariant, NEW s \in Series, Laid(s)
      PROVE  /\ series[s].rule \in Rules /\ Counted(series[s].rule)
             /\ series[s].from \in Nat /\ series[s].from >= DayLen
             /\ series[s].until \in Horizons /\ series[s].until \in Nat
  <2>1. series[s] \in Layouts
    BY <1>2 DEF Laid, CalendarInvariant, CalendarTypeOK
  <2> QED  BY <1>2, <2>1, LayoutsAre DEF Laid, Anchored, Counted
<1>3. ASSUME CalendarInvariant PROVE ClockKept
  <2> SUFFICES ASSUME NEW s \in Series, Laid(s)
               PROVE  LET report == DstReport(series[s].rule, series[s].from, series[s].until)
                          Named(i) == <<book[i].item[2], book[i].item[3]>>
                          InRange(i) == book[i].item[1] >= series[s].from IN
                      /\ \A i \in RowsOf(s) :
                          InRange(i) /\ ~book[i].moved =>
                              \/ Local(book[i].at) = Named(i)[1] * DayLen + Named(i)[2]
                              \/ Named(i) \in report.shifted
                      /\ \A i, j \in RowsOf(s) :
                          i # j /\ Named(i) = Named(j) /\ InRange(i) /\ InRange(j)
                              /\ ~book[i].moved /\ ~book[j].moved =>
                                  Named(i) \in report.doubled
    BY DEF ClockKept
  <2> DEFINE rule == series[s].rule
             from == series[s].from
             until == series[s].until
             slots == CandidateDates(rule, Day(Local(from)), Day(Local(until))) \X rule.times
             report == DstReport(rule, from, until)
             Named(i) == <<book[i].item[2], book[i].item[3]>>
  <2>1. /\ rule \in Rules /\ Counted(rule) /\ from \in Nat /\ from >= DayLen
        /\ until \in Horizons /\ until \in Nat
    BY <1>2, <1>3
  <2>2. /\ report.shifted = {z \in slots : IsNonexistent(z[1] * DayLen + z[2])
                                             /\ rule.nonexistent # "skip"}
        /\ report.doubled = {z \in slots : IsAmbiguous(z[1] * DayLen + z[2])
                                             /\ rule.ambiguous = "both"}
    BY DEF DstReport
  <2>3. /\ Local(from) \in Int /\ Local(from) <= from + 1 /\ (from < Forward => Local(from) = from)
        /\ Local(until) \in Int /\ until <= Local(until)
    <3>1. from < Forward => Local(from) = from
      BY <2>1, TimeAssumption DEF Local
    <3> HIDE DEF from, until
    <3> QED  BY <2>1, <3>1, LocalBounds
  <2>4. Forward \in Nat /\ Back \in Nat
    BY TimeAssumption
  <2> HIDE DEF report, slots
  <2>5. ASSUME NEW i \in RowsOf(s), ~book[i].moved
        PROVE  \/ Local(book[i].at) = Named(i)[1] * DayLen + Named(i)[2]
               \/ Named(i) \in report.shifted
    <3>1. PICK t \in Int, d \in Int, c \in rule.times, l \in Int :
                 /\ book[i].item = <<t, d, c>> /\ book[i].at = t /\ l = d * DayLen + c
                 /\ Suits(rule, d) /\ t \in ResolveLocal(l, rule)
                 /\ from < t /\ t <= until
      BY <1>1, <1>3, <2>5
    <3>2. Named(i) = <<d, c>>
      BY <3>1
    <3>3. ASSUME Local(t) # l PROVE Named(i) \in report.shifted
      <4>1. IsNonexistent(l) /\ rule.nonexistent # "skip" /\ l = Forward /\ t = Forward
        BY <2>1, <3>1, <3>3, ClockShows
      <4>2. Local(from) <= l /\ l <= Local(until)
        <5> HIDE DEF from, until
        <5> QED  BY <2>1, <2>3, <2>4, <3>1, <4>1
      <4>3. <<d, c>> \in slots
        BY <2>1, <3>1, <4>2, InReport DEF slots
      <4> QED  BY <2>2, <3>1, <3>2, <4>1, <4>3
    <3> QED  BY <3>1, <3>2, <3>3
  <2>6. ASSUME NEW i \in RowsOf(s), NEW j \in RowsOf(s), i # j, Named(i) = Named(j),
               ~book[i].moved, ~book[j].moved
        PROVE  Named(i) \in report.doubled
    <3>1. PICK t \in Int, d \in Int, c \in rule.times, l \in Int :
                 /\ book[i].item = <<t, d, c>> /\ book[i].at = t /\ l = d * DayLen + c
                 /\ Suits(rule, d) /\ t \in ResolveLocal(l, rule)
                 /\ from < t /\ t <= until
      BY <1>1, <1>3, <2>6
    <3>2. PICK u \in Int, e \in Int, g \in rule.times, m \in Int :
                 /\ book[j].item = <<u, e, g>> /\ book[j].at = u /\ m = e * DayLen + g
                 /\ Suits(rule, e) /\ u \in ResolveLocal(m, rule)
                 /\ from < u /\ u <= until
      BY <1>1, <1>3, <2>6
    <3>3. Named(i) = <<d, c>> /\ e = d /\ g = c /\ m = l
      BY <2>6, <3>1, <3>2
    <3>4. t # u
      <4>1. book[i].item # book[j].item
        BY <1>3, <2>6, TimeAssumption DEF RowsOf, CalendarInvariant, Held, Distinct
      <4> QED  BY <3>1, <3>2, <3>3, <4>1
    <3>5. /\ IsAmbiguous(l) /\ rule.ambiguous = "both" /\ l = Back
          /\ t = Back - 1 \/ u = Back - 1
          /\ t = Back \/ u = Back
      BY <2>1, <3>1, <3>2, <3>3, <3>4, ClockTwice
    <3>6. Local(from) <= l /\ l <= Local(until)
      <4> HIDE DEF from, until
      <4> QED  BY <2>1, <2>3, <2>4, <3>1, <3>2, <3>5
    <3>7. <<d, c>> \in slots
      BY <2>1, <3>1, <3>6, InReport DEF slots
    <3> QED  BY <2>2, <3>1, <3>3, <3>5, <3>7
  <2> QED  BY <2>5, <2>6 DEF report
<1>4. CalendarInvariant => ClockKept
  BY <1>3
<1> QED  BY <1>4, CalendarOrdered, PTL
=============================================================================
