------------------------------ MODULE FairShare ------------------------------
(***************************************************************************)
(* max_min_fair (clipforge/factory/scheduler.py): the split of one pool of *)
(* uploads over the channels that want some.  The function is a loop of    *)
(* rounds over the unsatisfied channels in sorted order; its locals are    *)
(* the variables here, one step for each pass of an inner loop.            *)
(***************************************************************************)
EXTENDS Integers, FiniteSets

CONSTANTS
    Names,       \* the channels, numbered in the order sorted() puts their ids
    MaxWant,     \* bound on cadence_per_day
    MaxCapacity  \* bound on posts_per_day of a platform

ASSUME FairShareAssumption ==
    /\ Names \subseteq Nat /\ IsFiniteSet(Names)
    /\ MaxWant \in Nat /\ MaxCapacity \in Nat

VARIABLES
    wants,       \* posts a day each channel wants
    capacity,    \* posts a day there are
    granted,
    remaining,   \* of the capacity
    unsatisfied, \* channels granted less than they want, as of this round
    share,       \* of each of them, this round
    pending,     \* those the inner loop has not come to
    pc

given == <<wants, capacity>>
splitVars == <<given, granted, remaining, unsatisfied, share, pending, pc>>

\* Every local has its type; nothing is handed out that is not there.
SplitTypeOK ==
    /\ wants \in [Names -> 0..MaxWant] /\ capacity \in 0..MaxCapacity
    /\ granted \in [Names -> Nat]
    /\ remaining \in Nat
    /\ unsatisfied \subseteq Names /\ pending \subseteq unsatisfied
    /\ share \in Nat
    /\ pc \in {"loop", "shares", "ones", "done"}

Unserved == {k \in unsatisfied : granted[k] < wants[k]}

SplitInit ==
    /\ wants \in [Names -> 0..MaxWant] /\ capacity \in 0..MaxCapacity
    /\ granted = [k \in Names |-> 0]
    /\ remaining = capacity
    /\ unsatisfied = {k \in Names : wants[k] > 0}
    /\ share = 0 /\ pending = {} /\ pc = "loop"

Split == remaining \div Cardinality(unsatisfied)

\* Another round: equal shares or, when they come to nothing, one each.
Round ==
    /\ pc = "loop" /\ remaining > 0 /\ unsatisfied # {}
    /\ share' = Split
    /\ pending' = unsatisfied
    /\ pc' = IF share' = 0 THEN "ones" ELSE "shares"
    /\ UNCHANGED <<given, granted, remaining, unsatisfied>>

Return ==
    /\ pc = "loop" /\ (remaining <= 0 \/ unsatisfied = {})
    /\ pc' = "done"
    /\ UNCHANGED <<given, granted, remaining, unsatisfied, share, pending>>

First(k) == k \in pending /\ \A j \in pending : k <= j

Grant(k, n) ==
    /\ First(k)
    /\ granted' = [granted EXCEPT ![k] = @ + n]
    /\ remaining' = remaining - n
    /\ pending' = pending \ {k}
    /\ UNCHANGED <<given, unsatisfied, share, pc>>

\* A buggy variant: the share is handed out wanted or not.
PortionAll(k) == share

Portion(k) == IF share < wants[k] - granted[k] THEN share ELSE wants[k] - granted[k]

GiveShare == pc = "shares" /\ \E k \in pending : Grant(k, Portion(k))

EndRound ==
    /\ pc = "shares" /\ pending = {}
    /\ unsatisfied' = Unserved
    /\ pc' = "loop"
    /\ UNCHANGED <<given, granted, remaining, share, pending>>

UsedUp == pending = {} \/ remaining = 0

GiveOne == pc = "ones" /\ ~UsedUp /\ \E k \in pending : Grant(k, 1)

Break ==
    /\ pc = "ones" /\ UsedUp
    /\ pc' = "done"
    /\ UNCHANGED <<given, granted, remaining, unsatisfied, share, pending>>

\* The caller has its answer.
Answered == pc = "done" /\ UNCHANGED splitVars

SplitNext == Round \/ Return \/ GiveShare \/ EndRound \/ GiveOne \/ Break \/ Answered

SplitSpec == SplitInit /\ [][SplitNext]_splitVars

\* The function runs until it returns.
FairSplit == SplitSpec /\ WF_splitVars(SplitNext)

-----------------------------------------------------------------------------
(* What a split must be.                                                   *)

Done == pc = "done"

\* "Max-min fair": a channel that gets less than it wants leaves nothing
\* unused and nobody more than one unit ahead, and nobody gets more than it
\* wants (the scheduler's docstring; plan_quota relies on it).
FairAtEnd ==
    Done => \A k \in Names :
        /\ granted[k] <= wants[k]
        /\ granted[k] < wants[k] => /\ remaining = 0
                                    /\ \A j \in Names : granted[j] <= granted[k] + 1
=============================================================================
