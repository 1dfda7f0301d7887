--------------------------- MODULE ChannelFactory ---------------------------
(***************************************************************************)
(* A channel's row, its budget and its circuit breaker                     *)
(* (clipforge/factory/channel.py), and those who work on copies of it: the *)
(* cycle of ChannelFactory (clipforge/factory/factory.py) and the workers  *)
(* that select clips (clipforge/worker/selection.py).  Each reads the row, *)
(* works for minutes, and writes the whole of it back.                     *)
(*                                                                         *)
(* One platform is modelled, whose quota is the project's; every channel   *)
(* has an account on it.  How the quota is split is FairShare's subject.   *)
(***************************************************************************)
EXTENDS Integers, FiniteSetsExt

CONSTANTS
    Channels,
    Selectors,   \* workers that run clip selections
    Wants,       \* cadence_per_day of each channel
    Capacity,    \* posts the platform takes a day
    Sources,     \* sources_per_cycle
    Monthly,     \* monthly_cents
    Cost,        \* ITEM_COST_CENTS
    Threshold,   \* FAILURE_THRESHOLD
    Cooldown,    \* CIRCUIT_COOLDOWN, in ticks
    MonthLength, \* in ticks
    MaxTime,     \* bound on the clock
    MaxFailures, \* bound on consecutive_failures
    MaxCycles,   \* bound on the factory's cycles
    MaxEvents,   \* bound on selections, operators' calls and losses together
    Nobody       \* no channel

ASSUME ChannelFactoryAssumption ==
    /\ IsFiniteSet(Channels) /\ Wants \in [Channels -> Nat]
    /\ Capacity \in Nat /\ Sources \in Nat
    /\ Monthly \in Nat /\ Cost \in Nat /\ Threshold \in Nat \ {0} /\ Cooldown \in Nat
    /\ MonthLength \in Nat \ {0} /\ MaxTime \in Nat /\ MaxFailures \in Nat
    /\ MaxCycles \in Nat /\ MaxEvents \in Nat
    /\ Nobody \notin Channels /\ "factory" \notin Selectors

VARIABLES
    row,    \* `channels`
    now,
    held,   \* whose row each process has a copy of
    copy,
    step,   \* of the factory's cycle
    at,     \* the time the cycle began, which it goes by throughout
    plan,   \* what it granted each channel
    todo,   \* channels it has yet to run
    left,   \* sources it has yet to try
    placed, \* clips it placed for each channel
    cycles, events,
    books   \* what was really spent on each channel, while nobody disturbs it

cycle  == <<step, at, plan, todo, left, placed, cycles>>
vars   == <<row, now, held, copy, cycle, events, books>>

Processes == Selectors \union {"factory"}
States    == {"draft", "active", "paused", "budget_exhausted", "circuit_open"}
Never     == -1
Month(t)  == t \div MonthLength

ChannelRow == [state : States, spent : Nat, period : Nat, failures : Nat,
               opened : Nat \union {Never}]

\* Not calm: two processes worked on the channel at once, or a copy got lost.
\* Owed: spent since the row's period began.  Bill: in this calendar month.
Books == [calm : BOOLEAN, owed : Nat, bill : Nat]

Disturbed == [calm |-> FALSE, owed |-> 0, bill |-> 0]

\* Rows, copies and the cycle have their types; a failure streak is counted
\* from zero.
TypeOK ==
    /\ row \in [Channels -> ChannelRow]
    /\ now \in 0..MaxTime /\ at \in 0..MaxTime
    /\ held \in [Processes -> Channels \union {Nobody}]
    /\ copy \in [Processes -> ChannelRow]
    /\ step \in {"idle", "between", "items", "save", "raised", "again"}
    /\ plan \in [Channels -> Nat] /\ placed \in [Channels -> Nat]
    /\ todo \subseteq Channels
    /\ left \in Nat /\ cycles \in 0..MaxCycles /\ events \in 0..MaxEvents
    /\ books \in [Channels -> Books]

Fresh == [state |-> "draft", spent |-> 0, period |-> 0, failures |-> 0, opened |-> Never]

Init ==
    /\ row \in [Channels -> {Fresh, [Fresh EXCEPT !.state = "active"]}]
    /\ now = 0
    /\ held = [p \in Processes |-> Nobody] /\ copy = [p \in Processes |-> Fresh]
    /\ step = "idle" /\ at = 0 /\ todo = {} /\ left = 0 /\ cycles = 0 /\ events = 0
    /\ plan = [c \in Channels |-> 0] /\ placed = [c \in Channels |-> 0]
    /\ books = [c \in Channels |-> [calm |-> TRUE, owed |-> 0, bill |-> 0]]

-----------------------------------------------------------------------------
(* Budget, ChannelHealth and Channel.                                      *)

Roll(r, t) ==
    IF r.period = Month(t) THEN r ELSE [r EXCEPT !.period = Month(t), !.spent = 0]

Exhausted(r) == r.spent >= Monthly

\* A buggy variant: anything left is enough.
CanAffordSome(r) == r.spent < Monthly

CanAfford(r) == r.spent + Cost <= Monthly

Charge(r, n) == [r EXCEPT !.spent = @ + n]

\* A success ends the streak, and leaves an opened breaker as it is.
Success(r) == [r EXCEPT !.failures = 0]

Failure(r, t) ==
    [r EXCEPT !.failures = @ + 1,
              !.opened = IF r.failures + 1 >= Threshold /\ @ = Never THEN t ELSE @]

\* For one cooldown; after that, work goes on with the breaker still opened.
CircuitOpen(r, t) == r.opened # Never /\ t - r.opened < Cooldown

Runnable(r, t) ==
    r.state \notin {"paused", "draft"} /\ ~CircuitOpen(r, t) /\ ~Exhausted(r)

\* What a channel that is not runnable is called, whatever it was before.
Refuse(r, t) ==
    [r EXCEPT !.state = IF Exhausted(r) THEN "budget_exhausted"
                        ELSE IF CircuitOpen(r, t) THEN "circuit_open" ELSE @]

\* A buggy variant: only what is finished is charged.
BlockedFree(r) ==
    {[row |-> r, cost |-> n, placed |-> FALSE] : n \in IF CanAfford(r) THEN 0..Cost ELSE {0}}

\* An item that is blocked has cost what its stages cost; one that the budget
\* does not cover, or the rights gate stops, nothing.
Blocked(r) ==
    {[row |-> Charge(r, n), cost |-> n, placed |-> FALSE] :
        n \in IF CanAfford(r) THEN 0..Cost ELSE {0}}

\* Pipeline.run and the bookkeeping after it, whoever drives them.
Outcomes(r, t) ==
    Blocked(r) \union
    IF ~CanAfford(r) THEN {} ELSE
        {[row |-> Failure(Charge(r, n), t), cost |-> n, placed |-> FALSE] :
            n \in IF r.failures < MaxFailures THEN 0..(Cost - 1) ELSE {}}
        \union {[row |-> Success(Charge(r, Cost)), cost |-> Cost, placed |-> TRUE]}

-----------------------------------------------------------------------------
(* The factory's cycle.                                                    *)

Total(g) == MapThenSumSet(LAMBDA c : g[c], Channels)

\* plan_quota over the active channels: a fair split (FairShare), and nothing
\* for the others.
Plans ==
    LET want(c)  == IF row[c].state = "active" THEN Wants[c] ELSE 0
        wanted   == Total([c \in Channels |-> want(c)])
        fair(g)  == \A c, d \in Channels : g[c] < want(c) => g[d] <= g[c] + 1
    IN  {g \in [Channels -> 0..Capacity] :
            /\ \A c \in Channels : g[c] <= want(c)
            /\ Total(g) = IF wanted < Capacity THEN wanted ELSE Capacity
            /\ fair(g)}

StartCycle ==
    /\ step = "idle" /\ cycles < MaxCycles
    /\ plan' \in Plans
    /\ at' = now
    /\ todo' = Channels
    /\ placed' = [c \in Channels |-> 0]
    /\ step' = "between" /\ cycles' = cycles + 1
    /\ UNCHANGED <<row, now, held, copy, left, events, books>>

\* The cycle is over; nothing of it is kept.
Forget ==
    /\ step' = "idle" /\ at' = 0 /\ todo' = {} /\ left' = 0
    /\ plan' = [c \in Channels |-> 0] /\ placed' = [c \in Channels |-> 0]
    /\ UNCHANGED cycles

EndCycle ==
    /\ step = "between" /\ todo = {}
    /\ Forget
    /\ UNCHANGED <<row, now, held, copy, events, books>>

Spent(b, n) ==
    IF b.calm THEN [b EXCEPT !.owed = @ + n, !.bill = @ + n] ELSE Disturbed

\* p has taken a copy of c's row and made r of it, spending n.
Take(p, c, r, n) ==
    /\ held' = [held EXCEPT ![p] = c]
    /\ copy' = [copy EXCEPT ![p] = r]
    /\ books' = [books EXCEPT ![c] =
                    IF \E q \in Processes : held[q] = c THEN Disturbed
                    ELSE IF r.period = row[c].period THEN Spent(@, n)
                    ELSE Spent([@ EXCEPT !.owed = 0], n)]

\* runnable() rolls the budget; a channel that is not is called so.
\* Otherwise sources are found, or none, or the search fails.
Run(c) ==
    LET r == Roll(row[c], at)
    IN  /\ step = "between" /\ c \in todo
        /\ todo' = todo \ {c}
        /\ \/ ~Runnable(r, at) /\ Take("factory", c, Refuse(r, at), 0) /\ step' = "save"
              /\ UNCHANGED left
           \/ Runnable(r, at) /\ Take("factory", c, r, 0) /\ step' = "items"
              /\ left' \in 1..Sources
           \/ Runnable(r, at) /\ Take("factory", c, r, 0) /\ step' = "save"
              /\ UNCHANGED left
           \/ Runnable(r, at) /\ r.failures < MaxFailures
              /\ Take("factory", c, Failure(r, at), 0) /\ step' = "save"
              /\ UNCHANGED left
        /\ UNCHANGED <<row, now, at, plan, placed, cycles, events>>

\* A buggy variant: what the niche would like.
TargetWanted(c) == Wants[c]

Target(c) == plan[c]

More(c) == left > 0 /\ placed[c] < Target(c)

\* The next source; a placed item is scheduled, or raises out of the cycle.
Item ==
    LET c == held["factory"]
    IN  /\ step = "items" /\ More(c)
        /\ left' = left - 1
        /\ \E o \in Outcomes(copy["factory"], at) :
            /\ copy' = [copy EXCEPT !["factory"] = o.row]
            /\ books' = [books EXCEPT ![c] = Spent(@, o.cost)]
            /\ placed' = [placed EXCEPT ![c] = IF o.placed THEN @ + 1 ELSE @]
        /\ UNCHANGED <<row, now, held, step, at, plan, todo, cycles, events>>

ItemRaises ==
    LET c == held["factory"]
    IN  /\ step = "items" /\ More(c) /\ CanAfford(copy["factory"])
        /\ copy' = [copy EXCEPT !["factory"] = Charge(@, Cost)]
        /\ books' = [books EXCEPT ![c] = Spent(@, Cost)]
        /\ step' = "raised"
        /\ UNCHANGED <<row, now, held, at, plan, todo, left, placed, cycles, events>>

LastItem ==
    /\ step = "items" /\ ~More(held["factory"])
    /\ copy' = [copy EXCEPT !["factory"] =
                    IF Exhausted(@) THEN [@ EXCEPT !.state = "budget_exhausted"] ELSE @]
    /\ step' = "save"
    /\ UNCHANGED <<row, now, held, at, plan, todo, left, placed, cycles, events, books>>

\* The whole copy is written back.
Put(p) ==
    /\ row' = [row EXCEPT ![held[p]] = copy[p]]
    /\ held' = [held EXCEPT ![p] = Nobody]
    /\ copy' = [copy EXCEPT ![p] = Fresh]

Save ==
    /\ step = "save"
    /\ Put("factory")
    /\ step' = "between"
    /\ UNCHANGED <<now, at, plan, todo, left, placed, cycles, events, books>>

\* An exception is out of run_channel once its `finally` has saved; run_cycle
\* reads the row again and counts a failure at the time it is by now.
SaveRaised ==
    /\ step = "raised"
    /\ row' = [row EXCEPT ![held["factory"]] = copy["factory"]]
    /\ step' = "again"
    /\ UNCHANGED <<now, held, copy, at, plan, todo, left, placed, cycles, events, books>>

CountRaised ==
    LET c == held["factory"]
    IN  /\ step = "again"
        /\ copy' = [copy EXCEPT !["factory"] =
                        IF row[c].failures < MaxFailures THEN Failure(row[c], now) ELSE row[c]]
        /\ step' = "save"
        /\ UNCHANGED <<row, now, held, at, plan, todo, left, placed, cycles, events, books>>

-----------------------------------------------------------------------------
(* Workers, operators and time.                                            *)

Happens == events < MaxEvents /\ events' = events + 1

\* selection_handler up to its save: any channel, as its row says it is.  No
\* budget is rolled and nobody asks whether the channel is runnable.
Select(p, c) ==
    /\ Happens
    /\ held[p] = Nobody
    /\ \E o \in Outcomes(row[c], now) : Take(p, c, o.row, o.cost)
    /\ UNCHANGED <<row, now, cycle>>

SaveSelection(p) ==
    /\ held[p] # Nobody
    /\ Put(p)
    /\ UNCHANGED <<now, cycle, events, books>>

\* A process dies, or a selection raises, before its save.
Lose(p) ==
    /\ Happens
    /\ held[p] # Nobody
    /\ books' = [books EXCEPT ![held[p]] = Disturbed]
    /\ held' = [held EXCEPT ![p] = Nobody]
    /\ copy' = [copy EXCEPT ![p] = Fresh]
    /\ IF p = "factory" THEN Forget ELSE UNCHANGED cycle
    /\ UNCHANGED <<row, now>>

\* A buggy variant: the breaker is closed and its count left.
ActivatedHalf(r) == [r EXCEPT !.state = "active", !.opened = Never]

Activated(r) == [r EXCEPT !.state = "active", !.failures = 0, !.opened = Never]

\* PATCH /channels/{id}/state: one transaction on the row.
SetState(c) ==
    /\ Happens
    /\ \/ row' = [row EXCEPT ![c] = Activated(@)]
       \/ \E s \in {"draft", "paused"} : row' = [row EXCEPT ![c].state = s]
    /\ UNCHANGED <<now, held, copy, cycle, books>>

Tick ==
    /\ now < MaxTime
    /\ now' = now + 1
    /\ books' = IF Month(now') = Month(now) THEN books
                ELSE [c \in Channels |-> [books[c] EXCEPT !.bill = 0]]
    /\ UNCHANGED <<row, held, copy, cycle, events>>

Factory ==
    \/ StartCycle \/ EndCycle \/ Item \/ ItemRaises \/ LastItem
    \/ Save \/ SaveRaised \/ CountRaised
    \/ \E c \in Channels : Run(c)

\* The bounds are reached: the model's end, not the system's.
Over ==
    /\ now = MaxTime /\ cycles = MaxCycles /\ events = MaxEvents
    /\ step = "idle" /\ \A p \in Processes : held[p] = Nobody
    /\ UNCHANGED vars

Next ==
    \/ Factory
    \/ \E p \in Selectors : SaveSelection(p) \/ \E c \in Channels : Select(p, c)
    \/ \E p \in Processes : Lose(p)
    \/ \E c \in Channels : SetState(c)
    \/ Tick \/ Over

Spec == Init /\ [][Next]_vars

-----------------------------------------------------------------------------
(* What must hold.                                                         *)

\* A streak at the threshold has its breaker opened, over every save of a
\* copy and every operator's reset: "a channel that tripped before a restart
\* must stay tripped" (to_channel_record).
TrippedIsRecorded ==
    \A c \in Channels : row[c].failures >= Threshold => row[c].opened # Never

\* No row shows more than the month's budget, however copies overwrite each
\* other; and what really leaves the account in a calendar month is at most three
\* of them: a selection may still charge an old month's account, and a cycle may
\* roll it to the month the cycle began in, before one rolls it to this month's.
BudgetKept ==
    \A c \in Channels :
        /\ row[c].spent <= Monthly
        /\ books[c].calm => books[c].bill <= 3 * Monthly

\* Whatever the outcome of an item, its cost is on the row once it is saved.
ChargesAreCounted ==
    \A c \in Channels :
        books[c].calm /\ (\A p \in Processes : held[p] # c)
            => row[c].spent = books[c].owed

\* All channels of a cycle together place no more than the platform takes,
\* whoever is activated, paused or out of budget meanwhile.
QuotaKept == Total(placed) <= Capacity
=============================================================================
