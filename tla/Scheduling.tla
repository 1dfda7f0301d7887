----------------------------- MODULE Scheduling -----------------------------
(***************************************************************************)
(* The booking side of the publishing system: recurrence rules expanded in *)
(* the creator's own time zone (clipforge/publish/schedule.py), the        *)
(* calendar of one account with its spacing check (calendar.py) and the    *)
(* calls that book, move, cancel and extend (engine.py, and _book of       *)
(* worker/selection.py).                                                   *)
(*                                                                         *)
(* Time is a count of hours.  The clocks of the zone go one hour forward at*)
(* Forward and back at Back.  A calendar call is one step: the calendar of *)
(* a process is used by one caller at a time.  What a pass does with a post*)
(* is in Publishing; here it only settles.                                 *)
(***************************************************************************)
EXTENDS Integers, Sequences, FiniteSets, SequencesExt

CONSTANTS
    DayLen,        \* hours of a day
    MonthLengths,  \* the days of the months, from day 0
    Forward, Back, \* the hours at which the clocks change
    Rules,         \* recurrences a creator may ask for
    Series,        \* ids of series
    Moments,       \* hours a creator or a test of the clock may name
    Horizons,      \* hours up to which a series is laid out
    Spacing,       \* spacing_s
    Renewable,     \* refresh_valid_until of the account's credentials
    Lead, SlotStep, SlotTries,  \* how a selection looks for a slot
    NoDay, NoRule, NoItem,
    MaxCalls       \* bound on calls

ASSUME TimeAssumption ==
    /\ DayLen \in Nat /\ DayLen > 2 /\ Forward \in Nat /\ Back \in Nat /\ Forward + 1 < Back
    /\ Spacing \in Nat \ {0} /\ MaxCalls \in Nat /\ Renewable \in Nat
    /\ Lead \in Nat /\ SlotStep \in Nat /\ SlotTries \in Nat
    /\ Moments \subseteq Nat /\ Horizons \subseteq Nat /\ \A t \in Moments : t >= DayLen
    /\ NoRule \notin Series
    /\ NoRule \notin [rule : Rules, from : Nat, until : Nat, refused : SUBSET (Int \X Int \X Int)]
    /\ MonthLengths \in Seq(Nat \ {0})

ASSUME RulesAssumption ==
    \A rule \in Rules :
        /\ rule.frequency \in {"daily", "weekly", "monthly"} /\ rule.interval \in Nat \ {0}
        /\ rule.times \subseteq 0..(DayLen - 1)
        /\ rule.starts_on \in Int \union {NoDay} /\ rule.ends_on \in Int \union {NoDay}
        /\ rule.max \in Nat
        /\ rule.nonexistent \in {"skip", "next_hour", "shift"}
        /\ rule.ambiguous \in {"first", "second", "both"}

VARIABLES
    book,     \* _by_account of the account: posts in the order of run_at
    series,   \* the rules kept, with the range laid out so far
    now,
    calls

calendarVars == <<book, series, now, calls>>

-----------------------------------------------------------------------------
(* Local time.                                                             *)

Local(t) == IF Forward <= t /\ t < Back THEN t + 1 ELSE t
Day(l) == l \div DayLen

\* The instants at which the zone's clocks show l: none in the gap, two where
\* they go back.
Instants(l) == {t \in {l - 1, l} : Local(t) = l}
IsNonexistent(l) == Instants(l) = {}
IsAmbiguous(l) == Cardinality(Instants(l)) = 2

\* A naive time given its zone, as the first of two and, in the gap, with the
\* offset of before.
Attached(l) == IF IsNonexistent(l) THEN l ELSE CHOOSE t \in Instants(l) : \A u \in Instants(l) : t <= u

\* A buggy variant: one offset for the whole schedule.
ResolveUtc(l, rule) == {l}

ResolveLocal(l, rule) ==
    CASE IsNonexistent(l) ->
            (CASE rule.nonexistent = "skip" -> {}
               [] rule.nonexistent = "next_hour" -> {Attached(l + 1)}
               [] rule.nonexistent = "shift" -> {Attached(l)})
      [] IsAmbiguous(l) ->
            (CASE rule.ambiguous = "first" -> {l - 1}
               [] rule.ambiguous = "second" -> {l}
               [] rule.ambiguous = "both" -> {l - 1, l})
      [] OTHER -> Instants(l)

-----------------------------------------------------------------------------
(* Recurrences.                                                            *)

MonthStart[m \in 1..(Len(MonthLengths) + 1)] ==
    IF m = 1 THEN 0 ELSE MonthStart[m - 1] + MonthLengths[m - 1]

Month(d) == CHOOSE m \in DOMAIN MonthLengths : MonthStart[m] <= d /\ d < MonthStart[m + 1]

\* The months reach a day beyond the horizons.
ASSUME MonthsAssumption ==
    \A h \in Horizons : Day(Local(h)) + 1 < MonthStart[Len(MonthLengths) + 1]

\* "last" is -1; a day a month does not have is skipped.
MonthDays(m, days) ==
    {MonthStart[m] + (IF n = -1 THEN MonthLengths[m] ELSE n) - 1 :
        n \in {k \in days : k \in {-1} \union 1..MonthLengths[m]}}

\* A buggy variant: the interval is counted from the window asked for.
AnchorWindow(rule, first) == first

Anchor(rule, first) == IF rule.starts_on = NoDay THEN first ELSE rule.starts_on

CandidateDates(rule, first, last) ==
    LET anchor == Anchor(rule, first)
        Later(d) == first <= d /\ anchor <= d
        Monday(d) == d - (d % 7) IN
    CASE rule.frequency = "daily" ->
            {d \in first..last : Later(d) /\ (d - anchor) % rule.interval = 0}
      [] rule.frequency = "weekly" ->
            {d \in first..last :
                /\ Later(d) /\ d % 7 \in rule.weekdays
                /\ ((Monday(d) - Monday(anchor)) \div 7) % rule.interval = 0}
      [] rule.frequency = "monthly" ->
            {d \in first..last :
                /\ d >= 0 /\ Month(d) >= Month(anchor)
                /\ (Month(d) - Month(anchor)) % rule.interval = 0
                /\ d \in MonthDays(Month(d), rule.month_days)}

\* A post a rule asks for: the instant, and the local day and clock it is for.
ItemsOf(rule, days) ==
    UNION {{<<t, d, c>> : t \in ResolveLocal(d * DayLen + c, rule)} :
             d \in days, c \in rule.times}

InForce(rule, d) ==
    /\ rule.starts_on # NoDay => d >= rule.starts_on
    /\ rule.ends_on # NoDay => d <= rule.ends_on

\* Recurrence.occurrences, as a set and in order.
Fires(rule, start, end) ==
    LET first == Day(Local(start)) - 1
        last == Day(Local(end)) + 1 IN
    {item \in ItemsOf(rule, {d \in CandidateDates(rule, first, last) : InForce(rule, d)}) :
        start <= item[1] /\ item[1] <= end}

Occurrences(rule, start, end) ==
    LET fires == Fires(rule, start, end)
        Earlier(a, b) == a[1] < b[1] \/ (a[1] = b[1] /\ a[3] < b[3])
        all == [k \in 1..Cardinality(fires) |->
                  CHOOSE a \in fires : Cardinality({b \in fires : Earlier(b, a)}) = k - 1] IN
    IF rule.max = 0 \/ Len(all) <= rule.max THEN all ELSE SubSeq(all, 1, rule.max)

\* dst_report: the days and clocks of a window that a change of clocks touches.
DstReport(rule, start, end) ==
    LET slots == CandidateDates(rule, Day(Local(start)), Day(Local(end))) \X rule.times
        Gone(s) == IsNonexistent(s[1] * DayLen + s[2])
        Twice(s) == IsAmbiguous(s[1] * DayLen + s[2]) IN
    [skipped |-> {s \in slots : Gone(s) /\ rule.nonexistent = "skip"},
     shifted |-> {s \in slots : Gone(s) /\ rule.nonexistent # "skip"},
     doubled |-> {s \in slots : Twice(s) /\ rule.ambiguous = "both"}]

-----------------------------------------------------------------------------
(* The calendar.                                                           *)

States == {"draft", "scheduled", "published", "failed", "cancelled"}
Settled(row) == row.state \in {"published", "failed", "cancelled"}

\* `item` is what the rule asked for, `moved` that the post was rescheduled.
Entry(t, state, s, item) ==
    [at |-> t, state |-> state, series |-> s, item |-> item, moved |-> FALSE]

\* bisect.insort: after the posts of the same moment.
Add(rows, row) ==
    InsertAt(rows, 1 + Cardinality({i \in DOMAIN rows : rows[i].at <= row.at}), row)

\* A buggy variant: the post after the moment is not looked at.
NearestBefore(rows, t) ==
    LET left == Cardinality({i \in DOMAIN rows : rows[i].at < t}) IN
    {i \in {left} \intersect DOMAIN rows : ~Settled(rows[i]) /\ t - rows[i].at < Spacing}

\* ContentCalendar.nearest: of the two posts around the moment.
Nearest(rows, t) ==
    LET left == Cardinality({i \in DOMAIN rows : rows[i].at < t}) IN
    {i \in {left, left + 1} \intersect DOMAIN rows :
        /\ ~Settled(rows[i])
        /\ t - rows[i].at < Spacing /\ rows[i].at - t < Spacing}

\* The problems PublishingSystem.schedule finds; `bad` is a spec that
\* limits.validate refuses.
Problems(rows, t, bad) ==
    (IF bad THEN {"spec"} ELSE {})
      \union (IF t <= now THEN {"past"} ELSE {})
      \union (IF t > Renewable THEN {"horizon"} ELSE {})
      \union (IF Nearest(rows, t) # {} THEN {"spacing"} ELSE {})

-----------------------------------------------------------------------------
(* Calls.                                                                  *)

Call == calls < MaxCalls /\ calls' = calls + 1

CalendarInit ==
    /\ book = <<>>
    /\ series = [s \in Series |-> NoRule]
    /\ now = DayLen
    /\ calls = 0

Schedule(t) ==
    /\ Call /\ Problems(book, t, FALSE) = {}
    /\ book' = Add(book, Entry(t, "scheduled", NoRule, NoItem))
    /\ UNCHANGED <<series, now>>

\* _book of a selection: the first of its slots where spacing is no problem,
\* and nothing at all when something else is.
BookClip ==
    /\ Call
    /\ \E k \in 0..(SlotTries - 1) :
        LET slot == now + Lead + k * SlotStep IN
        /\ \A j \in 0..(k - 1) : Problems(book, now + Lead + j * SlotStep, FALSE) = {"spacing"}
        /\ Problems(book, slot, FALSE) = {}
        /\ book' = Add(book, Entry(slot, "draft", NoRule, NoItem))
    /\ UNCHANGED <<series, now>>

\* Each slot of a series in turn, those that cannot be had left out.
PlaceStep(rows, item, s) ==
    IF Problems(rows, item[1], FALSE) = {}
    THEN Add(rows, Entry(item[1], "scheduled", s, item)) ELSE rows

Place(rows, items, s) ==
    FoldLeft(LAMBDA acc, item : PlaceStep(acc, item, s), rows, items)

\* What was asked for and could not be had.
Refused(rows, items, s) ==
    {item \in ToSet(items) :
        ~\E i \in DOMAIN rows : rows[i].series = s /\ rows[i].item = item}

ScheduleSeries(s, rule, end) ==
    LET items == Occurrences(rule, now, end)
        placed == Place(book, items, s) IN
    /\ Call /\ series[s] = NoRule /\ end > now
    /\ book' = placed
    /\ series' = [series EXCEPT ![s] =
           [rule |-> rule, from |-> now, until |-> end, refused |-> Refused(placed, items, s)]]
    /\ UNCHANGED now

RowsOf(s) == {i \in DOMAIN book : book[i].series = s}

\* The extension goes on after the last post of the series, and from now where
\* it has none.
ExtendSeries(s, until) ==
    LET begin == IF RowsOf(s) = {} THEN now
                 ELSE 1 + CHOOSE t \in {book[i].at : i \in RowsOf(s)} :
                            \A i \in RowsOf(s) : book[i].at <= t
        items == Occurrences(series[s].rule, begin, until)
        placed == Place(book, items, s) IN
    /\ Call /\ series[s] # NoRule /\ begin <= until
    /\ book' = placed
    /\ series' = [series EXCEPT
           ![s].from = IF RowsOf(s) = {} THEN now ELSE series[s].from,
           ![s].until = IF until > series[s].until THEN until ELSE series[s].until,
           ![s].refused = series[s].refused \union Refused(placed, items, s)]
    /\ UNCHANGED now

\* schedule_bulk: each clip takes the next slot that is neither past nor too
\* close; a clip refused there for another reason has used the slot up.
BulkStep(items, acc, bad, s) ==
    LET usable == {k \in acc.next..Len(items) :
                     Problems(acc.rows, items[k][1], bad) \intersect {"past", "spacing"} = {}} IN
    IF usable = {} THEN [acc EXCEPT !.next = Len(items) + 1]
    ELSE LET k == CHOOSE k \in usable : \A j \in usable : k <= j IN
         [next |-> k + 1,
          rows |-> IF Problems(acc.rows, items[k][1], bad) = {}
                   THEN Add(acc.rows, Entry(items[k][1], "scheduled", s, items[k]))
                   ELSE acc.rows]

PlaceBulk(rows, items, s, specs) ==
    FoldLeft(LAMBDA acc, bad : BulkStep(items, acc, bad, s), [next |-> 1, rows |-> rows], specs)

\* A batch fills a part of its series only.
ScheduleBulk(s, rule, end, specs) ==
    LET items == Occurrences(rule, now, end) IN
    /\ Call /\ series[s] = NoRule /\ end > now
    /\ book' = PlaceBulk(book, items, s, specs).rows
    /\ series' = [series EXCEPT ![s] =
           [rule |-> rule, from |-> now, until |-> end, refused |-> ToSet(items)]]
    /\ UNCHANGED now

Cancel(i) ==
    /\ Call /\ ~Settled(book[i])
    /\ book' = [book EXCEPT ![i].state = "cancelled"]
    /\ UNCHANGED <<series, now>>

CancelSeries(s) ==
    /\ Call /\ series[s] # NoRule
    /\ book' = [i \in DOMAIN book |->
            IF book[i].series = s /\ ~Settled(book[i])
            THEN [book[i] EXCEPT !.state = "cancelled"] ELSE book[i]]
    /\ UNCHANGED <<series, now>>

\* reschedule: no check of the spacing, and a draft becomes due.
Reschedule(i, t) ==
    /\ Call /\ ~Settled(book[i])
    /\ book' = Add(RemoveAt(book, i),
                   [book[i] EXCEPT !.at = t, !.state = "scheduled", !.moved = TRUE])
    /\ UNCHANGED <<series, now>>

\* A finished render lets a draft go; a pass settles what is due.
LetGo(i) ==
    /\ book[i].state = "draft"
    /\ book' = [book EXCEPT ![i].state = "scheduled"]
    /\ UNCHANGED <<series, now, calls>>

Publish(i, state) ==
    /\ Call /\ book[i].state = "scheduled" /\ book[i].at <= now
    /\ book' = [book EXCEPT ![i].state = state]
    /\ UNCHANGED <<series, now>>

Elapse(t) ==
    /\ t > now /\ now' = t
    /\ UNCHANGED <<book, series, calls>>

CalendarNext ==
    \/ \E t \in Moments : Schedule(t) \/ Elapse(t)
    \/ BookClip
    \/ \E s \in Series, end \in Horizons :
        \/ \E rule \in Rules :
            \/ ScheduleSeries(s, rule, end)
            \/ \E specs \in {<<FALSE, FALSE>>, <<FALSE, TRUE, FALSE>>} :
                    ScheduleBulk(s, rule, end, specs)
        \/ ExtendSeries(s, end)
    \/ \E s \in Series : CancelSeries(s)
    \/ \E i \in DOMAIN book :
        \/ Cancel(i) \/ LetGo(i)
        \/ \E t \in Moments : Reschedule(i, t)
        \/ \E state \in {"published", "failed"} : Publish(i, state)

CalendarSpec == CalendarInit /\ [][CalendarNext]_calendarVars

-----------------------------------------------------------------------------
(* Properties.                                                             *)

\* Two live posts of the account, each booked through the spacing check, are
\* not closer than the floor; nearest misses a live post only behind a settled
\* one ("Any post on this account within within_s of when").
SpacedApart ==
    \A i, j \in DOMAIN book :
        /\ i < j /\ ~Settled(book[i]) /\ ~Settled(book[j])
        /\ ~book[i].moved /\ ~book[j].moved
        /\ book[j].at - book[i].at < Spacing
        => \E k \in DOMAIN book :
               Settled(book[k]) /\ book[i].at <= book[k].at /\ book[k].at <= book[j].at

\* A rule whose interval has a beginning, and no limit of occurrences, which
\* every window counts anew.
Anchored(rule) == rule.max = 0 /\ (rule.interval = 1 \/ rule.starts_on # NoDay)

Laid(s) == series[s] # NoRule /\ Anchored(series[s].rule)

\* However often it was extended, a series holds what its rule asks for over
\* the whole range, and nothing else: a slot is missing only where it was
\* refused, or where a post of the series was moved ("Roll a materialised
\* series forward to a new horizon").
SeriesWhole ==
    \A s \in Series :
        Laid(s) =>
            LET asked == Fires(series[s].rule, series[s].from, series[s].until)
                have == {book[i].item : i \in RowsOf(s)} IN
            /\ asked \subseteq have \union series[s].refused
                 \/ \E i \in RowsOf(s) : book[i].moved
            /\ \A i \in RowsOf(s) :
                    book[i].item[1] >= series[s].from => book[i].item \in asked

\* A post of a series goes out when the zone's clocks show the time its rule
\* names, once a day, except on the days dst_report names.
ClockKept ==
    \A s \in Series :
        Laid(s) =>
            LET report == DstReport(series[s].rule, series[s].from, series[s].until)
                Slot(i) == <<book[i].item[2], book[i].item[3]>>
                InRange(i) == book[i].item[1] >= series[s].from IN
            /\ \A i \in RowsOf(s) :
                InRange(i) /\ ~book[i].moved =>
                    \/ Local(book[i].at) = Slot(i)[1] * DayLen + Slot(i)[2]
                    \/ Slot(i) \in report.shifted
            /\ \A i, j \in RowsOf(s) :
                i # j /\ Slot(i) = Slot(j) /\ InRange(i) /\ InRange(j)
                    /\ ~book[i].moved /\ ~book[j].moved =>
                        Slot(i) \in report.doubled
=============================================================================
