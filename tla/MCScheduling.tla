---------------------------- MODULE MCScheduling ----------------------------
(* An instance of Scheduling for TLC: days of four hours, an hour that does *)
(* not exist on day 2 and one that comes twice on day 4, months of five and *)
(* of three days, and rules of every frequency that meet them.              *)
EXTENDS Scheduling

Rule(frequency, times, days, interval, starts_on) ==
    [frequency |-> frequency, times |-> times, weekdays |-> days, month_days |-> days,
     interval |-> interval, starts_on |-> starts_on, ends_on |-> NoDay, max |-> 0,
     nonexistent |-> "shift", ambiguous |-> "first"]

MCRules ==
    {Rule("daily", {1, 2}, {}, 2, 2),
     [Rule("daily", {1}, {}, 1, NoDay) EXCEPT !.ambiguous = "both", !.ends_on = 5],
     [Rule("weekly", {2}, {0, 2}, 2, 1) EXCEPT !.nonexistent = "skip"],
     [Rule("monthly", {0}, {-1, 4}, 1, NoDay) EXCEPT !.max = 2]}

MCMonthLengths == <<5, 3, 5, 3, 5>>
=============================================================================
