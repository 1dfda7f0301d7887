------------------------ MODULE ChannelFactoryProofs ------------------------
(***************************************************************************)
(* What every row of a channel keeps, however many processes work on       *)
(* copies of it, lose them or write them over each other; and what every   *)
(* split of the quota is.                                                  *)
(***************************************************************************)
EXTENDS ChannelFactory, FairShare, FiniteSetTheorems, WellFoundedInduction, TLAPS

\* What may happen to a row or a copy in the hands of any process.
Recorded(r) == r.failures >= Threshold => r.opened # Never

LEMMA MonthType == ASSUME NEW t \in Nat PROVE Month(t) \in Nat
  BY ChannelFactoryAssumption DEF Month

\* The bookkeeping keeps the type of a row ...
LEMMA RowTypes ==
    ASSUME NEW r \in ChannelRow, NEW t \in Nat
    PROVE  /\ Roll(r, t) \in ChannelRow
           /\ \A n \in Nat : Charge(r, n) \in ChannelRow
           /\ Success(r) \in ChannelRow
           /\ Failure(r, t) \in ChannelRow
           /\ Refuse(r, t) \in ChannelRow
           /\ Activated(r) \in ChannelRow
           /\ \A s \in States : [r EXCEPT !.state = s] \in ChannelRow
<1> USE DEF ChannelRow, States
<1>1. Roll(r, t) \in ChannelRow
  BY MonthType DEF Roll
<1>2. \A n \in Nat : Charge(r, n) \in ChannelRow
  BY DEF Charge
<1>3. Success(r) \in ChannelRow
  BY DEF Success
<1>4. r.failures + 1 \in Nat
  OBVIOUS
<1>5. Failure(r, t) \in ChannelRow
  BY <1>4 DEF Failure, Never
<1>6. Refuse(r, t) \in ChannelRow
  BY DEF Refuse
<1>7. Activated(r) \in ChannelRow
  BY DEF Activated
<1>8. \A s \in States : [r EXCEPT !.state = s] \in ChannelRow
  OBVIOUS
<1> QED  BY <1>1, <1>2, <1>3, <1>5, <1>6, <1>7, <1>8

\* ... and a tripped breaker recorded: a failure that reaches the threshold
\* opens it, and who closes it forgets the streak.
LEMMA RowRecorded ==
    ASSUME NEW r \in ChannelRow, NEW t \in Nat, Recorded(r)
    PROVE  /\ Recorded(Roll(r, t))
           /\ \A n \in Nat : Recorded(Charge(r, n))
           /\ Recorded(Success(r))
           /\ Recorded(Failure(r, t))
           /\ Recorded(Refuse(r, t))
           /\ Recorded(Activated(r))
           /\ \A s \in States : Recorded([r EXCEPT !.state = s])
  BY ChannelFactoryAssumption
  DEF ChannelRow, Roll, Charge, Success, Failure, Refuse, Activated, States, Never, Recorded

\* An item's outcome is made of these.
LEMMA OutcomeKeeps ==
    ASSUME NEW r \in ChannelRow, Recorded(r), NEW t \in Nat, NEW o \in Outcomes(r, t)
    PROVE  o.row \in ChannelRow /\ Recorded(o.row) /\ o.cost \in Nat
<1>1. \A n \in 0..Cost : n \in Nat
  BY ChannelFactoryAssumption
<1>2. \A n \in 0..(Cost - 1) : n \in Nat
  BY ChannelFactoryAssumption
<1>3. \A n \in Nat : Charge(r, n) \in ChannelRow /\ Recorded(Charge(r, n))
  BY RowTypes, RowRecorded
<1>4. CASE o \in Blocked(r)
  BY <1>1, <1>3, <1>4 DEF Blocked
<1>5. CASE \E n \in 0..(Cost - 1) :
             o = [row |-> Failure(Charge(r, n), t), cost |-> n, placed |-> FALSE]
  BY <1>2, <1>3, <1>5, RowTypes, RowRecorded
<1>6. CASE o = [row |-> Success(Charge(r, Cost)), cost |-> Cost, placed |-> TRUE]
  BY <1>3, <1>6, RowTypes, RowRecorded, ChannelFactoryAssumption
<1> QED  BY <1>4, <1>5, <1>6 DEF Outcomes

RowsRecorded ==
    /\ \A c \in Channels : Recorded(row[c])
    /\ \A p \in Processes : Recorded(copy[p])

\* A process at work has somebody's row.
FactoryHolds ==
    step \in {"items", "save", "raised", "again"} => held["factory"] \in Channels

Inv == TypeOK /\ RowsRecorded /\ FactoryHolds

LEMMA FreshKeeps == Fresh \in ChannelRow /\ Recorded(Fresh)
  BY ChannelFactoryAssumption DEF Fresh, ChannelRow, States, Never, Recorded

LEMMA SpentType == ASSUME NEW b \in Books, NEW n \in Nat PROVE Spent(b, n) \in Books
<1>1. Disturbed \in Books
  BY DEF Disturbed, Books
<1>2. b.owed + n \in Nat /\ b.bill + n \in Nat
  BY DEF Books
<1>3. ASSUME NEW i \in Nat, NEW j \in Nat
      PROVE  [b EXCEPT !.owed = i, !.bill = j] \in Books
  BY Zenon DEF Books
<1> QED  BY <1>1, <1>2, <1>3 DEF Spent

LEMMA InitInv == Init => Inv
<1> SUFFICES ASSUME Init PROVE Inv
  OBVIOUS
<1>1. Fresh \in ChannelRow /\ [Fresh EXCEPT !.state = "active"] \in ChannelRow
      /\ Recorded(Fresh) /\ Recorded([Fresh EXCEPT !.state = "active"])
  BY FreshKeeps DEF Fresh, ChannelRow, States, Never, Recorded
<1>2. TypeOK
  <2>1. MaxTime \in Nat /\ MaxCycles \in Nat /\ MaxEvents \in Nat
    BY ChannelFactoryAssumption
  <2> QED  BY <1>1, <2>1 DEF Init, TypeOK, Books, Processes
<1>3. RowsRecorded /\ FactoryHolds
  BY <1>1 DEF Init, RowsRecorded, FactoryHolds
<1> QED  BY <1>2, <1>3 DEF Inv

\* Taking a copy, when what is made of the row is in order.
LEMMA TakeKeeps ==
    ASSUME TypeOK, RowsRecorded, NEW p \in Processes, NEW c \in Channels,
           NEW r \in ChannelRow, Recorded(r), NEW n \in Nat, Take(p, c, r, n)
    PROVE  /\ held' \in [Processes -> Channels \union {Nobody}] /\ held'[p] = c
           /\ copy' \in [Processes -> ChannelRow]
           /\ \A q \in Processes : Recorded(copy'[q])
           /\ books' \in [Channels -> Books]
<1>1. books[c] \in Books /\ [books[c] EXCEPT !.owed = 0] \in Books /\ Disturbed \in Books
  BY DEF TypeOK, Books, Disturbed
<1>2. Spent(books[c], n) \in Books /\ Spent([books[c] EXCEPT !.owed = 0], n) \in Books
  BY <1>1, SpentType
<1> QED  BY <1>1, <1>2 DEF Take, TypeOK, RowsRecorded

\* Making something orderly of a copy, and storing something orderly.
LEMMA CopyKeeps ==
    ASSUME TypeOK, RowsRecorded, NEW p \in Processes,
           NEW r \in ChannelRow, Recorded(r), copy' = [copy EXCEPT ![p] = r]
    PROVE  copy' \in [Processes -> ChannelRow] /\ \A q \in Processes : Recorded(copy'[q])
  BY DEF TypeOK, RowsRecorded

LEMMA RowKeeps ==
    ASSUME TypeOK, RowsRecorded, NEW c \in Channels,
           NEW r \in ChannelRow, Recorded(r), row' = [row EXCEPT ![c] = r]
    PROVE  row' \in [Channels -> ChannelRow] /\ \A d \in Channels : Recorded(row'[d])
  BY DEF TypeOK, RowsRecorded

LEMMA CostIsCharged ==
    ASSUME TypeOK, NEW c \in Channels, NEW n \in Nat,
           books' = [books EXCEPT ![c] = Spent(books[c], n)]
    PROVE  books' \in [Channels -> Books]
  BY SpentType DEF TypeOK

-----------------------------------------------------------------------------
(* The cycle.                                                              *)

LEMMA CycleSteps ==
    ASSUME Inv, StartCycle \/ EndCycle
    PROVE  Inv'
<1> USE DEF Inv
<1>1. CASE StartCycle
  <2>1. plan' \in [Channels -> 0..Capacity]
    BY <1>1 DEF StartCycle, Plans
  <2>2. plan' \in [Channels -> Nat]
    BY <2>1, ChannelFactoryAssumption
  <2>3. cycles' \in 0..MaxCycles
    BY <1>1, ChannelFactoryAssumption DEF StartCycle, TypeOK
  <2>4. TypeOK'
    BY <1>1, <2>2, <2>3 DEF StartCycle, TypeOK
  <2>5. RowsRecorded' /\ FactoryHolds'
    BY <1>1 DEF StartCycle, RowsRecorded, FactoryHolds, Recorded
  <2> QED  BY <2>4, <2>5
<1>2. CASE EndCycle
  <2>1. TypeOK'
    BY <1>2, ChannelFactoryAssumption DEF EndCycle, Forget, TypeOK
  <2>2. RowsRecorded' /\ FactoryHolds'
    BY <1>2 DEF EndCycle, Forget, RowsRecorded, FactoryHolds, Recorded
  <2> QED  BY <2>1, <2>2
<1> QED  BY <1>1, <1>2

LEMMA RunSteps ==
    ASSUME Inv, NEW c \in Channels, Run(c)
    PROVE  Inv'
<1> USE DEF Inv
<1> DEFINE r == Roll(row[c], at)
<1>1. at \in Nat /\ row[c] \in ChannelRow /\ Recorded(row[c]) /\ "factory" \in Processes
  BY ChannelFactoryAssumption DEF TypeOK, RowsRecorded, Processes
<1>2. r \in ChannelRow /\ Recorded(r)
  BY <1>1, RowTypes, RowRecorded
<1>3. /\ Refuse(r, at) \in ChannelRow /\ Recorded(Refuse(r, at))
      /\ Failure(r, at) \in ChannelRow /\ Recorded(Failure(r, at))
  BY <1>1, <1>2, RowTypes, RowRecorded
<1> HIDE DEF r
<1>4. PICK s \in ChannelRow : Recorded(s) /\ Take("factory", c, s, 0)
  BY <1>2, <1>3 DEF Run, r
<1>5. left' \in Nat /\ step' \in {"save", "items"}
  BY ChannelFactoryAssumption DEF Run, TypeOK
<1>6. 0 \in Nat
  OBVIOUS
<1>7. /\ held' \in [Processes -> Channels \union {Nobody}] /\ held'["factory"] = c
      /\ copy' \in [Processes -> ChannelRow] /\ \A q \in Processes : Recorded(copy'[q])
      /\ books' \in [Channels -> Books]
  BY <1>1, <1>4, <1>6, TakeKeeps
<1>8. TypeOK'
  BY <1>5, <1>7 DEF Run, TypeOK
<1>9. RowsRecorded' /\ FactoryHolds'
  BY <1>7 DEF Run, RowsRecorded, FactoryHolds, Recorded
<1> QED  BY <1>8, <1>9

LEMMA ItemSteps ==
    ASSUME Inv, Item \/ ItemRaises \/ LastItem
    PROVE  Inv'
<1> USE DEF Inv
<1> DEFINE c == held["factory"]
           r == copy["factory"]
<1>1. /\ at \in Nat /\ "factory" \in Processes
      /\ c \in Channels /\ r \in ChannelRow /\ Recorded(r)
  BY ChannelFactoryAssumption
  DEF TypeOK, RowsRecorded, FactoryHolds, Processes, Item, ItemRaises, LastItem
<1>2. CASE Item
  <2>1. PICK o \in Outcomes(r, at) :
              /\ copy' = [copy EXCEPT !["factory"] = o.row]
              /\ books' = [books EXCEPT ![c] = Spent(books[c], o.cost)]
              /\ placed' = [placed EXCEPT ![c] = IF o.placed THEN placed[c] + 1 ELSE placed[c]]
    BY <1>2 DEF Item
  <2>2. o.row \in ChannelRow /\ Recorded(o.row) /\ o.cost \in Nat
    BY <1>1, OutcomeKeeps
  <2>3. copy' \in [Processes -> ChannelRow] /\ \A q \in Processes : Recorded(copy'[q])
    BY <1>1, <2>1, <2>2, CopyKeeps
  <2>4. books' \in [Channels -> Books]
    BY <1>1, <2>1, <2>2, CostIsCharged
  <2>5. placed' \in [Channels -> Nat]
    BY <1>1, <2>1 DEF TypeOK
  <2>6. left' \in Nat
    BY <1>2 DEF Item, More, TypeOK
  <2>7. TypeOK'
    BY <1>2, <2>3, <2>4, <2>5, <2>6 DEF Item, TypeOK
  <2>8. RowsRecorded' /\ FactoryHolds'
    BY <1>2, <2>3 DEF Item, RowsRecorded, FactoryHolds, Recorded
  <2> QED  BY <2>7, <2>8
<1>3. CASE ItemRaises
  <2>1. Charge(r, Cost) \in ChannelRow /\ Recorded(Charge(r, Cost)) /\ Cost \in Nat
    BY <1>1, RowTypes, RowRecorded, ChannelFactoryAssumption
  <2>2. copy' \in [Processes -> ChannelRow] /\ \A q \in Processes : Recorded(copy'[q])
    BY <1>1, <1>3, <2>1, CopyKeeps DEF ItemRaises
  <2>3. books' \in [Channels -> Books]
    BY <1>1, <1>3, <2>1, CostIsCharged DEF ItemRaises
  <2>4. TypeOK'
    BY <1>3, <2>2, <2>3 DEF ItemRaises, TypeOK
  <2>5. RowsRecorded' /\ FactoryHolds'
    BY <1>3, <2>2 DEF ItemRaises, RowsRecorded, FactoryHolds, Recorded
  <2> QED  BY <2>4, <2>5
<1>4. CASE LastItem
  <2>1. [r EXCEPT !.state = "budget_exhausted"] \in ChannelRow
        /\ Recorded([r EXCEPT !.state = "budget_exhausted"])
    BY <1>1, RowTypes, RowRecorded DEF States
  <2>2. copy' \in [Processes -> ChannelRow] /\ \A q \in Processes : Recorded(copy'[q])
    BY <1>1, <1>4, <2>1, CopyKeeps DEF LastItem
  <2>3. TypeOK'
    BY <1>4, <2>2 DEF LastItem, TypeOK
  <2>4. RowsRecorded' /\ FactoryHolds'
    BY <1>4, <2>2 DEF LastItem, RowsRecorded, FactoryHolds, Recorded
  <2> QED  BY <2>3, <2>4
<1> QED  BY <1>2, <1>3, <1>4

\* Writing a copy back: what is stored is what the copy was.
LEMMA PutKeeps ==
    ASSUME TypeOK, RowsRecorded, NEW p \in Processes, held[p] \in Channels, Put(p)
    PROVE  /\ row' \in [Channels -> ChannelRow] /\ \A c \in Channels : Recorded(row'[c])
           /\ held' = [held EXCEPT ![p] = Nobody]
           /\ held' \in [Processes -> Channels \union {Nobody}]
           /\ copy' \in [Processes -> ChannelRow] /\ \A q \in Processes : Recorded(copy'[q])
<1>1. copy[p] \in ChannelRow /\ Recorded(copy[p])
  BY DEF TypeOK, RowsRecorded
<1>2. row' \in [Channels -> ChannelRow] /\ \A c \in Channels : Recorded(row'[c])
  BY <1>1, RowKeeps DEF Put
<1>3. copy' \in [Processes -> ChannelRow] /\ \A q \in Processes : Recorded(copy'[q])
  BY FreshKeeps, CopyKeeps DEF Put
<1> QED  BY <1>2, <1>3 DEF Put, TypeOK

LEMMA SaveSteps ==
    ASSUME Inv, Save \/ SaveRaised \/ CountRaised
    PROVE  Inv'
<1> USE DEF Inv
<1>1. "factory" \in Processes /\ held["factory"] \in Channels /\ now \in Nat
  BY ChannelFactoryAssumption DEF TypeOK, FactoryHolds, Processes, Save, SaveRaised, CountRaised
<1>2. CASE Save
  <2>1. /\ row' \in [Channels -> ChannelRow] /\ \A c \in Channels : Recorded(row'[c])
        /\ held' \in [Processes -> Channels \union {Nobody}]
        /\ copy' \in [Processes -> ChannelRow] /\ \A q \in Processes : Recorded(copy'[q])
    BY <1>1, <1>2, PutKeeps DEF Save
  <2>2. TypeOK'
    BY <1>2, <2>1 DEF Save, TypeOK
  <2>3. RowsRecorded' /\ FactoryHolds'
    BY <1>2, <2>1 DEF Save, RowsRecorded, FactoryHolds, Recorded
  <2> QED  BY <2>2, <2>3
<1>3. CASE SaveRaised
  <2>1. copy["factory"] \in ChannelRow /\ Recorded(copy["factory"])
    BY <1>1 DEF TypeOK, RowsRecorded
  <2>2. row' \in [Channels -> ChannelRow] /\ \A c \in Channels : Recorded(row'[c])
    BY <1>1, <1>3, <2>1, RowKeeps DEF SaveRaised
  <2>3. TypeOK'
    BY <1>3, <2>2 DEF SaveRaised, TypeOK
  <2>4. RowsRecorded' /\ FactoryHolds'
    BY <1>1, <1>3, <2>2 DEF SaveRaised, RowsRecorded, FactoryHolds, Recorded
  <2> QED  BY <2>3, <2>4
<1>4. CASE CountRaised
  <2> DEFINE r == row[held["factory"]]
  <2>1. r \in ChannelRow /\ Recorded(r)
    BY <1>1 DEF TypeOK, RowsRecorded
  <2>2. Failure(r, now) \in ChannelRow /\ Recorded(Failure(r, now))
    BY <1>1, <2>1, RowTypes, RowRecorded
  <2>3. copy' \in [Processes -> ChannelRow] /\ \A q \in Processes : Recorded(copy'[q])
    BY <1>1, <1>4, <2>1, <2>2, CopyKeeps DEF CountRaised
  <2>4. TypeOK'
    BY <1>4, <2>3 DEF CountRaised, TypeOK
  <2>5. RowsRecorded' /\ FactoryHolds'
    BY <1>1, <1>4, <2>3 DEF CountRaised, RowsRecorded, FactoryHolds, Recorded
  <2> QED  BY <2>4, <2>5
<1> QED  BY <1>2, <1>3, <1>4

-----------------------------------------------------------------------------
(* Everybody else.                                                         *)

LEMMA SelectorSteps ==
    ASSUME Inv, NEW p \in Selectors,
           SaveSelection(p) \/ \E c \in Channels : Select(p, c)
    PROVE  Inv'
<1> USE DEF Inv
<1>1. p \in Processes /\ p # "factory" /\ now \in Nat
  BY ChannelFactoryAssumption DEF TypeOK, Processes
<1>2. CASE SaveSelection(p)
  <2>1. held[p] \in Channels
    BY <1>1, <1>2 DEF SaveSelection, TypeOK
  <2>2. /\ row' \in [Channels -> ChannelRow] /\ \A c \in Channels : Recorded(row'[c])
        /\ held' = [held EXCEPT ![p] = Nobody]
        /\ held' \in [Processes -> Channels \union {Nobody}]
        /\ copy' \in [Processes -> ChannelRow] /\ \A q \in Processes : Recorded(copy'[q])
    BY <1>1, <1>2, <2>1, PutKeeps DEF SaveSelection
  <2>3. TypeOK'
    BY <1>2, <2>2 DEF SaveSelection, cycle, TypeOK
  <2>4. RowsRecorded' /\ FactoryHolds'
    BY <1>1, <1>2, <2>2
    DEF SaveSelection, cycle, TypeOK, Processes, RowsRecorded, FactoryHolds, Recorded
  <2> QED  BY <2>3, <2>4
<1>3. ASSUME NEW c \in Channels, Select(p, c)
      PROVE  Inv'
  <2>1. row[c] \in ChannelRow /\ Recorded(row[c])
    BY DEF TypeOK, RowsRecorded
  <2>2. PICK o \in Outcomes(row[c], now) : Take(p, c, o.row, o.cost)
    BY <1>3 DEF Select
  <2>3. o.row \in ChannelRow /\ Recorded(o.row) /\ o.cost \in Nat
    BY <1>1, <2>1, OutcomeKeeps
  <2>4. /\ held' \in [Processes -> Channels \union {Nobody}]
        /\ copy' \in [Processes -> ChannelRow] /\ \A q \in Processes : Recorded(copy'[q])
        /\ books' \in [Channels -> Books]
    BY <1>1, <2>2, <2>3, TakeKeeps
  <2>5. held' = [held EXCEPT ![p] = c]
    BY <2>2 DEF Take
  <2>6. events' \in 0..MaxEvents
    BY <1>3, ChannelFactoryAssumption DEF Select, Happens, TypeOK
  <2>7. TypeOK'
    BY <1>3, <2>4, <2>6 DEF Select, cycle, TypeOK
  <2>8. RowsRecorded' /\ FactoryHolds'
    BY <1>1, <1>3, <2>4, <2>5
    DEF Select, cycle, TypeOK, Processes, RowsRecorded, FactoryHolds, Recorded
  <2> QED  BY <2>7, <2>8
<1> QED  BY <1>2, <1>3

LEMMA LoseSteps ==
    ASSUME Inv, NEW p \in Processes, Lose(p)
    PROVE  Inv'
<1> USE DEF Inv
<1>1. held' \in [Processes -> Channels \union {Nobody}]
  BY DEF Lose, TypeOK
<1>2. copy' \in [Processes -> ChannelRow] /\ \A q \in Processes : Recorded(copy'[q])
  BY FreshKeeps, CopyKeeps DEF Lose
<1>3. books' \in [Channels -> Books]
  <2>1. Disturbed \in Books
    BY DEF Disturbed, Books
  <2> QED  BY <2>1 DEF Lose, TypeOK
<1>4. events' \in 0..MaxEvents
  BY ChannelFactoryAssumption DEF Lose, Happens, TypeOK
<1>5. CASE p = "factory"
  <2>1. TypeOK'
    BY <1>1, <1>2, <1>3, <1>4, <1>5, ChannelFactoryAssumption DEF Lose, Forget, TypeOK
  <2>2. RowsRecorded' /\ FactoryHolds'
    BY <1>2, <1>5 DEF Lose, Forget, RowsRecorded, FactoryHolds, Recorded
  <2> QED  BY <2>1, <2>2
<1>6. CASE p # "factory"
  <2>1. TypeOK'
    BY <1>1, <1>2, <1>3, <1>4, <1>6 DEF Lose, cycle, TypeOK
  <2>2. RowsRecorded' /\ FactoryHolds'
    BY <1>2, <1>6 DEF Lose, cycle, TypeOK, Processes, RowsRecorded, FactoryHolds, Recorded
  <2> QED  BY <2>1, <2>2
<1> QED  BY <1>5, <1>6

LEMMA SetStateSteps ==
    ASSUME Inv, NEW c \in Channels, SetState(c)
    PROVE  Inv'
<1> USE DEF Inv
<1>1. row[c] \in ChannelRow /\ Recorded(row[c]) /\ 0 \in Nat
  BY DEF TypeOK, RowsRecorded
<1>2. PICK r \in ChannelRow : Recorded(r) /\ row' = [row EXCEPT ![c] = r]
  <2>1. CASE row' = [row EXCEPT ![c] = Activated(row[c])]
    BY <1>1, <2>1, RowTypes, RowRecorded
  <2>2. CASE \E s \in {"draft", "paused"} : row' = [row EXCEPT ![c].state = s]
    <3>1. PICK s \in {"draft", "paused"} : row' = [row EXCEPT ![c].state = s]
      BY <2>2
    <3>2. s \in States
      BY DEF States
    <3>3. [row[c] EXCEPT !.state = s] \in ChannelRow /\ Recorded([row[c] EXCEPT !.state = s])
      BY <1>1, <3>2, RowTypes, RowRecorded
    <3> QED  BY <3>1, <3>3
  <2> QED  BY <2>1, <2>2 DEF SetState
<1>3. row' \in [Channels -> ChannelRow] /\ \A d \in Channels : Recorded(row'[d])
  BY <1>2, RowKeeps
<1>4. events' \in 0..MaxEvents
  BY ChannelFactoryAssumption DEF SetState, Happens, TypeOK
<1>5. TypeOK'
  BY <1>3, <1>4 DEF SetState, cycle, TypeOK
<1>6. RowsRecorded' /\ FactoryHolds'
  BY <1>3 DEF SetState, cycle, RowsRecorded, FactoryHolds, Recorded
<1> QED  BY <1>5, <1>6

LEMMA TickSteps ==
    ASSUME Inv, Tick
    PROVE  Inv'
<1> USE DEF Inv
<1>1. now' \in 0..MaxTime
  BY ChannelFactoryAssumption DEF Tick, TypeOK
<1>2. \A c \in Channels : books[c] \in Books /\ [books[c] EXCEPT !.bill = 0] \in Books
  BY DEF TypeOK, Books
<1>3. books' \in [Channels -> Books]
  BY <1>2 DEF Tick, TypeOK
<1>4. TypeOK'
  BY <1>1, <1>3 DEF Tick, cycle, TypeOK
<1>5. RowsRecorded' /\ FactoryHolds'
  BY DEF Tick, cycle, RowsRecorded, FactoryHolds, Recorded
<1> QED  BY <1>4, <1>5

-----------------------------------------------------------------------------
(* What Spec keeps.                                                        *)

LEMMA NextInv == Inv /\ [Next]_vars => Inv'
<1> SUFFICES ASSUME Inv, [Next]_vars PROVE Inv'
  OBVIOUS
<1>1. CASE Factory
  BY <1>1, CycleSteps, RunSteps, ItemSteps, SaveSteps DEF Factory
<1>2. CASE \E p \in Selectors : SaveSelection(p) \/ \E c \in Channels : Select(p, c)
  BY <1>2, SelectorSteps
<1>3. CASE \E p \in Processes : Lose(p)
  BY <1>3, LoseSteps
<1>4. CASE \E c \in Channels : SetState(c)
  BY <1>4, SetStateSteps
<1>5. CASE Tick
  BY <1>5, TickSteps
<1>6. CASE UNCHANGED vars
  BY <1>6 DEF vars, cycle, Inv, TypeOK, RowsRecorded, FactoryHolds, Recorded
<1> QED  BY <1>1, <1>2, <1>3, <1>4, <1>5, <1>6 DEF Next, Over

LEMMA SpecInv == Spec => []Inv
  BY InitInv, NextInv, PTL DEF Spec

\* Rows, copies and the factory's cycle keep their types, for any channels,
\* workers, budgets, thresholds and interleaving.
THEOREM TypeCorrect == Spec => []TypeOK
  BY SpecInv, PTL DEF Inv

\* A failure streak at the threshold always has its breaker opened, whichever
\* copies are lost or saved over each other and whatever operators do: what
\* to_channel_record stores of a tripped channel says that it tripped.
THEOREM TripStaysRecorded == Spec => []TrippedIsRecorded
<1>1. Inv => TrippedIsRecorded
  BY DEF Inv, RowsRecorded, TrippedIsRecorded, Recorded
<1> QED  BY <1>1, SpecInv, PTL

-----------------------------------------------------------------------------
(* What a channel spends.  A record never shows more than a month's budget *)
(* because every charge is asked of it first; and while one process at a   *)
(* time works on a channel, the record in its hands, or the row, is the    *)
(* account of all that was spent since the month on it began.              *)

\* No record shows more than the month's budget.
Affordable(r) == r.spent <= Monthly

RowsAffordable ==
    /\ \A c \in Channels : Affordable(row[c])
    /\ \A p \in Processes : Affordable(copy[p])

\* Between channels the factory holds no row, and an idle one has none to run.
FactoryFree ==
    /\ step \in {"idle", "between"} => held["factory"] = Nobody
    /\ step = "idle" => todo = {}

\* What may have left c's account this month, by its record r: what the record
\* shows, before a cycle that began last month has come to c; a month's budget
\* more once it has, and another once a cycle of this month has.
Billed(c, r, bill) ==
    IF c \in todo /\ Month(at) # Month(now) THEN bill <= r.spent
    ELSE IF r.period # Month(now) THEN bill <= Monthly + r.spent
    ELSE bill <= 2 * Monthly + r.spent

Settled(c, r) == books[c].owed = r.spent /\ Billed(c, r, books[c].bill)

\* A channel that nobody disturbs is in one hand, whose copy is the account of
\* it; in nobody's, its row is.
Alone(c) == \A p, q \in Processes : held[p] = c /\ held[q] = c => p = q

InHand(c) == \A p \in Processes : held[p] = c => Settled(c, copy[p])

AtRest(c) == (\A p \in Processes : held[p] # c) => Settled(c, row[c])

\* A cycle that raised has saved its copy, and is about to read it again.
ReadAgain(c) ==
    step = "again" /\ held["factory"] = c =>
        /\ row[c].spent = copy["factory"].spent
        /\ row[c].period = copy["factory"].period

Account(c) == books[c].calm => Alone(c) /\ InHand(c) /\ AtRest(c) /\ ReadAgain(c)

Accounts == \A c \in Channels : Account(c)

\* The bookkeeping spends what it is told, on the month the row is in.
LEMMA RowSpends ==
    ASSUME NEW r \in ChannelRow, NEW t \in Nat
    PROVE  /\ \A n \in Nat : Charge(r, n).spent = r.spent + n /\ Charge(r, n).period = r.period
           /\ Success(r).spent = r.spent /\ Success(r).period = r.period
           /\ Failure(r, t).spent = r.spent /\ Failure(r, t).period = r.period
           /\ Refuse(r, t).spent = r.spent /\ Refuse(r, t).period = r.period
           /\ Activated(r).spent = r.spent /\ Activated(r).period = r.period
           /\ \A s \in States :
                [r EXCEPT !.state = s].spent = r.spent /\ [r EXCEPT !.state = s].period = r.period
  BY DEF ChannelRow, Charge, Success, Failure, Refuse, Activated

\* Rolled to a month, a row is in it, and its account starts anew if it was not.
LEMMA RollSpends ==
    ASSUME NEW r \in ChannelRow, NEW t \in Nat
    PROVE  /\ Roll(r, t).period = Month(t)
           /\ r.period = Month(t) => Roll(r, t).spent = r.spent
           /\ r.period # Month(t) => Roll(r, t).spent = 0
  BY DEF ChannelRow, Roll

\* An item costs what is charged for it, and no more than can be afforded.
LEMMA OutcomeSpends ==
    ASSUME NEW r \in ChannelRow, NEW t \in Nat, NEW o \in Outcomes(r, t)
    PROVE  /\ o.cost \in Nat
           /\ o.row.spent = r.spent + o.cost /\ o.row.period = r.period
           /\ Affordable(r) => Affordable(o.row)
<1>0. r.spent \in Nat /\ Monthly \in Nat /\ Cost \in Nat
  BY ChannelFactoryAssumption DEF ChannelRow
<1>c. \A n \in 0..Cost : n \in Nat /\ n <= Cost
  BY <1>0
<1>r. \A n \in Nat : Charge(r, n) \in ChannelRow
  BY RowTypes
<1>1. CASE o \in Blocked(r)
  <2>1. PICK n \in IF CanAfford(r) THEN 0..Cost ELSE {0} :
            o = [row |-> Charge(r, n), cost |-> n, placed |-> FALSE]
    BY <1>1 DEF Blocked
  <2>2. n \in Nat /\ ((CanAfford(r) /\ n <= Cost) \/ n = 0)
    BY <1>0, <1>c
  <2>3. o.cost = n /\ o.row.spent = r.spent + n /\ o.row.period = r.period
    BY <2>1, <2>2, RowSpends
  <2> QED  BY <1>0, <2>2, <2>3 DEF Affordable, CanAfford
<1>2. ASSUME CanAfford(r), NEW n \in 0..(Cost - 1),
             o = [row |-> Failure(Charge(r, n), t), cost |-> n, placed |-> FALSE]
      PROVE  /\ o.cost \in Nat
             /\ o.row.spent = r.spent + o.cost /\ o.row.period = r.period
             /\ Affordable(r) => Affordable(o.row)
  <2>1. n \in Nat /\ n <= Cost
    BY <1>0
  <2>2. o.cost = n /\ o.row.spent = r.spent + n /\ o.row.period = r.period
    BY <1>2, <1>r, <2>1, RowSpends
  <2> QED  BY <1>0, <1>2, <2>1, <2>2 DEF Affordable, CanAfford
<1>3. ASSUME CanAfford(r),
             o = [row |-> Success(Charge(r, Cost)), cost |-> Cost, placed |-> TRUE]
      PROVE  /\ o.cost \in Nat
             /\ o.row.spent = r.spent + o.cost /\ o.row.period = r.period
             /\ Affordable(r) => Affordable(o.row)
  <2>1. o.cost = Cost /\ o.row.spent = r.spent + Cost /\ o.row.period = r.period
    BY <1>0, <1>3, <1>r, RowSpends
  <2> QED  BY <1>0, <1>3, <2>1 DEF Affordable, CanAfford
<1> QED  BY <1>1, <1>2, <1>3 DEF Outcomes

\* Spending n of a calm channel adds it to both of its books.
LEMMA SpentAdds ==
    ASSUME NEW b \in Books, NEW n \in Nat, b.calm
    PROVE  /\ Spent(b, n).calm
           /\ Spent(b, n).owed = b.owed + n
           /\ Spent(b, n).bill = b.bill + n
  BY DEF Books, Spent

LEMMA SpentCalm ==
    ASSUME NEW b \in Books, NEW n \in Nat, Spent(b, n).calm
    PROVE  b.calm
  BY DEF Spent, Disturbed

BudgetInv == Inv /\ RowsAffordable /\ FactoryFree /\ Accounts

-----------------------------------------------------------------------------
(* Each step and the accounts.                                             *)

LEMMA AffordableStep ==
    ASSUME Inv, RowsAffordable, [Next]_vars
    PROVE  RowsAffordable'
<1>0. /\ TypeOK /\ FactoryHolds /\ at \in Nat /\ now \in Nat /\ "factory" \in Processes
      /\ \A c \in Channels : row[c] \in ChannelRow /\ Affordable(row[c])
      /\ \A p \in Processes : copy[p] \in ChannelRow /\ Affordable(copy[p])
      /\ Monthly \in Nat /\ Cost \in Nat
  BY ChannelFactoryAssumption DEF Inv, TypeOK, RowsAffordable, Processes
<1>f. Affordable(Fresh)
  BY <1>0 DEF Affordable, Fresh
<1>m. ASSUME row' = row, NEW p \in Processes, NEW r, Affordable(r),
             copy' = [copy EXCEPT ![p] = r]
      PROVE  RowsAffordable'
  BY <1>0, <1>m DEF RowsAffordable, TypeOK, Affordable
<1>s. ASSUME NEW c \in Channels, NEW r, Affordable(r), row' = [row EXCEPT ![c] = r],
             \/ copy' = copy
             \/ \E p \in Processes : copy' = [copy EXCEPT ![p] = Fresh]
      PROVE  RowsAffordable'
  BY <1>0, <1>f, <1>s DEF RowsAffordable, TypeOK, Affordable
<1>1. CASE row' = row /\ copy' = copy
  BY <1>1 DEF RowsAffordable, Affordable
<1>2. ASSUME NEW c \in Channels, Run(c) PROVE RowsAffordable'
  <2> DEFINE r == Roll(row[c], at)
  <2>a. row[c] \in ChannelRow /\ row[c].spent <= Monthly
    BY <1>0 DEF Affordable
  <2>b. r \in ChannelRow
    BY <1>0, <2>a, RowTypes
  <2>c. r.spent = row[c].spent \/ r.spent = 0
    BY <1>0, <2>a, RollSpends
  <2>1. r \in ChannelRow /\ Affordable(r)
    BY <1>0, <2>a, <2>b, <2>c DEF Affordable
  <2>2. Affordable(Refuse(r, at)) /\ Affordable(Failure(r, at))
    BY <1>0, <2>1, RowSpends DEF Affordable
  <2> HIDE DEF r
  <2>3. PICK s : Affordable(s) /\ Take("factory", c, s, 0)
    BY <1>2, <2>1, <2>2 DEF Run, r
  <2> QED  BY <1>0, <1>2, <1>m, <2>3 DEF Run, Take
<1>3. CASE Item
  <2>1. PICK o \in Outcomes(copy["factory"], at) : copy' = [copy EXCEPT !["factory"] = o.row]
    BY <1>3 DEF Item
  <2> QED  BY <1>0, <1>3, <1>m, <2>1, OutcomeSpends DEF Item
<1>4. CASE ItemRaises
  <2>1. Affordable(Charge(copy["factory"], Cost))
    BY <1>0, <1>4, RowSpends DEF ItemRaises, CanAfford, Affordable
  <2> QED  BY <1>0, <1>4, <1>m, <2>1 DEF ItemRaises
<1>5. CASE LastItem
  <2>1. Affordable([copy["factory"] EXCEPT !.state = "budget_exhausted"])
    BY <1>0, RowSpends DEF Affordable, States
  <2> QED  BY <1>0, <1>5, <1>m, <2>1 DEF LastItem
<1>6. ASSUME NEW p \in Processes, held[p] \in Channels, Put(p) PROVE RowsAffordable'
  BY <1>0, <1>6, <1>s DEF Put
<1>7. CASE SaveRaised
  <2>1. held["factory"] \in Channels
    BY <1>0, <1>7 DEF SaveRaised, FactoryHolds
  <2> QED  BY <1>0, <1>7, <1>s, <2>1 DEF SaveRaised
<1>8. CASE CountRaised
  <2>1. held["factory"] \in Channels
    BY <1>0, <1>8 DEF CountRaised, FactoryHolds
  <2>2. Affordable(Failure(row[held["factory"]], now))
    BY <1>0, <2>1, RowSpends DEF Affordable
  <2> QED  BY <1>0, <1>8, <1>m, <2>1, <2>2 DEF CountRaised
<1>9. ASSUME NEW p \in Selectors, NEW c \in Channels, Select(p, c) PROVE RowsAffordable'
  <2>1. PICK o \in Outcomes(row[c], now) : Take(p, c, o.row, o.cost)
    BY <1>9 DEF Select
  <2>2. p \in Processes
    BY DEF Processes
  <2> QED  BY <1>0, <1>9, <1>m, <2>1, <2>2, OutcomeSpends DEF Select, Take
<1>10. ASSUME NEW p \in Processes, Lose(p) PROVE RowsAffordable'
  BY <1>0, <1>f, <1>10, <1>m DEF Lose
<1>11. ASSUME NEW c \in Channels, SetState(c) PROVE RowsAffordable'
  <2>1. copy' = copy
    BY <1>11 DEF SetState
  <2>2. CASE row' = [row EXCEPT ![c] = Activated(row[c])]
    <3>1. Affordable(Activated(row[c]))
      BY <1>0, RowSpends DEF Affordable
    <3> QED  BY <1>s, <2>1, <2>2, <3>1
  <2>3. ASSUME NEW s \in {"draft", "paused"}, row' = [row EXCEPT ![c].state = s]
        PROVE  RowsAffordable'
    <3>1. s \in States
      BY DEF States
    <3>2. Affordable([row[c] EXCEPT !.state = s])
      BY <1>0, <3>1, RowSpends DEF Affordable
    <3> QED  BY <1>s, <2>1, <2>3, <3>2
  <2> QED  BY <1>11, <2>2, <2>3 DEF SetState
<1>12. CASE Save
  <2>1. held["factory"] \in Channels /\ Put("factory")
    BY <1>0, <1>12 DEF Save, FactoryHolds
  <2> QED  BY <1>0, <1>6, <2>1
<1>13. ASSUME NEW p \in Selectors, SaveSelection(p) PROVE RowsAffordable'
  <2>1. p \in Processes
    BY DEF Processes
  <2>2. held[p] \in Channels /\ Put(p)
    BY <1>0, <1>13, <2>1 DEF SaveSelection, TypeOK
  <2> QED  BY <1>6, <2>1, <2>2
<1>14. CASE StartCycle \/ EndCycle \/ Tick \/ Over \/ UNCHANGED vars
  BY <1>1, <1>14 DEF StartCycle, EndCycle, Tick, Over, vars
<1> QED
  BY <1>2, <1>3, <1>4, <1>5, <1>7, <1>8, <1>9, <1>10, <1>11, <1>12, <1>13, <1>14
  DEF Next, Factory

LEMMA FactoryFreeStep ==
    ASSUME Inv, FactoryFree, [Next]_vars
    PROVE  FactoryFree'
<1>0. TypeOK /\ FactoryHolds /\ "factory" \in Processes /\ "factory" \notin Selectors
  BY ChannelFactoryAssumption DEF Inv, Processes
<1>1. CASE UNCHANGED <<step, held, todo>>
  BY <1>1 DEF FactoryFree
<1>2. CASE step' \notin {"idle", "between"}
  BY <1>2 DEF FactoryFree
<1>3. CASE StartCycle
  BY <1>3 DEF StartCycle, FactoryFree
<1>4. CASE EndCycle
  BY <1>4 DEF EndCycle, Forget, FactoryFree
<1>5. CASE Save
  BY <1>0, <1>5 DEF Save, Put, FactoryFree, TypeOK
<1>6. ASSUME NEW p \in Selectors, SaveSelection(p) \/ \E c \in Channels : Select(p, c)
      PROVE  FactoryFree'
  <2>1. p \in Processes /\ p # "factory"
    BY <1>0 DEF Processes
  <2>2. held'["factory"] = held["factory"]
    BY <1>0, <1>6, <2>1 DEF SaveSelection, Select, Put, Take, TypeOK
  <2>3. step' = step /\ todo' = todo
    BY <1>6 DEF SaveSelection, Select, cycle
  <2> QED  BY <2>2, <2>3 DEF FactoryFree
<1>7. ASSUME NEW p \in Processes, Lose(p) PROVE FactoryFree'
  <2>1. CASE p = "factory"
    BY <1>0, <1>7, <2>1 DEF Lose, Forget, FactoryFree, TypeOK
  <2>2. CASE p # "factory"
    BY <1>0, <1>7, <2>2 DEF Lose, cycle, FactoryFree, TypeOK
  <2> QED  BY <2>1, <2>2
<1> QED
  BY <1>1, <1>2, <1>3, <1>4, <1>5, <1>6, <1>7
  DEF Next, Factory, Run, Item, ItemRaises, LastItem, SaveRaised, CountRaised, SetState, Tick,
      Over, cycle, vars

\* An account is as good as it was where the record, the books and the month
\* are the same, and no cycle of another month has come nearer.
LEMMA AccountKept ==
    ASSUME TypeOK, TypeOK', NEW d \in Channels, Account(d),
           books'[d] = books[d],
           \A p \in Processes : held'[p] = d <=> held[p] = d,
           \A p \in Processes : held[p] = d =>
                copy'[p].spent = copy[p].spent /\ copy'[p].period = copy[p].period,
           row'[d].spent = row[d].spent /\ row'[d].period = row[d].period,
           Month(now') = Month(now),
           d \in todo' /\ Month(at') # Month(now) => d \in todo /\ Month(at) # Month(now),
           step' = "again" => step = "again"
    PROVE  Account(d)'
<1> SUFFICES ASSUME books'[d].calm PROVE Account(d)'
  BY DEF Account
<1>0. /\ Alone(d) /\ InHand(d) /\ AtRest(d) /\ ReadAgain(d)
      /\ "factory" \in Processes
      /\ Monthly \in Nat /\ books[d].bill \in Nat
  BY ChannelFactoryAssumption DEF Account, TypeOK, Books, Processes
<1>1. Alone(d)'
  BY <1>0 DEF Alone
<1>2. InHand(d)'
  <2> SUFFICES ASSUME NEW p \in Processes, held'[p] = d PROVE Settled(d, copy[p])'
    BY DEF InHand
  <2>1. held[p] = d /\ Settled(d, copy[p]) /\ copy[p].spent \in Nat
    BY <1>0 DEF InHand, TypeOK, ChannelRow
  <2> QED  BY <1>0, <2>1 DEF Settled, Billed
<1>3. AtRest(d)'
  <2> SUFFICES ASSUME \A p \in Processes : held'[p] # d PROVE Settled(d, row[d])'
    BY DEF AtRest
  <2>1. Settled(d, row[d]) /\ row[d].spent \in Nat
    BY <1>0 DEF AtRest, TypeOK, ChannelRow
  <2> QED  BY <1>0, <2>1 DEF Settled, Billed
<1>4. ReadAgain(d)'
  BY <1>0 DEF ReadAgain
<1> QED  BY <1>1, <1>2, <1>3, <1>4 DEF Account

\* A channel somebody works on already is not calm once another takes it up;
\* one at rest goes into the hand of who does.
LEMMA TakenUp ==
    ASSUME TypeOK, NEW p \in Processes, NEW c \in Channels,
           NEW r, NEW n \in Nat, Take(p, c, r, n), Account(c), books'[c].calm
    PROVE  /\ \A q \in Processes : held[q] # c
           /\ \A q \in Processes : held'[q] = c <=> q = p
           /\ copy'[p] = r
           /\ books[c].calm /\ Settled(c, row[c])
           /\ books'[c].owed = IF r.period = row[c].period THEN books[c].owed + n ELSE n
           /\ books'[c].bill = books[c].bill + n
<1>1. \A q \in Processes : held[q] # c
  BY DEF Take, Disturbed, TypeOK
<1>2. copy'[p] = r /\ \A q \in Processes : held'[q] = c <=> q = p
  BY <1>1 DEF Take, TypeOK
<1>3. books[c] \in Books /\ [books[c] EXCEPT !.owed = 0] \in Books
  BY DEF TypeOK, Books
<1>4. books'[c] = IF r.period = row[c].period THEN Spent(books[c], n)
                  ELSE Spent([books[c] EXCEPT !.owed = 0], n)
  BY <1>1 DEF Take, TypeOK
<1>5. CASE r.period = row[c].period
  <2>1. books'[c] = Spent(books[c], n)
    BY <1>4, <1>5
  <2>2. books[c].calm
    BY <1>3, <2>1, SpentCalm
  <2>3. Settled(c, row[c])
    BY <1>1, <2>2 DEF Account, AtRest
  <2> QED  BY <1>1, <1>2, <1>3, <1>5, <2>1, <2>2, <2>3, SpentAdds
<1>6. CASE r.period # row[c].period
  <2> DEFINE b == [books[c] EXCEPT !.owed = 0]
  <2>1. b \in Books /\ b.owed = 0 /\ b.bill = books[c].bill /\ b.calm = books[c].calm
    BY <1>3 DEF Books
  <2>2. books'[c] = Spent(b, n)
    BY <1>4, <1>6
  <2> HIDE DEF b
  <2>3. b.calm
    BY <2>1, <2>2, SpentCalm
  <2>4. Settled(c, row[c])
    BY <1>1, <2>1, <2>3 DEF Account, AtRest
  <2>5. books'[c].owed = n /\ books'[c].bill = books[c].bill + n
    BY <2>1, <2>2, <2>3, SpentAdds
  <2> QED  BY <1>1, <1>2, <1>6, <2>1, <2>3, <2>4, <2>5
<1> QED  BY <1>5, <1>6

\* Who takes a channel up changes nothing of the others.
LEMMA OthersKept ==
    ASSUME TypeOK, TypeOK', NEW p \in Processes, held[p] = Nobody, NEW c \in Channels,
           NEW r, NEW n, Take(p, c, r, n), row' = row, UNCHANGED <<now, at>>,
           NEW d \in Channels \ {c}, Account(d),
           d \in todo' => d \in todo, step' = "again" => step = "again"
    PROVE  Account(d)'
<1>1. d # Nobody /\ d # c /\ d \in Channels
  BY ChannelFactoryAssumption
<1>2. /\ books'[d] = books[d]
      /\ \A q \in Processes : held'[q] = d <=> held[q] = d
      /\ \A q \in Processes : held[q] = d => copy'[q] = copy[q]
  BY <1>1 DEF Take, TypeOK
<1> QED  BY <1>1, <1>2, AccountKept

\* One hand's account is right where what it holds settles the books.
LEMMA OneHand ==
    ASSUME NEW c \in Channels, NEW p \in Processes,
           \A q \in Processes : held'[q] = c <=> q = p,
           books'[c].calm => Settled(c, copy[p])' /\ ReadAgain(c)'
    PROVE  Account(c)'
<1> SUFFICES ASSUME books'[c].calm PROVE Account(c)'
  BY DEF Account
<1>1. Alone(c)'
  BY DEF Alone
<1>2. InHand(c)'
  <2> SUFFICES ASSUME NEW q \in Processes, held'[q] = c PROVE Settled(c, copy[q])'
    BY DEF InHand
  <2>1. q = p
    OBVIOUS
  <2> QED  BY <2>1
<1>3. AtRest(c)'
  BY DEF AtRest
<1> QED  BY <1>1, <1>2, <1>3 DEF Account

LEMMA RunAccounts ==
    ASSUME BudgetInv, Inv', NEW c \in Channels, Run(c)
    PROVE  Accounts'
<1>0. /\ TypeOK /\ TypeOK' /\ \A d \in Channels : Account(d)
      /\ "factory" \in Processes /\ held["factory"] = Nobody
      /\ at \in Nat /\ row[c] \in ChannelRow /\ row[c].spent \in Nat
      /\ Monthly \in Nat /\ row[c].spent <= Monthly
      /\ books[c].bill \in Nat /\ books[c].owed \in Nat /\ 0 \in Nat
  BY ChannelFactoryAssumption
  DEF BudgetInv, Inv, TypeOK, Accounts, FactoryFree, RowsAffordable, Affordable, Processes,
      ChannelRow, Books, Run
<1>c. /\ row' = row /\ UNCHANGED <<now, at>> /\ todo' = todo \ {c}
      /\ step' # "again" /\ c \in todo
  BY DEF Run
<1> DEFINE r == Roll(row[c], at)
<1>r. /\ r \in ChannelRow /\ r.period = Month(at)
      /\ row[c].period = Month(at) => r.spent = row[c].spent
      /\ row[c].period # Month(at) => r.spent = 0
  BY <1>0, RowTypes, RollSpends
<1>f. /\ Refuse(r, at).spent = r.spent /\ Refuse(r, at).period = r.period
      /\ Failure(r, at).spent = r.spent /\ Failure(r, at).period = r.period
  BY <1>0, <1>r, RowSpends
<1> HIDE DEF r
<1>1. PICK s : Take("factory", c, s, 0) /\ s.spent = r.spent /\ s.period = r.period
  BY <1>f DEF Run, r
<1>2. ASSUME NEW d \in Channels, d # c PROVE Account(d)'
  BY <1>0, <1>c, <1>1, <1>2, OthersKept
<1>3. Account(c)'
  <2>1. CASE ~books'[c].calm
    BY <2>1 DEF Account
  <2>2. CASE books'[c].calm
    <3>1. /\ \A q \in Processes : held'[q] = c <=> q = "factory"
          /\ copy'["factory"] = s /\ Settled(c, row[c])
          /\ books'[c].owed = IF s.period = row[c].period THEN books[c].owed + 0 ELSE 0
          /\ books'[c].bill = books[c].bill + 0
      BY <1>0, <1>1, <2>2, TakenUp
    <3>2. books'[c].owed = s.spent /\ books'[c].bill = books[c].bill
      BY <1>0, <1>1, <1>r, <3>1 DEF Settled
    <3>3. IF s.period # Month(now) THEN books[c].bill <= Monthly + s.spent
          ELSE books[c].bill <= 2 * Monthly + s.spent
      <4>1. Billed(c, row[c], books[c].bill)
        BY <3>1 DEF Settled
      <4>2. CASE Month(at) # Month(now)
        BY <1>0, <1>c, <1>1, <1>r, <4>1, <4>2 DEF Billed
      <4>3. CASE Month(at) = Month(now)
        BY <1>0, <1>c, <1>1, <1>r, <4>1, <4>3 DEF Billed
      <4> QED  BY <4>2, <4>3
    <3>4. Settled(c, copy["factory"])'
      BY <1>c, <3>1, <3>2, <3>3 DEF Settled, Billed
    <3>5. ReadAgain(c)'
      BY <1>c DEF ReadAgain
    <3> QED  BY <1>0, <3>1, <3>4, <3>5, OneHand
  <2> QED  BY <2>1, <2>2
<1> QED  BY <1>2, <1>3 DEF Accounts

\* What an item spends is spent by the one copy there is.
LEMMA ItemAccounts ==
    ASSUME BudgetInv, Inv', Item \/ ItemRaises
    PROVE  Accounts'
<1> DEFINE r == copy["factory"]
<1>h. PICK c \in Channels : c = held["factory"]
  BY DEF BudgetInv, Inv, FactoryHolds, Item, ItemRaises
<1>0. /\ TypeOK /\ TypeOK' /\ \A d \in Channels : Account(d)
      /\ "factory" \in Processes /\ Nobody \notin Channels
      /\ at \in Nat /\ r \in ChannelRow /\ r.spent \in Nat
      /\ Monthly \in Nat /\ Cost \in Nat /\ books[c] \in Books
      /\ books[c].bill \in Nat /\ books[c].owed \in Nat
  BY ChannelFactoryAssumption
  DEF BudgetInv, Inv, TypeOK, Accounts, FactoryHolds, Processes, ChannelRow, Books,
      Item, ItemRaises
<1>c. row' = row /\ held' = held /\ UNCHANGED <<now, at, todo>> /\ step' # "again"
  BY DEF Item, ItemRaises
<1>1. PICK n, s : /\ n \in Nat /\ s.spent = r.spent + n /\ s.period = r.period
                   /\ copy' = [copy EXCEPT !["factory"] = s]
                   /\ books' = [books EXCEPT ![c] = Spent(books[c], n)]
  <2>1. CASE Item
    <3>1. PICK o \in Outcomes(r, at) :
              /\ copy' = [copy EXCEPT !["factory"] = o.row]
              /\ books' = [books EXCEPT ![c] = Spent(books[c], o.cost)]
      BY <1>h, <2>1 DEF Item
    <3> QED  BY <1>0, <3>1, OutcomeSpends
  <2>2. CASE ItemRaises
    <3>1. /\ copy' = [copy EXCEPT !["factory"] = Charge(r, Cost)]
          /\ books' = [books EXCEPT ![c] = Spent(books[c], Cost)]
      BY <1>h, <2>2 DEF ItemRaises
    <3> QED  BY <1>0, <3>1, RowSpends
  <2> QED  BY <2>1, <2>2
<1>2. ASSUME NEW d \in Channels, d # c PROVE Account(d)'
  <2>1. books'[d] = books[d] /\ \A q \in Processes : held[q] = d => copy'[q] = copy[q]
    BY <1>h, <1>0, <1>1, <1>2 DEF TypeOK
  <2> QED  BY <1>0, <1>c, <2>1, AccountKept
<1>3. Account(c)'
  <2> SUFFICES ASSUME books'[c].calm PROVE Account(c)'
    BY DEF Account
  <2>1. copy'["factory"] = s /\ books'[c] = Spent(books[c], n)
    BY <1>0, <1>1 DEF TypeOK
  <2>2. books[c].calm
    BY <1>0, <1>1, <2>1, SpentCalm
  <2>3. books'[c].owed = books[c].owed + n /\ books'[c].bill = books[c].bill + n
    BY <1>0, <1>1, <2>1, <2>2, SpentAdds
  <2>4. Alone(c) /\ Settled(c, r)
    BY <1>h, <1>0, <2>2 DEF Account, InHand
  <2>5. Settled(c, copy["factory"])'
    BY <1>0, <1>c, <1>1, <2>1, <2>3, <2>4 DEF Settled, Billed
  <2>6. \A q \in Processes : held'[q] = c <=> q = "factory"
    BY <1>h, <1>0, <1>c, <2>4 DEF Alone
  <2>7. ReadAgain(c)'
    BY <1>c DEF ReadAgain
  <2> QED  BY <1>0, <2>5, <2>6, <2>7, OneHand
<1> QED  BY <1>2, <1>3 DEF Accounts

\* A calm channel's copy is written over the row of nobody else.
LEMMA PutAccounts ==
    ASSUME BudgetInv, Inv', NEW p \in Processes, held[p] \in Channels, Put(p),
           UNCHANGED <<now, at, todo, books>>, step' = "again" => step = "again" /\ p # "factory"
    PROVE  Accounts'
<1>h. PICK c \in Channels : c = held[p]
  OBVIOUS
<1>0. /\ TypeOK /\ TypeOK' /\ \A d \in Channels : Account(d)
      /\ Nobody \notin Channels /\ "factory" \in Processes
  BY ChannelFactoryAssumption DEF BudgetInv, Inv, Accounts, Processes
<1>1. ASSUME NEW d \in Channels, d # c PROVE Account(d)'
  <2>1. d # Nobody
    BY <1>0
  <2>2. /\ \A q \in Processes : held'[q] = d <=> held[q] = d
        /\ \A q \in Processes : held[q] = d => copy'[q] = copy[q]
        /\ row'[d] = row[d]
    BY <1>h, <1>0, <1>1, <2>1 DEF Put, TypeOK
  <2> QED  BY <1>0, <2>2, AccountKept
<1>2. Account(c)'
  <2> SUFFICES ASSUME books'[c].calm PROVE Account(c)'
    BY DEF Account
  <2>1. Alone(c) /\ Settled(c, copy[p])
    BY <1>h, <1>0 DEF Account, InHand
  <2>2. \A q \in Processes : held'[q] # c
    BY <1>h, <1>0, <2>1 DEF Put, TypeOK, Alone
  <2>3. row'[c] = copy[p]
    BY <1>h, <1>0 DEF Put, TypeOK
  <2>4. Settled(c, row[c])'
    BY <2>1, <2>3 DEF Settled, Billed
  <2> QED  BY <1>0, <2>2, <2>4 DEF Account, Alone, InHand, AtRest, ReadAgain
<1> QED  BY <1>1, <1>2 DEF Accounts

\* An exception is recorded on the copy that was just saved, or on a copy of it.
LEMMA RaisedAccounts ==
    ASSUME BudgetInv, Inv', SaveRaised \/ CountRaised
    PROVE  Accounts'
<1> DEFINE c == held["factory"]
<1>0. /\ TypeOK /\ TypeOK' /\ \A d \in Channels : Account(d)
      /\ c \in Channels /\ "factory" \in Processes /\ now \in Nat /\ row[c] \in ChannelRow
  BY ChannelFactoryAssumption
  DEF BudgetInv, Inv, TypeOK, Accounts, FactoryHolds, Processes, SaveRaised, CountRaised
<1>1. CASE SaveRaised
  <2>1. /\ row' = [row EXCEPT ![c] = copy["factory"]]
        /\ UNCHANGED <<held, copy, now, at, todo, books>> /\ step = "raised"
    BY <1>1 DEF SaveRaised
  <2>2. ASSUME NEW d \in Channels, books'[d].calm PROVE Account(d)'
    <3>1. Alone(d) /\ InHand(d) /\ AtRest(d)
      BY <1>0, <2>1, <2>2 DEF Account
    <3>2. Alone(d)' /\ InHand(d)'
      BY <2>1, <3>1 DEF Alone, InHand, Settled, Billed
    <3>3. AtRest(d)'
      <4> SUFFICES ASSUME \A q \in Processes : held'[q] # d PROVE Settled(d, row[d])'
        BY DEF AtRest
      <4>1. d # c /\ Settled(d, row[d])
        BY <1>0, <2>1, <3>1 DEF AtRest
      <4>2. row'[d] = row[d]
        BY <1>0, <2>1, <4>1 DEF TypeOK
      <4> QED  BY <2>1, <4>1, <4>2 DEF Settled, Billed
    <3>4. ReadAgain(d)'
      BY <1>0, <2>1 DEF ReadAgain, TypeOK
    <3> QED  BY <3>2, <3>3, <3>4 DEF Account
  <2> QED  BY <2>2 DEF Accounts, Account
<1>2. CASE CountRaised
  <2>1. PICK s : /\ copy' = [copy EXCEPT !["factory"] = s]
                 /\ s.spent = row[c].spent /\ s.period = row[c].period
    <3>1. CASE copy' = [copy EXCEPT !["factory"] = row[c]]
      BY <3>1
    <3>2. CASE copy' = [copy EXCEPT !["factory"] = Failure(row[c], now)]
      <4>1. Failure(row[c], now).spent = row[c].spent /\ Failure(row[c], now).period = row[c].period
        BY <1>0, RowSpends
      <4> QED  BY <3>2, <4>1
    <3> QED  BY <1>2, <3>1, <3>2 DEF CountRaised
  <2>2. UNCHANGED <<row, held, now, at, todo, books>> /\ step = "again" /\ step' # "again"
    BY <1>2 DEF CountRaised
  <2>3. ASSUME NEW d \in Channels, books[d].calm PROVE Account(d)'
    <3>1. ReadAgain(d)
      BY <1>0, <2>3 DEF Account
    <3>2. ASSUME NEW q \in Processes, held[q] = d
          PROVE  copy'[q].spent = copy[q].spent /\ copy'[q].period = copy[q].period
      <4>1. CASE q = "factory"
        BY <1>0, <2>1, <2>2, <3>1, <3>2, <4>1 DEF ReadAgain, TypeOK
      <4>2. CASE q # "factory"
        BY <1>0, <2>1, <4>2 DEF TypeOK
      <4> QED  BY <4>1, <4>2
    <3> QED  BY <1>0, <2>2, <3>2, AccountKept
  <2> QED  BY <2>2, <2>3 DEF Accounts, Account
<1> QED  BY <1>1, <1>2

\* A selection asks the row's own month what it may spend.
LEMMA SelectAccounts ==
    ASSUME BudgetInv, Inv', NEW p \in Selectors, NEW c \in Channels, Select(p, c)
    PROVE  Accounts'
<1>0. /\ TypeOK /\ TypeOK' /\ \A d \in Channels : Account(d)
      /\ p \in Processes /\ p # "factory" /\ "factory" \in Processes
      /\ now \in Nat /\ row[c] \in ChannelRow /\ row[c].spent \in Nat
      /\ Monthly \in Nat /\ books[c].bill \in Nat /\ books[c].owed \in Nat
  BY ChannelFactoryAssumption
  DEF BudgetInv, Inv, TypeOK, Accounts, Processes, ChannelRow, Books
<1>c. /\ row' = row /\ UNCHANGED <<now, at, todo, step>> /\ held[p] = Nobody
  BY DEF Select, cycle
<1>1. PICK o \in Outcomes(row[c], now) : Take(p, c, o.row, o.cost)
  BY DEF Select
<1>2. o.cost \in Nat /\ o.row.spent = row[c].spent + o.cost /\ o.row.period = row[c].period
  BY <1>0, OutcomeSpends
<1>3. ASSUME NEW d \in Channels, d # c PROVE Account(d)'
  BY <1>0, <1>c, <1>1, <1>2, <1>3, OthersKept
<1>4. Account(c)'
  <2>1. CASE ~books'[c].calm
    BY <2>1 DEF Account
  <2>2. CASE books'[c].calm
    <3>1. /\ \A q \in Processes : held'[q] = c <=> q = p
          /\ copy'[p] = o.row /\ Settled(c, row[c])
          /\ books'[c].owed = books[c].owed + o.cost
          /\ books'[c].bill = books[c].bill + o.cost
      BY <1>0, <1>1, <1>2, <2>2, TakenUp
    <3>2. Settled(c, copy[p])'
      BY <1>0, <1>c, <1>2, <3>1 DEF Settled, Billed
    <3>3. ReadAgain(c)'
      BY <1>0, <3>1 DEF ReadAgain
    <3> QED  BY <1>0, <3>1, <3>2, <3>3, OneHand
  <2> QED  BY <2>1, <2>2
<1> QED  BY <1>3, <1>4 DEF Accounts

\* Who loses a copy leaves its channel disturbed, and the others as they were.
LEMMA LoseAccounts ==
    ASSUME BudgetInv, Inv', NEW p \in Processes, Lose(p)
    PROVE  Accounts'
<1>0. /\ TypeOK /\ TypeOK' /\ \A d \in Channels : Account(d)
      /\ held[p] \in Channels /\ Nobody \notin Channels
  BY ChannelFactoryAssumption DEF BudgetInv, Inv, Accounts, Lose, TypeOK
<1>c. /\ row' = row /\ now' = now /\ todo' \subseteq todo
      /\ todo' = {} \/ at' = at
      /\ step' = "again" => step = "again"
  BY DEF Lose, Forget, cycle
<1>1. ~books'[held[p]].calm
  BY <1>0 DEF Lose, Disturbed, TypeOK
<1>2. ASSUME NEW d \in Channels, d # held[p] PROVE Account(d)'
  <2>1. d # Nobody
    BY <1>0
  <2>2. /\ \A q \in Processes : held'[q] = d <=> held[q] = d
        /\ \A q \in Processes : held[q] = d => copy'[q] = copy[q]
        /\ books'[d] = books[d]
    BY <1>0, <1>2, <2>1 DEF Lose, TypeOK
  <2>3. d \in todo' /\ Month(at') # Month(now) => d \in todo /\ Month(at) # Month(now)
    BY <1>c
  <2> QED  BY <1>0, <1>c, <2>2, <2>3, AccountKept
<1> QED  BY <1>1, <1>2 DEF Accounts, Account

\* A cycle that begins is of this month; one that ends has come to everybody.
LEMMA CycleAccounts ==
    ASSUME BudgetInv, Inv', StartCycle \/ EndCycle \/ LastItem
    PROVE  Accounts'
<1>0. TypeOK /\ TypeOK' /\ \A d \in Channels : Account(d)
  BY DEF BudgetInv, Inv, Accounts
<1>1. /\ UNCHANGED <<row, now, held, books>> /\ step' # "again"
      /\ todo' # {} => at' = now \/ (at' = at /\ todo' = todo)
  BY DEF StartCycle, EndCycle, Forget, LastItem
<1>2. \A q \in Processes : copy'[q].spent = copy[q].spent /\ copy'[q].period = copy[q].period
  <2>1. CASE copy' = copy
    BY <2>1
  <2>2. CASE LastItem
    <3>1. "factory" \in Processes /\ copy["factory"] \in ChannelRow /\ "budget_exhausted" \in States
      BY <1>0 DEF TypeOK, Processes, States
    <3>2. PICK s : /\ copy' = [copy EXCEPT !["factory"] = s]
                   /\ s.spent = copy["factory"].spent /\ s.period = copy["factory"].period
      <4> DEFINE e == [copy["factory"] EXCEPT !.state = "budget_exhausted"]
      <4>1. CASE copy' = [copy EXCEPT !["factory"] = copy["factory"]]
        BY <4>1
      <4>2. CASE copy' = [copy EXCEPT !["factory"] = e]
        <5>1. e.spent = copy["factory"].spent /\ e.period = copy["factory"].period
          BY <3>1, RowSpends
        <5> QED  BY <4>2, <5>1
      <4> QED  BY <2>2, <4>1, <4>2 DEF LastItem
    <3> QED  BY <1>0, <3>1, <3>2 DEF TypeOK
  <2> QED  BY <2>1, <2>2 DEF StartCycle, EndCycle
<1> QED  BY <1>0, <1>1, <1>2, AccountKept DEF Accounts

LEMMA SetStateAccounts ==
    ASSUME BudgetInv, Inv', NEW c \in Channels, SetState(c)
    PROVE  Accounts'
<1>0. TypeOK /\ TypeOK' /\ (\A d \in Channels : Account(d)) /\ row[c] \in ChannelRow
  BY DEF BudgetInv, Inv, Accounts, TypeOK
<1>1. UNCHANGED <<now, held, copy, books, step, at, todo>>
  BY DEF SetState, cycle
<1>2. PICK s : /\ row' = [row EXCEPT ![c] = s]
               /\ s.spent = row[c].spent /\ s.period = row[c].period
  <2>1. CASE row' = [row EXCEPT ![c] = Activated(row[c])]
    BY <1>0, <2>1, RowSpends
  <2>2. ASSUME NEW t \in {"draft", "paused"}, row' = [row EXCEPT ![c].state = t]
        PROVE  \E s : /\ row' = [row EXCEPT ![c] = s]
                      /\ s.spent = row[c].spent /\ s.period = row[c].period
    <3> DEFINE s == [row[c] EXCEPT !.state = t]
    <3>1. row' = [row EXCEPT ![c] = s]
      BY <2>2
    <3>2. s.spent = row[c].spent /\ s.period = row[c].period
      BY <1>0 DEF ChannelRow
    <3> HIDE DEF s
    <3> QED  BY <3>1, <3>2
  <2> QED  BY <2>1, <2>2 DEF SetState
<1>3. \A d \in Channels : row'[d].spent = row[d].spent /\ row'[d].period = row[d].period
  BY <1>0, <1>2 DEF TypeOK
<1> QED  BY <1>0, <1>1, <1>3, AccountKept DEF Accounts

\* A new month has no bill yet.
LEMMA TickAccounts ==
    ASSUME BudgetInv, Inv', Tick
    PROVE  Accounts'
<1>0. TypeOK /\ TypeOK' /\ (\A d \in Channels : Account(d)) /\ Monthly \in Nat
  BY ChannelFactoryAssumption DEF BudgetInv, Inv, Accounts
<1>1. UNCHANGED <<row, held, copy, step, at, todo>>
  BY DEF Tick, cycle
<1>2. CASE Month(now') = Month(now)
  BY <1>0, <1>1, <1>2, AccountKept DEF Tick, Accounts
<1>3. CASE Month(now') # Month(now)
  <2>1. ASSUME NEW d \in Channels PROVE Account(d)'
    <3>1. books[d] \in Books /\ books'[d] = [books[d] EXCEPT !.bill = 0]
      BY <1>0, <1>3 DEF Tick, TypeOK
    <3>2. books'[d].bill = 0 /\ books'[d].calm = books[d].calm /\ books'[d].owed = books[d].owed
      BY <3>1 DEF Books
    <3>3. ASSUME NEW r \in ChannelRow, books[d].owed = r.spent PROVE Settled(d, r)'
      <4>1. r.spent \in Nat
        BY DEF ChannelRow
      <4> QED  BY <1>0, <3>2, <3>3, <4>1 DEF Settled, Billed
    <3>4. /\ \A q \in Processes : copy[q] \in ChannelRow
          /\ row[d] \in ChannelRow
      BY <1>0 DEF TypeOK
    <3> SUFFICES ASSUME books'[d].calm PROVE Account(d)'
      BY DEF Account
    <3>5. Alone(d) /\ InHand(d) /\ AtRest(d) /\ ReadAgain(d)
      BY <1>0, <3>2 DEF Account
    <3>6. InHand(d)'
      <4> SUFFICES ASSUME NEW q \in Processes, held'[q] = d PROVE Settled(d, copy[q])'
        BY DEF InHand
      <4>1. books[d].owed = copy[q].spent
        BY <1>1, <3>5 DEF InHand, Settled
      <4>2. copy[q].spent \in Nat
        BY <3>4 DEF ChannelRow
      <4> QED  BY <1>0, <1>1, <3>2, <4>1, <4>2 DEF Settled, Billed
    <3>7. AtRest(d)'
      <4> SUFFICES ASSUME \A q \in Processes : held'[q] # d PROVE Settled(d, row[d])'
        BY DEF AtRest
      <4>1. books[d].owed = row[d].spent
        BY <1>1, <3>5 DEF AtRest, Settled
      <4>2. row[d].spent \in Nat
        BY <3>4 DEF ChannelRow
      <4> QED  BY <1>0, <1>1, <3>2, <4>1, <4>2 DEF Settled, Billed
    <3>8. Alone(d)' /\ ReadAgain(d)'
      BY <1>1, <3>5 DEF Alone, ReadAgain
    <3> QED  BY <3>6, <3>7, <3>8 DEF Account
  <2> QED  BY <2>1 DEF Accounts
<1> QED  BY <1>2, <1>3

-----------------------------------------------------------------------------
(* What Spec keeps of the budget.                                          *)

LEMMA InitBudget == Init => BudgetInv
<1> SUFFICES ASSUME Init PROVE BudgetInv
  OBVIOUS
<1>1. Inv
  BY InitInv
<1>0. Monthly \in Nat /\ Nobody \notin Channels
  BY ChannelFactoryAssumption
<1>2. \A c \in Channels : row[c].spent = 0
  BY DEF Init, Fresh
<1>3. RowsAffordable
  BY <1>0, <1>2 DEF Init, Fresh, RowsAffordable, Affordable
<1>4. FactoryFree
  BY DEF Init, FactoryFree, Processes
<1>5. ASSUME NEW c \in Channels PROVE Account(c)
  <2>1. /\ books[c].owed = 0 /\ books[c].bill = 0
        /\ \A p \in Processes : held[p] # c
        /\ todo = {} /\ step = "idle"
    BY <1>0 DEF Init
  <2>2. Settled(c, row[c])
    BY <1>0, <1>2, <2>1 DEF Settled, Billed
  <2> QED  BY <2>1, <2>2 DEF Account, Alone, InHand, AtRest, ReadAgain
<1> QED  BY <1>1, <1>3, <1>4, <1>5 DEF BudgetInv, Accounts

LEMMA NextBudget == BudgetInv /\ [Next]_vars => BudgetInv'
<1> SUFFICES ASSUME BudgetInv, [Next]_vars PROVE BudgetInv'
  OBVIOUS
<1>0. /\ Inv /\ RowsAffordable /\ FactoryFree /\ TypeOK
      /\ "factory" \in Processes /\ "factory" \notin Selectors
  BY ChannelFactoryAssumption DEF BudgetInv, Inv, Processes
<1>1. Inv'
  BY <1>0, NextInv
<1>2. RowsAffordable' /\ FactoryFree'
  BY <1>0, AffordableStep, FactoryFreeStep
<1>3. CASE Save
  <2>1. held["factory"] \in Channels /\ Put("factory")
    BY <1>0, <1>3 DEF Save, Inv, FactoryHolds
  <2> QED  BY <1>0, <1>1, <1>2, <1>3, <2>1, PutAccounts DEF Save, BudgetInv
<1>4. ASSUME NEW p \in Selectors, SaveSelection(p) PROVE BudgetInv'
  <2>1. p \in Processes /\ p # "factory"
    BY <1>0 DEF Processes
  <2>2. held[p] \in Channels /\ Put(p)
    BY <1>0, <1>4, <2>1 DEF SaveSelection, TypeOK
  <2>3. UNCHANGED <<now, at, todo, books, step>>
    BY <1>4 DEF SaveSelection, cycle
  <2> QED  BY <1>1, <1>2, <2>1, <2>2, <2>3, PutAccounts DEF BudgetInv
<1>5. CASE UNCHANGED vars
  <2>1. UNCHANGED <<row, now, held, copy, step, at, todo, books>>
    BY <1>5 DEF vars, cycle
  <2>2. Accounts'
    BY <2>1 DEF BudgetInv, Accounts, Account, Alone, InHand, AtRest, ReadAgain, Settled, Billed
  <2> QED  BY <1>1, <1>2, <2>2 DEF BudgetInv
<1>6. CASE \/ StartCycle \/ EndCycle \/ LastItem \/ Item \/ ItemRaises
           \/ SaveRaised \/ CountRaised \/ Tick \/ Over
           \/ \E c \in Channels : Run(c) \/ SetState(c)
           \/ \E p \in Selectors, c \in Channels : Select(p, c)
           \/ \E p \in Processes : Lose(p)
  <2>1. CASE Over
    BY <1>5, <2>1 DEF Over
  <2>2. CASE ~Over
    <3>1. Accounts'
      BY <1>1, <1>6, <2>2, CycleAccounts, ItemAccounts, RaisedAccounts, TickAccounts,
         RunAccounts, SetStateAccounts, SelectAccounts, LoseAccounts
    <3> QED  BY <1>1, <1>2, <3>1 DEF BudgetInv
  <2> QED  BY <2>1, <2>2
<1> QED  BY <1>3, <1>4, <1>5, <1>6 DEF Next, Factory

\* What the next two theorems rest on: no record shows more than the month's
\* budget, and a channel that one process at a time works on has one account,
\* the copy in its hands or else the row, that shows all that was spent.
THEOREM OneAccount == Spec => []BudgetInv
  BY InitBudget, NextBudget, PTL DEF Spec

\* However copies overwrite each other, no row shows more than the month's
\* budget; and what leaves the account of an undisturbed channel in a calendar
\* month is at most three of them: what a selection charged to the month the row
\* was still in, what it charged to the month of a cycle that began before this
\* one, and this month's own.
THEOREM BudgetStays == Spec => []BudgetKept
<1>1. BudgetInv => BudgetKept
  <2> SUFFICES ASSUME BudgetInv, NEW c \in Channels
               PROVE  /\ row[c].spent <= Monthly
                      /\ books[c].calm => books[c].bill <= 3 * Monthly
    BY DEF BudgetKept
  <2>0. /\ TypeOK /\ Monthly \in Nat /\ books[c].bill \in Nat
        /\ \A r \in ChannelRow : r.spent \in Nat
    BY ChannelFactoryAssumption DEF BudgetInv, Inv, TypeOK, Books, ChannelRow
  <2>1. row[c].spent <= Monthly
    BY DEF BudgetInv, RowsAffordable, Affordable
  <2>2. ASSUME books[c].calm PROVE books[c].bill <= 3 * Monthly
    <3>1. PICK r \in ChannelRow : r.spent <= Monthly /\ Billed(c, r, books[c].bill)
      <4>1. InHand(c) /\ AtRest(c)
        BY <2>2 DEF BudgetInv, Accounts, Account
      <4>2. CASE \E p \in Processes : held[p] = c
        <5>1. PICK p \in Processes : held[p] = c
          BY <4>2
        <5>2. copy[p] \in ChannelRow /\ copy[p].spent <= Monthly
          BY <2>0 DEF TypeOK, BudgetInv, RowsAffordable, Affordable
        <5> QED  BY <4>1, <5>1, <5>2 DEF InHand, Settled
      <4>3. CASE \A p \in Processes : held[p] # c
        <5>1. row[c] \in ChannelRow
          BY <2>0 DEF TypeOK
        <5> QED  BY <2>1, <4>1, <4>3, <5>1 DEF AtRest, Settled
      <4> QED  BY <4>2, <4>3
    <3>2. r.spent \in Nat
      BY <2>0
    <3> QED  BY <2>0, <3>1, <3>2 DEF Billed
  <2> QED  BY <2>1, <2>2
<1> QED  BY <1>1, OneAccount, PTL

\* Whatever becomes of an item, what its stages cost is on the row once whoever
\* worked on the channel has saved it, and nothing else is.
THEOREM ChargesCounted == Spec => []ChargesAreCounted
<1>1. BudgetInv => ChargesAreCounted
  BY DEF BudgetInv, Accounts, Account, AtRest, Settled, ChargesAreCounted
<1> QED  BY <1>1, OneAccount, PTL

-----------------------------------------------------------------------------
(* Sums over the channels.  Total adds up set by set, down from all of     *)
(* them; that it compares as its summands do is shown by induction on the  *)
(* number of channels, from the least number that would be an exception.   *)

\* Every set of natural numbers with a member has a least one.
LEMMA LeastOf ==
    ASSUME NEW T, T \subseteq Nat, T # {}
    PROVE  \E n \in T : \A m \in T : n <= m
<1>1. PICK x \in T : \A y \in T : ~(<<y, x>> \in OpToRel(<, Nat))
  BY NatLessThanWellFounded, WFMin
<1>2. ASSUME NEW y \in T, y < x PROVE FALSE
  BY <1>1, <1>2 DEF OpToRel
<1>3. ASSUME NEW y \in T PROVE x <= y
  BY <1>2
<1> QED  BY <1>3

\* So a set that has 0, and with each number the next, has all of them.
LEMMA AllOf ==
    ASSUME NEW T, 0 \in T, \A n \in Nat : n \in T => n + 1 \in T
    PROVE  Nat \subseteq T
<1> SUFFICES ASSUME Nat \ T # {} PROVE FALSE
  OBVIOUS
<1>1. PICK n \in Nat \ T : \A m \in Nat \ T : n <= m
  BY LeastOf
<1>2. n - 1 \in Nat /\ n - 1 \in T
  BY <1>1
<1> QED  BY <1>1, <1>2

\* The member a sum takes up next.
Some(t) == CHOOSE x \in t : TRUE

\* The subsets of the channels with at most n members.
Upto(n) == {t \in SUBSET Channels : Cardinality(t) <= n}

\* What the sum of g adds up, set by set.
Sums(g, f, D) ==
    \A t \in D : f[t] = IF t = {} THEN 0 ELSE g[Some(t)] + f[t \ {Some(t)}]

LEMMA SomeLess ==
    ASSUME NEW t \in SUBSET Channels
    PROVE  /\ Cardinality(t) \in Nat
           /\ Cardinality(t) = 0 <=> t = {}
           /\ t # {} => /\ Some(t) \in t /\ t \ {Some(t)} \in SUBSET Channels
                        /\ Cardinality(t \ {Some(t)}) = Cardinality(t) - 1
<1>1. IsFiniteSet(t)
  BY ChannelFactoryAssumption, FS_Subset
<1>2. t # {} => Some(t) \in t
  BY DEF Some
<1> QED  BY <1>1, <1>2, FS_CardinalityType, FS_EmptySet, FS_RemoveElement

LEMMA UptoNext ==
    ASSUME NEW n \in Nat
    PROVE  /\ {} \in Upto(n) /\ Upto(0) = {{}}
           /\ Upto(n) \subseteq Upto(n + 1)
           /\ \A t \in Upto(n + 1) \ {{}} :
                 Some(t) \in Channels /\ t \ {Some(t)} \in Upto(n)
<1>1. \A t \in SUBSET Channels : t \in Upto(n) <=> Cardinality(t) <= n
  BY DEF Upto
<1>2. \A t \in SUBSET Channels : Cardinality(t) \in Nat /\ (Cardinality(t) = 0 <=> t = {})
  BY SomeLess
<1>3. {} \in Upto(n) /\ Upto(n) \subseteq Upto(n + 1)
  BY <1>2 DEF Upto
<1>4. Upto(0) \subseteq {{}} /\ {} \in Upto(0)
  BY <1>2 DEF Upto
<1>5. ASSUME NEW t \in Upto(n + 1), t # {}
      PROVE  Some(t) \in Channels /\ t \ {Some(t)} \in Upto(n)
  <2>1. t \in SUBSET Channels /\ Cardinality(t) <= n + 1 /\ Cardinality(t) \in Nat
    BY <1>2 DEF Upto
  <2>2. Some(t) \in t /\ t \ {Some(t)} \in SUBSET Channels
        /\ Cardinality(t \ {Some(t)}) = Cardinality(t) - 1
    BY <2>1, <1>5, SomeLess
  <2> QED  BY <2>1, <2>2, <1>1
<1> QED  BY <1>3, <1>4, <1>5

LEMMA SumExists ==
    ASSUME NEW g \in [Channels -> Nat]
    PROVE  \E f \in [SUBSET Channels -> Nat] : Sums(g, f, SUBSET Channels)
<1> DEFINE T == {n \in Nat : \E f \in [Upto(n) -> Nat] : Sums(g, f, Upto(n))}
<1>1. 0 \in T
  <2> DEFINE f == [t \in Upto(0) |-> 0]
  <2>2. f \in [Upto(0) -> Nat] /\ Sums(g, f, Upto(0))
    BY UptoNext DEF Sums
  <2> QED  BY <2>2
<1>2. ASSUME NEW n \in Nat, n \in T PROVE n + 1 \in T
  <2>1. PICK f \in [Upto(n) -> Nat] : Sums(g, f, Upto(n))
    BY <1>2
  <2> HIDE DEF T
  <2> DEFINE rest(t) == t \ {Some(t)}
             h == [t \in Upto(n + 1) |-> IF t \in Upto(n) THEN f[t] ELSE g[Some(t)] + f[rest(t)]]
  <2>2. /\ {} \in Upto(n) /\ Upto(n) \subseteq Upto(n + 1)
        /\ \A t \in Upto(n + 1) \ {{}} : Some(t) \in Channels /\ rest(t) \in Upto(n)
    BY UptoNext
  <2> HIDE DEF rest
  <2>3. h \in [Upto(n + 1) -> Nat]
    <3>1. ASSUME NEW t \in Upto(n + 1), t \notin Upto(n)
          PROVE  g[Some(t)] + f[rest(t)] \in Nat
      <4>1. Some(t) \in Channels /\ rest(t) \in Upto(n)
        BY <2>2, <3>1
      <4> QED  BY <2>1, <4>1
    <3> QED  BY <3>1
  <2>4. ASSUME NEW t \in Upto(n + 1)
        PROVE  h[t] = IF t = {} THEN 0 ELSE g[Some(t)] + h[rest(t)]
    <3>1. t # {} => h[rest(t)] = f[rest(t)]
      BY <2>2
    <3>2. t \in Upto(n) => f[t] = IF t = {} THEN 0 ELSE g[Some(t)] + f[rest(t)]
      BY <2>1 DEF Sums, rest
    <3> QED  BY <3>1, <3>2, <2>2
  <2> HIDE DEF h
  <2>5. Sums(g, h, Upto(n + 1))
    BY <2>4 DEF Sums, rest
  <2> QED  BY <2>3, <2>5 DEF T
<1>3. Cardinality(Channels) \in Nat
  BY ChannelFactoryAssumption, FS_CardinalityType
<1>4. Cardinality(Channels) \in T
  <2> HIDE DEF T
  <2> QED  BY <1>1, <1>2, <1>3, AllOf
<1>5. Upto(Cardinality(Channels)) = SUBSET Channels
  BY ChannelFactoryAssumption, FS_Subset DEF Upto
<1> QED  BY <1>4, <1>5

\* Total is what such a function adds up over all channels.
LEMMA TotalIs ==
    ASSUME NEW g \in [Channels -> Nat]
    PROVE  \E f : Sums(g, f, SUBSET Channels) /\ Total(g) = f[Channels]
<1> DEFINE iter[s \in SUBSET Channels] ==
        IF s = {} THEN 0
        ELSE LET x == CHOOSE x \in s : TRUE IN g[x] + iter[s \ {x}]
<1>1. Total(g) = iter[Channels]
  BY DEF Total, MapThenSumSet, MapThenFoldSet
<1>2. PICK f \in [SUBSET Channels -> Nat] : Sums(g, f, SUBSET Channels)
  BY SumExists
<1>3. f = [s \in SUBSET Channels |->
              IF s = {} THEN 0 ELSE LET x == CHOOSE x \in s : TRUE IN g[x] + f[s \ {x}]]
  BY <1>2 DEF Sums, Some
<1>4. iter = [s \in SUBSET Channels |->
              IF s = {} THEN 0 ELSE LET x == CHOOSE x \in s : TRUE IN g[x] + iter[s \ {x}]]
  BY <1>3
<1> HIDE DEF iter
<1>5. Sums(g, iter, SUBSET Channels)
  <2> SUFFICES ASSUME NEW t \in SUBSET Channels
               PROVE  iter[t] = IF t = {} THEN 0 ELSE g[Some(t)] + iter[t \ {Some(t)}]
    BY DEF Sums
  <2> QED  BY <1>4 DEF Some
<1> QED  BY <1>1, <1>5

\* Sums are natural numbers, and no greater where no summand is.
LEMMA SumsCompare ==
    ASSUME NEW g \in [Channels -> Nat], NEW h \in [Channels -> Nat],
           \A c \in Channels : g[c] <= h[c],
           NEW f, Sums(g, f, SUBSET Channels), NEW e, Sums(h, e, SUBSET Channels)
    PROVE  /\ f[Channels] \in Nat /\ e[Channels] \in Nat /\ f[Channels] <= e[Channels]
           /\ (\A c \in Channels : g[c] = 0) => f[Channels] = 0
<1> DEFINE P(t) == /\ f[t] \in Nat /\ e[t] \in Nat /\ f[t] <= e[t]
                   /\ (\A c \in Channels : g[c] = 0) => f[t] = 0
           T == {n \in Nat : \A t \in Upto(n) : P(t)}
<1>1. P({})
  BY DEF Sums
<1>2. 0 \in T
  BY <1>1, UptoNext
<1>3. ASSUME NEW n \in Nat, n \in T PROVE n + 1 \in T
  <2> SUFFICES ASSUME NEW t \in Upto(n + 1) PROVE P(t)
    OBVIOUS
  <2>1. CASE t = {}
    BY <1>1, <2>1
  <2>2. CASE t # {}
    <3> DEFINE rest == t \ {Some(t)}
    <3>1. Some(t) \in Channels /\ rest \in Upto(n)
      BY <2>2, UptoNext
    <3>2. P(rest)
      BY <1>3, <3>1
    <3>3. f[t] = g[Some(t)] + f[rest] /\ e[t] = h[Some(t)] + e[rest]
      BY <2>2 DEF Sums, Upto
    <3> HIDE DEF rest
    <3> QED  BY <3>1, <3>2, <3>3
  <2> QED  BY <2>1, <2>2
<1>4. Cardinality(Channels) \in Nat /\ Channels \in Upto(Cardinality(Channels))
  BY ChannelFactoryAssumption, FS_CardinalityType DEF Upto
<1>5. Nat \subseteq T
  <2> HIDE DEF T
  <2> QED  BY <1>2, <1>3, AllOf
<1> QED  BY <1>4, <1>5

LEMMA TotalCompare ==
    ASSUME NEW g \in [Channels -> Nat], NEW h \in [Channels -> Nat],
           \A c \in Channels : g[c] <= h[c]
    PROVE  /\ Total(g) \in Nat /\ Total(h) \in Nat /\ Total(g) <= Total(h)
           /\ (\A c \in Channels : g[c] = 0) => Total(g) = 0
<1>1. PICK f : Sums(g, f, SUBSET Channels) /\ Total(g) = f[Channels]
  BY TotalIs
<1>2. PICK e : Sums(h, e, SUBSET Channels) /\ Total(h) = e[Channels]
  BY TotalIs
<1> QED  BY <1>1, <1>2, SumsCompare

\* What a cycle has placed is what it planned or less, and the plan is within
\* the quota.
WithinQuota ==
    /\ Total(plan) <= Capacity
    /\ \A c \in Channels : placed[c] <= plan[c]

LEMMA PlansFit == ASSUME TypeOK, NEW g \in Plans PROVE Total(g) <= Capacity
<1> DEFINE want(c) == IF row[c].state = "active" THEN Wants[c] ELSE 0
           asked == [c \in Channels |-> want(c)]
<1>1. asked \in [Channels -> Nat]
  BY ChannelFactoryAssumption
<1>2. Total(asked) \in Nat
  <2> HIDE DEF asked
  <2> QED  BY <1>1, TotalCompare
<1>3. Total(g) = IF Total(asked) < Capacity THEN Total(asked) ELSE Capacity
  BY DEF Plans
<1> QED  BY <1>2, <1>3, ChannelFactoryAssumption

LEMMA InitPlan == Init => WithinQuota
<1> SUFFICES ASSUME Init PROVE WithinQuota
  OBVIOUS
<1>1. /\ plan \in [Channels -> Nat] /\ placed \in [Channels -> Nat]
      /\ \A c \in Channels : plan[c] = 0 /\ placed[c] = 0
  BY DEF Init
<1>2. Total(plan) = 0
  BY <1>1, TotalCompare
<1> QED  BY <1>1, <1>2, ChannelFactoryAssumption DEF WithinQuota

LEMMA PlanStep ==
    ASSUME TypeOK, TypeOK', WithinQuota, [Next]_vars
    PROVE  WithinQuota'
<1> USE DEF WithinQuota
<1>1. plan \in [Channels -> Nat] /\ placed \in [Channels -> Nat]
      /\ plan' \in [Channels -> Nat] /\ placed' \in [Channels -> Nat]
  BY DEF TypeOK
<1>2. CASE plan' = plan /\ placed' = placed
  BY <1>2
<1>3. CASE Forget
  <2>1. \A c \in Channels : plan'[c] = 0 /\ placed'[c] = 0
    BY <1>3 DEF Forget
  <2>2. Total(plan') = 0
    BY <1>1, <2>1, TotalCompare
  <2> QED  BY <1>1, <2>1, <2>2, ChannelFactoryAssumption
<1>4. CASE StartCycle
  <2>1. Total(plan') <= Capacity
    BY <1>4, PlansFit DEF StartCycle
  <2>2. \A c \in Channels : placed'[c] = 0
    BY <1>4 DEF StartCycle
  <2> QED  BY <1>1, <2>1, <2>2
<1>5. CASE Item
  <2> DEFINE c == held["factory"]
  <2>1. placed[c] < plan[c] /\ plan' = plan
    BY <1>5 DEF Item, More, Target
  <2>2. PICK o \in Outcomes(copy["factory"], at) :
              placed' = [placed EXCEPT ![c] = IF o.placed THEN @ + 1 ELSE @]
    BY <1>5 DEF Item
  <2> HIDE DEF c
  <2>3. ASSUME NEW d \in Channels PROVE placed'[d] <= plan[d]
    BY <1>1, <2>1, <2>2
  <2> QED  BY <2>1, <2>3
<1> QED
  BY <1>2, <1>3, <1>4, <1>5
     DEF Next, Factory, EndCycle, Run, ItemRaises, LastItem, Save, SaveRaised, CountRaised,
         SaveSelection, Select, Lose, SetState, Tick, Over, vars, cycle

\* All channels of a cycle together place no more than the platform takes, for
\* any channels, wants and quota.
THEOREM QuotaStays == Spec => []QuotaKept
<1>1. Init => WithinQuota
  BY InitPlan
<1>2. TypeOK /\ TypeOK' /\ WithinQuota /\ [Next]_vars => WithinQuota'
  BY PlanStep
<1>3. TypeOK /\ WithinQuota => QuotaKept
  <2> SUFFICES ASSUME TypeOK, WithinQuota PROVE QuotaKept
    OBVIOUS
  <2>1. plan \in [Channels -> Nat] /\ placed \in [Channels -> Nat]
    BY DEF TypeOK
  <2>2. Total(placed) \in Nat /\ Total(plan) \in Nat /\ Total(placed) <= Total(plan)
    BY <2>1, TotalCompare DEF WithinQuota
  <2> QED  BY <2>2, ChannelFactoryAssumption DEF WithinQuota, QuotaKept
<1> QED  BY <1>1, <1>2, <1>3, TypeCorrect, PTL DEF Spec

-----------------------------------------------------------------------------
(* The split of the quota.                                                 *)

\* What a channel the inner loop comes to may be given.
QuotaStep == IF pc = "ones" THEN 1 ELSE share

InRound == pc \in {"shares", "ones"}

\* The pool suffices for a round of shares, and not for a round of ones.
Stock ==
    /\ pc = "shares" => share > 0 /\ share * Cardinality(pending) <= remaining
    /\ pc = "ones" => remaining < Cardinality(pending)
    /\ pc = "loop" => pending = {}

\* Who is short was unsatisfied when the round began.
Known ==
    /\ \A k \in Names : granted[k] <= wants[k]
    /\ \A k \in Names : granted[k] < wants[k] => k \in unsatisfied
    /\ \A k \in pending : granted[k] < wants[k]
    /\ pc = "loop" => \A k \in unsatisfied : granted[k] < wants[k]

\* Between two rounds a short channel is behind nobody; within one, those the
\* loop has not come to are a step behind those it has served in full.
Level ==
    /\ pc = "loop" => \A j \in Names, k \in unsatisfied : granted[j] <= granted[k]
    /\ InRound => \A k \in pending, j \in Names :
        /\ granted[j] <= granted[k] + QuotaStep
        /\ j \notin unsatisfied \ pending => granted[j] <= granted[k]
    /\ InRound => \A k \in unsatisfied \ pending, j \in Names :
        granted[k] < wants[k] =>
            /\ granted[j] <= granted[k]
            /\ j \in pending => granted[j] + QuotaStep <= granted[k]

QuotaInv == SplitTypeOK /\ Stock /\ Known /\ Level /\ FairAtEnd

LEMMA PendingIsFinite ==
    ASSUME SplitTypeOK
    PROVE  /\ IsFiniteSet(unsatisfied) /\ IsFiniteSet(pending)
           /\ Cardinality(unsatisfied) \in Nat /\ Cardinality(pending) \in Nat
  BY FairShareAssumption, FS_Subset, FS_CardinalityType DEF SplitTypeOK

\* Integer division: a share for each of n is there, and one more is not.
LEMMA ShareFits ==
    ASSUME NEW m \in Nat, NEW n \in Nat, n > 0
    PROVE  /\ m \div n \in Nat
           /\ (m \div n) * n <= m
           /\ m \div n = 0 => m < n
  OBVIOUS

LEMMA QuotaInitInv == SplitInit => QuotaInv
  BY FairShareAssumption
     DEF SplitInit, QuotaInv, SplitTypeOK, Stock, Known, Level, FairAtEnd, Done, InRound

LEMMA RoundInv == QuotaInv /\ Round => QuotaInv'
<1> SUFFICES ASSUME QuotaInv, Round PROVE QuotaInv'
  OBVIOUS
<1> USE DEF QuotaInv
<1>1. Cardinality(unsatisfied) \in Nat /\ Cardinality(unsatisfied) > 0
  BY PendingIsFinite, FS_EmptySet DEF Round
<1>2. /\ share' \in Nat
      /\ share' * Cardinality(unsatisfied) <= remaining
      /\ share' = 0 => remaining < Cardinality(unsatisfied)
  BY <1>1, ShareFits DEF Round, Split, SplitTypeOK
<1>3. SplitTypeOK'
  BY <1>2 DEF SplitTypeOK, Round, given
<1>4. Stock'
  BY <1>2 DEF Stock, Round, SplitTypeOK
<1>5. Known'
  BY DEF Known, Round, given, SplitTypeOK
<1>6. Level'
  BY <1>2 DEF Level, Known, Round, given, SplitTypeOK, InRound, QuotaStep
<1>7. FairAtEnd'
  BY DEF FairAtEnd, Done, Round
<1> QED  BY <1>3, <1>4, <1>5, <1>6, <1>7

LEMMA GrantInv ==
    ASSUME QuotaInv, InRound, NEW k \in pending, NEW n \in Nat, Grant(k, n),
           n <= QuotaStep, n <= wants[k] - granted[k], n <= remaining,
           n < QuotaStep => granted[k] + n = wants[k],
           pc = "ones" => n = 1
    PROVE  QuotaInv'
<1> USE DEF QuotaInv
<1> DEFINE c == Cardinality(pending)
<1>1. /\ c \in Nat /\ Cardinality(pending') = c - 1
      /\ pc' = pc /\ share' = share /\ unsatisfied' = unsatisfied /\ wants' = wants
      /\ pending' = pending \ {k} /\ remaining' = remaining - n
  BY PendingIsFinite, FS_RemoveElement DEF Grant, given
<1>2. /\ k \in Names /\ granted[k] \in Nat /\ wants[k] \in Nat
      /\ granted' = [granted EXCEPT ![k] = granted[k] + n]
      /\ granted' \in [Names -> Nat] /\ granted'[k] = granted[k] + n
      /\ \A j \in Names \ {k} : granted'[j] = granted[j]
  BY DEF SplitTypeOK, Grant
<1>3. SplitTypeOK'
  BY <1>1, <1>2 DEF SplitTypeOK, Grant, given
<1>4. Stock'
  <2>1. pc = "shares" => n <= share /\ share * (c - 1) = share * c - share
    BY <1>1 DEF QuotaStep, SplitTypeOK
  <2> HIDE DEF c
  <2>2. share \in Nat /\ remaining \in Nat /\ share * c \in Nat
    BY <1>1 DEF SplitTypeOK
  <2>3. pc = "shares" => share * (c - 1) <= remaining - n
    <3> SUFFICES ASSUME pc = "shares" PROVE share * (c - 1) <= remaining - n
      OBVIOUS
    <3>1. share * c <= remaining
      BY DEF Stock, c
    <3> QED  BY <2>1, <2>2, <3>1
  <2> QED  BY <1>1, <2>2, <2>3 DEF Stock, InRound, c
<1>5. Known'
  BY <1>1, <1>2 DEF Known, SplitTypeOK, InRound
<1>6. Level'
  <2>1. QuotaStep' = QuotaStep /\ QuotaStep \in Nat
    BY <1>1 DEF QuotaStep, SplitTypeOK
  <2>2. ASSUME NEW p \in pending', NEW j \in Names
        PROVE  /\ granted'[j] <= granted'[p] + QuotaStep
               /\ j \notin unsatisfied \ pending' => granted'[j] <= granted'[p]
    BY <1>1, <1>2, <2>1, <2>2 DEF Level, SplitTypeOK
  <2>3. ASSUME NEW p \in unsatisfied \ pending', NEW j \in Names, granted'[p] < wants[p]
        PROVE  /\ granted'[j] <= granted'[p]
               /\ j \in pending' => granted'[j] + QuotaStep <= granted'[p]
    <3>1. CASE p = k
      <4>1. n = QuotaStep /\ granted'[p] = granted[k] + QuotaStep
        BY <1>1, <1>2, <2>1, <2>3, <3>1
      <4>2. granted[j] <= granted[k] + QuotaStep /\ (j \in pending => granted[j] <= granted[k])
        BY DEF Level
      <4>3. granted[j] \in Nat /\ (j # k => granted'[j] = granted[j])
        BY <1>2 DEF SplitTypeOK
      <4>4. j \in pending' => j \in pending /\ j # k
        BY <1>1
      <4> QED  BY <1>2, <2>1, <3>1, <4>1, <4>2, <4>3, <4>4
    <3>2. CASE p # k
      <4>1. p \in unsatisfied \ pending /\ p \in Names /\ granted'[p] = granted[p]
        BY <1>1, <1>2, <2>3, <3>2 DEF SplitTypeOK
      <4>2. \A i \in Names : /\ granted[i] <= granted[p]
                             /\ i \in pending => granted[i] + QuotaStep <= granted[p]
        BY <2>3, <4>1 DEF Level
      <4>3. granted[j] \in Nat /\ granted[p] \in Nat /\ (j # k => granted'[j] = granted[j])
        BY <1>2, <4>1 DEF SplitTypeOK
      <4>4. j \in pending' => j \in pending /\ j # k
        BY <1>1
      <4> QED  BY <1>2, <2>1, <4>1, <4>2, <4>3, <4>4
    <3> QED  BY <3>1, <3>2
  <2> QED  BY <1>1, <2>1, <2>2, <2>3 DEF Level, InRound
<1>7. FairAtEnd'
  BY <1>1 DEF FairAtEnd, Done, InRound
<1> QED  BY <1>3, <1>4, <1>5, <1>6, <1>7

LEMMA GiveShareInv == QuotaInv /\ GiveShare => QuotaInv'
<1> SUFFICES ASSUME QuotaInv, pc = "shares", NEW k \in pending, Grant(k, Portion(k))
             PROVE  QuotaInv'
  BY DEF GiveShare
<1>1. /\ wants[k] \in Nat /\ granted[k] \in Nat /\ granted[k] < wants[k]
      /\ share \in Nat /\ remaining \in Nat
  BY DEF QuotaInv, Known, SplitTypeOK
<1>2. share <= remaining
  <2>1. Cardinality(pending) \in Nat /\ Cardinality(pending) > 0
    BY PendingIsFinite, FS_EmptySet DEF QuotaInv
  <2>2. share * Cardinality(pending) >= share
    BY <1>1, <2>1
  <2> QED  BY <1>1, <2>1, <2>2 DEF QuotaInv, Stock
<1>3. Portion(k) \in Nat /\ Portion(k) <= share /\ Portion(k) <= wants[k] - granted[k]
      /\ (Portion(k) < share => granted[k] + Portion(k) = wants[k])
  BY <1>1 DEF Portion
<1> QED  BY <1>1, <1>2, <1>3, GrantInv DEF InRound, QuotaStep

LEMMA GiveOneInv == QuotaInv /\ GiveOne => QuotaInv'
<1> SUFFICES ASSUME QuotaInv, pc = "ones", remaining # 0, NEW k \in pending, Grant(k, 1)
             PROVE  QuotaInv'
  BY DEF GiveOne, UsedUp
<1>1. /\ wants[k] \in Nat /\ granted[k] \in Nat /\ granted[k] < wants[k]
      /\ remaining \in Nat
  BY DEF QuotaInv, Known, SplitTypeOK
<1> QED  BY <1>1, GrantInv DEF InRound, QuotaStep

LEMMA EndRoundInv == QuotaInv /\ EndRound => QuotaInv'
<1> SUFFICES ASSUME QuotaInv, EndRound PROVE QuotaInv'
  OBVIOUS
<1> USE DEF QuotaInv
<1>1. SplitTypeOK' /\ Stock' /\ FairAtEnd'
  BY DEF EndRound, SplitTypeOK, Stock, FairAtEnd, Done, Unserved, given
<1>2. Known'
  BY DEF EndRound, Known, Unserved, given
<1>3. Level'
  BY DEF EndRound, Level, Unserved, InRound, given
<1> QED  BY <1>1, <1>2, <1>3

\* The loop ends with nothing left or nobody short; a round of ones ends
\* because nothing is left.
LEMMA EndInv == QuotaInv /\ (Return \/ Break) => QuotaInv'
<1> SUFFICES ASSUME QuotaInv, Return \/ Break PROVE QuotaInv'
  OBVIOUS
<1> USE DEF QuotaInv
<1>1. SplitTypeOK' /\ Stock' /\ Known' /\ Level'
  BY DEF Return, Break, SplitTypeOK, Stock, Known, Level, InRound, given
<1>2. ASSUME NEW k \in Names, granted[k] < wants[k]
      PROVE  remaining = 0 /\ \A j \in Names : granted[j] <= granted[k] + 1
  <2>1. k \in unsatisfied /\ remaining \in Nat /\ granted \in [Names -> Nat]
    BY <1>2 DEF Known, SplitTypeOK
  <2>2. CASE Return
    BY <2>1, <2>2 DEF Return, Level
  <2>3. CASE Break
    <3>1. remaining = 0
      BY <2>1, <2>3, FS_EmptySet DEF Break, UsedUp, Stock
    <3> QED  BY <1>2, <2>1, <2>3, <3>1 DEF Break, Level, InRound, QuotaStep
  <2> QED  BY <2>2, <2>3
<1>3. FairAtEnd'
  <2>1. granted' = granted /\ wants' = wants /\ remaining' = remaining
    BY DEF Return, Break, given
  <2> QED  BY <1>2, <2>1 DEF FairAtEnd, Known
<1> QED  BY <1>1, <1>3

LEMMA QuotaInvariance == SplitSpec => []QuotaInv
<1>1. QuotaInv /\ UNCHANGED splitVars => QuotaInv'
  BY DEF QuotaInv, SplitTypeOK, Stock, Known, Level, FairAtEnd, Done, InRound, QuotaStep,
         splitVars, given
<1>2. QuotaInv /\ [SplitNext]_splitVars => QuotaInv'
  BY <1>1, RoundInv, GiveShareInv, GiveOneInv, EndRoundInv, EndInv DEF SplitNext, Answered
<1> QED  BY QuotaInitInv, <1>2, PTL DEF SplitSpec

\* No unit is handed out that is not there, and every local keeps its type.
THEOREM QuotaTypeCorrect == SplitSpec => []SplitTypeOK
<1>1. QuotaInv => SplitTypeOK
  BY DEF QuotaInv
<1> QED  BY <1>1, QuotaInvariance, PTL

\* The split is max-min fair: a channel left short is at most one unit behind
\* any other and nothing is left over, whatever the demands and the capacity.
THEOREM SplitIsFair == SplitSpec => []FairAtEnd
<1>1. QuotaInv => FairAtEnd
  BY DEF QuotaInv
<1> QED  BY <1>1, QuotaInvariance, PTL
=============================================================================
