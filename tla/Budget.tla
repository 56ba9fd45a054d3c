-------------------------------- MODULE Budget --------------------------------
(***************************************************************************)
(* What a household spent in a week or a month, and what it aims to spend  *)
(* (services/budget.py, api/routers/budget.py).  Receipts and lots enter   *)
(* at instants and are read back by calendar day in the household's zone;  *)
(* a report adds up the totals of the receipts, one currency at a time,    *)
(* and says what it could not count.  Setting a target is a read and a     *)
(* write in one READ COMMITTED transaction.                                *)
(*                                                                         *)
(* Days are numbered from a Monday.  A day has two instants, midnight and  *)
(* noon, and a zone is an offset in half days.                             *)
(***************************************************************************)
EXTENDS Integers, Sequences, FiniteSetsExt

CONSTANTS
    Clients,      \* requests that can be in flight together
    MonthStarts,  \* the days that begin a month
    Zones,        \* the offsets a household may live at
    Readings,     \* what may be read of a receipt: [on, total, currency, lines, priceless, sum]
    Entered,      \* the acquired_on a lot may be given, or None
    Targets,      \* what may be asked for: [amount, currency]
    None,
    Since,        \* first day of the behaviour
    LastDay,      \* bound: last day of the behaviour
    MaxHistory,   \* MAX_HISTORY_PERIODS
    MaxEvents     \* bound: receipts and lots stored, requests about targets

Periods == {"week", "month"}

VARIABLES zone, clock, receipts, lots, target, tx, issued

vars == <<zone, clock, receipts, lots, target, tx, issued>>

LocalDate(moment) == (moment + zone) \div 2

(***************************************************************************)
(* Periods                                                                 *)
(***************************************************************************)
StartOf(period, day) ==
    IF period = "week" THEN day - (day % 7) ELSE Max({m \in MonthStarts : m <= day})

EndOf(period, day) ==
    IF period = "week" THEN StartOf(period, day) + 6 ELSE Min({m \in MonthStarts : m > day}) - 1

(* Mutant: a month back is thirty days back.                                *)
MutPreviousStartThirty(period, start) ==
    IF period = "week" THEN start - 7 ELSE StartOf("month", start - 30)

PreviousStart(period, start) ==
    IF period = "week" THEN start - 7 ELSE StartOf("month", start - 1)

(***************************************************************************)
(* Reports                                                                 *)
(***************************************************************************)
(* The day of the purchase when it could be read, of the import otherwise.  *)
ReceiptDay(r) == LocalDate(IF r.purchased_at # None THEN r.purchased_at ELSE r.created_at)

(* A date without a time is cast at midnight of the database's clock, then  *)
(* read in the zone of the household.                                       *)
LotDay(lot) == LocalDate(IF lot.acquired_on # None THEN 2 * lot.acquired_on ELSE lot.created_at)

(* One quantum of tolerance for each line; no verdict on lines in doubt.    *)
LineSumDisagrees(r) ==
    /\ r.total # None /\ r.lines > 0 /\ r.priceless = 0
    /\ r.sum - r.total \notin -r.lines .. r.lines

Counted(r) == r.total # None /\ r.currency # None

(* The currencies of a period are never added to one another; the one of    *)
(* the target is shown though nothing was spent in it.                      *)
Assemble(start, end, facts, stock, goal) ==
    LET spent == {i \in facts : Counted(receipts[i])}
        Of(code) == {i \in spent : receipts[i].currency = code}
        codes == {receipts[i].currency : i \in spent} \cup
                 (IF goal = None THEN {} ELSE {goal.currency})
    IN  [period_start |-> start, period_end |-> end,
         currencies |-> [code \in codes |->
            [spent |-> MapThenSumSet(LAMBDA i : receipts[i].total, Of(code)),
             receipt_count |-> Cardinality(Of(code)),
             line_sum_mismatch_count |-> Cardinality({i \in Of(code) : LineSumDisagrees(receipts[i])}),
             target |-> IF goal # None /\ goal.currency = code THEN goal.amount ELSE None]],
         with_total |-> Cardinality(spent),
         missing_total |-> Cardinality(facts \ spent),
         stock |-> Cardinality(stock)]

(* _collect: the rows of the whole span, put into the period of their day.  *)
Collect(period, since, until, goal) ==
    LET facts == {i \in DOMAIN receipts : ReceiptDay(receipts[i]) \in since .. until}
        stock == {i \in DOMAIN lots : LotDay(lots[i]) \in since .. until}
    IN  [start \in {StartOf(period, day) : day \in since .. until} |->
            Assemble(start, EndOf(period, start),
                     {i \in facts : StartOf(period, ReceiptDay(receipts[i])) = start},
                     {i \in stock : StartOf(period, LotDay(lots[i])) = start}, goal)]

Current(period, day) ==
    Collect(period, StartOf(period, day), EndOf(period, day), target[period])[StartOf(period, day)]

(* The complete periods before the one of the day, oldest first; the target *)
(* of today is not put beside them.                                         *)
History(period, count, day) ==
    LET bounded == IF count < MaxHistory THEN count ELSE MaxHistory
        back[n \in 0 .. bounded] ==
            IF n = 0 THEN StartOf(period, day) ELSE PreviousStart(period, back[n - 1])
        spans == Collect(period, back[bounded], EndOf(period, back[1]), None)
    IN  IF bounded = 0 THEN <<>> ELSE [i \in 1 .. bounded |-> spans[back[bounded + 1 - i]]]

(***************************************************************************)
(* What enters                                                             *)
(***************************************************************************)
Rows == Len(receipts) + Len(lots)
Events == Rows + issued

(* A purchase date is kept as noon of that day where the household lives.   *)
Import(reading) ==
    /\ Events < MaxEvents
    /\ receipts' = Append(receipts,
            [purchased_at |-> IF reading.on = None THEN None ELSE 2 * reading.on + 1 - zone,
             created_at |-> clock, on |-> reading.on, total |-> reading.total,
             currency |-> reading.currency, lines |-> reading.lines,
             priceless |-> reading.priceless, sum |-> reading.sum])
    /\ UNCHANGED <<zone, clock, lots, target, tx, issued>>

EnterLot(on) ==
    /\ Events < MaxEvents
    /\ lots' = Append(lots, [acquired_on |-> on, created_at |-> clock])
    /\ UNCHANGED <<zone, clock, receipts, target, tx, issued>>

(***************************************************************************)
(* Targets                                                                 *)
(***************************************************************************)
Idle == [pc |-> "idle", period |-> None, goal |-> None, read |-> None]

Go(c, fields) == tx' = [tx EXCEPT ![c] = fields] /\ UNCHANGED <<zone, clock, receipts, lots, issued>>

(* A request without a goal clears the target.                              *)
Begin(c, period, goal) ==
    /\ tx[c].pc = "idle" /\ Events < MaxEvents
    /\ tx' = [tx EXCEPT ![c] = [Idle EXCEPT !.pc = IF goal = None THEN "flush" ELSE "read",
                                           !.period = period, !.goal = goal]]
    /\ issued' = issued + 1
    /\ UNCHANGED <<zone, clock, receipts, lots, target>>

Read(c) ==
    /\ tx[c].pc = "read"
    /\ Go(c, [tx[c] EXCEPT !.pc = "flush", !.read = target[tx[c].period]])
    /\ UNCHANGED target

(* The row, or the unique entry of the household and the period, in the     *)
(* hands of another request.                                                *)
Held(c) == \E d \in Clients \ {c} : tx[d].pc = "commit" /\ tx[d].period = tx[c].period

(* The INSERT of a second row meets the unique constraint; the UPDATE names *)
(* the columns that differ from what was read, and a row gone is an error.  *)
Flush(c) ==
    LET t == tx[c]
    IN  /\ t.pc = "flush" /\ ~Held(c)
        /\ IF t.goal # None /\ (t.read = None) # (target[t.period] = None)
           THEN Go(c, Idle)
           ELSE Go(c, [t EXCEPT !.pc = "commit"])
        /\ UNCHANGED target

Written(t, row) ==
    IF t.goal = None \/ t.read = None THEN t.goal
    ELSE [f \in DOMAIN t.goal |-> IF t.goal[f] # t.read[f] THEN t.goal[f] ELSE row[f]]

Commit(c) ==
    /\ tx[c].pc = "commit"
    /\ target' = [target EXCEPT ![tx[c].period] = Written(tx[c], @)]
    /\ Go(c, Idle)

Tick == /\ clock < 2 * LastDay + 1 /\ clock' = clock + 1
        /\ UNCHANGED <<zone, receipts, lots, target, tx, issued>>

Finished == /\ clock = 2 * LastDay + 1 /\ Events = MaxEvents
            /\ \A c \in Clients : tx[c].pc = "idle"

Init ==
    /\ zone \in Zones
    /\ clock = 2 * Since
    /\ receipts = <<>> /\ lots = <<>>
    /\ target = [p \in Periods |-> None]
    /\ tx = [c \in Clients |-> Idle]
    /\ issued = 0

Next ==
    \/ \E reading \in Readings : Import(reading)
    \/ \E on \in Entered : EnterLot(on)
    \/ \E c \in Clients : \/ \E p \in Periods, goal \in Targets \cup {None} : Begin(c, p, goal)
                          \/ Read(c) \/ Flush(c) \/ Commit(c)
    \/ Tick
    \/ Finished /\ UNCHANGED vars

Spec == Init /\ [][Next]_vars

(***************************************************************************)
(* Properties                                                              *)
(***************************************************************************)
Today == LocalDate(clock)

(* Nothing spent is lost or told twice: the history and the current period  *)
(* follow one another without a gap, and every receipt of those days is in  *)
(* one of them, in the period of the day printed on it, in its currency or  *)
(* among those whose total is missing.                                      *)
EveryReceiptIsCountedOnce ==
    \A period \in Periods, count \in 1 .. MaxHistory :
        LET shown == Append(History(period, count, Today), Current(period, Today))
            Within(s) == {i \in DOMAIN receipts :
                            IF receipts[i].on # None
                            THEN receipts[i].on \in s.period_start .. s.period_end
                            ELSE ReceiptDay(receipts[i]) \in s.period_start .. s.period_end}
        IN  /\ \A k \in 1 .. count : shown[k].period_end + 1 = shown[k + 1].period_start
            /\ Today \in shown[count + 1].period_start .. shown[count + 1].period_end
            /\ \A k \in DOMAIN shown :
                 /\ shown[k].with_total + shown[k].missing_total = Cardinality(Within(shown[k]))
                 /\ \A code \in DOMAIN shown[k].currencies :
                      shown[k].currencies[code].spent =
                        MapThenSumSet(LAMBDA i : IF Counted(receipts[i]) /\ receipts[i].currency = code
                                                 THEN receipts[i].total ELSE 0, Within(shown[k]))
                 /\ shown[k].with_total =
                      MapThenSumSet(LAMBDA code : shown[k].currencies[code].receipt_count,
                                    DOMAIN shown[k].currencies)

(* "A lot entered on Tuesday for Saturday's shop belongs to Saturday."      *)
LotsBelongToTheirDay ==
    \A i \in DOMAIN lots : lots[i].acquired_on # None => LotDay(lots[i]) = lots[i].acquired_on

(* A target is one that somebody asked for, amount and currency together.   *)
TargetIsWhole == \A p \in Periods : target[p] \in Targets \cup {None}
=============================================================================
