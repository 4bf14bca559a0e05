------------------------------ MODULE CycleLimit ------------------------------
(***************************************************************************)
(* The count by which the guard stops for the rest of a billing cycle when  *)
(* the usage page cannot be read (billing/cycle-limit.ts): the enqueues that *)
(* CursorModel has entered in cost_entries (billing/enqueue-cost.ts), since   *)
(* the last day of a month that is the cycle's first, against an allowance    *)
(* that grows by the day.                                                      *)
(***************************************************************************)
EXTENDS Integers, FiniteSets, Sequences

CONSTANTS
  None,
  MonthDays,     \* the lengths of the months: of a calendar of a few short ones
  StartDays,     \* what CR_CYCLE_START_DAY may be
  CycleMaxSends, \* 150
  CycleDays,     \* 30
  MaxEntries     \* bound on the entries

Months == DOMAIN MonthDays

MonthsAssumption == MonthDays \in Seq(Nat \ {0}) /\ Len(MonthDays) > 1
StartAssumption == StartDays \subseteq Nat \ {0} /\ StartDays # {}
SendsAssumption == CycleMaxSends \in Nat /\ CycleDays \in Nat \ {0} /\ MaxEntries \in Nat

VARIABLES
  startDay,  \* the cycle's first day, of the month
  month, dom, \* today
  entries,   \* cost_entries of type enqueue: the day of each, counted from the first
  pending,   \* enqueues whose entry awaits the probe of the windows
  verdict    \* what a guard has just been told, or None

vars == <<startDay, month, dom, entries, pending, verdict>>

\* The number of a month's day, which may lie past the month's end as in Date.UTC.
DaysBefore[m \in 1..(Len(MonthDays) + 1)] == IF m = 1 THEN 0 ELSE DaysBefore[m - 1] + MonthDays[m - 1]
DayNumber(m, d) == DaysBefore[m] + d
Today == DayNumber(month, dom)

\* A calendar of at least two months is begun in the second.
Init ==
  /\ startDay \in StartDays
  /\ month = 2 /\ dom = 1
  /\ entries = <<>> /\ pending = 0
  /\ verdict = None

cycleStartDate_Later ==
  IF dom > startDay THEN DayNumber(month, startDay) ELSE DayNumber(month - 1, startDay)
cycleStartDate ==
  IF dom >= startDay THEN DayNumber(month, startDay) ELSE DayNumber(month - 1, startDay)

sendsSince(day) == Cardinality({i \in DOMAIN entries : entries[i] >= day})

daysElapsed  == IF Today - cycleStartDate > 1 THEN Today - cycleStartDate ELSE 1
allowedSoFar == (daysElapsed * CycleMaxSends) \div CycleDays

\* checkCycleLimit, in a guard's tick.
Check ==
  /\ verdict' = IF sendsSince(cycleStartDate) <= allowedSoFar THEN "allowed" ELSE "stopped"
  /\ UNCHANGED <<startDay, month, dom, entries, pending>>

\* enqueueSend, of the guard or anyone; its entry is not waited for ...
Enqueue ==
  /\ Len(entries) + pending < MaxEntries
  /\ pending' = pending + 1
  /\ verdict' = None
  /\ UNCHANGED <<startDay, month, dom, entries>>

recordCostEntry == Append(entries, Today)

\* ... and is written once the windows have been probed, or never: "billing must
\* not break enqueue".
Record ==
  /\ pending > 0 /\ pending' = pending - 1
  /\ entries' \in {entries, recordCostEntry}
  /\ verdict' = None
  /\ UNCHANGED <<startDay, month, dom>>

NextDay ==
  /\ \/ dom < MonthDays[month] /\ dom' = dom + 1 /\ UNCHANGED month
     \/ dom = MonthDays[month] /\ month < Len(MonthDays) /\ dom' = 1 /\ month' = month + 1
  /\ verdict' = None
  /\ UNCHANGED <<startDay, entries, pending>>

Next == Check \/ Enqueue \/ Record \/ NextDay

Spec == Init /\ [][Next]_vars

-------------------------------------------------------------------------------
TypeOK ==
  /\ startDay \in StartDays
  /\ month \in Months /\ dom \in 1..MonthDays[month]
  /\ entries \in Seq(1..DaysBefore[Len(MonthDays) + 1]) /\ Len(entries) + pending <= MaxEntries
  /\ pending \in Nat
  /\ verdict \in {None, "allowed", "stopped"}

\* The cycles begun up to a day: the months whose first day of a cycle has come.
CyclesBegun(day) == Cardinality({m \in Months : DayNumber(m, startDay) <= day})

\* What the guard counts are the entries of the cycle of today: none is carried over
\* from the one before, and none of this one is lost at the end of a month.  Every
\* month has the first day; else cycleStartDate lies past the month's end, and
\* on days before it the whole cycle counts for nothing (see README).
CountsCycle ==
  (\A m \in Months : startDay <= MonthDays[m]) =>
    sendsSince(cycleStartDate) =
      Cardinality({i \in DOMAIN entries : CyclesBegun(entries[i]) = CyclesBegun(Today)})
===============================================================================
