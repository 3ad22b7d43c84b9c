---------------------------- MODULE PowerAnalysis ----------------------------
(***************************************************************************)
(* analyze() of power-analysis/analysis.py over the recorder's hourly      *)
(* statistics: which local days it counts and what it makes of them, while *)
(* rows go missing, turn up later and counters fall.  The row of an hour   *)
(* holds a counter's sum at its end; local days differ in length.          *)
(***************************************************************************)
EXTENDS Integers, Sequences

CONSTANTS
  Midnights,  \* Midnights[d] is the hour that ends as local day d begins
  MaxFaults   \* bound: rows that are late, and falls

VARIABLES
  hour,   \* the last hour that has ended
  used,   \* what the whole PC and its gaming sessions had used by the end of each hour
  rows,   \* the statistics that are recorded
  late,   \* those that come later
  fell,   \* how far each counter has fallen, and in which hours
  bills,  \* the days the utility has reported
  faults

vars == <<hour, used, rows, late, fell, bills, faults>>

Series == {"pc", "gaming"}
Days == 1 .. Len(Midnights) - 1
Hours == 0 .. Midnights[Len(Midnights)]
Use == [pc : {0, 1}, gaming : {0, 1}]

TypeOK ==
  /\ hour \in Hours /\ used \in [0 .. hour -> [Series -> Nat]]
  /\ DOMAIN rows \cap DOMAIN late = {} /\ DOMAIN rows \cup DOMAIN late = 0 .. hour
  /\ bills \subseteq Days /\ faults \in 0 .. MaxFaults

Init ==
  /\ hour = 0 /\ used = [h \in {0} |-> [s \in Series |-> 0]]
  /\ rows = [h \in {0} |-> [s \in Series |-> 0]] /\ late = [h \in {} |-> 0]
  /\ fell = [by |-> [s \in Series |-> 0], at |-> {}]
  /\ bills = {} /\ faults = 0

-----------------------------------------------------------------------------
(* analyze() *)

\* Mutant: every day has as many hours as the first.
LastHourFixed(d) == Midnights[d] + Midnights[2] - Midnights[1]

LastHour(d) == Midnights[d + 1]

\* Mutant: the hours of the day alone.
SampledWithin(d) == Midnights[d] + 1 .. LastHour(d)

\* range(start - 3600, end, 3600)
Sampled(d) == Midnights[d] .. LastHour(d)

Complete(d) == Sampled(d) \subseteq DOMAIN rows

Steady(d, s) ==
  \A h \in Sampled(d) : h + 1 \in Sampled(d) => rows[h + 1][s] >= rows[h][s]

Delta(d, s) ==
  LET hs == Sampled(d)
      lo == CHOOSE h \in hs : \A k \in hs : h <= k
      hi == CHOOSE h \in hs : \A k \in hs : h >= k
  IN  rows[hi][s] - rows[lo][s]

\* A day counts when its history is whole, no counter fell, the utility has reported it
\* and the parts do not exceed the whole.
Included(d) ==
  /\ Complete(d) /\ (\A s \in Series : Steady(d, s)) /\ d \in bills
  /\ Delta(d, "gaming") <= Delta(d, "pc")

-----------------------------------------------------------------------------
(* Meters, recorder and utility *)

\* Sessions are part of the whole.  A counter falls by more than an hour's use.
HourEnds(u, missing, falls) ==
  /\ hour < Midnights[Len(Midnights)] /\ u.gaming <= u.pc
  /\ hour' = hour + 1
  /\ used' = [h \in 0 .. hour' |-> IF h = hour' THEN [s \in Series |-> used[hour][s] + u[s]] ELSE used[h]]
  /\ fell' = IF falls = {} THEN fell
             ELSE [by |-> [s \in Series |-> fell.by[s] + (IF s \in falls THEN 2 ELSE 0)], at |-> fell.at \cup {hour'}]
  /\ LET row == [s \in Series |-> used'[hour'][s] - fell'.by[s]]
         With(f) == [h \in DOMAIN f \cup {hour'} |-> IF h = hour' THEN row ELSE f[h]]
     IN  IF missing THEN late' = With(late) /\ UNCHANGED rows ELSE rows' = With(rows) /\ UNCHANGED late
  /\ faults' = faults + (IF missing THEN 1 ELSE 0) + (IF falls = {} THEN 0 ELSE 1)
  /\ faults' <= MaxFaults
  /\ UNCHANGED bills

\* Home Assistant was down and compiles the hour when it is back, or never does.
Compiled(h) ==
  /\ rows' = [k \in DOMAIN rows \cup {h} |-> IF k = h THEN late[h] ELSE rows[k]]
  /\ late' = [k \in DOMAIN late \ {h} |-> late[k]]
  /\ UNCHANGED <<hour, used, fell, bills, faults>>

Bill(d) ==
  /\ Midnights[d + 1] <= hour /\ d \notin bills /\ bills' = bills \cup {d}
  /\ UNCHANGED <<hour, used, rows, late, fell, faults>>

Next ==
  \/ \E u \in Use, missing \in BOOLEAN, falls \in {{}} \cup {{s} : s \in Series} : HourEnds(u, missing, falls)
  \/ \E h \in DOMAIN late : Compiled(h)
  \/ \E d \in Days : Bill(d)

Spec == Init /\ [][Next]_vars

-----------------------------------------------------------------------------
(* Properties *)

HoursOf(d) == Midnights[d] + 1 .. Midnights[d + 1]
Actual(d, s) == used[Midnights[d + 1]][s] - used[Midnights[d]][s]

\* "completed local days": what is counted for a day is what was used in exactly its
\* hours, on the days the clocks change too, whatever is missing, late or fell.
CountsItsHours == \A d \in Days : Included(d) => \A s \in Series : Delta(d, s) = Actual(d, s)

\* ... and no day is passed over for an hour outside it but the one that ends as it begins.
WholeDaysCount ==
  \A d \in bills :
    (HoursOf(d) \cup {Midnights[d]}) \subseteq DOMAIN rows /\ HoursOf(d) \cap fell.at = {} => Included(d)
=============================================================================
