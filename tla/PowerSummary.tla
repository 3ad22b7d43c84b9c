---------------------------- MODULE PowerSummary ----------------------------
(***************************************************************************)
(* The hourly power summary (power-analysis/sensor.py, summary.py): facts  *)
(* from meters that start anew some time after midnight, a language model  *)
(* that answers a minute later or not at all, and the text the entity then *)
(* shows.  A figure stands for the day or month it is of; Missing is null. *)
(***************************************************************************)
EXTENDS Integers

CONSTANTS
  LastDay,     \* bound: the day the calendar stops at
  MonthStarts  \* the first days of months

VARIABLES
  today,
  daily,    \* daily meters: the day "last_reset" names; they hold that day's and the one's before
  monthly,  \* monthly meters: the same, of a month, by its first day
  through,  \* the day the utility's figures end with
  works,    \* do the key, the recorder and the model?
  pc,       \* the update: where it waits
  facts,    \* what it has gathered
  shown     \* the entity: its state, the facts its text is about, and source_date

outside == <<today, daily, monthly, through, works>>
vars == <<outside, pc, facts, shown>>

Missing == 0
MonthOf(d) == CHOOSE m \in MonthStarts : m <= d /\ \A n \in MonthStarts : n <= d => n <= m
None == [now |-> 0, today |-> Missing, yesterday |-> Missing, month |-> Missing, bill |-> Missing, bills |-> Missing, report |-> Missing]

TypeOK ==
  /\ today \in 1 .. LastDay /\ daily \in 1 .. LastDay /\ monthly \in MonthStarts
  /\ through \in 0 .. LastDay /\ works \in [{"key", "recorder", "model"} -> BOOLEAN]
  /\ pc \in {"idle", "key", "report", "model"}
  /\ shown.state \in {"unknown", "not_configured", "error", "expired", "ready"}

Init ==
  /\ today = 2 /\ daily = 2 /\ monthly = MonthOf(2) /\ through = 0
  /\ works = [w \in {"key", "recorder", "model"} |-> TRUE]
  /\ pc = "idle" /\ facts = None
  /\ shown = [state |-> "unknown", facts |-> None, date |-> 0]

-----------------------------------------------------------------------------
(* build_facts() *)

\* Mutant: whatever the meters hold.
MeterUnchecked(period) ==
  CASE period = "today" -> daily
    [] period = "yesterday" -> daily - 1
    [] period = "month" -> monthly

\* A meter that has not been reset in the period says nothing of it.
Meter(period) ==
  CASE period = "month" -> IF MonthOf(monthly) = MonthOf(today) THEN monthly ELSE Missing
    [] period = "today" -> IF daily = today THEN daily ELSE Missing
    [] period = "yesterday" -> IF daily = today THEN daily - 1 ELSE Missing

Facts ==
  [now |-> today, today |-> Meter("today"), yesterday |-> Meter("yesterday"), month |-> Meter("month"),
   bill |-> IF through = today - 1 THEN through ELSE Missing,
   bills |-> IF MonthOf(today) <= through /\ through <= today THEN MonthOf(through) ELSE Missing,
   report |-> Missing]

-----------------------------------------------------------------------------
(* async_update() *)

\* Home Assistant writes the state when the update has returned.
Ends(state) ==
  /\ pc' = "idle" /\ facts' = None
  /\ shown' = [state |-> state, facts |-> None, date |-> 0]

Starts == pc = "idle" /\ pc' = "key" /\ UNCHANGED <<facts, shown>>

ReadKey ==
  /\ pc = "key"
  /\ IF works["key"] THEN pc' = "report" /\ facts' = Facts /\ UNCHANGED shown
     ELSE Ends("not_configured")

\* Without a recorder the summary goes on without its report.
ReadReport ==
  /\ pc = "report" /\ pc' = "model"
  /\ facts' = [facts EXCEPT !.report = IF works["recorder"] THEN facts.now - 1 ELSE Missing]
  /\ UNCHANGED shown

\* Mutant: a text that fails once is not asked for again.
AskedOnce ==
  /\ pc = "model"
  /\ IF ~works["model"] \/ shown.state = "error" THEN Ends("error")
     ELSE IF today # facts.now THEN Ends("expired")
     ELSE pc' = "idle" /\ facts' = None /\ shown' = [state |-> "ready", facts |-> facts, date |-> facts.now]

\* An answer that is late, cut off or of another form is an error; one after midnight is
\* of no use.
Asked ==
  /\ pc = "model"
  /\ IF ~works["model"] THEN Ends("error")
     ELSE IF today # facts.now THEN Ends("expired")
     ELSE pc' = "idle" /\ facts' = None /\ shown' = [state |-> "ready", facts |-> facts, date |-> facts.now]

Update == (Starts \/ ReadKey \/ ReadReport \/ Asked) /\ UNCHANGED outside

-----------------------------------------------------------------------------
(* Around it *)

\* Every meter is reset once a day or month, some time after midnight.
Midnight ==
  /\ today < LastDay /\ daily = today /\ monthly = MonthOf(today)
  /\ today' = today + 1
  /\ UNCHANGED <<daily, monthly, through, works, pc, facts, shown>>

Reset ==
  /\ \/ daily # today /\ daily' = today /\ UNCHANGED monthly
     \/ monthly # MonthOf(today) /\ monthly' = MonthOf(today) /\ UNCHANGED daily
  /\ UNCHANGED <<today, through, works, pc, facts, shown>>

\* The utility is a day or more behind.
Reading ==
  /\ through' \in through + 1 .. today - 1
  /\ UNCHANGED <<today, daily, monthly, works, pc, facts, shown>>

Flips(w) ==
  /\ works' = [works EXCEPT ![w] = ~@]
  /\ UNCHANGED <<today, daily, monthly, through, pc, facts, shown>>

Next == Update \/ Midnight \/ Reset \/ Reading \/ \E w \in DOMAIN works : Flips(w)

Spec == Init /\ [][Next]_vars
FairSpec == Spec /\ WF_vars(Update)

-----------------------------------------------------------------------------
(* Properties *)

\* "null means unavailable": every figure behind a text that is shown is of the period
\* the text's date gives it, though midnight, resets and readings fall between the steps.
FiguresOfTheDate ==
  shown.state = "ready" =>
    LET f == shown.facts  d == shown.date IN
    /\ f.today \in {d, Missing} /\ f.yesterday \in {d - 1, Missing} /\ f.month \in {MonthOf(d), Missing}
    /\ f.bill \in {d - 1, Missing} /\ f.bills \in {MonthOf(d), Missing} /\ f.report \in {d - 1, Missing}

\* "retrying at the next hourly update": once key and model stay, so does a text, whatever
\* failed before.
TextComesBack == <>[](works["key"] /\ works["model"]) => <>[](shown.state = "ready")
=============================================================================
