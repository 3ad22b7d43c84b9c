----------------------------- MODULE Applications -----------------------------
(* Programs beside Home Assistant, Hermes, HolmesGPT, Open WebUI, Presenton and *)
(* PostHog, which share no state with one another: in every behaviour one of    *)
(* them runs, its job, and the others stay as they were.  The retirement of      *)
(* statistics is extended, the others are instances.                             *)
EXTENDS RetiredStatistics, Integers, Sequences

CONSTANTS
  RepairRows, RepairFaults,                                \* PowerRepair
  Midnights, MeterFaults,                                  \* PowerAnalysis
  LastDay, MonthStarts,                                    \* PowerSummary
  Commits, Tasks, SeedFaults,                              \* HermesSeed
  Sets, Hold, CacheTicks, ScrapeEvery, MaxCalls, MaxLost,  \* UsageExporter
  MaxAsks, Keep, Ttl,                                      \* HolmesConsole
  Functions, Codes, Backoff, AdminEdits,                   \* FunctionLoader
  Keys, Prefs, PresentonFaults,                            \* PresentonSettings
  Teams, Declared, Others, UserEdits, ReplayFaults         \* ReplaySettings

\* A repair has a row, a day an hour, the calendar a first month; something is pinned,
\* mounted and held in a Secret.
ASSUME RepairAssumption == RepairRows \in Nat \ {0} /\ RepairFaults \in Nat
ASSUME AnalysisAssumption ==
  /\ Midnights \in Seq(Nat) /\ Len(Midnights) > 0 /\ MeterFaults \in Nat
  /\ \A d \in 1 .. Len(Midnights) - 1 : Midnights[d] < Midnights[d + 1]
ASSUME SummaryAssumption ==
  LastDay \in Nat /\ LastDay >= 2 /\ MonthStarts \subseteq 1 .. LastDay /\ 1 \in MonthStarts
ASSUME HermesAssumption == Commits # {} /\ "none" \notin Commits /\ SeedFaults \in Nat
ASSUME UsageAssumption ==
  Hold \in Nat /\ CacheTicks \in Nat /\ ScrapeEvery \in Nat \ {0} /\ MaxCalls \in Nat /\ MaxLost \in Nat
ASSUME HolmesAssumption == MaxAsks \in Nat /\ Keep \in Nat /\ Ttl \in Nat
ASSUME FiltersAssumption ==
  /\ Functions \in Seq(STRING) /\ Len(Functions) > 0
  /\ \A i, k \in DOMAIN Functions : Functions[i] = Functions[k] => i = k
  /\ Codes # {} /\ {"none", "edited"} \cap Codes = {} /\ Backoff \in Nat /\ AdminEdits \in Nat
ASSUME PresentonAssumption == Keys # {} /\ {"absent", "old", "torn"} \cap Keys = {} /\ PresentonFaults \in Nat
ASSUME ReplayAssumption ==
  /\ Teams \in Seq(STRING) /\ \A i, k \in DOMAIN Teams : Teams[i] = Teams[k] => i = k
  /\ "none" \notin Declared \cup Others /\ UserEdits \in Nat /\ ReplayFaults \in Nat

VARIABLES
  job,
  step, repairPc, rows, journal, repairDurable, repairFaults,      \* PowerRepair
  hour, used, statistics, late, fell, bills, meterFaults,          \* PowerAnalysis
  today, daily, monthly, through, works, updatePc, facts, shown,   \* PowerSummary
  pinned, skill, cut, own, ready, toBlock, seedPc, parked, seedFaults,  \* HermesSeed
  calls, readable, first, history, done, body, cached, sample, due, lost,  \* UsageExporter
  results, age, busy, uncertain, asked, worker, reply, upstream, orphans,  \* HolmesConsole
  gitCode, table, loaderPc, loaderAt, failures, adminEdits, apart,         \* FunctionLoader
  secret, settingsRow, config, backup, presentonPc, key, data, presentonFaults,         \* PresentonSettings
  projects, locked, saved, seen, replayPc, replayAt, edited, userEdits, replayFaults    \* ReplaySettings

repair   == <<step, repairPc, rows, journal, repairDurable, repairFaults>>
analysis == <<hour, used, statistics, late, fell, bills, meterFaults>>
summary  == <<today, daily, monthly, through, works, updatePc, facts, shown>>
hermes   == <<pinned, skill, cut, own, ready, toBlock, seedPc, parked, seedFaults>>
usage    == <<calls, readable, first, history, done, body, cached, sample, due, lost>>
holmes   == <<results, age, busy, uncertain, asked, worker, reply, upstream, orphans>>
filters  == <<gitCode, table, loaderPc, loaderAt, failures, adminEdits, apart>>
presenton == <<secret, settingsRow, config, backup, presentonPc, key, data, presentonFaults>>
replay   == <<projects, locked, saved, seen, replayPc, replayAt, edited, userEdits, replayFaults>>
allVars  == <<job, vars, repair, analysis, summary, hermes, usage, holmes, filters, presenton, replay>>

PR == INSTANCE PowerRepair WITH
  MaxRows <- RepairRows, Faults <- RepairFaults, pc <- repairPc, durable <- repairDurable, faults <- repairFaults

PA == INSTANCE PowerAnalysis WITH MaxFaults <- MeterFaults, rows <- statistics, faults <- meterFaults

PS == INSTANCE PowerSummary WITH pc <- updatePc

HS == INSTANCE HermesSeed WITH Faults <- SeedFaults, pc <- seedPc, faults <- seedFaults

UE == INSTANCE UsageExporter

HC == INSTANCE HolmesConsole WITH jobs <- results

FL == INSTANCE FunctionLoader WITH
  Versions <- Codes, Edits <- AdminEdits, git <- gitCode, pc <- loaderPc, at <- loaderAt, edits <- adminEdits

PN == INSTANCE PresentonSettings WITH
  Faults <- PresentonFaults, row <- settingsRow, pc <- presentonPc, faults <- presentonFaults

RS == INSTANCE ReplaySettings WITH
  Edits <- UserEdits, Faults <- ReplayFaults,
  row <- projects, pc <- replayPc, at <- replayAt, edits <- userEdits, faults <- replayFaults

InitAll ==
  /\ job \in {"retirement", "repair", "analysis", "summary", "hermes", "usage", "holmes",
            "filters", "presenton", "replay"}
  /\ Init /\ PR!Init /\ PA!Init /\ PS!Init /\ HS!Init /\ UE!Init /\ HC!Init
  /\ FL!Init /\ PN!Init /\ RS!Init
  /\ job # "presenton" =>
       settingsRow = PN!Absent /\ config = PN!Absent /\ backup = PN!Absent /\ secret = CHOOSE k \in Keys : TRUE

Runs(name, others) == job = name /\ UNCHANGED <<job, others>>

RetirementRuns == Runs("retirement", <<repair, analysis, summary, hermes, usage, holmes, filters, presenton, replay>>)
RepairRuns     == Runs("repair", <<vars, analysis, summary, hermes, usage, holmes, filters, presenton, replay>>)
AnalysisRuns   == Runs("analysis", <<vars, repair, summary, hermes, usage, holmes, filters, presenton, replay>>)
SummaryRuns    == Runs("summary", <<vars, repair, analysis, hermes, usage, holmes, filters, presenton, replay>>)
HermesRuns     == Runs("hermes", <<vars, repair, analysis, summary, usage, holmes, filters, presenton, replay>>)
UsageRuns      == Runs("usage", <<vars, repair, analysis, summary, hermes, holmes, filters, presenton, replay>>)
HolmesRuns     == Runs("holmes", <<vars, repair, analysis, summary, hermes, usage, filters, presenton, replay>>)
FiltersRuns    == Runs("filters", <<vars, repair, analysis, summary, hermes, usage, holmes, presenton, replay>>)
PresentonRuns  == Runs("presenton", <<vars, repair, analysis, summary, hermes, usage, holmes, filters, replay>>)
ReplayRuns     == Runs("replay", <<vars, repair, analysis, summary, hermes, usage, holmes, filters, presenton>>)

NextAll ==
  \/ RetirementRuns /\ Next
  \/ RepairRuns /\ PR!Next
  \/ AnalysisRuns /\ PA!Next
  \/ SummaryRuns /\ PS!Next
  \/ HermesRuns /\ HS!Next
  \/ UsageRuns /\ UE!Next
  \/ HolmesRuns /\ HC!Next
  \/ FiltersRuns /\ FL!Next
  \/ PresentonRuns /\ PN!Next
  \/ ReplayRuns /\ RS!Next

\* The fairness each program's module states, in the behaviours that run it.
SpecAll ==
  /\ InitAll /\ [][NextAll]_allVars
  /\ WF_allVars(RetirementRuns /\ Container)
  /\ WF_allVars(RepairRuns /\ PR!Container)
  /\ WF_allVars(SummaryRuns /\ PS!Update)
  /\ WF_allVars(HermesRuns /\ HS!Seed)
  /\ WF_allVars(HolmesRuns /\ HC!Run)
  /\ WF_allVars(PresentonRuns /\ PN!Reconcile)

TypesOK ==
  /\ TypeOK /\ PR!TypeOK /\ PA!TypeOK /\ PS!TypeOK /\ HS!TypeOK /\ UE!TypeOK /\ HC!TypeOK
  /\ FL!TypeOK /\ PN!TypeOK /\ RS!TypeOK

-----------------------------------------------------------------------------
(* What the programs promise, each in the behaviours that run it. *)

\* The power statistics stay one series that can be lowered again; a day is billed for
\* exactly its hours, and when those are there; no text shows a figure of another period.
StatisticsRight ==
  /\ PR!OneBaseline /\ PR!Undoable
  /\ PA!CountsItsHours /\ PA!WholeDaysCount
  /\ PS!FiguresOfTheDate

\* A seeding that says it is done has done it, wherever earlier ones were killed: tasks are
\* parked, functions as in git, settings and projects as declared, and skills whole, unless
\* the removal of one was cut off and its commit is pinned again.
SeededAsDeclared ==
  /\ HS!MarkerMeansWhole /\ HS!ParkedMeansNone
  /\ FL!ServedAsInGit /\ PN!GitOwned /\ RS!Reconciled

\* The GPU has one investigation of the console at a time, and a console that takes no
\* more is at work or says why.
OneAtATime == HC!OneInvestigation /\ HC!RefusalExplained

\* What a step may not do: hide the first calls of a series or let a total fall, or drop
\* the URLs that users have added.
NothingDropped == UE!FirstCallsCounted /\ UE!TotalsNeverFall /\ RS!UrlsKept

\* Every program that another waits for comes to its end: Home Assistant starts, repaired
\* or not, Hermes and Presenton start, text and result are there in the end.
AllStart ==
  /\ job = "retirement" => Starts
  /\ job = "repair" => PR!StartsRepaired
  /\ job = "summary" => PS!TextComesBack
  /\ job = "hermes" => HS!GatewayStarts
  /\ job = "holmes" => HC!Reported
  /\ job = "presenton" => PN!PresentonStarts
=============================================================================
