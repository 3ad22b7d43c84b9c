----------------------------- MODULE VpnFailover -----------------------------
(***************************************************************************)
(* Gateway loop and controller loop in time: how long pods stay routed     *)
(* into a dead tunnel, and how many lost reports a live one survives.      *)
(* Time passes in ticks; gateway.sh sleeps, probes and reports, the        *)
(* controller looks at the report every CheckEvery ticks.  API calls of    *)
(* the controller take no time.                                            *)
(***************************************************************************)
EXTENDS Naturals

CONSTANTS
  SleepTicks,       \* INTERVAL of gateway.sh
  ProbeTimeout,     \* curl --max-time of the probe
  WriteTimeout,     \* curl --max-time of the status write
  FailsBeforeDown,  \* FAILS_BEFORE_DOWN
  CheckEvery,       \* INTERVAL of the controller
  StaleTicks,       \* STALE_SECONDS
  Rise,             \* RISE
  Faults,           \* what may go wrong besides lost writes: "tunnel", "pod"
  MaxLost,          \* bound: failed status writes in a row
  Horizon           \* bound: clocks saturate here

VARIABLES
  alive,     \* does the tunnel pass traffic?
  outage,    \* ticks since it stopped
  running,   \* is the gateway pod running?
  phase,     \* gateway.sh: asleep, probing, or writing a status that will (not) arrive
  timer,     \* ticks until the phase ends
  took,      \* ticks the status write takes
  healthy, fails,
  report,    \* the status ConfigMap: "none", "up" or "down"
  age,       \* ticks since it was written
  lost,      \* status writes that failed since
  steady,    \* have tunnel and pod been alive ever since?
  check,     \* ticks until the next pass of the controller
  streak,
  inPolicy   \* is the gateway in the live policy?

tunnel  == <<alive, outage>>
gateway == <<running, phase, timer, took, healthy, fails>>
config  == <<report, age, lost, steady>>
control == <<check, streak, inPolicy>>
vars == <<tunnel, gateway, config, control>>

TypeOK ==
  /\ alive \in BOOLEAN /\ outage \in 0 .. Horizon
  /\ running \in BOOLEAN
  /\ phase \in {"sleep", "probe", "deliver", "lose"}
  /\ timer \in 0 .. SleepTicks + ProbeTimeout + WriteTimeout
  /\ took \in 0 .. WriteTimeout
  /\ healthy \in BOOLEAN /\ fails \in 0 .. FailsBeforeDown
  /\ report \in {"none", "up", "down"} /\ age \in 0 .. Horizon /\ lost \in 0 .. MaxLost
  /\ steady \in BOOLEAN
  /\ check \in 0 .. CheckEvery /\ streak \in 0 .. Rise /\ inPolicy \in BOOLEAN

Init ==
  /\ alive = TRUE /\ outage = 0
  /\ running = TRUE /\ phase = "sleep" /\ timer = 0 /\ took = 0
  /\ healthy = FALSE /\ fails = 0
  /\ report = "none" /\ age = 0 /\ lost = 0 /\ steady = TRUE
  /\ check = 0 /\ streak = 0 /\ inPolicy = FALSE

Capped(n) == IF n < Horizon THEN n + 1 ELSE Horizon

\* Time passes when nobody is due.
Tick ==
  /\ check > 0 /\ (running => timer > 0)
  /\ outage' = IF alive THEN 0 ELSE Capped(outage)
  /\ age' = IF report = "none" THEN 0 ELSE Capped(age)
  /\ timer' = IF running THEN timer - 1 ELSE timer
  /\ check' = check - 1
  /\ UNCHANGED <<alive, running, phase, took, healthy, fails, report, lost, steady, streak, inPolicy>>

-----------------------------------------------------------------------------
(* gateway.sh *)

\* The status write takes up to its timeout and arrives or not.
BeginWrite ==
  /\ \/ phase' = "deliver"
     \/ phase' = "lose" /\ lost < MaxLost
  /\ took' \in 0 .. WriteTimeout
  /\ timer' = took'

StartRound ==
  /\ running /\ phase = "sleep" /\ timer = 0
  /\ phase' = "probe" /\ timer' = ProbeTimeout
  /\ UNCHANGED <<tunnel, running, took, healthy, fails, config, control>>

\* A live tunnel answers the probe at any time before its timeout.
ProbeAnswers ==
  /\ running /\ phase = "probe" /\ alive
  /\ healthy' = TRUE /\ fails' = 0
  /\ BeginWrite
  /\ UNCHANGED <<tunnel, running, config, control>>

\* The probe times out, or curl gives up before: a refused connection, an HTTP error.
ProbeFails ==
  /\ running /\ phase = "probe"
  /\ fails' = IF fails < FailsBeforeDown THEN fails + 1 ELSE fails
  /\ healthy' = (healthy /\ fails' < FailsBeforeDown)
  /\ BeginWrite
  /\ UNCHANGED <<tunnel, running, config, control>>

\* Mutant: a status is written only when it differs from the last one.
EndWriteOnChange ==
  /\ running /\ phase \in {"deliver", "lose"} /\ timer = 0
  /\ IF phase = "deliver" /\ report # (IF healthy THEN "up" ELSE "down")
       THEN report' = (IF healthy THEN "up" ELSE "down") /\ age' = took /\ lost' = 0 /\ steady' = alive
       ELSE lost' = (IF phase = "lose" THEN lost + 1 ELSE 0) /\ UNCHANGED <<report, age, steady>>
  /\ phase' = "sleep" /\ timer' = SleepTicks /\ took' = 0
  /\ UNCHANGED <<tunnel, running, healthy, fails, control>>

\* A write that is lost leaves the last report to age; "updated" is taken before the
\* write starts, so the time the write took is part of the report's age.
EndWrite ==
  /\ running /\ phase \in {"deliver", "lose"} /\ timer = 0
  /\ IF phase = "deliver"
       THEN report' = (IF healthy THEN "up" ELSE "down") /\ age' = took /\ lost' = 0 /\ steady' = alive
       ELSE lost' = lost + 1 /\ UNCHANGED <<report, age, steady>>
  /\ phase' = "sleep" /\ timer' = SleepTicks /\ took' = 0
  /\ UNCHANGED <<tunnel, running, healthy, fails, control>>

-----------------------------------------------------------------------------
(* The controller. *)

\* Mutant: the age of a report is not looked at.
UpWhateverAge == report = "up"

Up == report = "up" /\ age <= StaleTicks

\* Mutant: the streak is not saturated.
NextStreakUncapped == IF ~Up THEN 0 ELSE streak + 1

NextStreak == IF ~Up THEN 0 ELSE IF streak < Rise THEN streak + 1 ELSE Rise

Pass ==
  /\ check = 0
  /\ streak' = NextStreak
  /\ inPolicy' = (Up /\ (inPolicy \/ streak' >= Rise))
  /\ check' = CheckEvery
  /\ UNCHANGED <<tunnel, gateway, config>>

-----------------------------------------------------------------------------
(* The environment. *)

TunnelFlips ==
  /\ "tunnel" \in Faults
  /\ alive' = ~alive
  /\ outage' = 0
  /\ steady' = FALSE
  /\ UNCHANGED <<gateway, report, age, lost, control>>

\* The pod stops; a new one starts with a probe.
PodStops ==
  /\ "pod" \in Faults
  /\ running
  /\ running' = FALSE /\ phase' = "sleep" /\ timer' = 0 /\ took' = 0
  /\ healthy' = FALSE /\ fails' = 0
  /\ steady' = FALSE
  /\ UNCHANGED <<tunnel, report, age, lost, control>>

PodStarts ==
  /\ ~running
  /\ running' = TRUE
  /\ UNCHANGED <<tunnel, phase, timer, took, healthy, fails, config, control>>

Next ==
  \/ Tick \/ StartRound \/ ProbeAnswers \/ ProbeFails \/ EndWrite
  \/ Pass \/ TunnelFlips \/ PodStops \/ PodStarts

Spec == Init /\ [][Next]_vars
-----------------------------------------------------------------------------
(* Properties. *)

\* The longest round of gateway.sh.
Round == SleepTicks + ProbeTimeout + WriteTimeout

\* Pods leave a dead tunnel in the end, whatever the pod does: the script writes its last
\* "up" report before probe FailsBeforeDown fails, that report is believed for StaleTicks,
\* and the controller needs one more pass.
DropBound == inPolicy => outage <= (FailsBeforeDown - 1) * Round + StaleTicks + CheckEvery

\* A gateway reported up, whose tunnel and pod have been alive since that report, is
\* dropped only after so many lost reports in a row that its longest rounds use up
\* STALE_SECONDS, a write's own time included: never while reports arrive, with the
\* deployed timing, whatever probes fail and however slow they are.
ReportsKeepPolicy ==
  [][inPolicy /\ ~inPolicy' /\ report = "up" /\ steady =>
       (lost + 1) * Round + WriteTimeout > StaleTicks]_inPolicy
=============================================================================
