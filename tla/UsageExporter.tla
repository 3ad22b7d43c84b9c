---------------------------- MODULE UsageExporter ----------------------------
(***************************************************************************)
(* usage-exporter.py beside Hermes: totals of state.db per label set, a    *)
(* cache, and zeros first for label sets that turn up later, so that       *)
(* Prometheus, which takes a series' first sample as its starting point,   *)
(* counts their first calls too.  Time passes in ticks of 30 s.            *)
(***************************************************************************)
EXTENDS Naturals

CONSTANTS
  Sets,         \* label sets
  Hold,         \* HOLD_SECONDS
  CacheTicks,   \* CACHE_SECONDS
  ScrapeEvery,  \* interval of the ServiceMonitor
  MaxCalls,     \* bound: calls of a label set
  MaxLost       \* bound: scrapes in a row that bring nothing

VARIABLES
  calls,     \* state.db: calls by label set
  readable,  \* can it be read?
  first,     \* _first_seen, as the time since, for label sets that came later
  history,   \* ... and the label sets that were there at first
  done,      \* _baseline
  body,      \* the cached answer: up, and a value by label set
  cached,    \* ticks since it was rendered
  sample,    \* Prometheus' last sample by label set
  due,       \* ticks to the next scrape
  lost       \* scrapes since the last that read state.db

exporter == <<first, history, done, body, cached>>
vars == <<calls, readable, exporter, sample, due, lost>>

TypeOK ==
  /\ calls \in [Sets -> 0 .. MaxCalls] /\ readable \in BOOLEAN
  /\ DOMAIN first \subseteq Sets /\ \A l \in DOMAIN first : first[l] \in 0 .. Hold
  /\ history \subseteq Sets \ DOMAIN first /\ done \in BOOLEAN
  /\ DOMAIN body.lines \subseteq Sets /\ DOMAIN sample \subseteq Sets
  /\ cached \in 0 .. CacheTicks + 1 /\ due \in 0 .. ScrapeEvery /\ lost \in 0 .. MaxLost

\* monotonic() is far from the 0.0 of _cache["at"] by the time the pod runs.
Fresh ==
  /\ first = <<>> /\ history = {} /\ done = FALSE
  /\ body = [up |-> FALSE, lines |-> <<>>] /\ cached = CacheTicks + 1

Init ==
  /\ calls = [l \in Sets |-> 0] /\ readable = TRUE
  /\ Fresh
  /\ sample = <<>> /\ due = ScrapeEvery /\ lost = 0

-----------------------------------------------------------------------------
(* The exporter *)

Rows == IF readable THEN {l \in Sets : calls[l] > 0} ELSE {}

\* Mutant: a failed read is a baseline too.
BaselineAlways == TRUE

Baseline == done \/ readable

\* Mutant: a new label set is served as 0 once.
HeldOnce(l, age) == l \in DOMAIN age /\ age[l] = 0

Held(l, age) == l \in DOMAIN age /\ age[l] < Hold

Render ==
  LET new == Rows \ (DOMAIN first \cup history)
      age == IF done THEN [l \in DOMAIN first \cup new |-> IF l \in new THEN 0 ELSE first[l]] ELSE first
  IN  /\ first' = age
      /\ history' = history \cup (IF done THEN {} ELSE new)
      /\ done' = Baseline
      /\ body' = [up |-> readable, lines |-> [l \in Rows |-> IF Held(l, age) THEN 0 ELSE calls[l]]]
      /\ cached' = 0

\* do_GET, under its lock.
Get == IF cached > CacheTicks THEN Render ELSE UNCHANGED exporter

-----------------------------------------------------------------------------
(* Around it *)

\* A scrape that fails, before or after it has reached the exporter, and one that finds
\* state.db unreadable bring no samples.
Scrape ==
  /\ due = 0 /\ due' = ScrapeEvery
  /\ \/ Get
        /\ sample' = [l \in DOMAIN body'.lines \cup DOMAIN sample |->
                        IF l \in DOMAIN body'.lines THEN body'.lines[l] ELSE sample[l]]
        /\ IF body'.up THEN lost' = 0 ELSE lost < MaxLost /\ lost' = lost + 1
     \/ (Get \/ UNCHANGED exporter) /\ UNCHANGED sample
        /\ lost < MaxLost /\ lost' = lost + 1
  /\ UNCHANGED <<calls, readable>>

SomeoneReads == Get /\ UNCHANGED <<calls, readable, sample, due, lost>>

Call(l) ==
  /\ calls[l] < MaxCalls /\ calls' = [calls EXCEPT ![l] = @ + 1]
  /\ UNCHANGED <<readable, exporter, sample, due, lost>>

Database == readable' = ~readable /\ UNCHANGED <<calls, exporter, sample, due, lost>>

Restart ==
  /\ first' = <<>> /\ history' = {} /\ done' = FALSE
  /\ body' = [up |-> FALSE, lines |-> <<>>] /\ cached' = CacheTicks + 1
  /\ UNCHANGED <<calls, readable, sample, due, lost>>

Tick ==
  /\ due > 0 /\ due' = due - 1
  /\ cached' = IF cached > CacheTicks THEN cached ELSE cached + 1
  /\ first' = [l \in DOMAIN first |-> IF first[l] < Hold THEN first[l] + 1 ELSE Hold]
  /\ UNCHANGED <<calls, readable, history, done, body, sample, lost>>

Next == Scrape \/ SomeoneReads \/ Database \/ Restart \/ Tick \/ \E l \in Sets : Call(l)
Spec == Init /\ [][Next]_vars

-----------------------------------------------------------------------------
(* Properties *)

\* "so at least one scrape sees the zero": whoever else reads, a series that does not
\* start at 0 was there when the exporter first read state.db, or as many scrapes in a
\* row as the hold has room for, three where it is 180 s, brought nothing.
FirstCallsCounted ==
  [][\A l \in Sets : l \notin DOMAIN sample /\ l \in DOMAIN sample' /\ sample'[l] > 0
       => l \in history' \/ (lost + 1) * ScrapeEvery > Hold]_vars

\* increase() takes a fall for a reset and counts everything again: neither a restart nor
\* a read that fails ever turns a total back to the 0 of a new label set.
TotalsNeverFall == [][\A l \in DOMAIN sample : sample'[l] >= sample[l]]_vars
=============================================================================
