---------------------------- MODULE HolmesConsole ----------------------------
(***************************************************************************)
(* The console in front of HolmesGPT (_archive/holmesgpt/scripts/server.py)*)
(* and the investigations that really run behind it: one at a time, since  *)
(* each occupies the GPU, and none while it is unknown whether the last    *)
(* one still does.                                                         *)
(***************************************************************************)
EXTENDS Naturals, FiniteSets

CONSTANTS
  MaxAsks,  \* bound: investigations
  Keep,     \* results that are kept
  Ttl       \* how long, in ticks

VARIABLES
  jobs,       \* the results, by id
  age,        \* ticks since each investigation was submitted
  busy, uncertain,
  asked,      \* ids are handed out in order
  worker,     \* the pool's thread: [pc, id]
  reply,      \* what Holmes has answered, or "none"
  upstream,   \* the investigations that run in Holmes
  orphans     \* those of a console that is gone

manager == <<jobs, busy, uncertain, asked>>
vars == <<manager, age, worker, reply, upstream, orphans>>

Ids == 1 .. MaxAsks
Idle == [pc |-> "idle", id |-> 0]

TypeOK ==
  /\ jobs \in [Ids -> {"none", "running", "complete", "failed"}]
  /\ age \in [Ids -> 0 .. Ttl]
  /\ busy \in BOOLEAN /\ uncertain \in BOOLEAN
  /\ asked \in 0 .. MaxAsks
  /\ worker \in [pc : {"idle", "check", "wait"}, id : 0 .. MaxAsks]
  /\ reply \in {"none", "good", "refused", "invalid", "odd"}
  /\ upstream \subseteq Ids /\ orphans \subseteq Ids

Init ==
  /\ jobs = [i \in Ids |-> "none"] /\ age = [i \in Ids |-> 0]
  /\ busy = FALSE /\ uncertain = FALSE /\ asked = 0
  /\ worker = Idle /\ reply = "none" /\ upstream = {} /\ orphans = {}

-----------------------------------------------------------------------------
(* Investigations *)

\* The results that are young enough, and of those the latest Keep - 1.
Young == {i \in Ids : jobs[i] # "none" /\ age[i] < Ttl}
Kept == {i \in Young : Cardinality({k \in Young : k > i}) < Keep - 1}

\* do_POST answers 429 while busy.
Submit ==
  /\ ~busy /\ asked < MaxAsks
  /\ asked' = asked + 1
  /\ jobs' = [i \in Ids |-> IF i = asked' THEN "running" ELSE IF i \in Kept THEN jobs[i] ELSE "none"]
  /\ age' = [age EXCEPT ![asked'] = 0]
  /\ busy' = TRUE
  /\ worker' = [pc |-> "check", id |-> asked']
  /\ UNCHANGED <<uncertain, reply, upstream, orphans>>

\* Mutant: the doubt is not kept for /api/status.
FinishUnmarked(state, doubt) ==
  /\ worker' = Idle /\ reply' = "none"
  /\ jobs' = [jobs EXCEPT ![worker.id] = state]
  /\ busy' = doubt
  /\ UNCHANGED <<uncertain, asked, age, orphans>>

\* Mutant: a lost connection ends the investigation.
FinishFree(state, doubt) ==
  /\ worker' = Idle /\ reply' = "none"
  /\ jobs' = [jobs EXCEPT ![worker.id] = state]
  /\ uncertain' = doubt /\ busy' = FALSE
  /\ UNCHANGED <<asked, age, orphans>>

\* The end of _run(): a job that is no longer there is a KeyError, which leaves the rest.
Finish(state, doubt) ==
  /\ worker' = Idle /\ reply' = "none"
  /\ IF jobs[worker.id] = "none" THEN UNCHANGED <<jobs, uncertain, busy>>
     ELSE /\ jobs' = [jobs EXCEPT ![worker.id] = state]
          /\ uncertain' = doubt /\ busy' = doubt
  /\ UNCHANGED <<asked, age, orphans>>

\* The gateway is down: nothing is sent.
CheckFails == worker.pc = "check" /\ Finish("failed", FALSE) /\ UNCHANGED upstream

\* The connection to Holmes may fail, too, before the request is in.
Send ==
  /\ worker.pc = "check"
  /\ \/ worker' = [worker EXCEPT !.pc = "wait"] /\ upstream' = upstream \cup {worker.id}
        /\ UNCHANGED <<manager, age, reply, orphans>>
     \/ Finish("failed", TRUE) /\ UNCHANGED upstream

\* Mutant: what is not expected of a response ends the thread.
AnsweredUncaught ==
  /\ worker.pc = "wait" /\ reply # "none"
  /\ IF reply = "odd" THEN worker' = Idle /\ reply' = "none" /\ UNCHANGED <<manager, age, orphans>>
     ELSE Finish(IF reply = "good" THEN "complete" ELSE "failed", FALSE)
  /\ UNCHANGED upstream

\* HTTP errors and responses that are too large or of another form are the end of it.  A
\* tool call that is not an object is an AttributeError, and those leave doubt.
Answered ==
  /\ worker.pc = "wait" /\ reply # "none"
  /\ Finish(IF reply = "good" THEN "complete" ELSE "failed", reply = "odd")
  /\ UNCHANGED upstream

\* A timeout or a connection that breaks; Holmes goes on.
Lost == worker.pc = "wait" /\ Finish("failed", TRUE) /\ UNCHANGED upstream

Run == CheckFails \/ Send \/ Answered \/ Lost

-----------------------------------------------------------------------------
(* Around it *)

\* Holmes ends an investigation; the console that asked for it gets the answer.
HolmesEnds ==
  /\ \E i \in upstream :
       /\ upstream' = upstream \ {i}
       /\ IF worker = [pc |-> "wait", id |-> i] THEN reply' \in {"good", "refused", "invalid", "odd"}
          ELSE UNCHANGED reply
  /\ UNCHANGED <<manager, age, worker, orphans>>

Tick ==
  /\ \E i \in 1 .. asked : age[i] < Ttl
  /\ age' = [i \in Ids |-> IF i <= asked /\ age[i] < Ttl THEN age[i] + 1 ELSE age[i]]
  /\ UNCHANGED <<manager, worker, reply, upstream, orphans>>

\* All of it is in memory.
Restart ==
  /\ jobs' = [i \in Ids |-> "none"] /\ busy' = FALSE /\ uncertain' = FALSE
  /\ worker' = Idle /\ reply' = "none"
  /\ orphans' = orphans \cup upstream
  /\ UNCHANGED <<asked, age, upstream>>

Next == Submit \/ Run \/ HolmesEnds \/ Tick \/ Restart
Spec == Init /\ [][Next]_vars

\* Every wait of the thread has a timeout.
FairSpec == Spec /\ WF_vars(Run)

-----------------------------------------------------------------------------
(* Properties *)

\* "one at a time": whatever is lost on the way, no two investigations a console has
\* started run in Holmes at once.
OneInvestigation == \A i, k \in upstream \ orphans : i = k

\* A console that takes no more questions is at work or says why: "upstream_unknown".
RefusalExplained == busy => worker # Idle \/ uncertain

\* Nobody polls for ever: an investigation that was accepted is reported complete or
\* failed, or the console has forgotten it.
Reported == \A i \in Ids : jobs[i] = "running" ~> jobs[i] # "running"
=============================================================================
