----------------------------- MODULE ServiceHealth -----------------------------
(***************************************************************************)
(* How an outage reaches the Command Center: run_periodic counts the ticks  *)
(* of a service's tasks (runner.py), /health answers from the counts        *)
(* (app.py), the prober of api-gateway asks it and scrapes /metrics         *)
(* (health_collector.py), and the row it keeps becomes the colour of a      *)
(* stage of the graph (read_api.py, systems_pipeline.py).                   *)
(*                                                                          *)
(* One service is in motion; the rows of the stage's other services are     *)
(* constant.  Memory, latency and the labels of the metrics are left out.   *)
(***************************************************************************)
EXTENDS Faults, Sequences, FiniteSets, FiniteSetsExt, SequencesExt

(* The faults counted: crashes, probes and upserts that fail                *)
CONSTANTS
    Tasks,          \* periodic tasks of the service
    Critical,       \* those started with critical=True
    Interval,       \* per task its interval
    FailureWindow,  \* FAILURE_WINDOW_SECONDS
    UnhealthyAfter, \* UNHEALTHY_AFTER
    Siblings,       \* what the rows of the stage's other services may say (sequences)
    MaxEvents       \* bound: events a process publishes

VARIABLES
    broken,   \* tasks whose upstream is down
    up,       \* the process runs
    failures, \* TASK_HEALTH: consecutive failures per task
    events,   \* the process's counter of events
    siblings,
    probe,    \* probe in progress, if any
    sample,   \* _samples: the last reading of the counter, if any
    row       \* service_health, if any

process == <<up, failures, events>>
healthVars == <<broken, process, siblings, probe, sample, row, faults>>

AtLeast(a, b) == IF a < b THEN b ELSE a

-----------------------------------------------------------------------------
(* runner.py *)

Ceil(a, b) == -((-a) \div b)
Threshold(t) == AtLeast(UnhealthyAfter, Ceil(FailureWindow, Interval[t]))

Failing == {t \in Critical : failures[t] >= Threshold(t)}

TickOk(t) ==
    /\ up /\ t \notin broken
    /\ failures' = [failures EXCEPT ![t] = 0]
    /\ \E n \in {0, 1} :
          /\ events + n <= MaxEvents
          /\ events' = events + n
    /\ UNCHANGED <<broken, up, siblings, probe, sample, row, faults>>

(* Mutant of TickRaises: the exception is swallowed and not counted *)
TickSwallowed(t) == UNCHANGED failures

(* _record, counting no further than the threshold here *)
TickRaises(t) ==
    failures' = [failures EXCEPT ![t] = IF @ < Threshold(t) THEN @ + 1 ELSE @]

TickFails(t) ==
    /\ up /\ t \in broken
    /\ TickRaises(t)
    /\ UNCHANGED <<broken, up, events, siblings, probe, sample, row, faults>>

(* The counts and the counter are the process's own *)
HealthCrash ==
    /\ up /\ Fault
    /\ up' = FALSE
    /\ failures' = [t \in Tasks |-> 0] /\ events' = 0
    /\ UNCHANGED <<broken, siblings, probe, sample, row>>

Start ==
    /\ ~up /\ up' = TRUE
    /\ UNCHANGED <<broken, failures, events, siblings, probe, sample, row, faults>>

Break(t) ==
    /\ broken' = broken \cup {t}
    /\ UNCHANGED <<process, siblings, probe, sample, row, faults>>

Mend(t) ==
    /\ t \in broken
    /\ broken' = broken \ {t}
    /\ UNCHANGED <<process, siblings, probe, sample, row, faults>>

-----------------------------------------------------------------------------
(* health_collector.py *)

(* /health: 503 when a critical task is failing *)
Health == IF Failing = {} THEN "healthy" ELSE "degraded"

AskHealth ==
    /\ probe = {}
    /\ probe' = IF up THEN {[stage |-> "metrics", status |-> Health, rate |-> {}]}
                ELSE {[stage |-> "upsert", status |-> "down", rate |-> {}]}
    /\ UNCHANGED <<broken, process, siblings, sample, row, faults>>

AskFails ==
    /\ probe = {} /\ Fault
    /\ probe' = {[stage |-> "upsert", status |-> "down", rate |-> {}]}
    /\ UNCHANGED <<broken, process, siblings, sample, row>>

(* compute_detail: a counter that went back is no event at all *)
Rate == {AtLeast(0, events - s) : s \in sample}

Scrape ==
    /\ up
    /\ \E p \in probe :
          /\ p.stage = "metrics"
          /\ probe' = {[stage |-> "upsert", status |-> p.status, rate |-> Rate]}
    /\ sample' = {events}
    /\ UNCHANGED <<broken, process, siblings, row, faults>>

(* The scrape is best effort *)
ScrapeFails ==
    /\ ~up \/ faults < MaxFaults
    /\ faults' = IF up THEN faults + 1 ELSE faults
    /\ \E p \in probe :
          /\ p.stage = "metrics"
          /\ probe' = {[p EXCEPT !.stage = "upsert"]}
    /\ UNCHANGED <<broken, process, siblings, sample, row>>

Upsert ==
    /\ \E p \in probe :
          /\ p.stage = "upsert"
          /\ row' = {[status |-> p.status, rate |-> p.rate]}
    /\ probe' = {}
    /\ UNCHANGED <<broken, process, siblings, sample, faults>>

UpsertFails ==
    /\ \E p \in probe : p.stage = "upsert"
    /\ Fault
    /\ probe' = {}
    /\ UNCHANGED <<broken, process, siblings, sample, row>>

-----------------------------------------------------------------------------
(* systems_overview: the colour and the rate of the stage *)

StatusRank == [healthy |-> 0, idle |-> 1, degraded |-> 2, down |-> 3]

(* A service without a row is idle *)
Status == IF row = {} THEN "idle" ELSE (CHOOSE r \in row : TRUE).status
Measured == IF row = {} THEN {} ELSE (CHOOSE r \in row : TRUE).rate

(* Mutant of RollUpStatus: the best status wins *)
RollUpBest(statuses) ==
    CHOOSE s \in statuses : \A t \in statuses : StatusRank[s] <= StatusRank[t]

(* The worst status wins *)
RollUpStatus(statuses) ==
    CHOOSE s \in statuses : \A t \in statuses : StatusRank[s] >= StatusRank[t]

StageStatus == RollUpStatus({Status} \cup {s.status : s \in ToSet(siblings)})

(* The sum of what was measured, if anything was *)
RollUpThroughput(values) ==
    LET known == {i \in DOMAIN values : values[i] # {}}
    IN IF known = {} THEN {}
       ELSE {MapThenSumSet(LAMBDA i : CHOOSE n \in values[i] : TRUE, known)}

StageRate == RollUpThroughput(<<Measured>> \o [i \in DOMAIN siblings |-> siblings[i].rate])

-----------------------------------------------------------------------------
HealthInit ==
    /\ broken = {} /\ up = TRUE /\ failures = [t \in Tasks |-> 0] /\ events = 0
    /\ siblings \in Siblings
    /\ probe = {} /\ sample = {} /\ row = {} /\ faults = 0

TaskTick(t) == TickOk(t) \/ TickFails(t)
Prober == AskHealth \/ Scrape \/ ScrapeFails \/ Upsert

HealthNext ==
    \/ \E t \in Tasks : TaskTick(t) \/ Break(t) \/ Mend(t)
    \/ HealthCrash \/ Start \/ Prober \/ AskFails \/ UpsertFails

HealthSpec == HealthInit /\ [][HealthNext]_healthVars
(* run_periodic ticks for ever, compose restarts a container that ends, and *)
(* the prober is a loop that nothing ends                                   *)
HealthFairSpec ==
    /\ HealthSpec /\ WF_healthVars(Start) /\ WF_healthVars(Prober)
    /\ \A t \in Tasks : WF_healthVars(TaskTick(t))

-----------------------------------------------------------------------------
(* Properties *)

(* An outage is never silent: when the upstream of a critical task is down  *)
(* for good the stage is shown degraded or down in the end and for good,    *)
(* whatever its other services say, crashes and failed probes included      *)
(* ("a collector failing every cycle indistinguishable from a healthy one   *)
(* ... for 28 hours without a single alert").                               *)
OutageShows ==
    \A t \in Critical : <>[](t \in broken) => <>[](StageStatus \in {"degraded", "down"})
=============================================================================
