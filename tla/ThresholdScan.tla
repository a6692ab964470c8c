----------------------------- MODULE ThresholdScan -----------------------------
(***************************************************************************)
(* decision-engine's calibration of its own threshold: the job that every  *)
(* replica runs on a timer and on command (threshold_job.py, main.py), the *)
(* Redis lock it runs under (cache/redis.py), and the replay of the        *)
(* decision journal it stores a report of (threshold_scan.py).             *)
(*                                                                         *)
(* A row of the journal is its time and its kind, which says what the      *)
(* scorer makes of its features.  Scores run from 0 to Top.  The texts of  *)
(* the report, its volumes per day and the percentiles it lists are left   *)
(* out.                                                                    *)
(***************************************************************************)
EXTENDS Faults, FiniteSets, FiniteSetsExt

(* The faults counted: scans and writes that fail, replicas killed          *)
CONSTANTS
    ScanReplicas,
    ScanAxes,    \* AXIS_PROBE: axes of the model
    Kinds,       \* what a row may be: its symbol, the axes read, whether it has a
                 \* regime, its score if it has the evidence for one, whether its
                 \* confidence passes RISK_MIN_CONFIDENCE
    Top,         \* the highest score
    MinPresence, \* MIN_PRESENCE_PCT
    DayTicks,    \* ticks of the clock in a day
    RegimeGap,   \* _REGIME_GAP_WARN_HOURS, in ticks
    Days,        \* THRESHOLD_SCAN_DAYS
    Target,      \* THRESHOLD_SCAN_TARGET_PER_DAY
    MaxRows,     \* bound: rows journaled
    MaxScanTick  \* bound: ticks

ASSUME ScanAssumption ==
    /\ Top \in Nat /\ MinPresence \in Nat \ {0} /\ DayTicks \in Nat \ {0}
    /\ RegimeGap \in Nat /\ Days \in Nat /\ Target \in Nat
    /\ \A k \in Kinds : k.score \subseteq 0..Top

VARIABLES
    scanClock,
    journal, \* decision_journal: the rows, numbered, with their times and kinds
    lock,    \* lock:threshold-scan: the owner, if it is taken
    job,     \* per replica: "idle", "scan" or "store", and the report in hand
    latest,  \* threshold_reports: the last one, if any
    reported \* history: rows a report was made of

reports == <<latest, reported>>
scanVars == <<scanClock, journal, lock, job, reports, faults>>

Rows == DOMAIN journal
Scores == 0..Top
Idle == [pc |-> "idle", report |-> {}]

-----------------------------------------------------------------------------
(* scan_window: what the replay of the last days retains of the rows *)

Window(now, days) == {r \in Rows : journal[r].at > now - days * DayTicks}
Kind(r) == journal[r].kind
Day(r) == journal[r].at \div DayTicks
Presence(W, axis) == Cardinality({r \in W : axis \in Kind(r).axes})
RegimeSeen(W) == {r \in W : Kind(r).regime}
Start(W) == Min({journal[r].at : r \in W})

(* Rows that got no score for want of evidence are left out of all counts *)
Scored(W) == {r \in W : Kind(r).score # {}}
ScoreOf(r) == CHOOSE s \in Kind(r).score : TRUE
CountsGe(W, threshold) == Cardinality({r \in Scored(W) : ScoreOf(r) >= threshold})
Confident(W) == {r \in W : Kind(r).confident}

(* best_by_symbol_day *)
SymbolDays(W) == {<<Kind(r).symbol, Day(r)>> : r \in Scored(W)}
Best(W, k) == Max({ScoreOf(r) : r \in {q \in Scored(W) : <<Kind(q).symbol, Day(q)>> = k}})

-----------------------------------------------------------------------------
(* analyze *)

Mute(W) ==
    {a \in ScanAxes :
        IF W = {} THEN TRUE ELSE 100 * Presence(W, a) < MinPresence * Cardinality(W)}

Gap(W) == Start(RegimeSeen(W)) - Start(W)

Refusal(W) ==
    IF Mute(W) # {} THEN "MUTE_AXES"
    ELSE IF RegimeSeen(W) = {} THEN "NO_REGIME"
    ELSE IF Gap(W) > RegimeGap THEN "REGIME_GAP"
    ELSE "none"

SuggestedDays(W, now) ==
    LET since == now - Start(RegimeSeen(W))
    IN Max({1, (since + DayTicks - 1) \div DayTicks})

(* Mutant of ThresholdFor: the score that goes over the budget is let in *)
ThresholdAtBudget(W) ==
    LET over == {v \in Scores : CountsGe(W, v) > Target * Days}
    IN IF over = {} THEN 0 ELSE Max(over)

(* _threshold_for: from the top down, the last score before the budget is  *)
(* gone over, within the scale                                             *)
ThresholdFor(W) ==
    LET over == {v \in Scores : CountsGe(W, v) > Target * Days}
    IN IF over = {} THEN 0 ELSE Min({Top, Max(over) + 1})

(* _bounded_passing: nothing below the threshold reaches the risk engine *)
BoundedPassing(W, v, threshold) == CountsGe(W, Max({v, threshold}))

Proposal(W) ==
    LET threshold == ThresholdFor(W)
    IN [threshold |-> threshold,
        decisions |-> CountsGe(W, threshold),
        confidence_passing |-> CountsGe(Confident(W), threshold),
        distinct_symbols |-> Cardinality({k \in SymbolDays(W) : Best(W, k) >= threshold}),
        risk_min_score_effect |-> [v \in Scores |-> BoundedPassing(W, v, threshold)]]

Analyze(W, now) ==
    LET refusal == Refusal(W)
    IN [status |-> "ok", rows |-> W, now |-> now, refusal |-> refusal,
        suggested_days |-> IF refusal = "REGIME_GAP" THEN {SuggestedDays(W, now)} ELSE {},
        proposal |-> IF refusal = "none" THEN {Proposal(W)} ELSE {}]

Failed(now) == [status |-> "error", rows |-> {}, now |-> now, refusal |-> "none",
                suggested_days |-> {}, proposal |-> {}]

-----------------------------------------------------------------------------
(* ThresholdScanJob.run_once, from the loop of a replica or a detached      *)
(* RUN_THRESHOLD_SCAN                                                       *)

(* Not blocking: a scan that finds the lock held is given up *)
Acquire(r) ==
    /\ job[r] = Idle /\ lock = {}
    /\ lock' = {r}
    /\ job' = [job EXCEPT ![r] = [pc |-> "scan", report |-> {}]]
    /\ UNCHANGED <<scanClock, journal, reports, faults>>

(* Mutant of ExpireLock: the lock has no timeout *)
ExpireNever == FALSE /\ UNCHANGED scanVars

(* LOCK_TIMEOUT_S passes, whether or not its owner is still scanning *)
ExpireLock ==
    /\ lock # {} /\ lock' = {}
    /\ UNCHANGED <<scanClock, journal, job, reports, faults>>

(* The window is streamed as it is when the statement starts *)
ScanWindow(r) ==
    /\ job[r].pc = "scan"
    /\ job' = [job EXCEPT ![r] = [pc |-> "store",
                                  report |-> {Analyze(Window(scanClock, Days), scanClock)}]]
    /\ UNCHANGED <<scanClock, journal, lock, reports, faults>>

(* A scan that raises is stored too *)
ScanFails(r) ==
    /\ job[r].pc = "scan" /\ Fault
    /\ job' = [job EXCEPT ![r] = [pc |-> "store", report |-> {Failed(scanClock)}]]
    /\ UNCHANGED <<scanClock, journal, lock, reports>>

(* Only its owner releases the lock; one that has expired and was taken     *)
(* again is left alone                                                      *)
Release(r) == lock' = lock \ {r}

Store(r) ==
    /\ job[r].pc = "store"
    /\ latest' = job[r].report
    /\ reported' = reported \cup UNION {p.rows : p \in job[r].report}
    /\ job' = [job EXCEPT ![r] = Idle]
    /\ Release(r)
    /\ UNCHANGED <<scanClock, journal, faults>>

StoreFails(r) ==
    /\ job[r].pc = "store" /\ Fault
    /\ job' = [job EXCEPT ![r] = Idle]
    /\ Release(r)
    /\ UNCHANGED <<scanClock, journal, reports>>

(* The process is killed: its lock stays till it expires *)
Kill(r) ==
    /\ job[r] # Idle /\ Fault
    /\ job' = [job EXCEPT ![r] = Idle]
    /\ UNCHANGED <<scanClock, journal, lock, reports>>

WriteJournal ==
    /\ Cardinality(Rows) < MaxRows
    /\ \E k \in Kinds :
          journal' = [r \in Rows \cup {Cardinality(Rows) + 1} |->
                         IF r \in Rows THEN journal[r] ELSE [at |-> scanClock, kind |-> k]]
    /\ UNCHANGED <<scanClock, lock, job, reports, faults>>

ScanTick ==
    /\ scanClock < MaxScanTick
    /\ scanClock' = scanClock + 1
    /\ UNCHANGED <<journal, lock, job, reports, faults>>

-----------------------------------------------------------------------------
ScanInit ==
    /\ scanClock = 0 /\ journal = <<>> /\ lock = {} /\ latest = {} /\ reported = {} /\ faults = 0
    /\ job = [r \in ScanReplicas |-> Idle]

ScanNext ==
    \/ WriteJournal \/ ScanTick \/ ExpireLock
    \/ \E r \in ScanReplicas :
          \/ Acquire(r) \/ ScanWindow(r) \/ ScanFails(r)
          \/ Store(r) \/ StoreFails(r) \/ Kill(r)

ScanSpec == ScanInit /\ [][ScanNext]_scanVars

(* The loop of a replica comes round, a scan goes on, and a key expires *)
ScanFairSpec ==
    /\ ScanSpec /\ WF_scanVars(ExpireLock)
    /\ \A r \in ScanReplicas : WF_scanVars(Acquire(r)) /\ WF_scanVars(ScanWindow(r) \/ Store(r))

-----------------------------------------------------------------------------
(* Properties *)

(* A proposal is made of a window in which every axis spoke and the regime  *)
(* was read from the start, and keeps its word: the rows it lets through    *)
(* are within the target (or it is as strict as the scale allows), a point  *)
(* less would go over it, and no later guard is said to see more rows than  *)
(* it lets through.                                                         *)
ProposalKeepsTarget ==
    \A p \in latest : \A q \in p.proposal :
        /\ p.rows # {} /\ \A a \in ScanAxes : Presence(p.rows, a) > 0
        /\ \E r \in p.rows : Kind(r).regime /\ journal[r].at <= Start(p.rows) + RegimeGap
        /\ q.decisions <= Target * Days \/ q.threshold = Top
        /\ q.threshold > 0 => CountsGe(p.rows, q.threshold - 1) > Target * Days
        /\ q.distinct_symbols <= q.decisions /\ q.confidence_passing <= q.decisions
        /\ \A v \in Scores : q.risk_min_score_effect[v] <= q.decisions

(* Every row that stays in the window is in a report in the end: neither a  *)
(* scan that raises, a report that cannot be written nor a process killed   *)
(* under the lock stops the scans for good.                                 *)
EveryRowReported == <>[](Window(scanClock, Days) \subseteq reported)
=============================================================================
