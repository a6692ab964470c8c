---------------------------- MODULE JournalOutcomes ----------------------------
(***************************************************************************)
(* The counterfactual journal as the read plane judges it: the price path   *)
(* after each row (journal_query.price_path), the walk along it that says   *)
(* how the position would have ended (journal_sim.simulate_path), the       *)
(* comparisons that refuse to answer on a thin sample (journal_query,       *)
(* journal_calibration), and the endpoints that put them together           *)
(* (journal_api.py), one of which judges a cached window.                   *)
(*                                                                          *)
(* One symbol; a price is stored at its own time or never (the collector    *)
(* was down).  Profits are kept as hundredths of a percent.                 *)
(***************************************************************************)
EXTENDS Integers, Sequences, FiniteSets, FiniteSetsExt, SequencesExt

CONSTANTS
    Prices,         \* prices the collector may store
    Plans,          \* what a row may hold: direction, levels (none: never a decision),
                    \* score, called, validated
    Horizons,       \* COUNTERFACTUAL_HORIZONS
    Primary,        \* COUNTERFACTUAL_PRIMARY_HORIZON
    MinSample,      \* MIN_SAMPLE and MIN_N
    Fee,            \* DEFAULT_FEE_PCT, in hundredths of a percent
    JudgedTtl,      \* CACHE_TTL_S
    MaxOutcomeRows, \* bound: rows
    MaxOutcomeTick  \* bound: time

ASSUME OutcomesAssumption ==
    Horizons \subseteq Nat /\ MinSample \in Nat \ {0} /\ MaxOutcomeTick \in Nat

VARIABLES
    minute,
    price,       \* per time past the price stored, if any
    entries,     \* decision_journal
    judgedCache, \* JUDGED_CACHE, if anything: its time and its rows' outcomes
    summary,     \* the last answer of journal_summary, if any
    said,        \* history: per row and horizon the last outcome the summary gave
    calibration  \* the last answer of journal_calibration, if any

outcomeVars == <<minute, price, entries, judgedCache, summary, said, calibration>>

JournalRows == DOMAIN entries
The(S) == CHOOSE x \in S : TRUE

-----------------------------------------------------------------------------
(* simulate_path *)

Path(row, horizon) ==
    {t \in row.at..row.at + horizon : t \in DOMAIN price /\ price[t] # {}}

Long(plan) == plan.direction # "short"

(* The stop is looked at first: within a sample we cannot know *)
Touch(plan, p) ==
    LET l == The(plan.levels)
    IN CASE (Long(plan) /\ p <= l.stop) \/ (~Long(plan) /\ p >= l.stop) -> {"stop_loss"}
         [] (Long(plan) /\ p >= l.target) \/ (~Long(plan) /\ p <= l.target) -> {"take_profit"}
         [] OTHER -> {}

Settle(plan, p, outcome) ==
    LET entry == The(plan.levels).entry
        move == ((p - entry) * 10000) \div entry
    IN {[outcome |-> outcome, pnl |-> (IF Long(plan) THEN move ELSE -move) - 2 * Fee]}

(* Mutant of SimulatePath: the price at the end of the path decides *)
CompareEnds(plan, path) ==
    LET p == The(price[Max(path)])
    IN Settle(plan, p, IF Touch(plan, p) = {} THEN "horizon" ELSE The(Touch(plan, p)))

SimulatePath(plan, path) ==
    LET touched == {t \in path : Touch(plan, The(price[t])) # {}}
        p == The(price[IF touched = {} THEN Max(path) ELSE Min(touched)])
    IN Settle(plan, p, IF touched = {} THEN "horizon" ELSE The(Touch(plan, p)))

(* attach_outcome: a row that never became a decision has no outcome, and   *)
(* neither has one without a price                                          *)
Outcome(row, horizon) ==
    IF row.plan.levels = {} \/ Path(row, horizon) = {} THEN {}
    ELSE SimulatePath(row.plan, Path(row, horizon))

-----------------------------------------------------------------------------
(* The statistics *)

Profits(group, horizon) == {i \in group : Outcome(entries[i], horizon) # {}}

Matured(horizon) == Cardinality(Profits(JournalRows, horizon))

Total(group, horizon) ==
    MapThenSumSet(LAMBDA i : The(Outcome(entries[i], horizon)).pnl,
                  Profits(group, horizon))

(* Both sides must hold a sample; a mean is the pair of a sum and a count *)
CompareGroups(a, b, horizon) ==
    LET na == Cardinality(Profits(a, horizon))
        nb == Cardinality(Profits(b, horizon))
    IN IF na < MinSample \/ nb < MinSample THEN {}
       ELSE {<<Total(a, horizon), na, Total(b, horizon), nb>>}

Validated == {i \in JournalRows : entries[i].plan.called /\ entries[i].plan.validated}
Refused == {i \in JournalRows : entries[i].plan.called /\ ~entries[i].plan.validated}

(* calibrate, over the outcomes judged when the window was loaded *)
Calibrate(judged, threshold) ==
    LET selected == {i \in DOMAIN judged : entries[i].plan.score >= threshold}
        with == {i \in selected : judged[i] # {}}
        won == {i \in with : The(judged[i]).pnl > 0}
        enough == Cardinality(with) >= MinSample
    IN [selected |-> Cardinality(selected), judged |-> Cardinality(with),
        wins |-> IF enough THEN {Cardinality(won)} ELSE {},
        total |-> IF enough THEN {MapThenSumSet(LAMBDA i : The(judged[i]).pnl, with)} ELSE {}]

-----------------------------------------------------------------------------
(* A minute passes, and the collector stores its price or misses it *)
OutcomeTick ==
    /\ minute < MaxOutcomeTick /\ minute' = minute + 1
    /\ \E p \in {{}} \cup {{x} : x \in Prices} :
          price' = [t \in 0..minute' |-> IF t = minute' THEN p ELSE price[t]]
    /\ UNCHANGED <<entries, judgedCache, summary, said, calibration>>

Record ==
    /\ Len(entries) < MaxOutcomeRows
    /\ \E plan \in Plans : entries' = Append(entries, [at |-> minute, plan |-> plan])
    /\ UNCHANGED <<minute, price, judgedCache, summary, said, calibration>>

(* journal_summary judges every row afresh, per horizon *)
ReadSummary ==
    /\ JournalRows # {}
    /\ summary' = {[matured |-> [h \in Horizons |-> Matured(h)],
                    value |-> [h \in Horizons |-> CompareGroups(Validated, Refused, h)]]}
    /\ said' = [k \in JournalRows \X Horizons |->
                   {o.outcome : o \in Outcome(entries[k[1]], k[2])}]
    /\ UNCHANGED <<minute, price, entries, judgedCache, calibration>>

(* _cached_judged_rows *)
LoadWindow ==
    /\ \A c \in judgedCache : minute - c.at >= JudgedTtl
    /\ LET judged == [i \in JournalRows |-> Outcome(entries[i], Primary)]
       IN judgedCache' = {[at |-> minute, judged |-> judged]}
    /\ UNCHANGED <<minute, price, entries, summary, said, calibration>>

ReadCalibration ==
    /\ \E c \in judgedCache, threshold \in {entries[i].plan.score : i \in JournalRows} :
          /\ minute - c.at < JudgedTtl
          /\ calibration' = {Calibrate(c.judged, threshold)}
    /\ UNCHANGED <<minute, price, entries, judgedCache, summary, said>>

-----------------------------------------------------------------------------
OutcomeInit ==
    /\ minute = 0 /\ price \in [{0} -> {{x} : x \in Prices}] /\ entries = <<>>
    /\ judgedCache = {} /\ summary = {} /\ said = <<>> /\ calibration = {}

OutcomeNext == OutcomeTick \/ Record \/ ReadSummary \/ LoadWindow \/ ReadCalibration

OutcomeSpec == OutcomeInit /\ [][OutcomeNext]_outcomeVars

-----------------------------------------------------------------------------
(* Properties *)

(* A position stopped out or closed at its target stays so, whatever the    *)
(* price does afterwards and at every horizon that saw it: "a position      *)
(* stopped out at -5% whose price later recovers would read as a winner".   *)
SettledStays ==
    [][\A k \in DOMAIN said : \A o \in said[k] :
         o # "horizon" => \A h \in Horizons : h >= k[2] => said'[<<k[1], h>>] = said[k]]_said
=============================================================================
