------------------------------ MODULE Sentiment ------------------------------
(***************************************************************************)
(* sentiment-service over raw_content: the worker that scores stored items *)
(* and counts their mentions per symbol and hour (worker.py), the          *)
(* compaction of old hours into days that runs beside it (main.py), the    *)
(* statements of SqlContentRepository both use, and the windows that       *)
(* SqlSentimentAggReader reads back.                                       *)
(*                                                                         *)
(* Every statement commits on its own, except compaction: its INSERT ..    *)
(* SELECT and its DELETE share a transaction, and under READ COMMITTED     *)
(* each of the two sees what was committed before it started.  A score is  *)
(* left out: the sums beside `mentions` are added and moved with it.       *)
(***************************************************************************)
EXTENDS Faults, FiniteSets, FiniteSetsExt

(* The faults counted: statements or publishes that raise, restarts         *)
CONSTANTS
    Symbols,   \* symbols the normalizer can give
    Ages,      \* how many hours before its insertion an item was published
    Batch,     \* SENTIMENT_BATCH
    DayHours,  \* hours of a day
    Retention, \* HOURLY_RETENTION_DAYS
    Baseline,  \* GROWTH_BASELINE_HOURS
    MaxItems,  \* bound: items ingested
    MaxHour    \* bound: hours that pass

ASSUME SentimentAssumption ==
    /\ Ages \subseteq Nat /\ Batch \in Nat \ {0} /\ DayHours \in Nat \ {0}
    /\ Retention \in Nat \ {0} /\ Baseline \in Nat \ {0}
    /\ MaxItems \in Nat /\ MaxHour \in Nat

VARIABLES
    hour,        \* the clock
    items,       \* raw_content: per row its symbols and the hour of published_at
    scored,      \* rows with scored_at
    hourly,      \* content_sentiment_agg: mentions per <<symbol, hour>>
    daily,       \* content_sentiment_agg_daily: mentions per <<symbol, day>>
    sentimentPc, \* worker: "idle", "row", "count" or "publish"
    queue,       \* worker: rows of the batch still to do
    growth,      \* worker: social_growth of the batch's symbols
    left,        \* worker: symbols of the row in hand still to count
    symbol,      \* worker: symbol counted, its event not published
    compact,     \* compaction in progress, if any: its cutoff and the sums it read
    counted,     \* history: how often <<row, symbol>> was counted
    published    \* history: how often <<row, symbol>> was published

work == <<sentimentPc, queue, growth, left, symbol>>
store == <<items, scored, hourly, daily>>
history == <<counted, published>>
sentimentVars == <<hour, store, work, compact, history, faults>>

ItemRows == DOMAIN items
Midnight(h) == h - (h % DayHours)
At(f, k) == IF k \in DOMAIN f THEN f[k] ELSE 0
Add(f, k, n) == [x \in DOMAIN f \cup {k} |-> IF x = k THEN At(f, k) + n ELSE f[x]]
-----------------------------------------------------------------------------
HourPasses ==
    /\ hour < MaxHour /\ hour' = hour + 1
    /\ UNCHANGED <<store, work, compact, history, faults>>

(* A collector stores an item the normalizer kept: it names at least a     *)
(* symbol (MARKET when it names no coin)                                   *)
InsertItem ==
    /\ Cardinality(ItemRows) < MaxItems
    /\ \E S \in (SUBSET Symbols) \ {{}}, age \in Ages :
          /\ age <= hour
          /\ items' = [r \in ItemRows \cup {Cardinality(ItemRows) + 1} |->
                          IF r \in ItemRows THEN items[r]
                          ELSE [symbols |-> S, at |-> hour - age]]
    /\ UNCHANGED <<hour, scored, hourly, daily, work, compact, history, faults>>

-----------------------------------------------------------------------------
(* SentimentDbWorker.run_once *)

(* fetch_unscored: the oldest ones first *)
Unscored ==
    {r \in ItemRows \ scored : Cardinality({q \in ItemRows \ scored : q < r}) < Batch}

(* mention_growth: mentions of the last complete hour, of the hours before  *)
(* it, and how many of those have a bucket; none without a baseline         *)
MentionGrowth(s, live) ==
    LET first == live - 1 - Baseline
        before == {k \in DOMAIN hourly : k[1] = s /\ first <= k[2] /\ k[2] < live - 1}
    IN IF before = {} THEN <<>>
       ELSE <<At(hourly, <<s, live - 1>>), SumFunctionOnSet(hourly, before),
              Cardinality(before)>>

Fetch ==
    /\ sentimentPc = "idle" /\ Unscored # {}
    /\ sentimentPc' = "row" /\ queue' = Unscored
    /\ growth' = [s \in UNION {items[r].symbols : r \in Unscored} |-> MentionGrowth(s, hour)]
    /\ UNCHANGED <<hour, store, left, symbol, compact, history, faults>>

(* Mutant of MarkScored: the row is left unmarked *)
StartRow ==
    /\ sentimentPc = "row" /\ queue # {}
    /\ left' = items[Min(queue)].symbols
    /\ sentimentPc' = "count"
    /\ UNCHANGED <<hour, store, queue, growth, symbol, compact, history, faults>>

(* mark_scored, before the row is counted or published *)
MarkScored ==
    /\ sentimentPc = "row" /\ queue # {}
    /\ LET r == Min(queue)
       IN scored' = scored \cup {r} /\ left' = items[r].symbols
    /\ sentimentPc' = "count"
    /\ UNCHANGED <<hour, items, hourly, daily, queue, growth, symbol, compact, history,
                   faults>>

(* upsert_aggregate into the bucket of published_at *)
Count(s) ==
    /\ sentimentPc = "count" /\ s \in left
    /\ LET r == Min(queue)
       IN /\ hourly' = Add(hourly, <<s, items[r].at>>, 1)
          /\ counted' = Add(counted, <<r, s>>, 1)
    /\ symbol' = s /\ left' = left \ {s} /\ sentimentPc' = "publish"
    /\ UNCHANGED <<hour, items, scored, daily, queue, growth, compact, published, faults>>

PublishSentiment ==
    /\ sentimentPc = "publish"
    /\ published' = Add(published, <<Min(queue), symbol>>, 1)
    /\ sentimentPc' = "count"
    /\ UNCHANGED <<hour, store, queue, growth, left, symbol, compact, counted, faults>>

EndRow ==
    /\ sentimentPc = "count" /\ left = {}
    /\ queue' = queue \ {Min(queue)}
    /\ sentimentPc' = IF queue' = {} THEN "idle" ELSE "row"
    /\ UNCHANGED <<hour, store, growth, left, symbol, compact, history, faults>>

(* Mutant of BatchFails: the failure ends the task *)
BatchGivesUp ==
    /\ sentimentPc # "idle" /\ Fault
    /\ sentimentPc' = "dead" /\ queue' = {} /\ left' = {}
    /\ UNCHANGED <<hour, store, growth, symbol, compact, history>>

(* A statement or the publish raises: run_periodic logs it and tries again  *)
(* with a new batch; a restart finds the same tables                        *)
BatchFails ==
    /\ sentimentPc # "idle" /\ Fault
    /\ sentimentPc' = "idle" /\ queue' = {} /\ left' = {}
    /\ UNCHANGED <<hour, store, growth, symbol, compact, history>>

-----------------------------------------------------------------------------
(* compact_hourly_to_daily *)

(* Mutant of Cutoff: no retention *)
CutoffToday == Midnight(hour)

Cutoff == Midnight(hour) - Retention * DayHours

OldHours(cut) == {k \in DOMAIN hourly : k[2] < cut}

(* INSERT .. SELECT: the sums per day of what is committed by now *)
ReadOldHours ==
    /\ compact = {}
    /\ LET old == OldHours(Cutoff)
           days == {<<k[1], Midnight(k[2])>> : k \in old}
       IN /\ old # {}
          /\ compact' = {[cut |-> Cutoff,
                          sums |-> [d \in days |->
                              SumFunctionOnSet(hourly,
                                  {k \in old : <<k[1], Midnight(k[2])>> = d})]]}
    /\ UNCHANGED <<hour, store, work, history, faults>>

(* Mutant of DeleteOldHours: the insert is committed by itself *)
CommitBeforeDelete ==
    /\ \E c \in compact :
          daily' = [d \in DOMAIN daily \cup DOMAIN c.sums |-> At(daily, d) + At(c.sums, d)]
    /\ compact' = {}
    /\ UNCHANGED <<hour, items, scored, hourly, work, history, faults>>

(* DELETE of what is committed by now, and the commit of both *)
DeleteOldHours ==
    /\ \E c \in compact :
          /\ hourly' = [k \in DOMAIN hourly \ OldHours(c.cut) |-> hourly[k]]
          /\ daily' = [d \in DOMAIN daily \cup DOMAIN c.sums |-> At(daily, d) + At(c.sums, d)]
    /\ compact' = {}
    /\ UNCHANGED <<hour, items, scored, work, history, faults>>

(* It raises, or the process ends: the transaction is rolled back *)
CompactionFails ==
    /\ compact # {} /\ Fault
    /\ compact' = {}
    /\ UNCHANGED <<hour, store, work, history>>

-----------------------------------------------------------------------------
(* SqlSentimentAggReader: what a window adds up *)
WindowMentions(s, hours) ==
    LET since == hour - hours
        In(f) == SumFunctionOnSet(f, {k \in DOMAIN f : k[1] = s /\ k[2] >= since})
    IN In(hourly) + In(daily)

-----------------------------------------------------------------------------
SentimentInit ==
    /\ hour = 0 /\ items = <<>> /\ scored = {} /\ hourly = <<>> /\ daily = <<>>
    /\ sentimentPc = "idle" /\ queue = {} /\ growth = <<>> /\ left = {}
    /\ symbol = CHOOSE s \in Symbols : TRUE
    /\ compact = {} /\ counted = <<>> /\ published = <<>> /\ faults = 0

WorkerStep == Fetch \/ MarkScored \/ (\E s \in Symbols : Count(s)) \/ PublishSentiment \/ EndRow
Compaction == ReadOldHours \/ DeleteOldHours

SentimentNext ==
    \/ HourPasses \/ InsertItem \/ WorkerStep \/ BatchFails \/ Compaction \/ CompactionFails

SentimentSpec == SentimentInit /\ [][SentimentNext]_sentimentVars
(* run_periodic drives both tasks *)
SentimentFairSpec == SentimentSpec /\ WF_sentimentVars(WorkerStep) /\ WF_sentimentVars(Compaction)

-----------------------------------------------------------------------------
(* Properties *)

(* A mention is counted once at most, and an event is published once at     *)
(* most and never for a mention that is not counted: "never double-scoring  *)
(* a row over never losing an event", whatever raises and whenever it       *)
(* restarts.                                                                *)
AtMostOnce ==
    \A r \in ItemRows, s \in Symbols :
        /\ At(published, <<r, s>>) <= At(counted, <<r, s>>)
        /\ At(counted, <<r, s>>) <= 1

MentionsSince(s, from) ==
    Cardinality({k \in DOMAIN counted : k[2] = s /\ items[k[1]].at >= from})

(* A window no longer than the retention adds up exactly the mentions       *)
(* counted in it, and no mention is in both tables, although compaction     *)
(* moves hours to days while the worker counts: "windows <= the compaction  *)
(* retention never reach the daily table".                                  *)
WindowsExact ==
    \A s \in Symbols :
        /\ \A hours \in 0..Retention * DayHours :
              WindowMentions(s, hours) = MentionsSince(s, hour - hours)
        /\ WindowMentions(s, hour) <= MentionsSince(s, 0)

(* The worker catches up: again and again every item stored is scored,      *)
(* whatever ticks fail.                                                     *)
EveryRowScored == []<>(ItemRows \subseteq scored)
=============================================================================
