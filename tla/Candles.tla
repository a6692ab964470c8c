------------------------------ MODULE Candles ------------------------------
(***************************************************************************)
(* OHLC candles from the venue to their readers, a loop over two services: *)
(* collector-kraken's sweeper asks for what is newer than the last candle  *)
(* STORED, publishes what it gets (sweeper.py), api-gateway's persister    *)
(* upserts it (persister.py, _save_candle), and the next sweep's cursor is *)
(* what the persister has written by then.  SqlCandleReader takes a candle *)
(* for closed by its time (candles.py).                                    *)
(*                                                                         *)
(* Time is counted in candles: candle t forms while candleClock = t.  Of   *)
(* its values the model keeps whether they are final.  Waiting for the     *)
(* quota only costs time; order-book depth, the pair reference and the     *)
(* health row are written beside the candles and read by nothing here.     *)
(***************************************************************************)
EXTENDS Faults, Sequences, FiniteSetsExt

(* The faults counted: requests, statements and publishes that raise, rows *)
(* that do not parse, restarts                                             *)
CONSTANTS
    Pairs,          \* symbols the venue may list; each interval has a sweeper of its own
    Page,           \* candles of an answer at most (720)
    MaxCandle,      \* bound: candles that begin
    MaxCandleTopic  \* bound: messages published

ASSUME CandlesAssumption ==
    Page \in Nat \ {0} /\ MaxCandle \in Nat /\ MaxCandleTopic \in Nat

VARIABLES
    candleClock,     \* the candle that is forming
    sweepPc,         \* the sweeper: "rest", "cursor", "fetch", "publish", "report" or "dead"
    specs,           \* symbols of the sweep still to do
    spec,            \* the symbol in hand
    since,           \* its cursor
    found,           \* candles of the answer not yet published
    candleTopic,     \* market.candle.events
    candlePos,       \* the persister: messages handled
    candleCommitted, \* the persister: messages committed
    candles,         \* the table: per symbol, what is stored of a candle
    passed           \* history: candles out of reach, or a version of which was dropped

sweepVars == <<sweepPc, specs, spec, since, found>>
persisted == <<candlePos, candleCommitted, candles>>
candleVars == <<candleClock, sweepVars, candleTopic, persisted, passed, faults>>

NoCandle == -1
StoredTimes(s) == DOMAIN candles[s]
Newest(s) == IF StoredTimes(s) = {} THEN NoCandle ELSE Max(StoredTimes(s))
Candle(s, t) == [symbol |-> s, time |-> t, final |-> t < candleClock]
-----------------------------------------------------------------------------
(* A candle closes and the next one begins *)
CandleCloses ==
    /\ candleClock < MaxCandle /\ candleClock' = candleClock + 1
    /\ UNCHANGED <<sweepVars, candleTopic, persisted, passed, faults>>

(* resolve: the pairs listed, priced and, for 15m, talked about by now *)
ResolveUniverse ==
    /\ sweepPc = "rest"
    /\ specs' \in (SUBSET Pairs) \ {{}}
    /\ sweepPc' = "cursor"
    /\ UNCHANGED <<candleClock, spec, since, found, candleTopic, persisted, passed, faults>>

(* Mutant of ReadCursor: the candle stored last counts as done *)
ReadCursorAfter ==
    /\ sweepPc = "cursor" /\ sweepPc' = "fetch"
    /\ spec' \in specs /\ since' = Newest(spec') + 1
    /\ UNCHANGED <<candleClock, specs, found, candleTopic, persisted, passed, faults>>

(* last_candle_epoch *)
ReadCursor ==
    /\ sweepPc = "cursor" /\ sweepPc' = "fetch"
    /\ spec' \in specs /\ since' = Newest(spec')
    /\ UNCHANGED <<candleClock, specs, found, candleTopic, persisted, passed, faults>>

(* The venue answers with the candles from the cursor on, the last Page of  *)
(* them.  That the candle of the cursor itself is among them is assumed of  *)
(* the venue: the rows are said to be so ("the forming candle is rewritten  *)
(* on every sweep", db/models.py:403-405), no line asks for it.             *)
Asked == {t \in 0..candleClock : t >= since}
Ohlc == {t \in Asked : t > candleClock - Page}

(* parse_ohlc drops a row it cannot read *)
FetchCandles ==
    /\ sweepPc = "fetch" /\ sweepPc' = "publish"
    /\ \E bad \in SUBSET Ohlc :
          /\ IF bad = {} THEN UNCHANGED faults ELSE Fault
          /\ found' = {Candle(spec, t) : t \in Ohlc \ bad}
          /\ passed' = passed \cup ({spec} \X (bad \cup (Asked \ Ohlc)))
    /\ UNCHANGED <<candleClock, specs, spec, since, candleTopic, persisted>>

(* In the order of the answer, the oldest first *)
PublishCandle ==
    /\ sweepPc = "publish" /\ Len(candleTopic) < MaxCandleTopic
    /\ \E c \in found :
          /\ \A d \in found : c.time <= d.time
          /\ candleTopic' = Append(candleTopic, c) /\ found' = found \ {c}
    /\ UNCHANGED <<candleClock, sweepPc, specs, spec, since, persisted, passed, faults>>

(* The next symbol, or the end of the sweep *)
NextSpec ==
    /\ sweepPc = "publish" /\ found = {}
    /\ specs' = specs \ {spec}
    /\ sweepPc' = IF specs' = {} THEN "report" ELSE "cursor"
    /\ UNCHANGED <<candleClock, spec, since, found, candleTopic, persisted, passed, faults>>

(* report_health, then the cadence is slept.  It stands outside run's try:  *)
(* when it raises, the loop ends, and no one starts it again.               *)
ReportHealth ==
    /\ sweepPc = "report"
    /\ \/ sweepPc' = "rest" /\ UNCHANGED faults
       \/ sweepPc' = "dead" /\ Fault
    /\ UNCHANGED <<candleClock, specs, spec, since, found, candleTopic, persisted, passed>>

(* What was not published of the sweep is dropped *)
Abandon ==
    /\ sweepPc' = "rest" /\ specs' = {} /\ found' = {} /\ Fault
    /\ UNCHANGED <<candleClock, spec, since, candleTopic, persisted, passed>>

(* Anything in a sweep raises: the next one begins anew after a back-off    *)
SweepFails == sweepPc \in {"cursor", "fetch", "publish"} /\ Abandon

CollectorRestart == sweepPc # "rest" /\ Abandon

-----------------------------------------------------------------------------
NextCandle == candleTopic[candlePos + 1]

(* _save_candle: ON CONFLICT (time, symbol, interval) DO UPDATE *)
UpsertCandle ==
    /\ candlePos < Len(candleTopic) /\ candlePos' = candlePos + 1
    /\ LET m == NextCandle
       IN candles' = [candles EXCEPT ![m.symbol] =
                         [t \in StoredTimes(m.symbol) \cup {m.time} |->
                             IF t = m.time THEN m.final ELSE candles[m.symbol][t]]]
    /\ UNCHANGED <<candleClock, sweepVars, candleTopic, candleCommitted, passed, faults>>

(* It raises: the consumer logs it and goes on *)
UpsertRaises ==
    /\ candlePos < Len(candleTopic) /\ candlePos' = candlePos + 1 /\ Fault
    /\ passed' = passed \cup {<<NextCandle.symbol, NextCandle.time>>}
    /\ UNCHANGED <<candleClock, sweepVars, candleTopic, candleCommitted, candles>>

CommitCandles ==
    /\ candleCommitted < candlePos /\ candleCommitted' = candlePos
    /\ UNCHANGED <<candleClock, sweepVars, candleTopic, candlePos, candles, passed, faults>>

(* The persister restarts and handles again what it had not committed *)
ReplayCandles ==
    /\ candleCommitted < candlePos /\ Fault
    /\ candlePos' = candleCommitted
    /\ UNCHANGED <<candleClock, sweepVars, candleTopic, candleCommitted, candles, passed>>

-----------------------------------------------------------------------------
(* SqlCandleReader.series, with the current candle excluded *)
IsClosed(t) == t + 1 <= candleClock
Series(s, points) == {t \in StoredTimes(s) : t >= candleClock - points /\ IsClosed(t)}

-----------------------------------------------------------------------------
CandleInit ==
    /\ candleClock = 0 /\ sweepPc = "rest" /\ specs = {} /\ spec \in Pairs
    /\ since = NoCandle /\ found = {} /\ candleTopic = <<>> /\ candlePos = 0
    /\ candleCommitted = 0 /\ candles = [s \in Pairs |-> <<>>] /\ passed = {} /\ faults = 0

SweepStep ==
    \/ ResolveUniverse \/ ReadCursor \/ FetchCandles \/ PublishCandle \/ NextSpec
    \/ ReportHealth \/ SweepFails \/ CollectorRestart
PersistCandles == UpsertCandle \/ UpsertRaises \/ CommitCandles \/ ReplayCandles
CandleNext == CandleCloses \/ SweepStep \/ PersistCandles
CandleSpec == CandleInit /\ [][CandleNext]_candleVars

-----------------------------------------------------------------------------
(* Properties *)

Between(s) == IF StoredTimes(s) = {} THEN {} ELSE Min(StoredTimes(s))..Newest(s) - 1

(* Between the first and the last candle stored of a symbol, each one is    *)
(* read with its final values, or these are still on their way to the       *)
(* table, whatever raises, however far the persister lags behind the        *)
(* sweeper, and although a replay writes an unfinished candle over the      *)
(* finished one: the cursor leaves no hole behind ("the forming candle is   *)
(* rewritten on every sweep", db/models.py:404).  Left out are candles that *)
(* were out of the venue's reach or one version of which was dropped.       *)
NoHoleBehind ==
    \A s \in Pairs : \A t \in Between(s) :
        \/ t \in Series(s, candleClock) /\ candles[s][t]
        \/ \E i \in candlePos + 1..Len(candleTopic) :
               candleTopic[i] = [symbol |-> s, time |-> t, final |-> TRUE]
        \/ <<s, t>> \in passed
=============================================================================
