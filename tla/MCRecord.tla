------------------------------ MODULE MCRecord ------------------------------
(***************************************************************************)
(* What is stored and what is shown of it, for TLC: the content the        *)
(* sources bring in (PollLoop, Sentiment), candles and token metadata      *)
(* (Candles, TokenRows), the trades and the journal (Persister), and what  *)
(* the terminal says of the services                                       *)
(* (ServiceHealth), of the pipeline (PipelinePanels), of the journal's     *)
(* outcomes (JournalOutcomes), of the account (AccountBalance), of one     *)
(* decision (DecisionTrace) and of the stream (Fanout).  A behaviour of    *)
(* the sum is a behaviour of one part, the others at rest.                 *)
(***************************************************************************)
EXTENDS Persister, PollLoop, Sentiment, ServiceHealth, PipelinePanels, JournalOutcomes,
        AccountBalance, Candles, TokenRows, DecisionTrace, Fanout

CONSTANTS d1, a1, c1, c2

MCDecisionOf == [a \in Approvals |-> d1]

MCOffTopic == {<<c1, 2>>}
MCMaxPosts == [c \in Channels |-> IF c = c1 THEN 2 ELSE 1]

MCInterval == [poll |-> 5, lists |-> 100]
Sibling(colour, rate) == [status |-> colour, rate |-> rate]
MCSiblings == {<<>>, <<Sibling("healthy", {4})>>}

(* Rows that may be written, by the table they are of *)
Arrival(of, tag, reason, score) ==
    [table |-> of, tag |-> tag, reason |-> reason, score |-> score]
MCArrivals ==
    {Arrival("price", "", "", 0), Arrival("content", "reddit", "", 0),
     Arrival("signal", "blocked", "gate", 95), Arrival("journal", "called", "", 0),
     Arrival("decision", "", "", 0), Arrival("trade", "approved", "", 0)}

(* Rows that are there from the start: a row of every stage *)
Row(of, tag, reason, score, done) ==
    [table |-> of, tag |-> tag, reason |-> reason, score |-> score, at |-> 0, scored |-> done]
MCStored ==
    <<Row("content", "news", "", 0, {0}), Row("signal", "escalated", "", 100, {}),
      Row("signal", "blocked", "gate", 90, {}), Row("signal", "blocked", "low", 12, {}),
      Row("journal", "skipped", "budget", 0, {}),
      Row("rejection", "decision_engine", "score 13", 0, {}),
      Row("rejection", "decision_engine", "score 14", 0, {}),
      Row("rejection", "risk_engine", "rr", 0, {}),
      Row("trade", "filled", "", 0, {}), Row("trade", "failed", "", 0, {})>>

(* Reasons that differ in a number only are of one class *)
MCReasons == {"", "gate", "low", "budget", "score 13", "score 14", "rr"}
MCClass == [r \in MCReasons |-> IF r \in {"score 13", "score 14"} THEN "score N" ELSE r]
MCStages == <<"risk", "execute">>

Plan(direction, levels, score, called, validated) ==
    [direction |-> direction, levels |-> levels, score |-> score, called |-> called,
     validated |-> validated]
Levels(entry, stop, target) == [entry |-> entry, stop |-> stop, target |-> target]
MCPlans ==
    {Plan("long", {Levels(100, 95, 110)}, 80, TRUE, TRUE),
     Plan("short", {Levels(100, 110, 95)}, 60, TRUE, FALSE), Plan("long", {}, 50, FALSE, FALSE)}

Trade(s, size, protected) == [symbol |-> s, size |-> size, protected |-> protected]
MCTrades == {Trade("a", 40, FALSE), Trade("b", 30, TRUE)}
MCPriceOf == [a |-> 120, b |-> 90]

RawEvent(s, of, carries) == [symbol |-> s, stage |-> of, carries |-> carries]
MCRaw == <<RawEvent("a", {"price"}, {"price"}),
           RawEvent("a", {"sentiment"}, {"price", "sentiment"})>>

VARIABLE part

MCParts ==
    {"ledger", "poll", "content", "health", "panels", "outcomes", "account", "candles",
     "tokens", "trace", "stream"}

pollOwn == <<external, budget, table, status, pollPc, memory, cycle, edits, gaps>>
sentimentOwn == <<hour, store, work, compact, history>>
healthOwn == <<broken, process, siblings, probe, sample, row>>
panelOwn == <<panelClock, db, panelCache, request, panelPage>>
candleOwn == <<candleClock, sweepVars, candleTopic, persisted, passed>>
tokenOwn ==
    <<tokenClock, priceTopic, pricePos, priceCommitted, seen, writing, tokenRow, reachedAt,
      failedAt>>
fanOwn ==
    <<offered, castPos, castCommitted, casting, connections, socket, received, casts, joined>>
accountOwn == <<accountClock, equity, poll, topic, stored, trades, accountPage>>

(* A part at rest is in one of its initial states *)
RecordInit ==
    /\ part \in MCParts
    /\ Init /\ PollInit /\ SentimentInit /\ HealthInit /\ PanelInit /\ OutcomeInit /\ AccountInit
    /\ CandleInit /\ TokenInit /\ TraceInit /\ FanInit
    /\ part # "health" => siblings = <<>>
    /\ part # "outcomes" => price[0] = {110}
    /\ part # "account" => equity = 100

(* It is a part's turn, and the others rest *)
InLedger ==
    /\ part = "ledger"
    /\ UNCHANGED <<part, faults, pollOwn, sentimentOwn, healthOwn, panelOwn, outcomeVars,
                    accountOwn, candleOwn, tokenOwn, traceVars, fanOwn>>
InPoll ==
    /\ part = "poll"
    /\ UNCHANGED <<part, vars, sentimentOwn, healthOwn, panelOwn, outcomeVars, accountOwn,
                    candleOwn, tokenOwn, traceVars, fanOwn>>
InContent ==
    /\ part = "content"
    /\ UNCHANGED <<part, vars, pollOwn, healthOwn, panelOwn, outcomeVars, accountOwn, candleOwn,
                    tokenOwn, traceVars, fanOwn>>
InHealth ==
    /\ part = "health"
    /\ UNCHANGED <<part, vars, pollOwn, sentimentOwn, panelOwn, outcomeVars, accountOwn,
                    candleOwn, tokenOwn, traceVars, fanOwn>>
InPanels ==
    /\ part = "panels"
    /\ UNCHANGED <<part, vars, pollOwn, sentimentOwn, healthOwn, outcomeVars, accountOwn,
                    candleOwn, tokenOwn, traceVars, fanOwn>>
InOutcomes ==
    /\ part = "outcomes"
    /\ UNCHANGED <<part, faults, vars, pollOwn, sentimentOwn, healthOwn, panelOwn, accountOwn,
                    candleOwn, tokenOwn, traceVars, fanOwn>>
InAccount ==
    /\ part = "account"
    /\ UNCHANGED <<part, vars, pollOwn, sentimentOwn, healthOwn, panelOwn, outcomeVars, candleOwn,
                    tokenOwn, traceVars, fanOwn>>
InCandles ==
    /\ part = "candles"
    /\ UNCHANGED <<part, vars, pollOwn, sentimentOwn, healthOwn, panelOwn, outcomeVars,
                    accountOwn, tokenOwn, traceVars, fanOwn>>
InTokens ==
    /\ part = "tokens"
    /\ UNCHANGED <<part, vars, pollOwn, sentimentOwn, healthOwn, panelOwn, outcomeVars,
                    accountOwn, candleOwn, traceVars, fanOwn>>
InTrace ==
    /\ part = "trace"
    /\ UNCHANGED <<part, faults, vars, pollOwn, sentimentOwn, healthOwn, panelOwn, outcomeVars,
                    accountOwn, candleOwn, tokenOwn, fanOwn>>
InStream ==
    /\ part = "stream"
    /\ UNCHANGED <<part, vars, pollOwn, sentimentOwn, healthOwn, panelOwn, outcomeVars,
                    accountOwn, candleOwn, tokenOwn, traceVars>>

RecordNext ==
    \/ InLedger /\ Next
    \/ InPoll /\ PollNext
    \/ InContent /\ SentimentNext
    \/ InHealth /\ HealthNext
    \/ InPanels /\ PanelNext
    \/ InOutcomes /\ OutcomeNext
    \/ InAccount /\ AccountNext
    \/ InCandles /\ CandleNext
    \/ InTokens /\ TokenNext
    \/ InTrace /\ TraceNext
    \/ InStream /\ FanNext

recordVars ==
    <<part, faults, vars, pollOwn, sentimentOwn, healthOwn, panelOwn, outcomeVars, accountOwn,
      candleOwn, tokenOwn, traceVars, fanOwn>>

(* Each part has the fairness of its own specification; of the persister's *)
(* topics only that of the approvals needs to be fair.                     *)
RecordSpec ==
    /\ RecordInit /\ [][RecordNext]_recordVars
    /\ WF_vars(part = "ledger" /\ (Transaction \/ Raise))
    /\ SF_vars(part = "ledger" /\ Take("approved"))
    /\ WF_pollVars(part = "poll" /\ LoopStep) /\ WF_pollVars(part = "poll" /\ WindowExpires)
    /\ SF_pollVars(part = "poll" /\ Renew)
    /\ WF_sentimentVars(part = "content" /\ WorkerStep)
    /\ WF_sentimentVars(part = "content" /\ Compaction)
    /\ WF_healthVars(part = "health" /\ Start) /\ WF_healthVars(part = "health" /\ Prober)
    /\ \A t \in Tasks : WF_healthVars(part = "health" /\ TaskTick(t))
    /\ WF_accountVars(part = "account" /\ Poller) /\ WF_accountVars(part = "account" /\ Persist)
    /\ WF_accountVars(part = "account" /\ AccountAnswer)
    /\ WF_accountVars(part = "account" /\ AccountTick)
-----------------------------------------------------------------------------
(* The panels of one moment agree with each other (systems_pipeline.py,    *)
(* read_api.py:1887-1977, funnel.py); at rest there is nothing to compare. *)
PanelsInAgreement == part = "panels" => HonestPanel /\ PanelsAgree

(* What the channels hold comes through, past whatever raises and restarts: *)
(* every post of an enabled source is stored in the end, and every row      *)
(* stored is scored (loop.py:97-154, sentiment-service worker.py:55-118).   *)
ContentComesThrough == EveryPostSettled /\ EveryRowScored

(* The liveness of the account, asked of the behaviours that are its own:  *)
(* once nothing fails any more, the page shows what the account is worth,  *)
(* and sizes the open trades by it (account.py:52-94, read_api.py:1426).   *)
BalanceShown == part = "account" => BalanceComesBack
=============================================================================
