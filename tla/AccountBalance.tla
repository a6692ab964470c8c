---------------------------- MODULE AccountBalance ----------------------------
(***************************************************************************)
(* The exchange balance from the venue to the portfolio page: the poller of *)
(* trading-engine and its spot client (account.py, kraken_spot.py), the     *)
(* snapshot as the persister stores it (persister.py), and the portfolio    *)
(* and risk pages that size every position by it (read_api.py).             *)
(*                                                                          *)
(* A balance is what the venue says on two calls, so the two may disagree;  *)
(* time is in poll intervals.  The sizes of positions are shares of a       *)
(* hundred, a price is the value of a unit bought for 100.                  *)
(***************************************************************************)
EXTENDS Faults, Sequences, FiniteSets, FiniteSetsExt

(* The faults counted: calls that fail, restarts                            *)
CONSTANTS
    Equities,       \* what the account may be worth
    BaseCapital,    \* CMI_BASE_CAPITAL_USD
    Trades,         \* trades the ledger may hold: symbol, size, protected
    PriceOf,        \* per symbol its last price
    StaleAfter,     \* STALE_AFTER_S
    MaxAsset,       \* MAX_ASSET_PCT
    MaxExposure,    \* MAX_EXPOSURE_PCT
    PollerMayRaise, \* Kafka and Redis may fail under the poller
    MaxAccountTick, \* bound: time
    MaxTopic        \* bound: snapshots not persisted yet

VARIABLES
    accountClock,
    equity,     \* what the account is worth
    pollerPc,   \* poller: "sleep", "equity", "cash", "publish", "cache" or "ended"
    read,       \* equity read by the poll in progress, if any
    topic,      \* account.snapshot events not persisted yet: a venue's are in order
    stored,     \* the newest row of account_snapshots, if any: [at, equity]
    trades,     \* open trades of the ledger
    accountPage \* the last portfolio answered, if any

poll == <<pollerPc, read>>
accountVars == <<accountClock, equity, poll, topic, stored, trades, accountPage, faults>>

Only(S) == CHOOSE x \in S : TRUE

-----------------------------------------------------------------------------
(* Time, the account and the ledger *)

AccountTick ==
    /\ accountClock < MaxAccountTick /\ accountClock' = accountClock + 1
    /\ equity' \in {equity} \cup Equities
    /\ UNCHANGED <<poll, topic, stored, trades, accountPage, faults>>

Open ==
    /\ \E t \in Trades \ trades : trades' = trades \cup {t}
    /\ UNCHANGED <<accountClock, equity, poll, topic, stored, accountPage, faults>>

-----------------------------------------------------------------------------
(* AccountPoller *)

Poll ==
    /\ pollerPc = "sleep" /\ pollerPc' = "equity"
    /\ Len(topic) < MaxTopic
    /\ UNCHANGED <<accountClock, equity, read, topic, stored, trades, accountPage, faults>>

AskEquity ==
    /\ pollerPc = "equity" /\ pollerPc' = "cash"
    /\ read' = {equity}
    /\ UNCHANGED <<accountClock, equity, topic, stored, trades, accountPage, faults>>

AskCash ==
    /\ pollerPc = "cash" /\ pollerPc' = "publish"
    /\ UNCHANGED <<accountClock, equity, read, topic, stored, trades, accountPage, faults>>

(* Mutant of CallFails: the exception is not caught *)
CallRaises ==
    /\ pollerPc \in {"equity", "cash"} /\ Fault
    /\ pollerPc' = "ended" /\ read' = {}
    /\ UNCHANGED <<accountClock, equity, topic, stored, trades, accountPage>>

(* A call or the event raises, within the try: no snapshot this time *)
CallFails ==
    /\ pollerPc \in {"equity", "cash"} /\ Fault
    /\ pollerPc' = "sleep" /\ read' = {}
    /\ UNCHANGED <<accountClock, equity, topic, stored, trades, accountPage>>

PublishBalance ==
    /\ pollerPc = "publish" /\ pollerPc' = "cache"
    /\ topic' = Append(topic, [at |-> accountClock, equity |-> Only(read)])
    /\ read' = {}
    /\ UNCHANGED <<accountClock, equity, stored, trades, accountPage, faults>>

(* The key that control-api may read has nothing else behind it *)
SetCache ==
    /\ pollerPc = "cache" /\ pollerPc' = "sleep"
    /\ UNCHANGED <<accountClock, equity, read, topic, stored, trades, accountPage, faults>>

(* Both are outside of the try, and run() has no guard: the task ends *)
PublishRaises ==
    /\ PollerMayRaise /\ pollerPc \in {"publish", "cache"} /\ Fault
    /\ pollerPc' = "ended" /\ read' = {}
    /\ UNCHANGED <<accountClock, equity, topic, stored, trades, accountPage>>

(* A restart of trading-engine *)
AccountRestart ==
    /\ Fault
    /\ pollerPc' = "sleep" /\ read' = {}
    /\ UNCHANGED <<accountClock, equity, topic, stored, trades, accountPage>>

(* _save_account_snapshot: a replay finds its event_id and changes nothing *)
Persist ==
    /\ topic # <<>>
    /\ stored' = {Head(topic)} /\ topic' = Tail(topic)
    /\ UNCHANGED <<accountClock, equity, poll, trades, accountPage, faults>>

-----------------------------------------------------------------------------
(* The portfolio and the risk pages *)

(* A stale snapshot still governs, and so does an equity of zero *)
ReferenceCapital(snapshot) == IF snapshot = {} THEN BaseCapital ELSE Only(snapshot).equity

(* _portfolio_basis: the capital the positions are sized by *)
SizeBy(snapshot) == ReferenceCapital(snapshot)

(* map_position: the share of the capital, at the price of now *)
Cost(t, capital) == (capital * t.size) \div 100
Value(t, capital) == (Cost(t, capital) * PriceOf[t.symbol]) \div 100

Sum(f(_), S) == MapThenSumSet(f, S)
Pct(n, total) == IF total = 0 THEN 0 ELSE (n * 100) \div total

(* compute_portfolio, compute_exposure, compute_risk_limits and             *)
(* compute_risk_alerts over one snapshot and one set of positions           *)
Portfolio(snapshot, open) ==
    LET sized == SizeBy(snapshot)
        capital == ReferenceCapital(snapshot)
        cash == capital - Sum(LAMBDA t : Cost(t, sized), open)
        invested == Sum(LAMBDA t : Value(t, sized), open)
        share(t) == Pct(Value(t, sized), cash + invested)
    IN [balance |-> {s.equity : s \in snapshot},
        stale |-> \E s \in snapshot : accountClock - s.at > StaleAfter,
        fetched |-> {s.at : s \in snapshot},
        cash |-> cash, total |-> cash + invested,
        value |-> [t \in open |-> Value(t, sized)],
        breached |-> [exposure |-> Pct(invested, cash + invested) > MaxExposure,
                      asset |-> \E t \in open : share(t) > MaxAsset,
                      cash |-> Pct(cash, cash + invested) < 20],
        alerts |-> {<<"exposure", t>> : t \in {u \in open : share(u) > MaxAsset}}
                     \cup {<<"unprotected", t>> : t \in {u \in open : ~u.protected}}]

AccountAnswer ==
    /\ accountPage' = {Portfolio(stored, trades)}
    /\ UNCHANGED <<accountClock, equity, poll, topic, stored, trades, faults>>

-----------------------------------------------------------------------------
AccountInit ==
    /\ accountClock = 0 /\ equity \in Equities
    /\ pollerPc = "sleep" /\ read = {}
    /\ topic = <<>> /\ stored = {} /\ trades = {} /\ accountPage = {} /\ faults = 0

Poller == Poll \/ AskEquity \/ AskCash \/ PublishBalance \/ SetCache

AccountNext ==
    \/ AccountTick \/ Open \/ Poller \/ CallFails \/ PublishRaises
    \/ AccountRestart \/ Persist \/ AccountAnswer

AccountSpec == AccountInit /\ [][AccountNext]_accountVars
(* The poller loops at its interval, the persister consumes, pages are read *)
AccountFairSpec ==
    /\ AccountSpec /\ WF_accountVars(Poller) /\ WF_accountVars(Persist)
    /\ WF_accountVars(AccountAnswer) /\ WF_accountVars(AccountTick)

-----------------------------------------------------------------------------
(* Properties *)

(* The poller never stops polling: "Total by construction: never raises, so *)
(* `run()` needs no guard of its own".                                      *)
PollerRuns == pollerPc # "ended"

(* The page agrees with its own header: nothing open is worth more than the *)
(* header's capital would buy of it at the price of now, also when that is  *)
(* zero or stale ("sizing positions against the configured constant while   *)
(* heading the page with a real exchange balance would make the total       *)
(* disagree with its own header").                                          *)
Agrees(p) ==
    \A b \in p.balance :
        /\ \A t \in DOMAIN p.value : p.value[t] * 100 <= Cost(t, b) * PriceOf[t.symbol]
        /\ b = 0 => p.total = 0 /\ ~p.breached.asset

(* What the account is worth reaches the page, whatever calls fail and      *)
(* however often it restarts: when it has stopped changing the page shows   *)
(* it in the end and for good, and agrees with it.                          *)
BalanceComesBack == <>[](\E p \in accountPage : equity \in p.balance /\ Agrees(p))
=============================================================================
