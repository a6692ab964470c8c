----------------------------- MODULE TokenRows -----------------------------
(***************************************************************************)
(* The row of a coin in `tokens`: collector-coingecko publishes a price    *)
(* every minute with the coin's name, rank and trending flag on it, and    *)
(* api-gateway's persister writes these only when TokenMetaCache says so   *)
(* (persister.py).  The price itself goes to a row of its own, inserted    *)
(* once, which nothing here reads.                                         *)
(***************************************************************************)
EXTENDS Faults, Sequences

(* The faults counted: transactions that raise, restarts *)
CONSTANTS
    Metas,         \* name, rank and trending flag a coin may have
    Rewrite,       \* min_interval_s of TokenMetaCache
    MaxTokenTick,  \* bound: ticks of the clock
    MaxPrices      \* bound: prices published

ASSUME TokenRowsAssumption ==
    Rewrite \in Nat \ {0} /\ MaxTokenTick \in Nat /\ MaxPrices \in Nat

VARIABLES
    tokenClock,      \* the clock
    priceTopic,      \* market.price.events: the metadata of each
    pricePos,        \* the persister: messages handled
    priceCommitted,  \* the persister: messages committed
    seen,            \* TokenMetaCache._seen: what was claimed last and when, if anything
    writing,         \* the persister is at the transaction of _save_token
    tokenRow,        \* metadata of the row, if there is one
    reachedAt,       \* history: when an event last reached _save_token
    failedAt         \* history: when the last write failed, unless one succeeded since

tokenVars ==
    <<tokenClock, priceTopic, pricePos, priceCommitted, seen, writing, tokenRow, reachedAt,
      failedAt, faults>>

Meta == priceTopic[pricePos + 1]
-----------------------------------------------------------------------------
TokenTick ==
    /\ tokenClock < MaxTokenTick /\ tokenClock' = tokenClock + 1
    /\ UNCHANGED <<priceTopic, pricePos, priceCommitted, seen, writing, tokenRow, reachedAt,
                   failedAt, faults>>

(* poll_once publishes the coin as the provider has it at that minute *)
PublishPrice ==
    /\ Len(priceTopic) < MaxPrices
    /\ \E meta \in Metas : priceTopic' = Append(priceTopic, meta)
    /\ UNCHANGED <<tokenClock, pricePos, priceCommitted, seen, writing, tokenRow, reachedAt,
                   failedAt, faults>>

-----------------------------------------------------------------------------
ShouldWrite(meta) == \A c \in seen : c.meta # meta \/ tokenClock - c.at >= Rewrite
Claim(meta) == [meta |-> meta, at |-> tokenClock]

(* Mutant of Claimed: a write that is skipped counts as one *)
ClaimedAnyway(meta) == {Claim(meta)}

(* should_write notes the write before it is made *)
Claimed(meta) == IF ShouldWrite(meta) THEN {Claim(meta)} ELSE seen

(* _save_price up to the transaction of _save_token, if there will be one *)
SavePrice ==
    /\ ~writing /\ pricePos < Len(priceTopic)
    /\ seen' = Claimed(Meta) /\ reachedAt' = tokenClock
    /\ writing' = ShouldWrite(Meta)
    /\ pricePos' = IF ShouldWrite(Meta) THEN pricePos ELSE pricePos + 1
    /\ UNCHANGED <<tokenClock, priceTopic, priceCommitted, tokenRow, failedAt, faults>>

(* The price's own transaction raises: the event is over *)
PriceRaises ==
    /\ ~writing /\ pricePos < Len(priceTopic) /\ Fault
    /\ pricePos' = pricePos + 1
    /\ UNCHANGED <<tokenClock, priceTopic, priceCommitted, seen, writing, tokenRow, reachedAt,
                   failedAt>>

(* _save_token: ON CONFLICT (coin_id) DO UPDATE *)
SaveToken ==
    /\ writing /\ writing' = FALSE
    /\ tokenRow' = {Meta} /\ failedAt' = {} /\ pricePos' = pricePos + 1
    /\ UNCHANGED <<tokenClock, priceTopic, priceCommitted, seen, reachedAt, faults>>

TokenRaises ==
    /\ writing /\ writing' = FALSE /\ Fault
    /\ failedAt' = {tokenClock} /\ pricePos' = pricePos + 1
    /\ UNCHANGED <<tokenClock, priceTopic, priceCommitted, seen, tokenRow, reachedAt>>

CommitPrices ==
    /\ priceCommitted < pricePos /\ priceCommitted' = pricePos
    /\ UNCHANGED <<tokenClock, priceTopic, pricePos, seen, writing, tokenRow, reachedAt,
                   failedAt, faults>>

(* The persister restarts, with an empty TokenMetaCache *)
ReplayPrices ==
    /\ Fault
    /\ pricePos' = priceCommitted /\ seen' = {} /\ writing' = FALSE
    /\ UNCHANGED <<tokenClock, priceTopic, priceCommitted, tokenRow, reachedAt, failedAt>>

-----------------------------------------------------------------------------
TokenInit ==
    /\ tokenClock = 0 /\ priceTopic = <<>> /\ pricePos = 0 /\ priceCommitted = 0
    /\ seen = {} /\ writing = FALSE /\ tokenRow = {} /\ reachedAt = 0 /\ failedAt = {}
    /\ faults = 0

TokenNext ==
    \/ TokenTick \/ PublishPrice \/ SavePrice \/ PriceRaises \/ SaveToken \/ TokenRaises
    \/ CommitPrices \/ ReplayPrices

TokenSpec == TokenInit /\ [][TokenNext]_tokenVars

-----------------------------------------------------------------------------
(* Properties *)

(* The row holds the metadata of the last event that got as far, or its     *)
(* write failed less than an interval before that event came: a failed      *)
(* write, which the cache notes as made, is repeated by the first event an  *)
(* interval later ("once per interval to heal drift", persister.py:84).     *)
TokenRowHeals ==
    ~writing => \A c \in seen :
        \/ tokenRow = {c.meta}
        \/ \E at \in failedAt : reachedAt - at < Rewrite
=============================================================================
