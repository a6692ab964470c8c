---------------------------- MODULE PipelinePanels ----------------------------
(***************************************************************************)
(* The three views the Command Center has of the pipeline, each from its    *)
(* own queries over the same tables: the graph of stages with its drawers   *)
(* (systems_pipeline.py), the funnel (funnel.py, read_api.systems_funnel)   *)
(* and the panels of topics, collectors and workers (systems_overview); and *)
(* the cache that coalesces the graph's aggregates across terminals.        *)
(*                                                                          *)
(* A row is a record of its table, the time it counts at and the columns    *)
(* the queries tell apart; summaries and items are left out.  Each count    *)
(* is a statement of its own: rows arrive between two of them.              *)
(***************************************************************************)
EXTENDS Faults, Sequences, FiniteSets, FiniteSetsExt, SequencesExt

(* The faults counted: fetches that raise                                   *)
CONSTANTS
    Stored,       \* rows the tables already have, of time 0
    Arrivals,     \* rows the persister may store, without their times
    Class,        \* collapse_reason: per reason its class
    Stages,       \* stages a fetch counts, in order (all of STAGE_SPECS)
    Terminals,    \* requests that may be in flight together
    PanelWindow,  \* hours of the window
    PanelTtl,     \* CACHE_TTL_S
    MaxReasons,   \* MAX_BLOCK_REASONS
    MaxPanelRows, \* bound: rows
    MaxPanelTick  \* bound: time

(* The columns of a row; a rejection is tagged with the service it is of    *)
Tables == {"price", "content", "signal", "journal", "decision", "rejection", "trade"}
Columns(of) ==
    /\ of.table \in Tables /\ of.reason \in DOMAIN Class /\ of.score \in Nat
    /\ of.table = "rejection" => of.tag \in {"decision_engine", "risk_engine"}

ASSUME PanelAssumption ==
    /\ Stages \in Seq(STRING) /\ Stages # <<>> /\ IsInjective(Stages)
    /\ PanelTtl \in Nat \ {0} /\ PanelWindow \in Nat
    /\ \A x \in Arrivals : x.tag \in STRING /\ Columns(x)
    /\ Stored \in Seq([table : Tables, tag : STRING, reason : DOMAIN Class, score : Nat,
                       at : Nat, scored : SUBSET Nat])
    /\ \A i \in DOMAIN Stored : Columns(Stored[i])

VARIABLES
    panelClock,
    db,         \* rows stored
    panelCache, \* STAGE_CACHE, if anything: the time it carries and the counts
    request,    \* per terminal the fetch in progress, if any
    panelPage   \* the last answer, if any

panelVars == <<panelClock, db, panelCache, request, panelPage, faults>>

N(P(_)) == Cardinality({i \in DOMAIN db : P(db[i])})
(* GROUP BY Key over the rows of P *)
Grouped(P(_), Key(_)) ==
    LET rows == {i \in DOMAIN db : P(db[i])}
    IN [k \in {Key(db[i]) : i \in rows} |-> Cardinality({i \in rows : Key(db[i]) = k})]
Cached(at) == {c \in panelCache : at - c.at < PanelTtl}
-----------------------------------------------------------------------------
(* fetch_stage_counts *)

Executed == {"submitted", "filled", "closed"}
Failed == {"failed", "rejected"}

Crossed(stage, r, since) ==
    CASE stage = "collect" -> r.table \in {"price", "content"} /\ r.at >= since
      [] stage = "sentiment" -> r.table = "content" /\ \E t \in r.scored : t >= since
      [] stage = "triage" -> r.table = "signal" /\ r.at >= since
      [] stage = "senior" -> r.table = "signal" /\ r.tag = "escalated" /\ r.at >= since
      [] stage = "decision" -> r.table = "decision" /\ r.at >= since
      [] stage = "risk" -> r.table = "trade" /\ r.at >= since
      [] stage = "execute" -> r.table = "trade" /\ r.tag \in Executed /\ r.at >= since

(* What waits to be scored is counted whatever its age *)
Dropped(stage, r, since) ==
    CASE stage = "sentiment" -> r.table = "content" /\ r.scored = {}
      [] stage = "triage" -> r.table = "signal" /\ r.tag # "escalated" /\ r.at >= since
      [] stage = "senior" -> r.table = "journal" /\ r.tag = "skipped" /\ r.at >= since
      [] stage = "decision" -> r.table = "rejection" /\ r.tag = "decision_engine" /\ r.at >= since
      [] stage = "risk" -> r.table = "rejection" /\ r.tag = "risk_engine" /\ r.at >= since
      [] stage = "execute" -> r.table = "trade" /\ r.tag \in Failed /\ r.at >= since
      [] OTHER -> FALSE

Volume(stage, since) == N(LAMBDA r : Crossed(stage, r, since))
Lost(stage, since) == N(LAMBDA r : Dropped(stage, r, since))

(* build_pipeline_stages: a stage that was not counted has no volume, and   *)
(* a conversion needs a volume upstream                                     *)
ConversionFrom ==
    [senior |-> "triage", decision |-> "senior", risk |-> "decision", execute |-> "risk"]

VolumeOf(counts, stage) ==
    IF stage \in DOMAIN counts THEN {counts[stage].volume} ELSE {}

Conversion(counts, stage) ==
    IF stage \notin DOMAIN ConversionFrom THEN {}
    ELSE {<<v, w>> : v \in VolumeOf(counts, stage),
                     w \in VolumeOf(counts, ConversionFrom[stage]) \ {0}}

-----------------------------------------------------------------------------
(* The rows *)

Arrive ==
    /\ Len(db) < MaxPanelRows
    /\ \E x \in Arrivals :
          db' = Append(db, [table |-> x.table, tag |-> x.tag, reason |-> x.reason,
                            score |-> x.score, at |-> panelClock, scored |-> {}])
    /\ UNCHANGED <<panelClock, panelCache, request, panelPage, faults>>

(* sentiment-service scores a row, trading-engine's report stamps a trade *)
SettleRow ==
    /\ \E i \in DOMAIN db :
          \/ /\ db[i].table = "content" /\ db[i].scored = {}
             /\ db' = [db EXCEPT ![i].scored = {panelClock}]
          \/ /\ db[i].table = "trade" /\ db[i].tag = "approved"
             /\ \E status \in Executed \cup Failed : db' = [db EXCEPT ![i].tag = status]
    /\ UNCHANGED <<panelClock, panelCache, request, panelPage, faults>>

PanelTick ==
    /\ panelClock < MaxPanelTick /\ panelClock' = panelClock + 1
    /\ UNCHANGED <<db, panelCache, request, panelPage, faults>>

-----------------------------------------------------------------------------
(* stage_counts_cached *)

PanelAnswer(begun, counts, stale, asked) ==
    panelPage' = {[begun |-> begun, counts |-> counts, stale |-> stale, asked |-> asked]}

Hit(t) ==
    /\ request[t] = {}
    /\ \E c \in Cached(panelClock) : PanelAnswer(c.begun, c.counts, FALSE, panelClock)
    /\ UNCHANGED <<panelClock, db, panelCache, request, faults>>

Miss(t) ==
    /\ request[t] = {} /\ Cached(panelClock) = {}
    /\ request' = [request EXCEPT ![t] = {[now |-> panelClock, since |-> panelClock - PanelWindow,
                                           counts |-> <<>>]}]
    /\ UNCHANGED <<panelClock, db, panelCache, panelPage, faults>>

CountStage(t) ==
    /\ \E q \in request[t] :
          /\ Cardinality(DOMAIN q.counts) < Len(Stages)
          /\ LET stage == Stages[Cardinality(DOMAIN q.counts) + 1]
                 count == [volume |-> Volume(stage, q.since), dropped |-> Lost(stage, q.since)]
             IN request' = [request EXCEPT ![t] =
                    {[q EXCEPT !.counts = [s \in DOMAIN q.counts \cup {stage} |->
                         IF s = stage THEN count ELSE q.counts[s]]]}]
    /\ UNCHANGED <<panelClock, db, panelCache, panelPage, faults>>

(* Mutant of Put: the entry carries the time the fetch ended *)
PutAtTheEnd(q) == panelCache' = {[at |-> panelClock, begun |-> q.now, counts |-> q.counts]}

(* The time was taken before the fetch *)
Put(q) == panelCache' = {[at |-> q.now, begun |-> q.now, counts |-> q.counts]}

Counted(t) ==
    /\ \E q \in request[t] :
          /\ Cardinality(DOMAIN q.counts) = Len(Stages)
          /\ Put(q)
          /\ PanelAnswer(q.now, q.counts, FALSE, q.now)
    /\ request' = [request EXCEPT ![t] = {}]
    /\ UNCHANGED <<panelClock, db, faults>>

(* The shaping of a row raises: the last counts whatever their age, or none *)
ShapeFails(t) ==
    /\ Fault
    /\ \E q \in request[t] :
          IF panelCache = {} THEN PanelAnswer(q.now, <<>>, TRUE, q.now)
          ELSE \E c \in panelCache : PanelAnswer(c.begun, c.counts, TRUE, q.now)
    /\ request' = [request EXCEPT ![t] = {}]
    /\ UNCHANGED <<panelClock, db, panelCache>>

(* A statement raises: the transaction is over, and so is the answer with   *)
(* the next statement of the endpoint                                       *)
StatementFails(t) ==
    /\ Fault
    /\ request[t] # {}
    /\ request' = [request EXCEPT ![t] = {}]
    /\ panelPage' = {}
    /\ UNCHANGED <<panelClock, db, panelCache>>

-----------------------------------------------------------------------------
(* systems_funnel *)

(* Mutant of FunnelExecuted: whatever is no longer approved *)
MovedPastApproved(r) == r.tag # "approved"

FunnelExecuted(r) == r.tag \in {"submitted", "filled", "closed"}

Funnel(since) ==
    [analyses |-> N(LAMBDA r : r.table = "signal" /\ r.at >= since),
     escalated |-> N(LAMBDA r : r.table = "signal" /\ r.at >= since /\ r.tag = "escalated"),
     decisions |-> N(LAMBDA r : r.table = "decision" /\ r.at >= since),
     approved |-> N(LAMBDA r : r.table = "trade" /\ r.at >= since),
     executed |-> N(LAMBDA r : r.table = "trade" /\ r.at >= since /\ FunnelExecuted(r))]

(* A score of 100 has a bucket of its own in the query *)
Histogram(since) ==
    LET sparse == Grouped(LAMBDA r : r.table = "signal" /\ r.at >= since,
                          LAMBDA r : (r.score \div 10) * 10)
        Index(b) == IF b \div 10 < 9 THEN b \div 10 ELSE 9
    IN [i \in 0..9 |-> SumFunctionOnSet(sparse, {b \in DOMAIN sparse : Index(b) = i})]

(* The reasons the funnel counts; it lists the first MaxReasons of them, and *)
(* Truncated says whether some are left out of the list                      *)
FunnelReasons(since) ==
    Grouped(LAMBDA r : /\ r.at >= since
                       /\ \/ r.table = "signal" /\ r.tag # "escalated"
                          \/ r.table = "rejection",
            LAMBDA r : <<IF r.table = "signal" THEN "haiku" ELSE r.tag, Class[r.reason]>>)

Truncated(since) == Cardinality(DOMAIN FunnelReasons(since)) > MaxReasons

(* fetch_stage_detail: the breakdown under a stage *)
Drawer(stage, since) ==
    CASE stage = "collect" ->
            Grouped(LAMBDA r : Crossed("collect", r, since),
                    LAMBDA r : IF r.table = "price" THEN "prices" ELSE r.tag)
      [] stage = "triage" -> Grouped(LAMBDA r : Dropped("triage", r, since), LAMBDA r : r.reason)
      [] stage = "senior" -> Grouped(LAMBDA r : Dropped("senior", r, since), LAMBDA r : r.reason)
      [] stage \in {"decision", "risk"} ->
            Grouped(LAMBDA r : Dropped(stage, r, since), LAMBDA r : Class[r.reason])
      [] stage = "execute" -> Grouped(LAMBDA r : Crossed("risk", r, since), LAMBDA r : r.tag)

(* systems_overview: what the panel of topics counts *)
PanelTopics(hour) ==
    [price |-> N(LAMBDA r : r.table = "price" /\ r.at >= hour),
     sentiment |-> N(LAMBDA r : r.table = "content" /\ \E t \in r.scored : t >= hour),
     analysis |-> N(LAMBDA r : r.table = "signal" /\ r.at >= hour),
     decision |-> N(LAMBDA r : r.table = "decision" /\ r.at >= hour),
     approved |-> N(LAMBDA r : r.table = "trade" /\ r.at >= hour)]

Collectors(hour) ==
    Grouped(LAMBDA r : r.table = "content" /\ r.at >= hour, LAMBDA r : <<r.tag, r.table>>)

-----------------------------------------------------------------------------
PanelInit ==
    /\ panelClock = 0 /\ db = Stored /\ panelCache = {} /\ panelPage = {} /\ faults = 0
    /\ request = [t \in Terminals |-> {}]

Serve(t) == Hit(t) \/ Miss(t) \/ CountStage(t) \/ Counted(t) \/ ShapeFails(t) \/ StatementFails(t)

PanelNext == Arrive \/ SettleRow \/ PanelTick \/ \E t \in Terminals : Serve(t)

PanelSpec == PanelInit /\ [][PanelNext]_panelVars

-----------------------------------------------------------------------------
(* Properties *)

(* What is served unflagged was counted no longer ago than the cache lives  *)
(* when it was asked for, and what is served at all is whole: a failed      *)
(* aggregate is the last good one or no numbers ("Reporting 0 for a count   *)
(* we could not take is the exact defect this module exists to remove").    *)
HonestPanel ==
    \A p \in panelPage :
        /\ ~p.stale => p.asked - p.begun < PanelTtl /\ p.counts # <<>>
        /\ p.counts = <<>> \/ DOMAIN p.counts = ToSet(Stages)
        /\ \A s \in ToSet(Stages) : \A c \in Conversion(p.counts, s) :
               c[2] > 0 /\ {s, ConversionFrom[s]} \subseteq DOMAIN p.counts

(* "the two panels never disagree": over the same rows the graph, its       *)
(* drawers, the funnel, its histogram and reasons, and the panel of topics  *)
(* add up to the same numbers, whatever a trade has become and whatever the *)
(* wording of a reason.                                                     *)
PanelsAgree ==
    LET since == panelClock - PanelWindow
        f == Funnel(since)
        SumBy(g, P(_)) == SumFunctionOnSet(g, {k \in DOMAIN g : P(k)})
        Refused(source) == SumBy(FunnelReasons(since), LAMBDA k : k[1] = source)
    IN /\ <<f.analyses, f.escalated, f.decisions, f.approved, f.executed>> =
             <<Volume("triage", since), Volume("senior", since), Volume("decision", since),
               Volume("risk", since), Volume("execute", since)>>
       /\ SumFunction(Histogram(since)) = f.analyses
       /\ <<Refused("haiku"), Refused("decision_engine"), Refused("risk_engine")>> =
             <<Lost("triage", since), Lost("decision", since), Lost("risk", since)>>
       /\ \A s \in {"triage", "senior", "decision", "risk"} :
             SumFunction(Drawer(s, since)) = Lost(s, since)
       /\ SumBy(Drawer("execute", since), LAMBDA k : k \in Executed) = Volume("execute", since)
       /\ SumBy(Drawer("execute", since), LAMBDA k : k \in Failed) = Lost("execute", since)
       /\ SumFunction(Drawer("collect", since)) = Volume("collect", since)
       /\ PanelTopics(since).price + SumFunction(Collectors(since)) = Volume("collect", since)
       /\ PanelTopics(since).sentiment = Volume("sentiment", since)
=============================================================================
