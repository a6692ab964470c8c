-------------------------------- MODULE Scoring --------------------------------
(***************************************************************************)
(* The two deterministic scorers that read a symbol's feature hash:        *)
(* ai-worker-haiku's local_opportunity (scorer.py), which decides on       *)
(* escalation, and decision-engine's score (features_map.py, scoring.py,   *)
(* engine.py), which decides on the symbol.                                *)
(*                                                                         *)
(* The hash starts empty and grows a field, or has one replaced, with each *)
(* event merged; an analysis of it follows and both scorers read it.       *)
(* Marks are in thousandths.  A sigmoid or a logarithm is drawn as the     *)
(* straight line between its saturation points: increasing, in [0, 1], at  *)
(* 1/2 where the code's is.  An amount in dollars is its order of          *)
(* magnitude, 0 for the amount zero.                                       *)
(***************************************************************************)
EXTENDS Integers, FiniteSets, FiniteSetsExt, Functions

CONSTANTS
    FieldReadings, \* per field of the hash the values it may take
    Threshold,     \* decision_threshold
    MaxFields      \* bound: fields the hash gets

(* The fields that are true or false; the others are numbers *)
Flags == {"has_news", "has_unlock_schedule", "all_repos_archived"}

ASSUME ScoringAssumption ==
    \A f \in DOMAIN FieldReadings :
        FieldReadings[f] \subseteq IF f \in Flags THEN BOOLEAN ELSE Int

VARIABLES
    raw,      \* features:<symbol>: the fields that are present
    scoreDue, \* whether an analysis of it is still to be published
    triage,   \* what local_opportunity says of it
    verdict   \* what score says of it, and the event decision-engine publishes

scoreVars == <<raw, scoreDue, triage, verdict>>

Has(f) == f \in DOMAIN raw
IsKnown(f) == IF Has(f) THEN {raw[f]} ELSE {}   \* a value, or none
Clamp(x, low, high) == IF x < low THEN low ELSE IF x > high THEN high ELSE x
Mark(x) == Clamp(x, 0, 1000)
Magnitude(x) == IF x < 0 THEN -x ELSE x
The(S) == CHOOSE x \in S : TRUE

(* round(n / d), ties to the even number *)
Round(n, d) ==
    LET q == n \div d
        r == 2 * (n % d)
    IN IF r > d \/ (r = d /\ q % 2 = 1) THEN q + 1 ELSE q

-----------------------------------------------------------------------------
(* features_map.py *)

(* A liquidity of zero is no reading; 24h volume stands in for it *)
Liquidity ==
    {x \in IsKnown("liquidity_usd") : x > 0}
    \cup {x \in IsKnown("volume_24h_usd") :
            x > 0 /\ (Has("liquidity_usd") => raw["liquidity_usd"] = 0)}

(* A date that has passed is a stale reading *)
UnlockDays == {d \in IsKnown("next_unlock_at") : d >= 0}
Flag(f) == Has(f) /\ raw[f]

-----------------------------------------------------------------------------
(* scoring.py: the mark of each axis, or none *)

Sigmoid(x, half) == Mark(500 + (500 * x) \div half)
Scaled(f, half) == {Sigmoid(x, half) : x \in IsKnown(f)}

(* Terms of an axis with their weights, those that are absent left out *)
MeanPresent(terms) ==
    IF terms = {} THEN {}
    ELSE {SumFunction([t \in terms |-> t.weight * t.mark])
             \div SumFunction([t \in terms |-> t.weight])}
Term(name, weight, marks) == {[name |-> name, weight |-> weight, mark |-> x] : x \in marks}

NormVolume == {Sigmoid(x - 3, 3) : x \in IsKnown("volume_spike_ratio")}
NormSocial == Scaled("social_growth", 2)
NormTrend == Scaled("price_change_pct_24h", 30)
NormLiquidity == {Mark((1000 * (x - 3)) \div 4) : x \in Liquidity}

(* The symbol's own sentiment, else half the market's *)
NormNews ==
    LET sentiment == IF Has("sentiment_score") THEN raw["sentiment_score"]
                     ELSE IF Has("market_sentiment") THEN raw["market_sentiment"] \div 2
                     ELSE 0
    IN IF Flag("has_news") \/ Has("sentiment_score") \/ Has("market_sentiment")
       THEN {Mark((IF Flag("has_news") THEN 500 ELSE 0) + (sentiment + 1000) \div 4)}
       ELSE {}

(* A crowded side lowers the mark, rising interest raises it *)
NormPositioning ==
    MeanPresent(
        Term("funding", 1, {Sigmoid(-x, 3) : x \in IsKnown("funding_rate_8h")})
        \cup Term("ratio", 1, {Sigmoid(-x, 2) : x \in IsKnown("long_short_account_ratio")})
        \cup Term("interest", 1, Scaled("open_interest_change_pct_24h", 40)))

(* How much of the mark an unlock takes: its share of the supply, by how near *)
UnlockRisk(pct, days) == (Mark(200 * pct) * Mark(1000 - (1000 * days) \div 30)) \div 1000
UnlockTerm ==
    IF ~Flag("has_unlock_schedule") THEN {}
    ELSE IF IsKnown("next_unlock_pct_supply") = {} /\ UnlockDays = {} THEN {1000}
    ELSE {1000 - UnlockRisk(p, d) : p \in IsKnown("next_unlock_pct_supply"), d \in UnlockDays}

NormFundamentals ==
    MeanPresent(
        Term("tvl", 1, Scaled("tvl_change_pct_7d", 30))
        \cup Term("fees", 1, Scaled("fees_change_pct_7d", 50))
        \cup Term("unlock", 1, UnlockTerm))

Freshness(days) == Mark(1000 - (1000 * (days - 7)) \div 83)

(* Ratios are in multiples of the project's own pace: 1 is 1/2, 3 is 1, and *)
(* a project that stopped is 0.  Archived everywhere is a measured zero.    *)
Momentum(ratio) == IF ratio <= 0 THEN 0 ELSE Mark(250 + 250 * ratio)

NormDeveloperActivity ==
    IF Flag("all_repos_archived") THEN {0}
    ELSE MeanPresent(
        Term("commit", 40, {Momentum(x) : x \in IsKnown("commit_ratio_4w")})
        \cup Term("pr", 25, {Momentum(x) : x \in IsKnown("pr_ratio_4w")})
        \cup Term("freshness", 25, {Freshness(x) : x \in IsKnown("days_since_push")})
        \cup Term("stars", 10, {Mark(500 * x) : x \in IsKnown("star_growth_pct_7d")}))

Sub == [volume |-> NormVolume, social |-> NormSocial, news |-> NormNews,
        trend |-> NormTrend, liquidity |-> NormLiquidity, positioning |-> NormPositioning,
        fundamentals |-> NormFundamentals, developer |-> NormDeveloperActivity]

(* WEIGHTS, in ten-thousandths *)
Weights == [volume |-> 1725, social |-> 1380, news |-> 1380, trend |-> 1380,
            liquidity |-> 1035, positioning |-> 1380, fundamentals |-> 920,
            developer |-> 800]
Axes == DOMAIN Weights
WeightOf(S) == SumFunctionOnSet(Weights, S)
MinPresentWeight == 1840

(* The market's read counts in the score, not in the confidence *)
Confidence(present) ==
    WeightOf(present \ (IF Flag("has_news") \/ Has("sentiment_score") THEN {} ELSE {"news"}))

ScoreBy(sub, whole(_)) ==
    LET present == {a \in Axes : sub[a] # {}}
        weighted == SumFunction([a \in present |-> Weights[a] * The(sub[a])])
    IN IF WeightOf(present) < MinPresentWeight
       THEN [score |-> 0, confidence |-> 0, breakdown |-> [a \in Axes |-> {}]]
       ELSE [score |-> Round(weighted, 10 * whole(present)),
             confidence |-> Confidence(present), breakdown |-> sub]

(* Mutant of Score: an axis that is absent counts as zero *)
ScoreOfAllAxes(sub) == ScoreBy(sub, LAMBDA present : WeightOf(Axes))

Score(sub) == ScoreBy(sub, WeightOf)

(* DecisionEngine._on_analysis *)
Verdict ==
    LET result == Score(Sub)
    IN [result |-> result, fields |-> DOMAIN raw,
        event |-> IF result.score < Threshold THEN "rejected" ELSE "decision"]

-----------------------------------------------------------------------------
(* scorer.py: local_opportunity *)

(* A ratio of zero is not a reading; no more is a liquidity of zero *)
HasVolume == Has("volume_spike_ratio") /\ raw["volume_spike_ratio"] > 0
HasLiquidity == Has("liquidity_usd") /\ raw["liquidity_usd"] > 0
HasProxy == ~HasLiquidity /\ Has("volume_24h_usd") /\ raw["volume_24h_usd"] > 0

LocalOpportunity ==
    LET change == IF Has("price_change_pct_24h") THEN raw["price_change_pct_24h"] ELSE 0
        sent == IF Has("sentiment_score") THEN raw["sentiment_score"] ELSE 0
        liq == IF HasLiquidity THEN raw["liquidity_usd"]
               ELSE IF HasProxy THEN raw["volume_24h_usd"] ELSE 3
        mom == Mark((1000 * Magnitude(change)) \div 15)
        vol == IF HasVolume THEN Mark(250 * (raw["volume_spike_ratio"] - 1)) ELSE 0
        liqF == Mark((1000 * liq) \div 6)
        factors == Cardinality({n \in 1..4 :
                       CASE n = 1 -> Has("price_change_pct_24h")
                         [] n = 2 -> HasVolume
                         [] n = 3 -> Has("sentiment_score")
                         [] n = 4 -> HasLiquidity \/ HasProxy})
        score == Round(35 * mom + 25 * vol + 25 * Magnitude(sent) + 15 * liqF, 1000)
        disagreement == /\ Magnitude(change) > 2 /\ Magnitude(sent) > 200
                        /\ (change > 0) # (sent > 0)
        ambiguous == disagreement \/ (HasLiquidity /\ liq <= 4 /\ mom > 500)
        strong == score >= 60
        gate == ambiguous \/ vol >= 600 \/ mom >= 600
    IN [score |-> score,
        confidence |-> Round(2500 + (35 * liqF) \div 10 + 1000 * factors, 100),
        factors |-> factors,
        source |-> IF HasLiquidity THEN "dex" ELSE IF HasProxy THEN "volume_proxy"
                   ELSE "unknown",
        block |-> IF strong /\ gate THEN "escalated"
                  ELSE IF ~strong THEN "score_below_threshold" ELSE "gate_not_met"]

-----------------------------------------------------------------------------
(* An event of the symbol is merged into the hash, which never loses a      *)
(* field to it                                                              *)
MergeField(f) ==
    /\ ~scoreDue
    /\ Has(f) \/ Cardinality(DOMAIN raw) < MaxFields
    /\ \E x \in FieldReadings[f] :
          raw' = [g \in DOMAIN raw \cup {f} |-> IF g = f THEN x ELSE raw[g]]
    /\ scoreDue' = TRUE
    /\ UNCHANGED <<triage, verdict>>

(* The hash is published with its triage in an AnalysisEvent, which is      *)
(* decided on                                                               *)
Analyse ==
    /\ scoreDue
    /\ scoreDue' = FALSE
    /\ triage' = LocalOpportunity
    /\ verdict' = Verdict
    /\ UNCHANGED raw

ScoreInit == raw = <<>> /\ scoreDue = FALSE /\ triage = LocalOpportunity /\ verdict = Verdict
ScoreNext == (\E f \in DOMAIN FieldReadings : MergeField(f)) \/ Analyse
ScoreSpec == ScoreInit /\ [][ScoreNext]_scoreVars

-----------------------------------------------------------------------------
(* Properties *)

Present == {a \in Axes : verdict.result.breakdown[a] # {}}

(* Evidence nudges: an axis that appears beside others moves the score      *)
(* towards its own mark and not past it (but for the rounding to a          *)
(* hundredth), so that an axis that is absent speaks neither for nor        *)
(* against.  It takes nothing from the confidence, and a read of the market *)
(* adds nothing to it.                                                      *)
EvidenceNudges ==
    [][\A a \in Axes \ Present :
          (scoreDue /\ Present # {} /\ Present' = Present \cup {a}) =>
             LET ends == {10 * verdict.result.score, The(verdict'.result.breakdown[a])}
             IN /\ 10 * verdict'.result.score \in (Min(ends) - 10)..(Max(ends) + 10)
                /\ verdict'.result.confidence >= verdict.result.confidence
                /\ verdict'.fields \ verdict.fields = {"market_sentiment"} =>
                      verdict'.result.confidence = verdict.result.confidence]_scoreVars
=============================================================================
