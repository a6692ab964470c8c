------------------------------ MODULE MCDecide ------------------------------
(***************************************************************************)
(* The way from evidence to an approved size, for TLC: the evidence on a   *)
(* symbol (GithubActivity, Fundamentals), its triage (Triage,              *)
(* SeniorAnalyst), the score and the threshold it is held to (Scoring,     *)
(* ThresholdScan), and the portfolio that bounds it (RiskExposure).  The   *)
(* parts share no state that both of them write, so that a behaviour of    *)
(* the sum is a behaviour of one part, the others at rest.                 *)
(***************************************************************************)
EXTENDS RiskExposure, GithubActivity, Fundamentals, Triage, SeniorAnalyst, Scoring, ThresholdScan

CONSTANTS d1, d2, d3

MCSize == [d \in Decisions |-> IF d = d1 THEN 2 ELSE IF d = d2 THEN 1 ELSE 3]

(* What a repository may answer: it is alive, its push perhaps ahead of the *)
(* clock, or it is archived and without commits.  The coin asked for last   *)
(* comes first in the list and shares a repository.                         *)
Reading(stars, archived, commits, pace, pushed) ==
    [stars |-> stars, archived |-> archived, commits |-> commits, pace |-> pace,
     pushed |-> pushed]
MCCoins == <<"x", "m", "a">>
MCBySymbol == <<"a", "m", "x">>
MCRepos == [x |-> <<>>, m |-> <<"r1", "r2">>, a |-> <<"r1">>]
MCRepoReadings ==
    [r1 |-> {Reading({2}, {}, {3}, {1}, {2}), Reading({1}, {TRUE}, {}, {}, {})},
     r2 |-> {Reading({1}, {}, {}, {1}, {0})}]

(* The third token may be listed or not, its unlock due or none *)
Document(listed, days, sized) == [listed |-> listed, days |-> days, sized |-> sized]
MCTokens == 1..3
MCWorlds ==
    {<<Document(TRUE, {1, 3}, FALSE), Document(TRUE, {2}, TRUE), Document(l, d, TRUE)>> :
        l \in BOOLEAN, d \in {{}, {1}}}

MCOwner == [f \in {"price", "volume"} |-> "r"]

Analysis(s, escalate) == [symbol |-> s, escalate |-> escalate]
MCLog == <<Analysis("a", TRUE), Analysis("b", FALSE), Analysis("a", TRUE)>>

MCFieldReadings ==
    [price_change_pct_24h |-> {-20, 10}, volume_spike_ratio |-> {0, 5}, liquidity_usd |-> {0, 4},
     volume_24h_usd |-> {0, 7}, sentiment_score |-> {-800, 500}, social_growth |-> {-1, 2},
     has_news |-> {TRUE}, market_sentiment |-> {-1000, 1000}, funding_rate_8h |-> {-2, 2},
     long_short_account_ratio |-> {1}, open_interest_change_pct_24h |-> {20},
     tvl_change_pct_7d |-> {-20}, fees_change_pct_7d |-> {25}, next_unlock_pct_supply |-> {5},
     next_unlock_at |-> {-1, 3}, has_unlock_schedule |-> BOOLEAN, commit_ratio_4w |-> {0, 3},
     pr_ratio_4w |-> {1}, days_since_push |-> {90}, star_growth_pct_7d |-> {1},
     all_repos_archived |-> BOOLEAN]

Sample(s, axes, regime, scores, confident) ==
    [symbol |-> s, axes |-> axes, regime |-> regime, score |-> scores, confident |-> confident]
MCKinds ==
    {Sample("a", ScanAxes, TRUE, {2}, TRUE), Sample("b", ScanAxes, TRUE, {1}, FALSE),
     Sample("a", ScanAxes, FALSE, {1}, TRUE), Sample("b", {"volume"}, TRUE, {}, FALSE)}

VARIABLE part

MCParts == {"risk", "github", "unlock", "triage", "senior", "score", "scan"}

githubOwn == <<hours, known, snapshots, cursor, cycle, sent, refreshed>>
unlockOwn == <<day, document, cached, poll, backlogOffset, topic, features>>
triageOwn == <<store, pending, hand, triageDue, taken, owed>>
seniorOwn == <<seniorCommitted, at, batchEnd, seniorPc, outcome, member, gate, limited,
               quotaStatus, output, limits, dropped>>
scanOwn == <<scanClock, journal, lock, job, reports>>

DecideInit ==
    /\ part \in MCParts
    /\ Init /\ GithubInit /\ UnlockInit /\ TriageInit /\ SeniorInit /\ ScoreInit /\ ScanInit
    /\ part # "unlock" => document[3] = Document(TRUE, {}, TRUE)

RiskPart ==
    /\ part = "risk" /\ Next
    /\ UNCHANGED <<part, faults, githubOwn, unlockOwn, triageOwn, seniorOwn, scoreVars, scanOwn>>
GithubPart ==
    /\ part = "github" /\ GithubNext
    /\ UNCHANGED <<part, vars, unlockOwn, triageOwn, seniorOwn, scoreVars, scanOwn>>
UnlockPart ==
    /\ part = "unlock" /\ UnlockNext
    /\ UNCHANGED <<part, vars, githubOwn, triageOwn, seniorOwn, scoreVars, scanOwn>>
TriagePart ==
    /\ part = "triage" /\ TriageNext
    /\ UNCHANGED <<part, vars, githubOwn, unlockOwn, seniorOwn, scoreVars, scanOwn>>
SeniorPart ==
    /\ part = "senior" /\ SeniorNext
    /\ UNCHANGED <<part, vars, githubOwn, unlockOwn, triageOwn, scoreVars, scanOwn>>
ScorePart ==
    /\ part = "score" /\ ScoreNext
    /\ UNCHANGED <<part, faults, vars, githubOwn, unlockOwn, triageOwn, seniorOwn, scanOwn>>
ScanPart ==
    /\ part = "scan" /\ ScanNext
    /\ UNCHANGED <<part, vars, githubOwn, unlockOwn, triageOwn, seniorOwn, scoreVars>>

DecideNext ==
    \/ RiskPart \/ GithubPart \/ UnlockPart \/ TriagePart \/ SeniorPart \/ ScorePart \/ ScanPart

decideVars ==
    <<part, faults, vars, githubOwn, unlockOwn, triageOwn, seniorOwn, scoreVars, scanOwn>>

(* Each part with its own fairness *)
DecideSpec ==
    /\ DecideInit /\ [][DecideNext]_decideVars
    /\ WF_githubVars(part = "github" /\ Cycle)
    /\ WF_unlockVars(part = "unlock" /\ PollStep) /\ WF_unlockVars(part = "unlock" /\ HandleEvent)
    /\ WF_triageVars(part = "triage" /\ TriageTick)
    /\ \A r \in TriageReplicas :
          /\ WF_triageVars(part = "triage" /\ TriageHandle(r))
          /\ WF_triageVars(part = "triage" /\ Sweep(r))
    /\ WF_seniorVars(part = "senior" /\ Work) /\ WF_seniorVars(part = "senior" /\ LimitLifted)
    /\ WF_scanVars(part = "scan" /\ ExpireLock)
    /\ \A r \in ScanReplicas :
          /\ WF_scanVars(part = "scan" /\ Acquire(r))
          /\ WF_scanVars(part = "scan" /\ (ScanWindow(r) \/ Store(r)))
-----------------------------------------------------------------------------
(* The liveness of a part, asked of the behaviours that are its own *)

(* Collectors that go round within a budget reach everything they know, past *)
(* whatever fails, a cycle that ends early included: collector-github        *)
(* fetches every repository of its map that is not written off again and     *)
(* again, though the list moves under the cursor (collector.py:116-152), and *)
(* collector-defillama has the schedule of every token in the end that has   *)
(* one and is listed (collector.py:121-171).                                 *)
RoundsReachAll ==
    /\ part = "github" => EveryRepoRefreshed
    /\ part = "unlock" => EveryScheduleRead

(* What is taken in is accounted for: an event folded into the features of *)
(* a symbol waits for its analysis or has had one, and an analysis the     *)
(* senior analyst took leaves a row of the journal that says what became   *)
(* of it (ai-worker-haiku worker.py:81-132, ai-worker-sonnet               *)
(* worker.py:52-107).                                                      *)
TakenIsAccountedFor == NothingForgotten /\ JournalAccounts

(* ai-worker-sonnet passes every analysis of the backlog in the end,       *)
(* whatever limits Claude reports meanwhile (claude.py:149-203), unless    *)
(* pauses outlast max_poll_interval_ms and the commit that follows them,   *)
(* refused, ends the loop (config.py:26-29, consumer.py:115): a failure of *)
(* a handler never does.                                                   *)
BacklogPassed == part = "senior" => BacklogConsumed
=============================================================================
