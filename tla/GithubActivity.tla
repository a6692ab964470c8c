----------------------------- MODULE GithubActivity -----------------------------
(***************************************************************************)
(* collector-github: the map from coins to repositories that grows a coin  *)
(* a cycle (main.py, repo_map.py), the round-robin that reads a few        *)
(* repositories a cycle into snapshots (collector.py, github_client.py,    *)
(* store.py), and the events it makes of each coin's two last snapshots    *)
(* (aggregate.py, activity.py), every cycle and for every coin it knows.   *)
(*                                                                         *)
(* What GitHub says of a repository is one of a few readings.  Merged pull *)
(* requests go the way of commits: a recent count and the pace to compare  *)
(* it with, either of which may be absent.  A ratio is kept as the pair of *)
(* its sums; time is in units of the least interval for a rate of stars,   *)
(* of which the tolerance of clock skew is a small part.                   *)
(***************************************************************************)
EXTENDS Faults, Sequences, FiniteSets, FiniteSetsExt, SequencesExt

(* The faults counted: queries, fetches, saves and publishes that fail,     *)
(* repositories that are gone and restarts                                  *)
CONSTANTS
    Coins,        \* the universe, in order of its ids (a sequence)
    BySymbol,     \* the same, in order of the symbols
    ReposOf,      \* per coin the repositories CoinGecko gives, in order
    RepoReadings, \* per repository what a fetch may read: stars, archived, commits, pace
                  \* and the time of the last push, each a set of at most one value
    Budget,       \* max_refresh_per_cycle
    Week,         \* STAR_GROWTH_NORMALISATION_WINDOW
    PushDay,      \* a day
    MaxGithubTick \* bound: time

ASSUME GithubAssumption ==
    /\ \A c \in ToSet(Coins) : IsFiniteSet(ToSet(ReposOf[c]))
    /\ \A c \in ToSet(Coins) : \A r \in ToSet(ReposOf[c]) : \A x \in RepoReadings[r] :
          x.commits \subseteq Nat /\ x.pace \subseteq Nat /\ x.pushed \subseteq Int
    /\ ToSet(BySymbol) = ToSet(Coins) /\ PushDay \in Nat \ {0}

VARIABLES
    hours,
    mapping,      \* coins that have repositories in the map
    attempted,    \* coins asked for
    snapshots,    \* github_repo_snapshots: per repository the two newest rows
    dead,         \* _dead
    cursor,       \* _cursor
    githubPc,     \* "map", "refresh" or "publish"
    repos,        \* list the cycle took of the repositories
    githubOffset, \* how many of them it has tried
    unsent,       \* coins of the map still to be published
    event,        \* per coin the last DeveloperEvent, if any
    based,        \* history: per coin the rows that event was made of
    refreshed     \* history: repositories fetched since the cursor last came round

cycle == <<githubPc, repos, githubOffset, unsent>>
known == <<mapping, attempted, dead>>
sent == <<event, based>>
githubVars == <<hours, known, snapshots, cursor, cycle, sent, refreshed, faults>>

AllRepos == UNION {ToSet(ReposOf[c]) : c \in ToSet(Coins)}
(* sorted(mapping.items()): a coin that joins the map shifts those after it *)
Known == FlattenSeq([i \in 1..Len(BySymbol) |->
            IF BySymbol[i] \in mapping THEN ReposOf[BySymbol[i]] ELSE <<>>])

(* The cycle ends, whether poll_once returns or raises *)
NextCycle ==
    /\ githubPc' = "map" /\ repos' = <<>> /\ githubOffset' = 0
    /\ hours' \in {hours, IF hours < MaxGithubTick THEN hours + 1 ELSE hours}
    /\ refreshed' = IF AllRepos \ dead \subseteq refreshed THEN {} ELSE refreshed

-----------------------------------------------------------------------------
(* refresh_mapping: the next coin not asked for yet, one a cycle; having no *)
(* repository is an answer, and a failure is not                            *)
Unasked == {i \in 1..Len(Coins) : Coins[i] \notin attempted}

Asked ==
    /\ githubPc' = "refresh"
    /\ repos' = SelectSeq(Known', LAMBDA r : r \notin dead)
    /\ githubOffset' = 0

AskCoin ==
    /\ githubPc = "map"
    /\ IF Unasked = {} THEN UNCHANGED <<attempted, mapping>>
       ELSE LET coin == Coins[Min(Unasked)]
            IN /\ attempted' = attempted \cup {coin}
               /\ mapping' = IF ReposOf[coin] = <<>> THEN mapping ELSE mapping \cup {coin}
    /\ Asked
    /\ UNCHANGED <<hours, dead, snapshots, cursor, unsent, sent, refreshed, faults>>

AskFails ==
    /\ githubPc = "map" /\ Unasked # {} /\ Fault
    /\ UNCHANGED mapping
    /\ Asked
    /\ UNCHANGED <<hours, known, snapshots, cursor, unsent, sent, refreshed>>

(* Reading the universe is guarded by nothing, and costs the whole cycle    *)
MapReadFails ==
    /\ githubPc = "map" /\ Fault
    /\ NextCycle
    /\ UNCHANGED <<known, snapshots, cursor, unsent, sent>>

-----------------------------------------------------------------------------
(* _refresh_batch *)

Take == IF Budget < Len(repos) THEN Budget ELSE Len(repos)
Repo == repos[((cursor + githubOffset) % Len(repos)) + 1]
Trying == githubPc = "refresh" /\ githubOffset < Take

(* A row goes in whatever was absent from what was read; only the two       *)
(* newest are ever looked at                                                *)
Fetch ==
    /\ Trying
    /\ \E x \in RepoReadings[Repo] :
          snapshots' = [snapshots EXCEPT ![Repo] =
              SubSeq(<<[read |-> x, at |-> hours]>> \o @, 1, IF @ = <<>> THEN 1 ELSE 2)]
    /\ refreshed' = refreshed \cup {Repo}
    /\ githubOffset' = githubOffset + 1
    /\ UNCHANGED <<hours, known, cursor, githubPc, repos, unsent, sent, faults>>

(* A 404 puts it on the blackboard till the next start *)
RepoGone ==
    /\ Trying /\ Fault
    /\ dead' = dead \cup {Repo}
    /\ githubOffset' = githubOffset + 1
    /\ UNCHANGED <<hours, mapping, attempted, snapshots, cursor, githubPc, repos,
                   unsent, sent, refreshed>>

(* Neither is the save: the rest of the batch is not tried, nothing is      *)
(* published, and the cursor stays where it was                             *)
SaveFails ==
    /\ Trying /\ Fault
    /\ NextCycle
    /\ UNCHANGED <<known, snapshots, cursor, unsent, sent>>

FetchFails ==
    /\ Trying /\ Fault
    /\ githubOffset' = githubOffset + 1
    /\ UNCHANGED <<hours, known, snapshots, cursor, githubPc, repos, unsent, sent,
                   refreshed>>

(* Mutant of EndBatch: the next cycle starts from the first again *)
EndBatchAtFirst ==
    /\ githubPc = "refresh" /\ githubOffset = Take
    /\ cursor' = 0
    /\ githubPc' = "publish" /\ unsent' = mapping
    /\ UNCHANGED <<hours, known, snapshots, repos, githubOffset, sent, refreshed,
                   faults>>

EndBatch ==
    /\ githubPc = "refresh" /\ githubOffset = Take
    /\ cursor' = IF repos = <<>> THEN cursor ELSE (cursor + Take) % Len(repos)
    /\ githubPc' = "publish" /\ unsent' = mapping
    /\ UNCHANGED <<hours, known, snapshots, repos, githubOffset, sent, refreshed,
                   faults>>

-----------------------------------------------------------------------------
(* aggregate *)

(* A repository that is archived or a fork is not counted *)
Live(rows) == {r \in DOMAIN rows : rows[r][1].read.archived # {TRUE}}

(* Numerator and denominator are summed over the repositories that have     *)
(* both, and a pace of zero gives no ratio                                  *)
Ratio(rows, live) ==
    LET both == {r \in live : rows[r][1].read.commits # {} /\ rows[r][1].read.pace # {}}
        Total(field(_)) ==
            SumFunction([r \in both |-> CHOOSE n \in field(rows[r][1].read) : TRUE])
        recent == Total(LAMBDA x : x.commits)
        pace == Total(LAMBDA x : x.pace)
    IN IF pace > 0 THEN {<<recent, pace>>} ELSE {}

(* Mutant of Rate: the interval runs to the clock of the cycle *)
RateUntilNow(rows, r) ==
    LET new == rows[r][1]
        old == rows[r][2]
        grown == (CHOOSE n \in new.read.stars : TRUE) - (CHOOSE n \in old.read.stars : TRUE)
    IN (grown * Week) \div (hours - old.at)

(* star_growth_pct times its base: what the stars grew in a week, from one  *)
(* row to the other                                                         *)
Rate(rows, r) ==
    LET new == rows[r][1]
        old == rows[r][2]
        grown == (CHOOSE n \in new.read.stars : TRUE) - (CHOOSE n \in old.read.stars : TRUE)
    IN (grown * Week) \div (new.at - old.at)

StarGrowth(rows, live) ==
    LET usable == {r \in live :
            /\ Len(rows[r]) = 2 /\ rows[r][2].at < rows[r][1].at
            /\ rows[r][1].read.stars # {} /\ \E n \in rows[r][2].read.stars : n > 0}
    IN IF usable = {} THEN {}
       ELSE {<<MapThenSumSet(LAMBDA r : Rate(rows, r), usable),
               MapThenSumSet(LAMBDA r : CHOOSE n \in rows[r][2].read.stars : TRUE, usable)>>}

(* The coin's repositories that have a snapshot; none is no activity at all *)
RowsOf(c) ==
    LET read == {r \in ToSet(ReposOf[c]) : snapshots[r] # <<>>}
    IN [r \in read |-> snapshots[r]]

(* days_since_push by now: a push ahead of the clock is not believed, of    *)
(* the others the latest counts                                             *)
DaysSincePush(rows, live, now) ==
    LET pushes == UNION {rows[r][1].read.pushed : r \in live}
        believed == {(now - p) \div PushDay : p \in {q \in pushes : q <= now}}
    IN IF believed = {} THEN {} ELSE {Min(believed)}

Aggregate(rows, now) ==
    LET live == Live(rows)
    IN IF live = {}
       THEN [repo_count |-> 0, commit_ratio |-> {<<0, 1>>}, star_growth |-> {},
             days_since_push |-> {}, archived |-> TRUE, occurred_at |-> now]
       ELSE [repo_count |-> Cardinality(live), commit_ratio |-> Ratio(rows, live),
             star_growth |-> StarGrowth(rows, live),
             days_since_push |-> DaysSincePush(rows, live, now), archived |-> FALSE,
             occurred_at |-> now]

HasMeasurement(a) ==
    a.archived \/ a.commit_ratio # {} \/ a.days_since_push # {} \/ a.star_growth # {}

(* _publish_all: a coin nothing was measured of is passed over *)
PublishCoin(c) ==
    /\ githubPc = "publish" /\ c \in unsent
    /\ unsent' = unsent \ {c}
    /\ LET rows == RowsOf(c)
       IN IF rows # <<>> /\ HasMeasurement(Aggregate(rows, hours))
          THEN /\ event' = [event EXCEPT ![c] = {Aggregate(rows, hours)}]
               /\ based' = [based EXCEPT ![c] = rows]
          ELSE UNCHANGED sent
    /\ UNCHANGED <<hours, known, snapshots, cursor, githubPc, repos, githubOffset,
                   refreshed, faults>>

(* Whatever fails for a coin costs that coin this cycle, and no other *)
CoinFails(c) ==
    /\ githubPc = "publish" /\ c \in unsent /\ Fault
    /\ unsent' = unsent \ {c}
    /\ UNCHANGED <<hours, known, snapshots, cursor, githubPc, repos, githubOffset,
                   sent, refreshed>>

EndCycle ==
    /\ githubPc = "publish" /\ unsent = {}
    /\ NextCycle
    /\ UNCHANGED <<known, snapshots, cursor, unsent, sent, faults>>

(* The map, the blackboard and the cursor are in memory only *)
GithubRestart ==
    /\ Fault
    /\ mapping' = {} /\ attempted' = {} /\ dead' = {} /\ cursor' = 0
    /\ githubPc' = "map" /\ repos' = <<>> /\ githubOffset' = 0 /\ unsent' = {}
    /\ UNCHANGED <<hours, snapshots, sent, refreshed>>

-----------------------------------------------------------------------------
GithubInit ==
    /\ hours = 0 /\ mapping = {} /\ attempted = {} /\ dead = {} /\ cursor = 0
    /\ snapshots = [r \in AllRepos |-> <<>>]
    /\ githubPc = "map" /\ repos = <<>> /\ githubOffset = 0 /\ unsent = {}
    /\ event = [c \in ToSet(Coins) |-> {}] /\ based = [c \in ToSet(Coins) |-> <<>>]
    /\ refreshed = {} /\ faults = 0

Cycle ==
    \/ AskCoin \/ Fetch \/ EndBatch \/ EndCycle
    \/ \E c \in ToSet(Coins) : PublishCoin(c)

GithubNext ==
    \/ Cycle \/ AskFails \/ MapReadFails \/ RepoGone \/ FetchFails \/ SaveFails
    \/ GithubRestart
    \/ \E c \in ToSet(Coins) : CoinFails(c)

GithubSpec == GithubInit /\ [][GithubNext]_githubVars
(* run_periodic drives the cycle *)
GithubFairSpec == GithubSpec /\ WF_githubVars(Cycle)

-----------------------------------------------------------------------------
(* Properties *)

(* What was counted does not change by being published again *)
SameCounts(e, f) ==
    /\ f.repo_count = e.repo_count /\ f.commit_ratio = e.commit_ratio
    /\ f.star_growth = e.star_growth /\ f.archived = e.archived

(* The last push grows older as the clock does, a part of a day at most     *)
(* gained by rounding; it is the nearer only when one that was ahead of the *)
(* clock is believed now, and it is not forgotten                           *)
AgesWithClock(e, f, rows) ==
    /\ e.days_since_push # {} => f.days_since_push # {}
    /\ \A d \in e.days_since_push, g \in f.days_since_push :
          /\ PushDay * g < PushDay * (d + 1) + (f.occurred_at - e.occurred_at)
          /\ g < d => \E r \in Live(rows) : \E p \in rows[r][1].read.pushed :
                p > e.occurred_at

(* An event says what was measured and nothing else: as long as no new row  *)
(* of the coin's repositories is read, publishing again changes nothing but *)
(* the age of the last push, and that only as the clock does; the coin is   *)
(* archived when every repository read of it is, and a ratio compares       *)
(* repositories with their own pace (aggregate.py, activity.py).            *)
MeasuredNotMade ==
    [][\A c \in ToSet(Coins) : event'[c] # event[c] =>
          /\ based'[c] = based[c] => \A e \in event[c], f \in event'[c] :
                SameCounts(e, f) /\ AgesWithClock(e, f, based[c])
          /\ \A e \in event'[c] :
                /\ e.archived <=>
                      \A r \in DOMAIN based'[c] : based'[c][r][1].read.archived = {TRUE}
                /\ \A q \in e.commit_ratio : ~e.archived =>
                      \E r \in DOMAIN based'[c] :
                         LET x == based'[c][r][1].read
                         IN x.commits # {} /\ \E p \in x.pace : p > 0]_githubVars

(* The round goes on: every repository of the universe that is not gone is  *)
(* read again and again, whichever join the list before it, and every coin  *)
(* is asked for.                                                            *)
EveryRepoRefreshed == []<>(AllRepos \ dead \subseteq refreshed)
=============================================================================
