---------------------------- MODULE SeniorAnalyst ----------------------------
(***************************************************************************)
(* ai-worker-sonnet (worker.py, journal.py) with the Claude client         *)
(* (cmi_common/ai/claude.py) and the consumer loop that feeds it.          *)
(*                                                                         *)
(* Analyses are handled in the order of their partition, a batch at a time,*)
(* and the offset is committed after the batch.  An escalated one passes   *)
(* the cool-down of its symbol and the budget of calls, is put to Claude,  *)
(* and becomes a decision or not; either way a journal row says what       *)
(* happened to it.  A usage limit makes the client wait, with the message  *)
(* in hand, until the limit is lifted; the group may have given its member *)
(* up by then, which the next commit finds out.                            *)
(*                                                                         *)
(* An action is one await with the code up to the next.                    *)
(***************************************************************************)
EXTENDS Faults, FiniteSets

(* The faults counted: awaits that raise, restarts                          *)
CONSTANTS
    SeniorSymbols,
    Log,       \* the analyses: a sequence of [symbol, escalate]
    MaxCalls,  \* max_calls_per_hour
    LongPause, \* whether handling a batch, its pauses included, may outlast
               \* max_poll_interval_ms
    MaxLimits  \* bound: usage limits reached

ASSUME AnalystAssumption ==
    /\ \A m \in DOMAIN Log : Log[m] \in [symbol : SeniorSymbols, escalate : BOOLEAN]
    /\ MaxCalls \in Nat \ {0} /\ LongPause \in BOOLEAN
    /\ MaxLimits \in Nat

VARIABLES
    seniorCommitted, \* offset of the group
    at,              \* message in hand, or the next one
    batchEnd,        \* last message of the batch in hand
    seniorPc,
    outcome,         \* what the journal row of the message in hand will say
    member,          \* whether the consumer is still in its group
    cooldown,        \* ai:cooldown:<symbol>: symbols that have it
    spent,           \* ai:budget:calls of this window
    limited,         \* whether Claude reports a usage limit
    quotaStatus,     \* ai:quota:<service>: "none", "paused" or "running"
    decisions,       \* decision.events: analyses decided on
    rows,            \* decision journal: <<analysis, outcome>> published
    limits,
    dropped          \* history: analyses whose handler or journal publish raised

gate == <<cooldown, spent>>
output == <<decisions, rows>>
seniorVars == <<seniorCommitted, at, batchEnd, seniorPc, outcome, member, gate, limited,
                quotaStatus, output, limits, faults, dropped>>

Messages == DOMAIN Log
Symbol == Log[at].symbol
Goto(p) == seniorPc' = p
Conclude(o) == outcome' = o /\ Goto("journal")

-----------------------------------------------------------------------------
(* EventConsumer.run *)

FetchBatch ==
    /\ seniorPc = "poll" /\ at \in Messages
    /\ \E n \in {m \in Messages : m >= at} : batchEnd' = n
    /\ Goto("handle")
    /\ UNCHANGED <<seniorCommitted, at, outcome, member, gate, limited, quotaStatus,
                   output, limits, faults, dropped>>

NextMessage == at' = at + 1 /\ Goto(IF at < batchEnd THEN "handle" ELSE "commit")

Commit ==
    /\ seniorPc = "commit" /\ member
    /\ seniorCommitted' = at - 1
    /\ Goto("poll")
    /\ UNCHANGED <<at, batchEnd, outcome, member, gate, limited, quotaStatus, output,
                   limits, faults, dropped>>

(* The commit of a consumer that left its group raises, which ends run()    *)
CommitRefused ==
    /\ seniorPc = "commit" /\ ~member
    /\ Goto("dead")
    /\ UNCHANGED <<seniorCommitted, at, batchEnd, outcome, member, gate, limited,
                   quotaStatus, output, limits, faults, dropped>>

-----------------------------------------------------------------------------
(* SonnetWorker.handle *)

SeniorHandle ==
    /\ seniorPc = "handle"
    /\ IF Log[at].escalate THEN Goto("cooldown") /\ UNCHANGED outcome
       ELSE Conclude("not escalated")
    /\ UNCHANGED <<seniorCommitted, at, batchEnd, member, gate, limited, quotaStatus,
                   output, limits, faults, dropped>>

(* _may_call: the cool-down is looked up, the budget spent, the cool-down set *)
CheckCooldown ==
    /\ seniorPc = "cooldown"
    /\ IF Symbol \in cooldown THEN Conclude("skipped")
       ELSE Goto("budget") /\ UNCHANGED outcome
    /\ UNCHANGED <<seniorCommitted, at, batchEnd, member, gate, limited, quotaStatus,
                   output, limits, faults, dropped>>

SpendBudget ==
    /\ seniorPc = "budget"
    /\ spent' = IF spent <= MaxCalls THEN spent + 1 ELSE spent
    /\ IF spent < MaxCalls THEN Goto("mark") /\ UNCHANGED outcome ELSE Conclude("skipped")
    /\ UNCHANGED <<seniorCommitted, at, batchEnd, member, cooldown, limited, quotaStatus,
                   output, limits, faults, dropped>>

SetCooldown ==
    /\ seniorPc = "mark"
    /\ cooldown' = cooldown \cup {Symbol}
    /\ Goto("call")
    /\ UNCHANGED <<seniorCommitted, at, batchEnd, outcome, member, spent, limited,
                   quotaStatus, output, limits, faults, dropped>>

(* _validate: an answer that validates, or one that does not, is empty (the *)
(* CLI timed out or failed) or cannot be parsed                             *)
Answer ==
    /\ seniorPc = "call" /\ ~limited
    /\ \/ Goto("publish") /\ UNCHANGED outcome
       \/ Conclude("rejected")
    /\ UNCHANGED <<seniorCommitted, at, batchEnd, member, gate, limited, quotaStatus,
                   output, limits, faults, dropped>>

(* complete: the limit is published, best effort, and waited for *)
Pause ==
    /\ seniorPc = "call" /\ limited
    /\ Goto("paused")
    /\ \/ quotaStatus' = "paused" /\ UNCHANGED faults
       \/ Fault /\ UNCHANGED quotaStatus
    /\ UNCHANGED <<seniorCommitted, at, batchEnd, outcome, member, gate, limited, output,
                   limits, dropped>>

(* The pause ends at the reset it was told, or at its cap; it tries again *)
Resume ==
    /\ seniorPc = "paused"
    /\ quotaStatus' = "running"
    /\ Goto("call")
    /\ UNCHANGED <<seniorCommitted, at, batchEnd, outcome, member, gate, limited, output,
                   limits, faults, dropped>>

(* max_poll_interval_ms passes without a getmany, by answers or pauses *)
LeaveGroup ==
    /\ LongPause /\ seniorPc \in {"call", "paused"} /\ member
    /\ member' = FALSE
    /\ UNCHANGED <<seniorCommitted, at, batchEnd, seniorPc, outcome, gate, limited,
                   quotaStatus, output, limits, faults, dropped>>

SeniorPublish ==
    /\ seniorPc = "publish"
    /\ decisions' = decisions \cup {at}
    /\ Conclude("validated")
    /\ UNCHANGED <<seniorCommitted, at, batchEnd, member, gate, limited, quotaStatus,
                   rows, limits, faults, dropped>>

(* _journal *)
SeniorJournal ==
    /\ seniorPc = "journal"
    /\ rows' = rows \cup {<<at, outcome>>}
    /\ NextMessage
    /\ UNCHANGED <<seniorCommitted, batchEnd, outcome, member, gate, limited, quotaStatus,
                   decisions, limits, faults, dropped>>

(* Mutant of HandlerFails: the exception ends the loop *)
HandlerEndsLoop ==
    /\ seniorPc \in {"cooldown", "budget", "mark", "call", "publish", "journal"} /\ Fault
    /\ Goto("dead")
    /\ UNCHANGED <<seniorCommitted, at, batchEnd, outcome, member, gate, limited,
                   quotaStatus, output, limits, dropped>>

(* An await raises: best effort in _journal, logged and skipped by the      *)
(* consumer everywhere else                                                 *)
HandlerFails ==
    /\ seniorPc \in {"cooldown", "budget", "mark", "call", "publish", "journal"} /\ Fault
    /\ dropped' = dropped \cup {at}
    /\ NextMessage
    /\ UNCHANGED <<seniorCommitted, batchEnd, outcome, member, gate, limited, quotaStatus,
                   output, limits>>

SeniorRestart ==
    /\ Fault
    /\ at' = seniorCommitted + 1 /\ batchEnd' = seniorCommitted
    /\ Goto("poll") /\ outcome' = "none" /\ member' = TRUE
    /\ UNCHANGED <<seniorCommitted, gate, limited, quotaStatus, output, limits, dropped>>

-----------------------------------------------------------------------------
(* Redis and Claude *)

CooldownEnds(s) ==
    /\ s \in cooldown
    /\ cooldown' = cooldown \ {s}
    /\ UNCHANGED <<seniorCommitted, at, batchEnd, seniorPc, outcome, member, spent,
                   limited, quotaStatus, output, limits, faults, dropped>>

BudgetWindowEnds ==
    /\ spent > 0 /\ spent' = 0
    /\ UNCHANGED <<seniorCommitted, at, batchEnd, seniorPc, outcome, member, cooldown,
                   limited, quotaStatus, output, limits, faults, dropped>>

LimitReached ==
    /\ ~limited /\ limits < MaxLimits
    /\ limited' = TRUE /\ limits' = limits + 1
    /\ UNCHANGED <<seniorCommitted, at, batchEnd, seniorPc, outcome, member, gate,
                   quotaStatus, output, faults, dropped>>

LimitLifted ==
    /\ limited /\ limited' = FALSE
    /\ UNCHANGED <<seniorCommitted, at, batchEnd, seniorPc, outcome, member, gate,
                   quotaStatus, output, limits, faults, dropped>>

-----------------------------------------------------------------------------
SeniorInit ==
    /\ seniorCommitted = 0 /\ at = 1 /\ batchEnd = 0 /\ seniorPc = "poll" /\ outcome = "none"
    /\ member = TRUE
    /\ cooldown = {} /\ spent = 0
    /\ limited = FALSE /\ quotaStatus = "none"
    /\ decisions = {} /\ rows = {}
    /\ limits = 0 /\ faults = 0 /\ dropped = {}

Work ==
    \/ FetchBatch \/ Commit \/ CommitRefused \/ SeniorHandle \/ CheckCooldown \/ SpendBudget
    \/ SetCooldown \/ Answer \/ Pause \/ Resume \/ SeniorPublish \/ SeniorJournal

SeniorNext ==
    \/ Work \/ HandlerFails \/ LeaveGroup \/ SeniorRestart
    \/ (\E s \in SeniorSymbols : CooldownEnds(s)) \/ BudgetWindowEnds
    \/ LimitReached \/ LimitLifted

SeniorSpec == SeniorInit /\ [][SeniorNext]_seniorVars

(* The loop runs, and a usage limit is lifted in the end.  Nothing restarts *)
(* a worker whose loop ended.                                               *)
SeniorFairSpec == SeniorSpec /\ WF_seniorVars(Work) /\ WF_seniorVars(LimitLifted)

-----------------------------------------------------------------------------
(* Properties *)

(* The journal accounts for every analysis the group has passed, and tells  *)
(* the truth: one it calls validated was decided on, and one it says        *)
(* nothing of was dropped by a failure.                                     *)
JournalAccounts ==
    /\ \A m \in 1..seniorCommitted : m \in dropped \/ \E r \in rows : r[1] = m
    /\ \A r \in rows : r[2] = "validated" => r[1] \in decisions

(* The backlog is consumed, whatever limits Claude reports and however long *)
(* they last, with one exception: a batch that took longer than             *)
(* max_poll_interval_ms finds its commit refused, and with that the loop    *)
(* ends till the next start.  Nothing else ends it.                         *)
BacklogConsumed ==
    \/ <>(seniorCommitted = Cardinality(Messages))
    \/ <>[](seniorPc = "dead" /\ ~member)
=============================================================================
