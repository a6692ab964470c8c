------------------------------ MODULE Persister ------------------------------
(***************************************************************************)
(* The persister of api-gateway (services/api-gateway/app/persister.py):   *)
(* the rows of trades and decision_journal as one consumer group builds    *)
(* them from four topics.                                                  *)
(*                                                                         *)
(* Kafka keeps the order of a topic and none between topics: an execution  *)
(* may be handled before the approval it belongs to, and an approval       *)
(* before the journal entry it completes.  A handler runs one or two       *)
(* transactions, the row of the event and then its part of the journal;    *)
(* each transaction is a step.  A transaction that raises ends its handler *)
(* and the message is skipped; a restart resumes at the committed offsets  *)
(* and handles again what it handled since.                                *)
(*                                                                         *)
(* The other handlers write rows no second topic writes (inserted once, or *)
(* for candles and tokens replaced by the latest) and are left out.        *)
(***************************************************************************)
EXTENDS Naturals, Sequences

CONSTANTS
    Decisions,     \* event_ids of the decisions
    Approvals,     \* event_ids of the RiskApprovedEvents
    DecisionOf,    \* decision_event_id of each approval
    NoApproval,
    Emitted,       \* bound: the execution kinds that are published
    MaxExecutions, \* bound: execution events published
    MaxCrashes,    \* bound: restarts
    MayRaise       \* whether a transaction may raise

Statuses == {"pending", "submitted", "filled", "closed", "rejected"}
Topics == {"journal", "decision", "approved", "execution"}

Message ==
    [topic : {"journal", "decision"}, id : Decisions, kind : {"none"}]
        \cup [topic : {"approved"}, id : Approvals, kind : {"none"}]
        \cup [topic : {"execution"}, id : Approvals, kind : Statuses]

ASSUME PersisterAssumption ==
    /\ DecisionOf \in [Approvals -> Decisions]
    /\ NoApproval \notin Approvals
    /\ Emitted \subseteq Statuses
    /\ MaxExecutions \in Nat /\ MaxCrashes \in Nat /\ MayRaise \in BOOLEAN

VARIABLES
    log,          \* per topic: what was published
    pos,          \* per topic: messages taken
    committed,    \* per topic: the committed offset
    hand,         \* the message in hand, none or one, as a sequence
    stage,        \* which transaction it is at: its row or the journal
    trade,        \* per approval: status of its row, or "absent"
    journal,      \* per decision: its row in decision_journal
    crashes,
    missed        \* history: approvals whose last update reached no row

kafkaVars == <<log, pos, committed>>
vars == <<kafkaVars, hand, stage, trade, journal, crashes, missed>>

NoRow == [present |-> FALSE, verdict |-> "none", risk |-> NoApproval, kind |-> "none"]

-----------------------------------------------------------------------------
(* Producers *)

Mentions(topic, id) == {i \in DOMAIN log[topic] : log[topic][i].id = id}
Published(topic, id) == Mentions(topic, id) # {}

Publish(topic, id, kind) ==
    /\ log' = [log EXCEPT ![topic] =
                  Append(@, [topic |-> topic, id |-> id, kind |-> kind])]
    /\ UNCHANGED <<pos, committed, hand, stage, trade, journal, crashes, missed>>

(* ai-worker-sonnet journals a decision once, at best *)
PublishEntry(d) == ~Published("journal", d) /\ Publish("journal", d, "none")

(* risk-engine refuses a decision; or approves it, under a new event_id     *)
PublishRejection(d) == ~Published("decision", d) /\ Publish("decision", d, "none")
PublishApproval(a) == ~Published("approved", a) /\ Publish("approved", a, "none")

(* The last status trading-engine published for an approval *)
LastStatus(a) ==
    LET of == Mentions("execution", a) IN
    IF of = {} THEN "approved"
    ELSE log["execution"][CHOOSE i \in of : \A j \in of : j <= i].kind

(* trading-engine publishes statuses in any order: an approval may be       *)
(* repeated, and a sweep may report closed before _execute reports filled   *)
PublishExecution(a) ==
    /\ Published("approved", a) /\ Len(log["execution"]) < MaxExecutions
    /\ \E k \in Emitted : Publish("execution", a, k)

-----------------------------------------------------------------------------
(* The consumer *)

Idle == hand = <<>>

Take(topic) ==
    /\ Idle /\ pos[topic] < Len(log[topic])
    /\ hand' = <<log[topic][pos[topic] + 1]>>
    /\ pos' = [pos EXCEPT ![topic] = @ + 1]
    /\ stage' = "row"
    /\ UNCHANGED <<log, committed, trade, journal, crashes, missed>>

(* Mutant of Commit: the offset after the next message is committed *)
CommitOneAhead ==
    /\ Idle /\ committed # pos
    /\ committed' = [t \in Topics |-> pos[t] + 1]
    /\ UNCHANGED <<log, pos, hand, stage, trade, journal, crashes, missed>>

Commit ==
    /\ Idle /\ committed # pos
    /\ committed' = pos
    /\ UNCHANGED <<log, pos, hand, stage, trade, journal, crashes, missed>>

(* Persister.handle: which message is in hand, and at which transaction *)
Handling(topic, s) == ~Idle /\ hand[1].topic = topic /\ stage = s
Id == hand[1].id

Done == hand' = <<>> /\ stage' = "row"

-----------------------------------------------------------------------------
(* Mutant of SaveJournal: the row is replaced when it is there already *)
ReplaceJournal ==
    /\ Handling("journal", "row")
    /\ journal' = [journal EXCEPT ![Id] = [NoRow EXCEPT !.present = TRUE]]
    /\ Done
    /\ UNCHANGED <<kafkaVars, trade, crashes, missed>>

(* _save_journal: ON CONFLICT DO NOTHING *)
SaveJournal ==
    /\ Handling("journal", "row")
    /\ journal' = [journal EXCEPT ![Id] =
                      IF @.present THEN @ ELSE [NoRow EXCEPT !.present = TRUE]]
    /\ Done
    /\ UNCHANGED <<kafkaVars, trade, crashes, missed>>

(* _save_rejection: the row of pipeline_rejections, then the verdict *)
SaveRejection ==
    \/ /\ Handling("decision", "row")
       /\ stage' = "journal"
       /\ UNCHANGED <<kafkaVars, hand, trade, journal, crashes, missed>>
    \/ /\ Handling("decision", "journal")
       /\ journal' = [journal EXCEPT ![Id] =
                         IF @.present THEN [@ EXCEPT !.verdict = "rejected"] ELSE @]
       /\ Done
       /\ UNCHANGED <<kafkaVars, trade, crashes, missed>>

(* Mutant of InsertTrade: a row that is there already starts over *)
UpsertTrade ==
    /\ Handling("approved", "row")
    /\ trade' = [trade EXCEPT ![Id] = "approved"]
    /\ stage' = "journal"
    /\ UNCHANGED <<kafkaVars, hand, journal, crashes, missed>>

(* Mutant of InsertTrade: only the journal is written *)
InsertNoTrade ==
    /\ Handling("approved", "row")
    /\ stage' = "journal"
    /\ UNCHANGED <<kafkaVars, hand, trade, journal, crashes, missed>>

(* _save_trade, first transaction: ON CONFLICT DO NOTHING *)
InsertTrade ==
    /\ Handling("approved", "row")
    /\ trade' = [trade EXCEPT ![Id] = IF @ = "absent" THEN "approved" ELSE @]
    /\ stage' = "journal"
    /\ UNCHANGED <<kafkaVars, hand, journal, crashes, missed>>

(* _save_trade, second transaction: an UPDATE, of no row if the journal     *)
(* entry has not been handled yet                                           *)
CompleteApproval ==
    /\ Handling("approved", "journal")
    /\ journal' = [journal EXCEPT ![DecisionOf[Id]] =
                      IF @.present
                      THEN [@ EXCEPT !.verdict = "approved", !.risk = Id] ELSE @]
    /\ Done
    /\ UNCHANGED <<kafkaVars, trade, crashes, missed>>

(* _update_trade: the trade, then the journal rows that name it *)
UpdateTrade ==
    /\ Handling("execution", "row")
    /\ trade' = [trade EXCEPT ![Id] = IF @ = "absent" THEN @ ELSE hand[1].kind]
    /\ missed' = IF trade[Id] = "absent" THEN missed \cup {Id} ELSE missed \ {Id}
    /\ stage' = "journal"
    /\ UNCHANGED <<kafkaVars, hand, journal, crashes>>

CompleteExecution ==
    /\ Handling("execution", "journal")
    /\ journal' = [d \in Decisions |->
                      IF journal[d].present /\ journal[d].risk = Id
                      THEN [journal[d] EXCEPT !.kind = hand[1].kind]
                      ELSE journal[d]]
    /\ Done
    /\ UNCHANGED <<kafkaVars, trade, crashes, missed>>

(* The transaction raises: run() logs it and goes on to the next message *)
Raise ==
    /\ MayRaise /\ ~Idle
    /\ missed' = IF hand[1].topic \in {"approved", "execution"} /\ stage = "row"
                 THEN missed \cup {Id} ELSE missed
    /\ Done
    /\ UNCHANGED <<kafkaVars, trade, journal, crashes>>

(* Mutant of Crash: the consumer resumes where it had read to *)
ResumeAtPosition ==
    /\ crashes < MaxCrashes
    /\ crashes' = crashes + 1
    /\ Done
    /\ UNCHANGED <<kafkaVars, trade, journal, missed>>

Crash ==
    /\ crashes < MaxCrashes
    /\ crashes' = crashes + 1
    /\ pos' = committed
    /\ Done
    /\ UNCHANGED <<log, committed, trade, journal, missed>>

-----------------------------------------------------------------------------
Init ==
    /\ log = [t \in Topics |-> <<>>]
    /\ pos = [t \in Topics |-> 0] /\ committed = [t \in Topics |-> 0]
    /\ hand = <<>> /\ stage = "row"
    /\ trade = [a \in Approvals |-> "absent"]
    /\ journal = [d \in Decisions |-> NoRow]
    /\ crashes = 0 /\ missed = {}

Transaction ==
    \/ SaveJournal \/ SaveRejection \/ InsertTrade \/ CompleteApproval
    \/ UpdateTrade \/ CompleteExecution

Consume == Transaction \/ \E t \in Topics : Take(t)

Next ==
    \/ Consume \/ Commit \/ Raise \/ Crash
    \/ \E d \in Decisions : PublishEntry(d) \/ PublishRejection(d)
    \/ \E a \in Approvals : PublishApproval(a) \/ PublishExecution(a)

Spec == Init /\ [][Next]_vars

(* The consume loop runs on, transactions end, and no topic starves: a poll *)
(* returns what each partition holds.  Nothing is assumed of commits.       *)
FairSpec ==
    Spec /\ WF_vars(Transaction \/ Raise) /\ \A t \in Topics : SF_vars(Take(t))

-----------------------------------------------------------------------------
(* Properties *)

RowType == [present : BOOLEAN, verdict : {"none", "approved", "rejected"},
            risk : Approvals \cup {NoApproval}, kind : Statuses \cup {"none"}]

(* Every variable has its type, and a topic's offsets are ordered:          *)
(* committed, taken, published.                                             *)
TypeOK ==
    /\ log \in [Topics -> Seq(Message)]
    /\ pos \in [Topics -> Nat] /\ committed \in [Topics -> Nat]
    /\ \A t \in Topics : committed[t] <= pos[t] /\ pos[t] <= Len(log[t])
    /\ Idle \/ hand \in [{1} -> Message]
    /\ stage \in {"row", "journal"}
    /\ trade \in [Approvals -> Statuses \cup {"absent", "approved"}]
    /\ journal \in [Decisions -> RowType]
    /\ crashes \in 0..MaxCrashes /\ missed \subseteq Approvals

(* A journal row that names an approval names a trade that is stored,       *)
(* although the two are written by two transactions, either may raise, a    *)
(* restart may come between them, and the journal entry may be handled      *)
(* before or after.                                                         *)
JournalNamesATrade ==
    \A d \in Decisions :
        journal[d].risk # NoApproval =>
            /\ trade[journal[d].risk] # "absent"
            /\ DecisionOf[journal[d].risk] = d

CaughtUp == Idle /\ \A t \in {"approved", "execution"} : pos[t] = Len(log[t])

(* Once everything published is consumed, a trade has the status that       *)
(* trading-engine published last, whatever was replayed after a restart;    *)
(* except one whose last update met no row or raised.                       *)
StatusIsLatest ==
    CaughtUp => \A a \in Approvals :
        Published("approved", a) /\ a \notin missed => trade[a] = LastStatus(a)

(* No replay takes the outcome of a decision or of a trade out of the       *)
(* journal: ON CONFLICT DO NOTHING never resets a row.                      *)
OutcomesAreKept ==
    [][\A d \in Decisions :
          /\ journal[d].verdict # "none" => journal'[d].verdict # "none"
          /\ journal[d].kind # "none" => journal'[d].kind # "none"]_vars

(* Every approval published becomes a trade, unless its insert raised.      *)
EveryApprovalIsStored ==
    \A a \in Approvals :
        Published("approved", a) ~> (trade[a] # "absent" \/ a \in missed)
=============================================================================
