--------------------------- MODULE PersisterProofs ---------------------------
(***************************************************************************)
(* Proofs about Persister, for every set of decisions and approvals and    *)
(* any number of messages and restarts.                                    *)
(***************************************************************************)
EXTENDS Persister, WellFoundedInduction, TLAPS

USE DEF Topics

(* Where the handler of an approval stands between its two transactions,    *)
(* the row of the trade is there.                                           *)
StoredBeforeJournal ==
    Handling("approved", "journal") => trade[Id] # "absent"

RefInv == JournalNamesATrade /\ StoredBeforeJournal

-----------------------------------------------------------------------------
(* What a message of each topic carries *)
LEMMA MessageFields ==
    ASSUME NEW m \in Message
    PROVE  /\ m.topic \in {"journal", "decision"} => m.id \in Decisions
           /\ m.topic \in {"approved", "execution"} => m.id \in Approvals
           /\ m.topic = "execution" => m.kind \in Statuses
           /\ m.topic \in Topics
BY DEF Message

(* The message in hand is a message *)
LEMMA InHand ==
    ASSUME TypeOK, ~Idle
    PROVE  hand[1] \in Message
BY DEF TypeOK, Idle

(* A journal row that is replaced by another *)
LEMMA RowReplaced ==
    ASSUME TypeOK, NEW d \in Decisions, NEW r \in RowType,
           journal' = [journal EXCEPT ![d] = r]
    PROVE  /\ journal' \in [Decisions -> RowType]
           /\ \A e \in Decisions : journal'[e] = IF e = d THEN r ELSE journal[e]
BY DEF TypeOK

(* A rejection changes no reference of the journal *)
LEMMA RejectionRows ==
    ASSUME TypeOK, Handling("decision", "journal"), SaveRejection
    PROVE  /\ journal' \in [Decisions -> RowType]
           /\ \A d \in Decisions : journal'[d].risk = journal[d].risk
<1> DEFINE r == IF journal[Id].present THEN [journal[Id] EXCEPT !.verdict = "rejected"]
                ELSE journal[Id]
<1>1. Id \in Decisions
  BY InHand, MessageFields DEF Handling, Id
<1>2. journal[Id] \in RowType
  BY <1>1 DEF TypeOK
<1>3. r \in RowType /\ r.risk = journal[Id].risk
  BY <1>2 DEF RowType
<1>4. journal' = [journal EXCEPT ![Id] = r]
  BY DEF SaveRejection, Handling
<1> QED
  BY <1>1, <1>3, <1>4, RowReplaced

(* An approval is named by the row of its decision, if there is one *)
LEMMA ApprovalRows ==
    ASSUME TypeOK, CompleteApproval
    PROVE  /\ Id \in Approvals
           /\ journal' \in [Decisions -> RowType]
           /\ \A d \in Decisions :
                 \/ journal'[d].risk = journal[d].risk
                 \/ (journal'[d].risk = Id /\ DecisionOf[Id] = d)
<1> DEFINE e == DecisionOf[Id]
           r == IF journal[e].present
                THEN [journal[e] EXCEPT !.verdict = "approved", !.risk = Id]
                ELSE journal[e]
<1>1. Id \in Approvals /\ e \in Decisions
  BY InHand, MessageFields, PersisterAssumption DEF CompleteApproval, Handling, Id
<1>2. journal[e] \in RowType
  BY <1>1 DEF TypeOK
<1>3. r \in RowType /\ r.risk \in {journal[e].risk, Id}
  BY <1>1, <1>2 DEF RowType
<1>4. journal' = [journal EXCEPT ![e] = r]
  BY DEF CompleteApproval
<1> QED
  BY <1>1, <1>3, <1>4, RowReplaced

LEMMA PublishKeepsType ==
    ASSUME TypeOK, NEW topic \in Topics, NEW id, NEW kind,
           [topic |-> topic, id |-> id, kind |-> kind] \in Message,
           Publish(topic, id, kind)
    PROVE  TypeOK'
<1> DEFINE m == [topic |-> topic, id |-> id, kind |-> kind]
<1>1. log' = [log EXCEPT ![topic] = Append(log[topic], m)]
  BY DEF Publish
<1> HIDE DEF m
<1>2. m \in Message
  BY DEF m
<1>3. /\ log' \in [Topics -> Seq(Message)]
      /\ \A t \in Topics : Len(log[t]) <= Len(log'[t])
  <2> SUFFICES ASSUME NEW t \in Topics
               PROVE  /\ log' \in [Topics -> Seq(Message)]
                      /\ Len(log[t]) <= Len(log'[t])
    OBVIOUS
  <2>1. log \in [Topics -> Seq(Message)] /\ log[t] \in Seq(Message) /\ log[topic] \in Seq(Message)
    BY DEF TypeOK
  <2>2. /\ Append(log[topic], m) \in Seq(Message)
        /\ Len(Append(log[topic], m)) = Len(log[topic]) + 1 /\ Len(log[topic]) \in Nat
        /\ Len(log[t]) \in Nat
    BY <1>2, <2>1
  <2> QED
    BY <1>1, <2>1, <2>2
<1>4. \A t \in Topics : Len(log[t]) \in Nat /\ Len(log'[t]) \in Nat
  BY <1>3 DEF TypeOK
<1>5. UNCHANGED <<pos, committed, hand, stage, trade, journal, crashes, missed>>
  BY DEF Publish
<1>6. \A t \in Topics : committed[t] <= pos[t] /\ pos[t] <= Len(log'[t])
  BY <1>3, <1>4, SMTT(30) DEF TypeOK
<1> QED
  BY <1>3, <1>5, <1>6 DEF TypeOK, Idle

LEMMA TypeInit == Init => TypeOK
BY PersisterAssumption DEF Init, TypeOK, Idle, NoRow, RowType

LEMMA TypeStep ==
    ASSUME TypeOK, [Next]_vars
    PROVE  TypeOK'
<1>1. ASSUME NEW topic \in Topics, Take(topic) PROVE TypeOK'
  <2>1. log[topic] \in Seq(Message) /\ pos[topic] \in Nat /\ Len(log[topic]) \in Nat
    BY DEF TypeOK
  <2>2. log[topic][pos[topic] + 1] \in Message
    BY <1>1, <2>1 DEF Take
  <2>3. hand' \in [{1} -> Message]
    BY <1>1, <2>2 DEF Take
  <2>4. /\ pos' \in [Topics -> Nat]
        /\ \A t \in Topics : pos[t] <= pos'[t] /\ pos'[t] <= Len(log[t])
    <3>1. pos' = [pos EXCEPT ![topic] = pos[topic] + 1] /\ pos[topic] < Len(log[topic])
      BY <1>1 DEF Take
    <3>2. pos \in [Topics -> Nat] /\ pos[topic] + 1 \in Nat
      BY <2>1 DEF TypeOK
    <3> SUFFICES ASSUME NEW t \in Topics
                 PROVE  pos' \in [Topics -> Nat] /\ pos[t] <= pos'[t] /\ pos'[t] <= Len(log[t])
      OBVIOUS
    <3>3. pos[t] <= Len(log[t]) /\ pos[t] \in Nat
      BY DEF TypeOK
    <3>4. pos'[t] = IF t = topic THEN pos[topic] + 1 ELSE pos[t]
      BY <3>1, <3>2
    <3>5. pos[topic] + 1 <= Len(log[topic]) /\ pos[t] <= pos[t] + 1
      BY <2>1, <3>1, <3>3
    <3>6. pos[t] <= pos'[t] /\ pos'[t] <= Len(log[t])
      BY <3>3, <3>4, <3>5
    <3> QED
      BY <3>1, <3>2, <3>6
  <2>5. \A t \in Topics : committed[t] <= pos'[t]
    <3> SUFFICES ASSUME NEW t \in Topics
                 PROVE  committed[t] <= pos'[t]
      OBVIOUS
    <3>1. committed[t] \in Nat /\ pos[t] \in Nat /\ committed[t] <= pos[t]
      BY DEF TypeOK
    <3>2. pos[t] <= pos'[t] /\ pos'[t] \in Nat
      BY <2>4
    <3> HIDE DEF TypeOK
    <3> QED
      BY <3>1, <3>2
  <2> QED
    BY <1>1, <2>3, <2>4, <2>5 DEF Take, TypeOK, Idle
<1>2. CASE Commit
  BY <1>2 DEF Commit, TypeOK, Idle
<1>3. CASE SaveJournal
  <2>1. Id \in Decisions
    BY <1>3, InHand, MessageFields DEF SaveJournal, Handling, Id
  <2>2. journal' \in [Decisions -> RowType]
    BY <1>3, <2>1 DEF SaveJournal, TypeOK, RowType, NoRow
  <2> QED
    BY <1>3, <2>2 DEF SaveJournal, Done, TypeOK, Idle, kafkaVars
<1>4. CASE SaveRejection
  <2>1. CASE Handling("decision", "row")
    BY <1>4, <2>1 DEF SaveRejection, Handling, TypeOK, Idle, kafkaVars
  <2>2. CASE Handling("decision", "journal")
    <3>1. journal' \in [Decisions -> RowType]
      BY <1>4, <2>2, RejectionRows
    <3> QED
      BY <1>4, <2>2, <3>1 DEF SaveRejection, Handling, Done, TypeOK, Idle, kafkaVars
  <2> QED
    BY <1>4, <2>1, <2>2 DEF SaveRejection
<1>5. CASE InsertTrade
  <2>1. Id \in Approvals
    BY <1>5, InHand, MessageFields DEF InsertTrade, Handling, Id
  <2> QED
    BY <1>5, <2>1 DEF InsertTrade, TypeOK, Idle, kafkaVars
<1>6. CASE CompleteApproval
  BY <1>6, ApprovalRows DEF CompleteApproval, Done, TypeOK, Idle, kafkaVars
<1>7. CASE UpdateTrade
  <2>1. Id \in Approvals /\ hand[1].kind \in Statuses
    BY <1>7, InHand, MessageFields DEF UpdateTrade, Handling, Id
  <2>2. trade' \in [Approvals -> Statuses \cup {"absent", "approved"}]
    BY <1>7, <2>1 DEF UpdateTrade, TypeOK
  <2>3. missed' \subseteq Approvals
    BY <1>7, <2>1 DEF UpdateTrade, TypeOK
  <2> QED
    BY <1>7, <2>2, <2>3 DEF UpdateTrade, TypeOK, Idle, kafkaVars
<1>8. CASE CompleteExecution
  <2>1. hand[1].kind \in Statuses
    BY <1>8, InHand, MessageFields DEF CompleteExecution, Handling
  <2>2. journal' \in [Decisions -> RowType]
    BY <1>8, <2>1, SMTT(30) DEF CompleteExecution, TypeOK, RowType
  <2> QED
    BY <1>8, <2>2 DEF CompleteExecution, Done, TypeOK, Idle, kafkaVars
<1>9. CASE Raise
  <2>1. missed' \subseteq Approvals
    BY <1>9, InHand, MessageFields DEF Raise, TypeOK, Id
  <2> QED
    BY <1>9, <2>1 DEF Raise, Done, TypeOK, Idle, kafkaVars
<1>10. CASE Crash
  <2>1. \A t \in Topics : committed[t] <= pos'[t] /\ pos'[t] <= Len(log[t])
    <3> SUFFICES ASSUME NEW t \in Topics
                 PROVE  committed[t] <= pos'[t] /\ pos'[t] <= Len(log[t])
      OBVIOUS
    <3>1. /\ log[t] \in Seq(Message) /\ Len(log[t]) \in Nat
          /\ pos[t] \in Nat /\ committed[t] \in Nat
      BY DEF TypeOK
    <3> QED
      BY <1>10, <3>1 DEF Crash, TypeOK
  <2>2. crashes' \in 0..MaxCrashes
    BY <1>10, PersisterAssumption DEF Crash, TypeOK
  <2> QED
    BY <1>10, <2>1, <2>2 DEF Crash, Done, TypeOK, Idle
<1>11. ASSUME NEW d \in Decisions, PublishEntry(d) \/ PublishRejection(d) PROVE TypeOK'
  BY <1>11, PublishKeepsType DEF PublishEntry, PublishRejection, Message
<1>12. ASSUME NEW a \in Approvals, PublishApproval(a) PROVE TypeOK'
  BY <1>12, PublishKeepsType DEF PublishApproval, Message
<1>13. ASSUME NEW a \in Approvals, PublishExecution(a) PROVE TypeOK'
  <2>1. PICK k \in Emitted : Publish("execution", a, k)
    BY <1>13 DEF PublishExecution
  <2>2. k \in Statuses
    BY <2>1, PersisterAssumption
  <2> QED
    BY <2>1, <2>2, PublishKeepsType DEF Message
<1>14. CASE UNCHANGED vars
  BY <1>14 DEF vars, kafkaVars, TypeOK, Idle
<1> QED
  BY <1>1, <1>2, <1>3, <1>4, <1>5, <1>6, <1>7, <1>8, <1>9, <1>10, <1>11, <1>12,
     <1>13, <1>14 DEF Next, Consume, Transaction

(* Every variable of the persister has its type, and it never commits past  *)
(* what it took nor takes past what was published.                          *)
THEOREM TypeCorrect == Spec => []TypeOK
BY TypeInit, TypeStep, PTL DEF Spec

-----------------------------------------------------------------------------
LEMMA RefStep ==
    ASSUME TypeOK, RefInv, [Next]_vars
    PROVE  RefInv'
<1>1. ASSUME NEW topic \in Topics, Take(topic) PROVE RefInv'
  BY <1>1 DEF Take, RefInv, JournalNamesATrade, StoredBeforeJournal, Handling
<1>2. CASE Commit
  BY <1>2 DEF Commit, RefInv, JournalNamesATrade, StoredBeforeJournal, Handling, Idle, Id
<1>3. CASE SaveJournal
  <2>1. \A d \in Decisions :
            journal'[d].risk # NoApproval => journal'[d].risk = journal[d].risk
    BY <1>3 DEF SaveJournal, TypeOK, NoRow, RowType
  <2> QED
    BY <1>3, <2>1 DEF SaveJournal, Done, RefInv, JournalNamesATrade,
       StoredBeforeJournal, Handling, Idle
<1>4. CASE SaveRejection
  <2>1. \A d \in Decisions : journal'[d].risk = journal[d].risk
    BY <1>4, RejectionRows DEF SaveRejection
  <2>2. UNCHANGED trade
    BY <1>4 DEF SaveRejection
  <2>3. StoredBeforeJournal'
    BY <1>4 DEF SaveRejection, Done, StoredBeforeJournal, Handling, Idle
  <2> QED
    BY <2>1, <2>2, <2>3 DEF RefInv, JournalNamesATrade
<1>5. CASE InsertTrade
  <2>1. Id \in Approvals
    BY <1>5, InHand, MessageFields DEF InsertTrade, Handling, Id
  <2>2. \A a \in Approvals : trade[a] # "absent" => trade'[a] # "absent"
    BY <1>5, <2>1 DEF InsertTrade, TypeOK
  <2>3. trade'[Id] # "absent"
    BY <1>5, <2>1 DEF InsertTrade, TypeOK
  <2>4. \A d \in Decisions : journal[d].risk \in Approvals \cup {NoApproval}
    BY DEF TypeOK, RowType
  <2> QED
    BY <1>5, <2>2, <2>3, <2>4 DEF InsertTrade, RefInv, JournalNamesATrade,
       StoredBeforeJournal, Id
<1>6. CASE CompleteApproval
  <2>1. trade[Id] # "absent"
    BY <1>6 DEF CompleteApproval, RefInv, StoredBeforeJournal
  <2>2. UNCHANGED trade /\ StoredBeforeJournal'
    BY <1>6 DEF CompleteApproval, Done, StoredBeforeJournal, Handling, Idle
  <2> QED
    BY <1>6, <2>1, <2>2, ApprovalRows DEF RefInv, JournalNamesATrade
<1>7. CASE UpdateTrade
  <2>1. Id \in Approvals /\ hand[1].kind \in Statuses
    BY <1>7, InHand, MessageFields DEF UpdateTrade, Handling, Id
  <2>2. \A a \in Approvals : trade[a] # "absent" => trade'[a] # "absent"
    BY <1>7, <2>1 DEF UpdateTrade, TypeOK, Statuses
  <2>3. \A d \in Decisions : journal[d].risk \in Approvals \cup {NoApproval}
    BY DEF TypeOK, RowType
  <2>4. StoredBeforeJournal'
    BY <1>7 DEF UpdateTrade, StoredBeforeJournal, Handling
  <2> QED
    BY <1>7, <2>2, <2>3, <2>4 DEF UpdateTrade, RefInv, JournalNamesATrade
<1>8. CASE CompleteExecution
  <2>1. \A d \in Decisions : journal'[d].risk = journal[d].risk
    BY <1>8 DEF CompleteExecution, TypeOK, RowType
  <2>2. UNCHANGED trade /\ StoredBeforeJournal'
    BY <1>8 DEF CompleteExecution, Done, StoredBeforeJournal, Handling, Idle
  <2> QED
    BY <2>1, <2>2 DEF RefInv, JournalNamesATrade
<1>9. CASE Raise
  BY <1>9 DEF Raise, Done, RefInv, JournalNamesATrade, StoredBeforeJournal, Handling, Idle
<1>10. CASE Crash
  BY <1>10 DEF Crash, Done, RefInv, JournalNamesATrade, StoredBeforeJournal, Handling, Idle
<1>11. ASSUME NEW d \in Decisions, PublishEntry(d) \/ PublishRejection(d) PROVE RefInv'
  BY <1>11 DEF PublishEntry, PublishRejection, Publish, RefInv, JournalNamesATrade,
     StoredBeforeJournal, Handling, Idle, Id
<1>12. ASSUME NEW a \in Approvals, PublishApproval(a) \/ PublishExecution(a) PROVE RefInv'
  BY <1>12 DEF PublishApproval, PublishExecution, Publish, RefInv, JournalNamesATrade,
     StoredBeforeJournal, Handling, Idle, Id
<1>13. CASE UNCHANGED vars
  BY <1>13 DEF vars, RefInv, JournalNamesATrade, StoredBeforeJournal, Handling, Idle, Id
<1> QED
  BY <1>1, <1>2, <1>3, <1>4, <1>5, <1>6, <1>7, <1>8, <1>9, <1>10, <1>11, <1>12,
     <1>13 DEF Next, Consume, Transaction

(* No journal row ever names an approval whose trade is not stored: the row *)
(* of the trade is committed before the journal's transaction begins.       *)
THEOREM NamesATrade == Spec => []JournalNamesATrade
<1>1. Init => RefInv
  BY DEF Init, RefInv, JournalNamesATrade, StoredBeforeJournal, Handling, Idle, NoRow
<1>2. TypeOK /\ RefInv /\ [Next]_vars => RefInv'
  BY RefStep
<1>3. RefInv => JournalNamesATrade
  BY DEF RefInv
<1> QED
  BY <1>1, <1>2, <1>3, TypeCorrect, PTL DEF Spec
-----------------------------------------------------------------------------
(* A decision whose entry is not stored has no outcome *)
AbsentIsEmpty ==
    \A d \in Decisions :
        ~journal[d].present => journal[d].verdict = "none" /\ journal[d].kind = "none"

(* What becomes of the row of one decision in a step *)
RowKept(d) ==
    /\ journal[d].verdict # "none" => journal'[d].verdict # "none"
    /\ journal[d].kind # "none" => journal'[d].kind # "none"
    /\ ~journal'[d].present => journal'[d].verdict = "none" /\ journal'[d].kind = "none"

LEMMA OutcomeStep ==
    ASSUME TypeOK, AbsentIsEmpty, [Next]_vars
    PROVE  \A d \in Decisions : RowKept(d)
<1> SUFFICES ASSUME NEW d \in Decisions
             PROVE  RowKept(d)
  OBVIOUS
<1> DEFINE old == journal[d]
<1>0. /\ old \in RowType /\ journal \in [Decisions -> RowType]
      /\ ~old.present => old.verdict = "none" /\ old.kind = "none"
  BY DEF TypeOK, AbsentIsEmpty
<1>1. ASSUME journal'[d] = old PROVE RowKept(d)
  BY <1>0, <1>1 DEF RowKept
<1>2. CASE SaveJournal
  <2>1. journal'[d] \in {old, [NoRow EXCEPT !.present = TRUE]}
    BY <1>0, <1>2 DEF SaveJournal
  <2>2. CASE old.present
    <3>1. journal'[d] = old
      BY <1>0, <1>2, <2>2 DEF SaveJournal
    <3> QED
      BY <1>1, <3>1
  <2>3. CASE ~old.present
    BY <1>0, <1>1, <2>1, <2>3 DEF RowKept, NoRow
  <2> QED
    BY <2>2, <2>3
<1>3. CASE SaveRejection
  <2>1. journal'[d] = old \/ (old.present /\ journal'[d] = [old EXCEPT !.verdict = "rejected"])
    BY <1>0, <1>3 DEF SaveRejection
  <2> QED
    BY <1>0, <1>1, <2>1 DEF RowKept, RowType
<1>4. CASE CompleteApproval
  <2>1. \/ journal'[d] = old
        \/ old.present /\ journal'[d] = [old EXCEPT !.verdict = "approved", !.risk = Id]
    BY <1>0, <1>4 DEF CompleteApproval
  <2> QED
    BY <1>0, <1>1, <2>1 DEF RowKept, RowType
<1>5. CASE CompleteExecution
  <2>1. hand[1].kind \in Statuses
    BY <1>5, InHand, MessageFields DEF CompleteExecution, Handling
  <2>2. \/ journal'[d] = old
        \/ old.present /\ journal'[d] = [old EXCEPT !.kind = hand[1].kind]
    BY <1>0, <1>5 DEF CompleteExecution
  <2> QED
    BY <1>0, <1>1, <2>1, <2>2 DEF RowKept, RowType, Statuses
<1>6. ASSUME UNCHANGED journal PROVE RowKept(d)
  BY <1>1, <1>6
<1>7. ASSUME NEW t \in Topics, Take(t) PROVE RowKept(d)
  BY <1>6, <1>7 DEF Take
<1>8. ASSUME NEW e \in Decisions, PublishEntry(e) \/ PublishRejection(e) PROVE RowKept(d)
  BY <1>6, <1>8 DEF PublishEntry, PublishRejection, Publish
<1>9. ASSUME NEW a \in Approvals, PublishApproval(a) \/ PublishExecution(a) PROVE RowKept(d)
  BY <1>6, <1>9 DEF PublishApproval, PublishExecution, Publish
<1>10. CASE Commit \/ Raise \/ Crash \/ InsertTrade \/ UpdateTrade \/ UNCHANGED vars
  BY <1>6, <1>10 DEF Commit, Raise, Crash, InsertTrade, UpdateTrade, vars
<1> QED
  BY <1>2, <1>3, <1>4, <1>5, <1>7, <1>8, <1>9, <1>10 DEF Next, Consume, Transaction

(* No step takes an outcome out of the journal: a row that is there is      *)
(* never started over, whatever is replayed (ON CONFLICT DO NOTHING).       *)
THEOREM OutcomesStay == Spec => OutcomesAreKept
<1>1. Init => AbsentIsEmpty
  BY DEF Init, AbsentIsEmpty, NoRow
<1>2. TypeOK /\ AbsentIsEmpty /\ [Next]_vars => AbsentIsEmpty'
  BY OutcomeStep DEF AbsentIsEmpty, RowKept
<1>3. TypeOK /\ AbsentIsEmpty /\ [Next]_vars
         => [\A d \in Decisions :
                /\ journal[d].verdict # "none" => journal'[d].verdict # "none"
                /\ journal[d].kind # "none" => journal'[d].kind # "none"]_vars
  BY OutcomeStep DEF RowKept
<1> QED
  BY <1>1, <1>2, <1>3, TypeCorrect, PTL DEF Spec, OutcomesAreKept

-----------------------------------------------------------------------------
(* The status of a trade *)

Executions == log["execution"]

(* How much of a topic has been applied to its row, or given up *)
Handled(t) == IF Handling(t, "row") THEN pos[t] - 1 ELSE pos[t]

LogInv == \A t \in Topics : \A i \in 1..Len(log[t]) : log[t][i].topic = t

(* The message in hand is the last one taken of its topic, and not committed *)
HandInv ==
    ~Idle => /\ hand[1].topic \in Topics
             /\ committed[hand[1].topic] < pos[hand[1].topic]
             /\ hand[1] = log[hand[1].topic][pos[hand[1].topic]]

PlaceInv == LogInv /\ HandInv

LastMention(i) == \A j \in 1..Len(Executions) : j > i => Executions[j].id # Executions[i].id

(* A trade shows the last mention of it once that is handled, wherever the  *)
(* consumer stands after a restart; it shows no status before one is        *)
(* published, and is there once its approval is handled                     *)
ShowsLast ==
    \A i \in 1..Handled("execution") :
        LastMention(i) /\ Executions[i].id \notin missed =>
            trade[Executions[i].id] = Executions[i].kind
ShowsNoOther ==
    \A a \in Approvals :
        (\A i \in 1..Len(Executions) : Executions[i].id # a) =>
            trade[a] \in {"absent", "approved"}
IsThere ==
    \A i \in 1..Handled("approved") :
        log["approved"][i].id \notin missed => trade[log["approved"][i].id] # "absent"

StatusInv == ShowsLast /\ ShowsNoOther /\ IsThere

LEMMA TopicFacts ==
    ASSUME TypeOK, NEW t \in Topics
    PROVE  /\ log[t] \in Seq(Message) /\ Len(log[t]) \in Nat
           /\ pos[t] \in 0..Len(log[t]) /\ committed[t] \in 0..pos[t]
BY DEF TypeOK

LEMMA HandledFacts ==
    ASSUME TypeOK, PlaceInv, NEW t \in Topics
    PROVE  /\ Handled(t) \in committed[t]..pos[t] /\ Handled(t) \in Nat
           /\ Handled(t) <= Len(log[t])
<1>1. /\ Len(log[t]) \in Nat /\ pos[t] \in 0..Len(log[t]) /\ committed[t] \in 0..pos[t]
  BY TopicFacts
<1>2. Handling(t, "row") => committed[t] < pos[t]
  BY DEF PlaceInv, HandInv, Handling
<1> QED
  BY <1>1, <1>2 DEF Handled

(* The row being written is that of the message after those handled *)
LEMMA AtRow ==
    ASSUME TypeOK, PlaceInv, NEW t \in Topics, Handling(t, "row")
    PROVE  /\ pos[t] \in 1..Len(log[t]) /\ hand[1] = log[t][pos[t]]
           /\ Handled(t) = pos[t] - 1
<1>1. /\ Len(log[t]) \in Nat /\ pos[t] \in 0..Len(log[t]) /\ committed[t] \in 0..pos[t]
  BY TopicFacts
<1>2. committed[t] < pos[t] /\ hand[1] = log[t][pos[t]]
  BY DEF PlaceInv, HandInv, Handling
<1> QED
  BY <1>1, <1>2 DEF Handled

(* A message taken of a topic is one of that topic *)
LEMMA TakenOf ==
    ASSUME TypeOK, PlaceInv, NEW t \in Topics, NEW i \in 1..pos[t]
    PROVE  i \in 1..Len(log[t]) /\ log[t][i] \in Message /\ log[t][i].topic = t
<1>1. log[t] \in Seq(Message) /\ i \in 1..Len(log[t])
  BY TopicFacts
<1>2. log[t][i] \in Message
  BY <1>1
<1> QED
  BY <1>1, <1>2 DEF PlaceInv, LogInv

(* What is handled of each topic when the message in hand is done with *)
LEMMA AllHandled ==
    ASSUME hand' = <<>> \/ stage' # "row"
    PROVE  \A t \in Topics : Handled(t)' = pos'[t]
BY DEF Handled, Handling, Idle

-----------------------------------------------------------------------------
LEMMA PublishPlaces ==
    ASSUME TypeOK, PlaceInv, NEW topic \in Topics, NEW id, NEW kind, Publish(topic, id, kind)
    PROVE  /\ PlaceInv'
           /\ UNCHANGED <<pos, committed, hand, stage, trade, journal, crashes, missed>>
           /\ \A t \in Topics : /\ Len(log[t]) <= Len(log'[t])
                                /\ \A i \in 1..Len(log[t]) : log'[t][i] = log[t][i]
<1> DEFINE m == [topic |-> topic, id |-> id, kind |-> kind]
<1>1. log' = [log EXCEPT ![topic] = Append(log[topic], m)] /\ m.topic = topic
  BY DEF Publish
<1> HIDE DEF m
<1>2. UNCHANGED <<pos, committed, hand, stage, trade, journal, crashes, missed>>
  BY DEF Publish
<1>3. ASSUME NEW t \in Topics
      PROVE  /\ Len(log[t]) <= Len(log'[t])
             /\ \A i \in 1..Len(log[t]) : log'[t][i] = log[t][i]
             /\ \A i \in 1..Len(log'[t]) : log'[t][i].topic = t
  <2>1. log[t] \in Seq(Message) /\ log \in [Topics -> Seq(Message)] /\ Len(log[t]) \in Nat
    BY DEF TypeOK
  <2>2. \A i \in 1..Len(log[t]) : log[t][i].topic = t
    BY DEF PlaceInv, LogInv
  <2>3. CASE t = topic
    <3>1. log'[t] = Append(log[t], m)
      BY <1>1, <2>1, <2>3
    <3>2. /\ Len(log'[t]) = Len(log[t]) + 1 /\ log'[t][Len(log[t]) + 1] = m
          /\ \A i \in 1..Len(log[t]) : log'[t][i] = log[t][i]
      BY <2>1, <3>1
    <3> QED
      BY <1>1, <2>1, <2>2, <2>3, <3>2
  <2>4. CASE t # topic
    <3>1. log'[t] = log[t]
      BY <1>1, <2>1, <2>4
    <3> QED
      BY <2>1, <2>2, <3>1
  <2> QED
    BY <2>3, <2>4
<1>4. LogInv'
  BY <1>3 DEF LogInv
<1>5. HandInv'
  <2>1. CASE Idle
    BY <1>2, <2>1 DEF HandInv, Idle
  <2>2. CASE ~Idle
    <3> DEFINE t == hand[1].topic
    <3>1. t \in Topics /\ committed[t] < pos[t] /\ hand[1] = log[t][pos[t]]
      BY <2>2 DEF PlaceInv, HandInv
    <3> HIDE DEF t
    <3>5. Len(log[t]) \in Nat /\ pos[t] \in 0..Len(log[t]) /\ committed[t] \in 0..pos[t]
      BY <3>1, TopicFacts
    <3>2. pos[t] \in 1..Len(log[t])
      BY <3>1, <3>5
    <3>3. log'[t][pos[t]] = log[t][pos[t]]
      BY <1>3, <3>1, <3>2
    <3>4. t' = t
      BY <1>2 DEF t
    <3> QED
      BY <1>2, <3>1, <3>3, <3>4 DEF HandInv, t
  <2> QED
    BY <2>1, <2>2
<1> QED
  BY <1>2, <1>3, <1>4, <1>5 DEF PlaceInv

LEMMA PlaceStep ==
    ASSUME TypeOK, PlaceInv, [Next]_vars
    PROVE  PlaceInv'
<1>1. ASSUME NEW topic \in Topics, Take(topic) PROVE PlaceInv'
  <2> DEFINE m == log[topic][pos[topic] + 1]
  <2>1. /\ pos[topic] < Len(log[topic]) /\ hand' = <<m>> /\ UNCHANGED <<log, committed>>
        /\ pos' = [pos EXCEPT ![topic] = pos[topic] + 1]
    BY <1>1 DEF Take
  <2>2. /\ Len(log[topic]) \in Nat /\ pos[topic] \in 0..Len(log[topic])
        /\ committed[topic] \in 0..pos[topic]
    BY TopicFacts
  <2>3. pos[topic] + 1 \in 1..Len(log[topic])
    BY <2>1, <2>2
  <2>4. m.topic = topic
    BY <2>3 DEF PlaceInv, LogInv
  <2>5. pos'[topic] = pos[topic] + 1
    BY <2>1 DEF TypeOK
  <2>6. hand'[1] = m
    BY <2>1
  <2>7. m = log[topic][pos'[topic]]
    BY <2>5
  <2>8. committed[topic] < pos'[topic]
    BY <2>2, <2>5
  <2> HIDE DEF m
  <2>9. HandInv'
    BY <2>1, <2>4, <2>6, <2>7, <2>8 DEF HandInv
  <2> QED
    BY <2>1, <2>9 DEF PlaceInv, LogInv
<1>2. CASE Commit
  BY <1>2 DEF Commit, PlaceInv, LogInv, HandInv, Idle
<1>3. ASSUME Done, UNCHANGED log PROVE PlaceInv'
  BY <1>3 DEF Done, PlaceInv, LogInv, HandInv, Idle
<1>4. ASSUME UNCHANGED <<log, pos, committed, hand>> PROVE PlaceInv'
  BY <1>4 DEF PlaceInv, LogInv, HandInv, Idle
<1>5. CASE SaveJournal \/ CompleteApproval \/ CompleteExecution \/ Raise \/ Crash
  BY <1>3, <1>5 DEF SaveJournal, CompleteApproval, CompleteExecution, Raise, Crash, kafkaVars
<1>6. CASE SaveRejection
  BY <1>3, <1>4, <1>6 DEF SaveRejection, kafkaVars
<1>7. CASE InsertTrade \/ UpdateTrade \/ UNCHANGED vars
  BY <1>4, <1>7 DEF InsertTrade, UpdateTrade, vars, kafkaVars
<1>8. ASSUME NEW d \in Decisions, PublishEntry(d) \/ PublishRejection(d) PROVE PlaceInv'
  BY <1>8, PublishPlaces DEF PublishEntry, PublishRejection
<1>9. ASSUME NEW a \in Approvals, PublishApproval(a) \/ PublishExecution(a) PROVE PlaceInv'
  BY <1>9, PublishPlaces DEF PublishApproval, PublishExecution
<1> QED
  BY <1>1, <1>2, <1>5, <1>6, <1>7, <1>8, <1>9 DEF Next, Consume, Transaction

LEMMA PlaceInvariant == Spec => []PlaceInv
<1>1. Init => PlaceInv
  BY DEF Init, PlaceInv, LogInv, HandInv, Idle
<1>2. TypeOK /\ PlaceInv /\ [Next]_vars => PlaceInv'
  BY PlaceStep
<1> QED
  BY <1>1, <1>2, TypeCorrect, PTL DEF Spec

-----------------------------------------------------------------------------
(* A step that handles nothing, or goes back: no trade is touched *)
LEMMA NothingHandled ==
    ASSUME TypeOK, PlaceInv, StatusInv, UNCHANGED <<log, trade, missed>>,
           \A t \in {"execution", "approved"} :
               Handled(t)' \in Int /\ Handled(t)' <= Handled(t)
    PROVE  StatusInv'
<1>1. Handled("execution") \in Nat /\ Handled("approved") \in Nat
  BY HandledFacts
<1>2. ShowsLast'
  BY <1>1 DEF StatusInv, ShowsLast, LastMention, Executions
<1>3. ShowsNoOther'
  BY DEF StatusInv, ShowsNoOther, Executions
<1>4. IsThere'
  BY <1>1 DEF StatusInv, IsThere
<1> QED
  BY <1>2, <1>3, <1>4 DEF StatusInv

LEMMA PublishKeepsStatus ==
    ASSUME TypeOK, PlaceInv, StatusInv, NEW topic \in Topics, NEW id, NEW kind,
           Publish(topic, id, kind)
    PROVE  StatusInv'
<1>1. UNCHANGED <<pos, hand, stage, trade, missed>>
  BY PublishPlaces
<1>2. ASSUME NEW t \in Topics
      PROVE  /\ Handled(t) \in Nat /\ Handled(t) <= Len(log[t]) /\ Handled(t)' = Handled(t)
             /\ Len(log[t]) \in Nat /\ Len(log[t]) <= Len(log'[t])
             /\ \A i \in 1..Len(log[t]) : log'[t][i] = log[t][i]
  BY <1>1, PublishPlaces, HandledFacts, TopicFacts DEF Handled, Handling, Idle
<1>3. \A t \in Topics : Len(log'[t]) \in Nat
  BY DEF TypeOK, Publish
<1>4. /\ Len(Executions) \in Nat /\ Len(Executions') \in Nat
      /\ Len(Executions) <= Len(Executions')
      /\ \A i \in 1..Len(Executions) : Executions'[i] = Executions[i]
      /\ Handled("execution") \in 0..Len(Executions)
      /\ Handled("execution")' = Handled("execution")
  BY <1>2, <1>3 DEF Executions
<1>5. ShowsLast' /\ ShowsNoOther'
  <2>1. ASSUME NEW i \in 1..Handled("execution"), LastMention(i)' PROVE LastMention(i)
    <3>1. i \in 1..Len(Executions)
      BY <1>4
    <3>2. ASSUME NEW j \in 1..Len(Executions), j > i PROVE Executions[j].id # Executions[i].id
      <4>1. j \in 1..Len(Executions')
        BY <1>4
      <4> QED
        BY <1>4, <2>1, <3>1, <3>2, <4>1 DEF LastMention
    <3> QED
      BY <3>2 DEF LastMention
  <2>2. \A i \in 1..Handled("execution") : Executions'[i] = Executions[i]
    BY <1>4
  <2>3. ShowsLast'
    BY <1>1, <1>4, <2>1, <2>2 DEF StatusInv, ShowsLast
  <2>4. \A i \in 1..Len(Executions) :
           i \in 1..Len(Executions') /\ Executions'[i].id = Executions[i].id
    BY <1>4
  <2>5. ShowsNoOther'
    BY <1>1, <2>4 DEF StatusInv, ShowsNoOther
  <2> QED
    BY <2>3, <2>5
<1>6. IsThere'
  BY <1>1, <1>2, <1>3 DEF StatusInv, IsThere
<1> QED
  BY <1>5, <1>6 DEF StatusInv

LEMMA InsertKeepsStatus ==
    ASSUME TypeOK, PlaceInv, StatusInv, InsertTrade
    PROVE  StatusInv'
<1>1. /\ Handling("approved", "row") /\ stage' = "journal" /\ UNCHANGED <<log, pos, missed>>
      /\ trade' = [trade EXCEPT ![Id] = IF @ = "absent" THEN "approved" ELSE @]
  BY DEF InsertTrade, kafkaVars
<1>2. /\ Id \in Approvals /\ Id = log["approved"][pos["approved"]].id
      /\ Handled("approved") = pos["approved"] - 1 /\ pos["approved"] \in Nat
  BY <1>1, InHand, MessageFields, AtRow, TopicFacts DEF Handling, Id
<1>3. /\ Handled("approved")' = pos["approved"]
      /\ Handled("execution")' = pos["execution"] /\ Handled("execution") = pos["execution"]
  BY <1>1, AllHandled DEF Handled, Handling
<1>4. \A a \in Approvals :
         /\ trade[a] # "absent" => trade'[a] = trade[a]
         /\ trade[a] = "absent" => trade'[a] \in {"absent", "approved"}
  BY <1>1, <1>2 DEF TypeOK
<1>5. trade'[Id] # "absent"
  BY <1>1, <1>2 DEF TypeOK
<1>6. ShowsLast'
  <2>1. ASSUME NEW i \in 1..pos["execution"],
               LastMention(i), Executions[i].id \notin missed
        PROVE  trade'[Executions[i].id] = Executions[i].kind
    <3>1. Executions[i] \in Message /\ Executions[i].topic = "execution"
      BY TakenOf DEF Executions
    <3>2. Executions[i].id \in Approvals /\ Executions[i].kind \in Statuses
      BY <3>1, MessageFields
    <3>3. trade[Executions[i].id] = Executions[i].kind
      BY <1>3, <2>1 DEF StatusInv, ShowsLast
    <3> QED
      BY <1>4, <3>2, <3>3 DEF Statuses
  <2> QED
    BY <1>1, <1>3, <2>1 DEF ShowsLast, LastMention, Executions
<1>7. ShowsNoOther'
  BY <1>1, <1>4 DEF StatusInv, ShowsNoOther, Executions
<1>8. IsThere'
  <2>1. ASSUME NEW i \in 1..pos["approved"], log["approved"][i].id \notin missed
        PROVE  trade'[log["approved"][i].id] # "absent"
    <3>1. CASE i = pos["approved"]
      BY <1>2, <1>5, <3>1
    <3>2. CASE i # pos["approved"]
      <4>1. i \in 1..Handled("approved")
        BY <1>2, <3>2
      <4>2. log["approved"][i] \in Message /\ log["approved"][i].topic = "approved"
        BY TakenOf
      <4>3. log["approved"][i].id \in Approvals
        BY <4>2, MessageFields
      <4> QED
        BY <1>4, <2>1, <4>1, <4>3 DEF StatusInv, IsThere
    <3> QED
      BY <3>1, <3>2
  <2> QED
    BY <1>1, <1>3, <2>1 DEF IsThere
<1> QED
  BY <1>6, <1>7, <1>8 DEF StatusInv

LEMMA UpdateKeepsStatus ==
    ASSUME TypeOK, PlaceInv, StatusInv, UpdateTrade
    PROVE  StatusInv'
<1> DEFINE p == pos["execution"]
<1>1. /\ Handling("execution", "row") /\ stage' = "journal" /\ UNCHANGED <<log, pos>>
      /\ trade' = [trade EXCEPT ![Id] = IF @ = "absent" THEN @ ELSE hand[1].kind]
      /\ missed' = IF trade[Id] = "absent" THEN missed \cup {Id} ELSE missed \ {Id}
  BY DEF UpdateTrade, kafkaVars
<1>2. /\ Id \in Approvals /\ hand[1].kind \in Statuses
      /\ hand[1] = Executions[p] /\ Id = Executions[p].id
      /\ p \in 1..Len(Executions) /\ Handled("execution") = p - 1 /\ p \in Nat
  BY <1>1, InHand, MessageFields, AtRow, TopicFacts DEF Handling, Id, Executions
<1>3. /\ Handled("execution")' = p
      /\ Handled("approved")' = pos["approved"] /\ Handled("approved") = pos["approved"]
  BY <1>1, AllHandled DEF Handled, Handling
<1>4. \A a \in Approvals : a # Id => trade'[a] = trade[a]
  BY <1>1, <1>2 DEF TypeOK
<1>5. IF trade[Id] = "absent" THEN trade'[Id] = "absent" /\ Id \in missed'
      ELSE trade'[Id] = Executions[p].kind /\ trade'[Id] # "absent"
  BY <1>1, <1>2 DEF TypeOK, Statuses
<1>6. \A a \in Approvals : a # Id => (a \in missed' <=> a \in missed)
  BY <1>1
<1> HIDE DEF p
<1>7. ShowsLast'
  <2>1. ASSUME NEW i \in 1..p, LastMention(i), Executions[i].id \notin missed'
        PROVE  trade'[Executions[i].id] = Executions[i].kind
    <3>1. CASE Executions[i].id = Id
      <4>1. i = p
        BY <1>2, <2>1, <3>1 DEF LastMention
      <4> QED
        BY <1>5, <2>1, <3>1, <4>1
    <3>2. CASE Executions[i].id # Id
      <4>1. i \in 1..Handled("execution")
        BY <1>2, <3>2
      <4>2. Executions[i] \in Message /\ Executions[i].topic = "execution"
        BY TakenOf DEF Executions, p
      <4>3. Executions[i].id \in Approvals
        BY <4>2, MessageFields
      <4> QED
        BY <1>4, <1>6, <2>1, <3>2, <4>1, <4>3 DEF StatusInv, ShowsLast
    <3> QED
      BY <3>1, <3>2
  <2> QED
    BY <1>1, <1>3, <2>1 DEF ShowsLast, LastMention, Executions
<1>8. ShowsNoOther'
  <2>1. ASSUME NEW a \in Approvals, \A i \in 1..Len(Executions) : Executions[i].id # a
        PROVE  trade'[a] \in {"absent", "approved"}
    <3>1. a # Id
      BY <1>2, <2>1
    <3> QED
      BY <1>4, <2>1, <3>1 DEF StatusInv, ShowsNoOther
  <2> QED
    BY <1>1, <2>1 DEF ShowsNoOther, Executions
<1>9. IsThere'
  <2>1. ASSUME NEW i \in 1..pos["approved"], log["approved"][i].id \notin missed'
        PROVE  trade'[log["approved"][i].id] # "absent"
    <3>1. log["approved"][i] \in Message /\ log["approved"][i].topic = "approved"
      BY TakenOf
    <3>2. log["approved"][i].id \in Approvals
      BY <3>1, MessageFields
    <3>3. CASE log["approved"][i].id = Id
      BY <1>5, <2>1, <3>3
    <3>4. CASE log["approved"][i].id # Id
      BY <1>3, <1>4, <1>6, <2>1, <3>2, <3>4 DEF StatusInv, IsThere
    <3> QED
      BY <3>3, <3>4
  <2> QED
    BY <1>1, <1>3, <2>1 DEF IsThere
<1> QED
  BY <1>7, <1>8, <1>9 DEF StatusInv

(* A transaction that raises gives its message up: the row is missed *)
LEMMA RaiseKeepsStatus ==
    ASSUME TypeOK, PlaceInv, StatusInv, Raise
    PROVE  StatusInv'
<1>1. /\ hand' = <<>> /\ ~Idle /\ UNCHANGED <<log, pos, trade>>
      /\ missed' = IF hand[1].topic \in {"approved", "execution"} /\ stage = "row"
                   THEN missed \cup {Id} ELSE missed
  BY DEF Raise, Done, kafkaVars
<1>2. ASSUME NEW t \in {"approved", "execution"}
      PROVE  /\ Handled(t)' = pos[t] /\ pos[t] \in Nat
             /\ \A i \in 1..pos[t] : i \in 1..Handled(t) \/ log[t][i].id \in missed'
  <2>1. Handled(t)' = pos[t] /\ pos[t] \in Nat
    BY <1>1, AllHandled, TopicFacts
  <2>2. CASE Handling(t, "row")
    <3>1. hand[1] = log[t][pos[t]] /\ Handled(t) = pos[t] - 1
      BY <2>2, AtRow
    <3>2. log[t][pos[t]].id \in missed'
      BY <1>1, <2>2, <3>1 DEF Handling, Id
    <3> QED
      BY <2>1, <3>1, <3>2
  <2>3. CASE ~Handling(t, "row")
    BY <2>1, <2>3 DEF Handled
  <2> QED
    BY <2>1, <2>2, <2>3
<1>3. missed \subseteq missed'
  BY <1>1
<1>4. ShowsLast'
  <2>1. ASSUME NEW i \in 1..pos["execution"],
               LastMention(i), Executions[i].id \notin missed'
        PROVE  trade[Executions[i].id] = Executions[i].kind
    <3>1. i \in 1..Handled("execution")
      BY <1>2, <2>1 DEF Executions
    <3> QED
      BY <1>3, <2>1, <3>1 DEF StatusInv, ShowsLast
  <2> QED
    BY <1>1, <1>2, <2>1 DEF ShowsLast, LastMention, Executions
<1>5. ShowsNoOther'
  BY <1>1 DEF StatusInv, ShowsNoOther, Executions
<1>6. IsThere'
  <2>1. ASSUME NEW i \in 1..pos["approved"], log["approved"][i].id \notin missed'
        PROVE  trade[log["approved"][i].id] # "absent"
    <3>1. i \in 1..Handled("approved")
      BY <1>2, <2>1
    <3> QED
      BY <1>3, <2>1, <3>1 DEF StatusInv, IsThere
  <2> QED
    BY <1>1, <1>2, <2>1 DEF IsThere
<1> QED
  BY <1>4, <1>5, <1>6 DEF StatusInv

LEMMA StatusStep ==
    ASSUME TypeOK, PlaceInv, StatusInv, [Next]_vars
    PROVE  StatusInv'
<1>0. \A t \in {"execution", "approved"} :
         /\ t \in Topics /\ Handled(t) \in committed[t]..pos[t] /\ Handled(t) \in Nat
         /\ pos[t] \in Nat /\ committed[t] \in Nat
  <2>1. {"execution", "approved"} \subseteq Topics
    OBVIOUS
  <2>2. \A t \in Topics : pos[t] \in Nat /\ committed[t] \in Nat
    BY DEF TypeOK
  <2> QED
    BY <2>1, <2>2, HandledFacts
<1>1. ASSUME NEW topic \in Topics, Take(topic) PROVE StatusInv'
  <2>1. \A t \in Topics : Handled(t)' = Handled(t)
    <3>1. /\ pos[topic] < Len(log[topic]) /\ hand' = <<log[topic][pos[topic] + 1]>>
          /\ pos' = [pos EXCEPT ![topic] = pos[topic] + 1] /\ Idle /\ stage' = "row"
      BY <1>1 DEF Take
    <3>2. /\ Len(log[topic]) \in Nat /\ pos[topic] \in 0..Len(log[topic])
      BY TopicFacts
    <3>3. pos[topic] + 1 \in 1..Len(log[topic])
      BY <3>1, <3>2
    <3>4. hand'[1].topic = topic /\ hand' # <<>>
      BY <3>1, <3>3 DEF PlaceInv, LogInv
    <3>5. \A t \in Topics : Handled(t) = pos[t]
      BY <3>1 DEF Handled, Handling
    <3>6. \A t \in Topics : pos'[t] = IF t = topic THEN pos[t] + 1 ELSE pos[t]
      BY <3>1 DEF TypeOK
    <3>7. \A t \in Topics : Handling(t, "row")' <=> t = topic
      BY <3>1, <3>4 DEF Handling, Idle
    <3> QED
      BY <3>2, <3>5, <3>6, <3>7 DEF Handled
  <2> QED
    BY <1>0, <1>1, <2>1, NothingHandled DEF Take
<1>2. CASE Commit
  <2>1. \A t \in Topics : Handled(t)' = Handled(t)
    BY <1>2 DEF Commit, Handled, Handling, Idle
  <2> QED
    BY <1>0, <1>2, <2>1, NothingHandled DEF Commit
<1>3. CASE SaveJournal \/ SaveRejection \/ CompleteApproval \/ CompleteExecution
  <2>1. \A t \in {"execution", "approved"} : ~Handling(t, "row") /\ ~Handling(t, "row")'
    <3>1. CASE SaveJournal
      BY <3>1 DEF SaveJournal, Handling, Done, Idle
    <3>2. CASE SaveRejection
      BY <3>2 DEF SaveRejection, Handling, Done, Idle
    <3>3. CASE CompleteApproval \/ CompleteExecution
      BY <3>3 DEF CompleteApproval, CompleteExecution, Handling, Done, Idle
    <3> QED
      BY <1>3, <3>1, <3>2, <3>3
  <2>2. UNCHANGED <<log, pos, trade, missed>>
    BY <1>3 DEF SaveJournal, SaveRejection, CompleteApproval, CompleteExecution, kafkaVars
  <2>3. \A t \in {"execution", "approved"} : Handled(t)' = Handled(t)
    BY <2>1, <2>2 DEF Handled
  <2> QED
    BY <1>0, <2>2, <2>3, NothingHandled
<1>4. CASE InsertTrade
  BY <1>4, InsertKeepsStatus
<1>5. CASE UpdateTrade
  BY <1>5, UpdateKeepsStatus
<1>6. CASE Raise
  BY <1>6, RaiseKeepsStatus
<1>7. CASE Crash
  <2>1. \A t \in Topics : Handled(t)' = committed[t]
    BY <1>7, AllHandled DEF Crash, Done
  <2>2. UNCHANGED <<log, trade, missed>>
    BY <1>7 DEF Crash
  <2> QED
    BY <1>0, <2>1, <2>2, NothingHandled
<1>8. ASSUME NEW d \in Decisions, PublishEntry(d) \/ PublishRejection(d) PROVE StatusInv'
  BY <1>8, PublishKeepsStatus DEF PublishEntry, PublishRejection
<1>9. ASSUME NEW a \in Approvals, PublishApproval(a) \/ PublishExecution(a) PROVE StatusInv'
  BY <1>9, PublishKeepsStatus DEF PublishApproval, PublishExecution
<1>10. CASE UNCHANGED vars
  <2>1. \A t \in Topics : Handled(t)' = Handled(t)
    BY <1>10 DEF vars, kafkaVars, Handled, Handling, Idle
  <2> QED
    BY <1>0, <1>10, <2>1, NothingHandled DEF vars, kafkaVars
<1> QED
  BY <1>1, <1>2, <1>3, <1>4, <1>5, <1>6, <1>7, <1>8, <1>9, <1>10
     DEF Next, Consume, Transaction

-----------------------------------------------------------------------------
(* A set of indices that is not empty has a last one *)
LEMMA LastOf ==
    ASSUME NEW n \in Nat, NEW Q, Q \subseteq 1..n, Q # {}
    PROVE  \E i \in Q : \A j \in Q : j <= i
<1> DEFINE R == {n - q : q \in Q}
<1>1. R \subseteq Nat /\ R # {}
  <2>1. \A q \in Q : q \in 1..n
    OBVIOUS
  <2>2. \A q \in Q : n - q \in Nat
    BY <2>1
  <2> QED
    BY <2>2
<1> HIDE DEF R
<1>2. \E x \in R : \A y \in R : ~(<<y, x>> \in OpToRel(<, Nat))
  BY <1>1, NatLessThanWellFounded, WFMin
<1>3. \A x, y \in R : <<y, x>> \in OpToRel(<, Nat) <=> y < x
  BY <1>1 DEF OpToRel
<1>4. PICK x \in R : \A y \in R : ~(y < x)
  BY <1>2, <1>3
<1>5. PICK i \in Q : n - i = x
  BY <1>4 DEF R
<1>6. ASSUME NEW j \in Q PROVE j <= i
  <2>1. n - j \in R
    BY DEF R
  <2>2. ~(n - j < n - i)
    BY <1>4, <1>5, <2>1
  <2> QED
    BY <2>2
<1> QED
  BY <1>6

LEMMA CaughtUpShowsLast ==
    ASSUME TypeOK, PlaceInv, StatusInv
    PROVE  StatusIsLatest
<1> SUFFICES ASSUME CaughtUp, NEW a \in Approvals, Published("approved", a), a \notin missed
             PROVE  trade[a] = LastStatus(a)
  BY DEF StatusIsLatest
<1>1. \A t \in {"approved", "execution"} :
         Handled(t) = Len(log[t]) /\ DOMAIN log[t] = 1..Len(log[t])
  <2>1. \A t \in {"approved", "execution"} :
           t \in Topics /\ pos[t] = Len(log[t]) /\ ~Handling(t, "row")
    BY DEF CaughtUp, Handling
  <2>2. \A t \in {"approved", "execution"} : log[t] \in Seq(Message)
    BY TopicFacts
  <2> QED
    BY <2>1, <2>2 DEF Handled
<1>2. trade[a] # "absent"
  <2>1. PICK i \in 1..Len(log["approved"]) : log["approved"][i].id = a
    BY <1>1 DEF Published, Mentions
  <2> QED
    BY <1>1, <2>1 DEF StatusInv, IsThere
<1> DEFINE of == Mentions("execution", a)
<1>3. of = {i \in 1..Len(Executions) : Executions[i].id = a} /\ Len(Executions) \in Nat
  BY <1>1, TopicFacts DEF Mentions, Executions
<1>4. CASE of = {}
  <2>1. trade[a] \in {"absent", "approved"}
    BY <1>3, <1>4 DEF StatusInv, ShowsNoOther
  <2> QED
    BY <1>2, <1>4, <2>1 DEF LastStatus
<1>5. CASE of # {}
  <2> DEFINE i == CHOOSE x \in of : \A j \in of : j <= x
  <2>1. of \subseteq 1..Len(Executions)
    BY <1>3
  <2>2. i \in of /\ \A j \in of : j <= i
    BY <1>3, <1>5, <2>1, LastOf
  <2>3. LastStatus(a) = Executions[i].kind
    BY <1>5 DEF LastStatus, Executions
  <2> HIDE DEF i
  <2>4. i \in 1..Len(Executions) /\ Executions[i].id = a
    BY <1>3, <2>2
  <2>5. ASSUME NEW j \in 1..Len(Executions), j > i PROVE Executions[j].id # a
    <3>1. j \notin of
      BY <1>3, <2>2, <2>4, <2>5
    <3> QED
      BY <1>3, <3>1
  <2>6. LastMention(i)
    BY <2>4, <2>5 DEF LastMention
  <2>7. i \in 1..Handled("execution")
    BY <1>1, <2>4 DEF Executions
  <2> QED
    BY <2>3, <2>4, <2>6, <2>7 DEF StatusInv, ShowsLast
<1> QED
  BY <1>4, <1>5

(* Once everything published is handled, a trade has the status that was    *)
(* published last, whatever was replayed after restarts and in whichever    *)
(* order the topics were read; except one whose last update met no row or   *)
(* raised.                                                                  *)
THEOREM StatusStaysLatest == Spec => []StatusIsLatest
<1>1. Init => StatusInv
  BY DEF Init, StatusInv, ShowsLast, ShowsNoOther, IsThere, Handled, Handling, Idle
<1>2. TypeOK /\ PlaceInv /\ StatusInv /\ [Next]_vars => StatusInv'
  BY StatusStep
<1>3. TypeOK /\ PlaceInv /\ StatusInv => StatusIsLatest
  BY CaughtUpShowsLast
<1> QED
  BY <1>1, <1>2, <1>3, TypeCorrect, PlaceInvariant, PTL DEF Spec
=============================================================================
