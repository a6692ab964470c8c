---------------------------- MODULE DecisionTrace ----------------------------
(***************************************************************************)
(* The story of one correlation id as api-gateway tells it (read_api.py,   *)
(* /trace and /explain; explain.py, dossier.py).  Every raw event has an   *)
(* id of its own; an analysis carries the id of one of the events it was   *)
(* made of, and the decisions, verdicts and trades after it carry on that  *)
(* one.  An id of which there is no such row is linked to the first        *)
(* analysis of its symbol within a bounded time.                           *)
(*                                                                         *)
(* A request reads one table after the other while the persister goes on   *)
(* storing. Each row is stored once its event is published, early or late  *)
(* (its topic lags) or never (its write raised): neither the order within  *)
(* a topic nor that of the rows is kept. A request changes nothing, so a   *)
(* behaviour holds one, and as rows are stored late the events may all be  *)
(* published before it. Of the values a stage shows the model keeps that  *)
(* there is one; the counterfactual is that of JournalOutcomes, the status *)
(* of the trade that of Persister, and how the drawer words a verdict      *)
(* (dossier.py) is left out.                                               *)
(***************************************************************************)
EXTENDS Integers, FiniteSets

CONSTANTS
    Raw,           \* per correlation id its raw event: the symbol, the stage it has of
                   \* its own, if any, and what an analysis with that id has measured
    LinkWindow,    \* TRACE_LINK_WINDOW, in ticks
    MaxTraceTick,  \* bound: ticks
    MaxPublished,  \* bound: events published
    MaxMeanwhile   \* bound: rows stored while the request is answered

ASSUME TraceAssumption ==
    /\ LinkWindow \in Nat \ {0} /\ MaxTraceTick \in Nat
    /\ \A c \in DOMAIN Raw : Raw[c].stage \subseteq {"price", "sentiment"}

VARIABLES
    traceClock,
    happened, \* events published: kind, correlation id, decider, time
    rows,     \* the tables: the events stored
    inquiry,  \* the request
    told      \* its answer, if any

traceVars == <<traceClock, happened, rows, inquiry, told>>

Cids == DOMAIN Raw
Deciders == {"engine", "sonnet"}
Event(kind, cid, by) == [kind |-> kind, cid |-> cid, by |-> by, at |-> traceClock]
Was(kind, cid, by) ==
    \E e \in happened : e.kind = kind /\ e.cid = cid /\ e.by = by
AtStep(pc) == inquiry.pc = pc
-----------------------------------------------------------------------------
(* The pipeline *)

TraceTick ==
    /\ AtStep("none")
    /\ traceClock < MaxTraceTick /\ traceClock' = traceClock + 1
    /\ UNCHANGED <<happened, rows, inquiry, told>>

Emit(kind, cid, by) ==
    /\ AtStep("none") /\ ~Was(kind, cid, by)
    /\ Cardinality(happened) < MaxPublished
    /\ happened' = happened \cup {Event(kind, cid, by)}
    /\ UNCHANGED <<traceClock, rows, inquiry, told>>

(* An analysis takes the id of an event of its window *)
Analyse(c) == Emit("signal", c, "")

(* The engine decides on the analysis, under its id, or rejects it *)
Score(c) ==
    /\ Was("signal", c, "")
    /\ \/ ~Was("rejection", c, "") /\ Emit("decision", c, "engine")
       \/ ~Was("decision", c, "engine") /\ Emit("rejection", c, "")

(* So may Sonnet, which journals what it did after that *)
Validate(c) ==
    /\ Was("signal", c, "") /\ ~Was("journal", c, "")
    /\ Emit("decision", c, "sonnet")
JournalEntry(c) ==
    /\ Was("signal", c, "")
    /\ IF Was("decision", c, "sonnet")
       THEN Emit("journal", c, "sonnet") ELSE Emit("journal", c, "")

(* risk-engine approves a decision or rejects it *)
Judge(c, by) ==
    /\ Was("decision", c, by)
    /\ \/ ~Was("rejection", c, by) /\ Emit("trade", c, by)
       \/ ~Was("trade", c, by) /\ Emit("rejection", c, by)

(* The persister or the archiver *)
StoreRow ==
    /\ \/ AtStep("none")
       \/ ~AtStep("over") /\ Cardinality(rows \ inquiry.asked) < MaxMeanwhile
    /\ \E e \in happened \ rows : rows' = rows \cup {e}
    /\ UNCHANGED <<traceClock, happened, inquiry, told>>

-----------------------------------------------------------------------------
(* The tables, as a statement finds them *)

RowsOf(S, kind, cid) == {e \in S : e.kind = kind /\ e.cid = cid}
Table(kind, cid) == RowsOf(rows, kind, cid)

(* LIMIT 1: of several rows the newest, which may be any of them *)
First(S) == IF S = {} THEN {{}} ELSE {{e} : e \in S}

(* The first analysis of the symbol within the window; an analysis has a    *)
(* time of its own, so of two within a tick either may be it                *)
InWindow(e, s) ==
    /\ s.kind = "signal" /\ Raw[s.cid].symbol = Raw[e.cid].symbol
    /\ s.at >= e.at /\ s.at < e.at + LinkWindow
Consuming(e) ==
    LET near == {s \in rows : InWindow(e, s)}
    IN {s \in near : \A r \in near : s.at <= r.at}

-----------------------------------------------------------------------------
(* The request *)

NoInquiry(pc) == [pc |-> pc, asked |-> {}]
Inquiry(pc, cid, of) ==
    [pc |-> pc, cid |-> cid, link |-> cid, of |-> of, asked |-> rows, signal |-> {},
     decision |-> {}, trade |-> {}, origin |-> {}, own |-> {}, journal |-> {},
     rejection |-> {}]
Goes(q) == inquiry' = q /\ UNCHANGED <<traceClock, happened, rows, told>>

AskTrace(c) == AtStep("none") /\ Goes(Inquiry("signal", c, {}))

(* decision_explain of a decision *)
AskExplain(c, by) ==
    AtStep("none") /\ Was("decision", c, by) /\ Goes(Inquiry("own", c, {by}))

(* ... or of a row of the journal *)
AskJournal(c) ==
    /\ AtStep("none") /\ (Was("journal", c, "") \/ Was("journal", c, "sonnet"))
    /\ Goes(Inquiry("own", c, {}))

ReadOwn ==
    /\ AtStep("own")
    /\ Goes([inquiry EXCEPT !.pc = "journal",
                            !.own = {e \in Table("decision", inquiry.cid) : e.by \in inquiry.of}])

(* The row that was asked for, or that of the decision: a decision of the   *)
(* engine has none.  With neither row the answer is a 404.                  *)
ReadJournalRow ==
    /\ AtStep("journal")
    /\ LET found == {e \in Table("journal", inquiry.cid) :
                        inquiry.of = {} \/ e.by \in inquiry.of}
       IN Goes([inquiry EXCEPT !.journal = found,
                               !.pc = IF found \cup inquiry.own = {} THEN "over"
                                      ELSE IF found = {} THEN "rejection" ELSE "signal"])

(* Bound by the correlation id, which every decision has *)
ReadRejection ==
    /\ AtStep("rejection")
    /\ \E S \in First(Table("rejection", inquiry.cid)) :
          Goes([inquiry EXCEPT !.pc = "signal", !.rejection = S])

ReadSignalRow ==
    /\ AtStep("signal")
    /\ Goes([inquiry EXCEPT !.pc = "decision", !.signal = Table("signal", inquiry.cid)])

ReadDecisionRow ==
    /\ AtStep("decision")
    /\ \E S \in First(Table("decision", inquiry.link)) :
          Goes([inquiry EXCEPT !.pc = "trade", !.decision = S])

(* A pipeline id is answered by now, and so is one that was linked *)
ReadTradeRow ==
    /\ AtStep("trade")
    /\ \E S \in First(Table("trade", inquiry.link)) :
          LET found == inquiry.signal \cup inquiry.decision \cup S \cup inquiry.origin
          IN Goes([inquiry EXCEPT !.trade = S,
                                  !.pc = IF found = {} THEN "archive" ELSE "answer"])

ReadArchive ==
    /\ AtStep("archive")
    /\ LET found == Table("raw", inquiry.cid)
       IN Goes([inquiry EXCEPT !.origin = found,
                               !.pc = IF found = {} THEN "answer" ELSE "consuming"])

(* Mutant of ReadConsuming: what came of the analysis is not looked up *)
ReadConsumingOnly ==
    /\ AtStep("consuming")
    /\ \E e \in inquiry.origin : \E S \in First(Consuming(e)) :
          Goes([inquiry EXCEPT !.signal = S, !.pc = "answer",
                               !.link = IF S = {} THEN @ ELSE (CHOOSE s \in S : TRUE).cid])

(* The decision and the trade are then those of the id linked to *)
ReadConsuming ==
    /\ AtStep("consuming")
    /\ \E e \in inquiry.origin :
          \/ Consuming(e) = {} /\ Goes([inquiry EXCEPT !.pc = "answer"])
          \/ \E s \in Consuming(e) :
                Goes([inquiry EXCEPT
                         !.signal = {s}, !.link = s.cid,
                         !.pc = IF s.cid = inquiry.cid THEN "answer" ELSE "decision"])

(* assemble_trace: a stage is shown as reached when something was measured, *)
(* of the raw event itself if it is one of that stage                       *)
WasMeasured(stage) ==
    \/ \E e \in inquiry.origin : stage \in Raw[e.cid].stage
    \/ \E s \in inquiry.signal : stage \in Raw[s.cid].carries

Reached ==
    {stage \in {"price", "sentiment"} : WasMeasured(stage)}
        \cup (IF inquiry.signal = {} THEN {} ELSE {"analysis"})
        \cup (IF inquiry.decision = {} THEN {} ELSE {"decision"})
        \cup (IF inquiry.trade = {} THEN {} ELSE {"risk"})

Inferred == inquiry.origin # {} /\ \E s \in inquiry.signal : s.cid # inquiry.cid

Answer ==
    /\ AtStep("answer")
    /\ told' = {[inquiry |-> inquiry, stages |-> Reached, inferred |-> Inferred]}
    /\ inquiry' = NoInquiry("over")
    /\ UNCHANGED <<traceClock, happened, rows>>

-----------------------------------------------------------------------------
(* The raw events are there and archived *)
TraceInit ==
    /\ traceClock = 0 /\ happened = {Event("raw", c, "") : c \in Cids}
    /\ rows = happened /\ inquiry = NoInquiry("none") /\ told = {}

Pipeline ==
    \/ TraceTick \/ StoreRow
    \/ \E c \in Cids : \/ Analyse(c) \/ Score(c) \/ Validate(c) \/ JournalEntry(c)
                       \/ \E by \in Deciders : Judge(c, by)

Telling ==
    \/ \E c \in Cids : \/ AskTrace(c) \/ AskJournal(c)
                       \/ \E by \in Deciders : AskExplain(c, by)
    \/ ReadOwn \/ ReadJournalRow \/ ReadRejection \/ ReadSignalRow \/ ReadDecisionRow
    \/ ReadTradeRow \/ ReadArchive \/ ReadConsuming \/ Answer

TraceNext == Pipeline \/ Telling
TraceSpec == TraceInit /\ [][TraceNext]_traceVars

-----------------------------------------------------------------------------
(* Properties *)

Chain(q) == q.signal \cup q.decision \cup q.trade

(* A row of the table that there was when the request was made was found *)
Found(q, table, cid, found) == RowsOf(q.asked, table, cid) # {} => found # {}

(* An answer tells one story, and all of it that was stored when it was     *)
(* asked for, whatever is stored between its statements (read_api.py):      *)
(* the decision and the trade are of the analysis shown; an analysis that   *)
(* was linked is of the event's symbol, within the window after it, and     *)
(* said to be inferred; a raw event of whose id nothing came shows its own  *)
(* stage and what it can be linked to, instead of "six empty stages"; and a *)
(* rejection is of the decision's id.                                       *)
TellsOneStory ==
    \A t \in told :
        LET q == t.inquiry
            linked == \A e \in q.origin, s \in q.signal : InWindow(e, s)
            near(e) == {s \in q.asked : InWindow(e, s)}
        IN /\ \A e \in Chain(q) : e.cid = q.link
           /\ q.link # q.cid => t.inferred /\ linked
           /\ Found(q, "signal", q.cid, q.signal) /\ Found(q, "decision", q.link, q.decision)
           /\ Found(q, "trade", q.link, q.trade)
           /\ \A e \in RowsOf(q.asked, "raw", q.cid) :
                 \/ \E x \in Chain(q) : x.cid = q.cid
                 \/ Raw[q.cid].stage \subseteq t.stages /\ (near(e) # {} => q.signal # {})
           /\ \A r \in q.rejection : r.cid = q.cid /\ q.own # {} /\ q.journal = {}
=============================================================================
