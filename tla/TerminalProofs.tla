---------------------------- MODULE TerminalProofs ----------------------------
(***************************************************************************)
(* Proofs about what the terminal is told: the story of one correlation id *)
(* (DecisionTrace), for every set of raw events, any window and any number *)
(* of ticks, events and rows; what the journal's rows would have made      *)
(* (JournalOutcomes), for all prices, plans and horizons; the stream       *)
(* (Fanout), for every set of sockets and any number of frames,            *)
(* connections, failures and restarts; and the panels of the pipeline      *)
(* (PipelinePanels), for any rows, terminals, hours and failures.          *)
(***************************************************************************)
EXTENDS MCRecord, SumTheorems, SequenceTheorems

(* The story of one id *)

EventType ==
    [kind : {"raw", "signal", "decision", "rejection", "journal", "trade"}, cid : Cids,
     by : {"", "engine", "sonnet"}, at : Nat]
InquiryType ==
    [pc : {"own", "journal", "rejection", "signal", "decision", "trade", "archive",
           "consuming", "answer", "over"},
     cid : Cids, link : Cids, of : SUBSET Deciders, asked : SUBSET EventType,
     signal : SUBSET EventType, decision : SUBSET EventType, trade : SUBSET EventType,
     origin : SUBSET EventType, own : SUBSET EventType, journal : SUBSET EventType,
     rejection : SUBSET EventType]

Asking == ~AtStep("none") /\ ~AtStep("over")
TraceTypeInv ==
    /\ traceClock \in Nat /\ happened \subseteq EventType /\ rows \subseteq happened
    /\ Asking => inquiry \in InquiryType /\ inquiry.asked \subseteq rows

(* A correlation id is that of one raw event *)
OneRaw ==
    \A e, f \in happened : e.kind = "raw" /\ f.kind = "raw" /\ e.cid = f.cid => e = f

NothingRead(q) == q.signal = {} /\ q.decision = {} /\ q.trade = {}
NothingAsked(q) ==
    /\ RowsOf(q.asked, "signal", q.cid) = {} /\ RowsOf(q.asked, "decision", q.cid) = {}
    /\ RowsOf(q.asked, "trade", q.cid) = {}

RejectionTold(q) == \A r \in q.rejection : r.cid = q.cid /\ q.own # {} /\ q.journal = {}

(* The id asked for is that of a pipeline ... *)
Direct(q) ==
    /\ q.link = q.cid /\ q.origin = {}
    /\ \A s \in q.signal : s.cid = q.cid
    /\ Found(q, "signal", q.cid, q.signal)

(* ... or that of a raw event which was found, with the analysis it led to *)
OriginFound(q) ==
    /\ \A e \in q.origin : e.kind = "raw" /\ e.cid = q.cid /\ e \in rows
    /\ RowsOf(q.asked, "raw", q.cid) \subseteq q.origin /\ q.origin # {}
Linked(q) ==
    /\ q.link # q.cid /\ OriginFound(q) /\ q.signal # {}
    /\ \A s \in q.signal : s.cid = q.link /\ \A e \in q.origin : InWindow(e, s)

DecisionRead(q) ==
    (\A d \in q.decision : d.cid = q.link) /\ Found(q, "decision", q.link, q.decision)
TradeRead(q) ==
    (\A d \in q.trade : d.cid = q.link) /\ Found(q, "trade", q.link, q.trade)

(* Of a raw event there is something of its id to show, or all there is to link *)
OriginTold(q) ==
    \A e \in RowsOf(q.asked, "raw", q.cid) :
        \/ \E x \in Chain(q) : x.cid = q.cid
        \/ e \in q.origin /\ ((\E s \in q.asked : InWindow(e, s)) => q.signal # {})

(* What a request has read, by its next statement *)
Before(q) == q.link = q.cid /\ q.origin = {} /\ NothingRead(q)
ReadSoFar(q) ==
    /\ q.pc = "own" => Before(q) /\ q.journal = {} /\ q.rejection = {}
    /\ q.pc = "journal" => Before(q) /\ q.rejection = {}
    /\ q.pc = "rejection" => Before(q) /\ q.own # {} /\ q.journal = {}
    /\ q.pc = "signal" => Before(q)
    /\ q.pc = "decision" => (Direct(q) \/ Linked(q)) /\ q.decision = {} /\ q.trade = {}
    /\ q.pc = "trade" => (Direct(q) \/ Linked(q)) /\ DecisionRead(q) /\ q.trade = {}
    /\ q.pc = "archive" => Before(q) /\ NothingAsked(q)
    /\ q.pc = "consuming" => q.link = q.cid /\ NothingRead(q) /\ NothingAsked(q) /\ OriginFound(q)
    /\ q.pc = "answer" =>
           /\ \A x \in Chain(q) : x.cid = q.link
           /\ q.link = q.cid \/ Linked(q)
           /\ Found(q, "signal", q.cid, q.signal) /\ DecisionRead(q) /\ TradeRead(q)
           /\ OriginTold(q) /\ \A e \in q.origin : e.cid = q.cid

StoryInv ==
    /\ TraceTypeInv /\ OneRaw /\ TellsOneStory
    /\ Asking => RejectionTold(inquiry) /\ ReadSoFar(inquiry)

-----------------------------------------------------------------------------
LEMMA StoryInitially == TraceInit => StoryInv
<1> SUFFICES ASSUME TraceInit
             PROVE  StoryInv
  OBVIOUS
<1>1. traceClock = 0 /\ told = {} /\ inquiry.pc = "none"
  BY DEF TraceInit, NoInquiry
<1>2. happened = {[kind |-> "raw", cid |-> c, by |-> "", at |-> 0] : c \in Cids}
  BY <1>1 DEF TraceInit, Event
<1>3. happened \subseteq EventType
  <2>1. \A c \in Cids : [kind |-> "raw", cid |-> c, by |-> "", at |-> 0] \in EventType
    BY DEF EventType
  <2> QED
    BY <1>2, <2>1
<1>4. OneRaw
  <2> SUFFICES ASSUME NEW e \in happened, NEW f \in happened, e.cid = f.cid
               PROVE  e = f
    BY DEF OneRaw
  <2>1. PICK c \in Cids : e = [kind |-> "raw", cid |-> c, by |-> "", at |-> 0]
    BY <1>2
  <2>2. PICK d \in Cids : f = [kind |-> "raw", cid |-> d, by |-> "", at |-> 0]
    BY <1>2
  <2>3. c = d
    BY <2>1, <2>2
  <2> QED
    BY <2>1, <2>2, <2>3
<1>5. ~Asking
  BY <1>1 DEF Asking, AtStep
<1>6. TraceTypeInv
  <2>1. rows = happened
    BY DEF TraceInit
  <2> QED
    BY <1>1, <1>3, <1>5, <2>1 DEF TraceTypeInv
<1>7. TellsOneStory
  BY <1>1 DEF TellsOneStory
<1> QED
  BY <1>4, <1>5, <1>6, <1>7 DEF StoryInv

(* A statement leads from one state of a request to the next *)
LEMMA GoesKeeps ==
    ASSUME StoryInv, NEW q \in InquiryType, Goes(q), q.asked \subseteq rows,
           q.pc # "over" => RejectionTold(q) /\ ReadSoFar(q)
    PROVE  StoryInv'
<1>1. inquiry' = q /\ traceClock' = traceClock /\ happened' = happened /\ rows' = rows
      /\ told' = told
  BY DEF Goes
<1>2. TraceTypeInv'
  BY <1>1 DEF StoryInv, TraceTypeInv
<1>3. OneRaw' /\ TellsOneStory'
  BY <1>1 DEF StoryInv, OneRaw, TellsOneStory
<1>4. RejectionTold(q)' <=> RejectionTold(q)
  BY DEF RejectionTold
<1>5. OriginFound(q)' <=> OriginFound(q)
  BY <1>1 DEF OriginFound
<1>6. Linked(q)' <=> Linked(q)
  BY <1>5 DEF Linked
<1>7. ReadSoFar(q)' <=> ReadSoFar(q)
  BY <1>5, <1>6 DEF ReadSoFar
<1>8. Asking' => RejectionTold(q)' /\ ReadSoFar(q)'
  BY <1>1, <1>4, <1>7 DEF Asking, AtStep
<1>9. Asking' => RejectionTold(inquiry)' /\ ReadSoFar(inquiry)'
  BY <1>1, <1>8, <1>5 DEF RejectionTold, ReadSoFar, Linked, OriginFound
<1> QED
  BY <1>2, <1>3, <1>9 DEF StoryInv

(* Rows there are, and a statement that finds those of an id finds what was *)
(* there when the request was made                                          *)
LEMMA AtRequest ==
    ASSUME StoryInv, ~AtStep("none"), ~AtStep("over")
    PROVE  /\ inquiry \in InquiryType /\ inquiry.asked \subseteq rows
           /\ rows \subseteq EventType /\ RejectionTold(inquiry) /\ ReadSoFar(inquiry)
BY DEF StoryInv, TraceTypeInv, Asking

LEMMA TableFinds ==
    ASSUME StoryInv, NEW k, NEW c
    PROVE  /\ Table(k, c) \subseteq EventType
           /\ \A e \in Table(k, c) : e.cid = c /\ e.kind = k /\ e \in rows
           /\ \A Q : Q \subseteq rows => RowsOf(Q, k, c) \subseteq Table(k, c)
           /\ \A S \in First(Table(k, c)) :
                 /\ S \subseteq Table(k, c)
                 /\ S = {} => Table(k, c) = {}
BY DEF StoryInv, TraceTypeInv, Table, RowsOf, First

LEMMA AsksKeep ==
    ASSUME StoryInv,
           NEW c \in Cids, AskTrace(c) \/ AskJournal(c) \/ \E by \in Deciders : AskExplain(c, by)
    PROVE  StoryInv'
<1>1. PICK pc \in {"signal", "own"}, of \in SUBSET Deciders : Goes(Inquiry(pc, c, of))
  BY DEF AskTrace, AskJournal, AskExplain
<1>2. PICK q : q = Inquiry(pc, c, of)
  OBVIOUS
<1>3. rows \subseteq EventType
  BY DEF StoryInv, TraceTypeInv
<1>4. q \in InquiryType
  BY <1>2, <1>3 DEF Inquiry, InquiryType
<1>5. /\ q.pc \in {"signal", "own"} /\ q.link = q.cid /\ q.asked = rows
      /\ q.signal = {} /\ q.decision = {} /\ q.trade = {} /\ q.origin = {}
      /\ q.journal = {} /\ q.rejection = {}
  BY <1>2 DEF Inquiry
<1>6. RejectionTold(q) /\ ReadSoFar(q)
  BY <1>5 DEF RejectionTold, ReadSoFar, Before, NothingRead
<1>7. Goes(q)
  BY <1>1, <1>2
<1> QED
  BY <1>4, <1>5, <1>6, <1>7, GoesKeeps

LEMMA ReadOwnKeeps ==
    ASSUME StoryInv, ReadOwn
    PROVE  StoryInv'
<1>1. inquiry.pc = "own"
  BY DEF ReadOwn, AtStep
<1>2. /\ inquiry \in InquiryType /\ inquiry.asked \subseteq rows
      /\ RejectionTold(inquiry) /\ ReadSoFar(inquiry)
  BY <1>1, AtRequest DEF AtStep
<1> DEFINE own == {e \in Table("decision", inquiry.cid) : e.by \in inquiry.of}
<1>3. PICK q : q = [inquiry EXCEPT !.pc = "journal", !.own = own]
  OBVIOUS
<1>4. Goes(q)
  BY <1>3 DEF ReadOwn
<1>5. own \subseteq EventType
  BY TableFinds
<1> HIDE DEF own
<1>6. q \in InquiryType
  BY <1>2, <1>3, <1>5 DEF InquiryType
<1>7. /\ q.pc = "journal" /\ q.asked = inquiry.asked /\ q.link = inquiry.link
      /\ q.cid = inquiry.cid /\ q.signal = inquiry.signal /\ q.decision = inquiry.decision
      /\ q.trade = inquiry.trade /\ q.origin = inquiry.origin
      /\ q.rejection = inquiry.rejection
  BY <1>2, <1>3 DEF InquiryType
<1>8. RejectionTold(q) /\ ReadSoFar(q)
  BY <1>1, <1>2, <1>7 DEF RejectionTold, ReadSoFar, Before, NothingRead
<1> QED
  BY <1>2, <1>4, <1>6, <1>7, <1>8, GoesKeeps

LEMMA ReadJournalRowKeeps ==
    ASSUME StoryInv, ReadJournalRow
    PROVE  StoryInv'
<1>1. inquiry.pc = "journal"
  BY DEF ReadJournalRow, AtStep
<1>2. /\ inquiry \in InquiryType /\ inquiry.asked \subseteq rows
      /\ RejectionTold(inquiry) /\ ReadSoFar(inquiry)
  BY <1>1, AtRequest DEF AtStep
<1>3. PICK rs, pc :
          /\ rs \subseteq Table("journal", inquiry.cid)
          /\ pc = IF rs \cup inquiry.own = {} THEN "over"
                  ELSE IF rs = {} THEN "rejection" ELSE "signal"
          /\ Goes([inquiry EXCEPT !.journal = rs, !.pc = pc])
  BY DEF ReadJournalRow
<1>4. PICK q : q = [inquiry EXCEPT !.journal = rs, !.pc = pc]
  OBVIOUS
<1>5. rs \subseteq EventType
  BY <1>3, TableFinds
<1>6. q \in InquiryType
  BY <1>2, <1>3, <1>4, <1>5 DEF InquiryType
<1>7. /\ q.pc = pc /\ q.journal = rs /\ q.asked = inquiry.asked /\ q.link = inquiry.link
      /\ q.cid = inquiry.cid /\ q.signal = inquiry.signal /\ q.decision = inquiry.decision
      /\ q.trade = inquiry.trade /\ q.origin = inquiry.origin
      /\ q.rejection = inquiry.rejection /\ q.own = inquiry.own
  BY <1>2, <1>4 DEF InquiryType
<1>8. RejectionTold(q) /\ ReadSoFar(q)
  <2>1. Before(q) /\ q.rejection = {} /\ pc \in {"over", "rejection", "signal"}
    BY <1>1, <1>2, <1>3, <1>7 DEF ReadSoFar, Before, NothingRead
  <2>2. pc = "rejection" => q.own # {} /\ q.journal = {}
    BY <1>3, <1>7
  <2> QED
    BY <1>7, <2>1, <2>2 DEF RejectionTold, ReadSoFar
<1> QED
  BY <1>2, <1>3, <1>4, <1>6, <1>7, <1>8, GoesKeeps

LEMMA ReadRejectionKeeps ==
    ASSUME StoryInv, ReadRejection
    PROVE  StoryInv'
<1>1. inquiry.pc = "rejection"
  BY DEF ReadRejection, AtStep
<1>2. /\ inquiry \in InquiryType /\ inquiry.asked \subseteq rows /\ ReadSoFar(inquiry)
  BY <1>1, AtRequest DEF AtStep
<1>3. PICK rs \in First(Table("rejection", inquiry.cid)) :
          Goes([inquiry EXCEPT !.pc = "signal", !.rejection = rs])
  BY DEF ReadRejection
<1>4. PICK q : q = [inquiry EXCEPT !.pc = "signal", !.rejection = rs]
  OBVIOUS
<1>5. rs \subseteq EventType /\ \A e \in rs : e.cid = inquiry.cid
  BY TableFinds
<1>6. q \in InquiryType
  BY <1>2, <1>4, <1>5 DEF InquiryType
<1>7. /\ q.pc = "signal" /\ q.rejection = rs /\ q.asked = inquiry.asked
      /\ q.link = inquiry.link /\ q.cid = inquiry.cid /\ q.signal = inquiry.signal
      /\ q.decision = inquiry.decision /\ q.trade = inquiry.trade
      /\ q.origin = inquiry.origin /\ q.own = inquiry.own /\ q.journal = inquiry.journal
  BY <1>2, <1>4 DEF InquiryType
<1>8. RejectionTold(q) /\ ReadSoFar(q)
  <2>1. Before(q) /\ q.own # {} /\ q.journal = {}
    BY <1>1, <1>2, <1>7 DEF ReadSoFar, Before, NothingRead
  <2> QED
    BY <1>5, <1>7, <2>1 DEF RejectionTold, ReadSoFar
<1> QED
  BY <1>2, <1>3, <1>4, <1>6, <1>7, <1>8, GoesKeeps

LEMMA ReadSignalRowKeeps ==
    ASSUME StoryInv, ReadSignalRow
    PROVE  StoryInv'
<1>1. inquiry.pc = "signal"
  BY DEF ReadSignalRow, AtStep
<1>2. /\ inquiry \in InquiryType /\ inquiry.asked \subseteq rows
      /\ RejectionTold(inquiry) /\ ReadSoFar(inquiry)
  BY <1>1, AtRequest DEF AtStep
<1>3. PICK rs : rs = Table("signal", inquiry.cid)
  OBVIOUS
<1>4. PICK q : q = [inquiry EXCEPT !.pc = "decision", !.signal = rs]
  OBVIOUS
<1>5. Goes(q)
  BY <1>3, <1>4 DEF ReadSignalRow
<1>6. /\ rs \subseteq EventType /\ \A e \in rs : e.cid = inquiry.cid
      /\ RowsOf(inquiry.asked, "signal", inquiry.cid) \subseteq rs
  BY <1>2, <1>3, TableFinds
<1>7. q \in InquiryType
  BY <1>2, <1>4, <1>6 DEF InquiryType
<1>8. /\ q.pc = "decision" /\ q.signal = rs /\ q.asked = inquiry.asked
      /\ q.link = inquiry.link /\ q.cid = inquiry.cid /\ q.rejection = inquiry.rejection
      /\ q.decision = inquiry.decision /\ q.trade = inquiry.trade
      /\ q.origin = inquiry.origin /\ q.own = inquiry.own /\ q.journal = inquiry.journal
  BY <1>2, <1>4 DEF InquiryType
<1>9. RejectionTold(q)
  BY <1>2, <1>8 DEF RejectionTold
<1>10. Direct(q) /\ q.decision = {} /\ q.trade = {}
  <2>1. Before(inquiry)
    BY <1>1, <1>2 DEF ReadSoFar
  <2>2. Found(q, "signal", q.cid, q.signal)
    BY <1>6, <1>8 DEF Found
  <2> QED
    BY <1>6, <1>8, <2>1, <2>2 DEF Direct, Before, NothingRead
<1>11. ReadSoFar(q)
  BY <1>8, <1>10 DEF ReadSoFar
<1> QED
  BY <1>2, <1>5, <1>7, <1>8, <1>9, <1>11, GoesKeeps

(* What kind of request it is does not depend on the rows read after that   *)
LEMMA SameRequest ==
    ASSUME NEW p, NEW q, Direct(p) \/ Linked(p),
           q.link = p.link, q.cid = p.cid, q.asked = p.asked, q.origin = p.origin,
           q.signal = p.signal
    PROVE  (Direct(p) => Direct(q)) /\ (Linked(p) => Linked(q))
BY DEF Direct, Linked, OriginFound, Found

LEMMA ReadDecisionRowKeeps ==
    ASSUME StoryInv, ReadDecisionRow
    PROVE  StoryInv'
<1>1. inquiry.pc = "decision"
  BY DEF ReadDecisionRow, AtStep
<1>2. /\ inquiry \in InquiryType /\ inquiry.asked \subseteq rows
      /\ RejectionTold(inquiry) /\ ReadSoFar(inquiry)
  BY <1>1, AtRequest DEF AtStep
<1>3. PICK rs \in First(Table("decision", inquiry.link)) :
          Goes([inquiry EXCEPT !.pc = "trade", !.decision = rs])
  BY DEF ReadDecisionRow
<1>4. PICK q : q = [inquiry EXCEPT !.pc = "trade", !.decision = rs]
  OBVIOUS
<1>5. /\ rs \subseteq EventType /\ \A e \in rs : e.cid = inquiry.link
      /\ RowsOf(inquiry.asked, "decision", inquiry.link) # {} => rs # {}
  BY <1>2, TableFinds
<1>6. q \in InquiryType
  BY <1>2, <1>4, <1>5 DEF InquiryType
<1>7. /\ q.pc = "trade" /\ q.decision = rs /\ q.asked = inquiry.asked
      /\ q.link = inquiry.link /\ q.cid = inquiry.cid /\ q.rejection = inquiry.rejection
      /\ q.signal = inquiry.signal /\ q.trade = inquiry.trade
      /\ q.origin = inquiry.origin /\ q.own = inquiry.own /\ q.journal = inquiry.journal
  BY <1>2, <1>4 DEF InquiryType
<1>8. RejectionTold(q)
  BY <1>2, <1>7 DEF RejectionTold
<1>9. (Direct(inquiry) \/ Linked(inquiry)) /\ inquiry.trade = {}
  BY <1>1, <1>2 DEF ReadSoFar
<1>10. Direct(q) \/ Linked(q)
  BY <1>7, <1>9, SameRequest
<1>11. DecisionRead(q)
  BY <1>5, <1>7 DEF DecisionRead, Found
<1>12. ReadSoFar(q)
  BY <1>7, <1>9, <1>10, <1>11 DEF ReadSoFar
<1> QED
  BY <1>2, <1>3, <1>4, <1>6, <1>7, <1>8, <1>12, GoesKeeps

(* A request that has found a row of its id, or was linked, can be answered *)
LEMMA ReadTradeRowKeeps ==
    ASSUME StoryInv, ReadTradeRow
    PROVE  StoryInv'
<1>1. inquiry.pc = "trade"
  BY DEF ReadTradeRow, AtStep
<1>2. /\ inquiry \in InquiryType /\ inquiry.asked \subseteq rows
      /\ RejectionTold(inquiry) /\ ReadSoFar(inquiry)
  BY <1>1, AtRequest DEF AtStep
<1>3. PICK rs, pc :
          /\ rs \in First(Table("trade", inquiry.link))
          /\ pc = IF inquiry.signal \cup inquiry.decision \cup rs \cup inquiry.origin = {}
                  THEN "archive" ELSE "answer"
          /\ Goes([inquiry EXCEPT !.trade = rs, !.pc = pc])
  BY DEF ReadTradeRow
<1>4. PICK q : q = [inquiry EXCEPT !.trade = rs, !.pc = pc]
  OBVIOUS
<1>5. /\ rs \subseteq EventType /\ \A e \in rs : e.cid = inquiry.link
      /\ RowsOf(inquiry.asked, "trade", inquiry.link) # {} => rs # {}
  BY <1>2, <1>3, TableFinds
<1>6. q \in InquiryType
  BY <1>2, <1>3, <1>4, <1>5 DEF InquiryType
<1>7. /\ q.pc = pc /\ q.trade = rs /\ q.asked = inquiry.asked
      /\ q.link = inquiry.link /\ q.cid = inquiry.cid /\ q.rejection = inquiry.rejection
      /\ q.signal = inquiry.signal /\ q.decision = inquiry.decision
      /\ q.origin = inquiry.origin /\ q.own = inquiry.own /\ q.journal = inquiry.journal
  BY <1>2, <1>4 DEF InquiryType
<1>8. RejectionTold(q)
  BY <1>2, <1>7 DEF RejectionTold
<1>9. (Direct(inquiry) \/ Linked(inquiry)) /\ DecisionRead(inquiry)
  BY <1>1, <1>2 DEF ReadSoFar
<1>10. Direct(q) \/ Linked(q)
  BY <1>7, <1>9, SameRequest
<1>11. DecisionRead(q) /\ TradeRead(q)
  BY <1>5, <1>7, <1>9 DEF DecisionRead, TradeRead, Found
<1>12. CASE pc = "archive"
  <2>1. q.signal = {} /\ q.decision = {} /\ q.trade = {} /\ q.origin = {}
    BY <1>3, <1>7, <1>12
  <2>2. Direct(q)
    BY <1>10, <2>1 DEF Linked
  <2>3. Before(q) /\ NothingAsked(q)
    BY <1>11, <2>1, <2>2
       DEF Direct, Before, NothingRead, NothingAsked, DecisionRead, TradeRead, Found
  <2>4. ReadSoFar(q)
    BY <1>7, <1>12, <2>3 DEF ReadSoFar
  <2> QED
    BY <1>2, <1>3, <1>4, <1>6, <1>7, <1>8, <2>4, GoesKeeps
<1>13. CASE pc = "answer"
  <2>1. \A x \in Chain(q) : x.cid = q.link
    BY <1>10, <1>11 DEF Chain, DecisionRead, TradeRead, Direct, Linked
  <2>2. q.link = q.cid \/ Linked(q)
    BY <1>10 DEF Direct
  <2>3. Found(q, "signal", q.cid, q.signal)
    BY <1>10 DEF Direct, Linked, Found
  <2>4. OriginTold(q)
    <3>1. CASE Direct(q)
      <4>1. q.origin = {} /\ q.link = q.cid
        BY <3>1 DEF Direct
      <4>2. Chain(q) # {}
        BY <1>3, <1>7, <1>13, <4>1 DEF Chain
      <4> QED
        BY <2>1, <4>1, <4>2 DEF OriginTold
    <3>2. CASE Linked(q)
      BY <3>2 DEF OriginTold, Linked, OriginFound
    <3> QED
      BY <1>10, <3>1, <3>2
  <2>5. \A e \in q.origin : e.cid = q.cid
    BY <1>10 DEF Direct, Linked, OriginFound
  <2>6. ReadSoFar(q)
    BY <1>7, <1>11, <1>13, <2>1, <2>2, <2>3, <2>4, <2>5 DEF ReadSoFar
  <2> QED
    BY <1>2, <1>3, <1>4, <1>6, <1>7, <1>8, <2>6, GoesKeeps
<1> QED
  BY <1>3, <1>12, <1>13

LEMMA ReadArchiveKeeps ==
    ASSUME StoryInv, ReadArchive
    PROVE  StoryInv'
<1>1. inquiry.pc = "archive"
  BY DEF ReadArchive, AtStep
<1>2. /\ inquiry \in InquiryType /\ inquiry.asked \subseteq rows
      /\ RejectionTold(inquiry) /\ ReadSoFar(inquiry)
  BY <1>1, AtRequest DEF AtStep
<1>3. PICK rs, pc : /\ rs = Table("raw", inquiry.cid)
                    /\ pc = IF rs = {} THEN "answer" ELSE "consuming"
                    /\ Goes([inquiry EXCEPT !.origin = rs, !.pc = pc])
  BY DEF ReadArchive
<1>4. PICK q : q = [inquiry EXCEPT !.origin = rs, !.pc = pc]
  OBVIOUS
<1>5. /\ rs \subseteq EventType
      /\ \A e \in rs : e.cid = inquiry.cid /\ e.kind = "raw" /\ e \in rows
      /\ RowsOf(inquiry.asked, "raw", inquiry.cid) \subseteq rs
  BY <1>2, <1>3, TableFinds
<1>6. q \in InquiryType
  BY <1>2, <1>3, <1>4, <1>5 DEF InquiryType
<1>7. /\ q.pc = pc /\ q.origin = rs /\ q.asked = inquiry.asked
      /\ q.link = inquiry.link /\ q.cid = inquiry.cid /\ q.rejection = inquiry.rejection
      /\ q.signal = inquiry.signal /\ q.decision = inquiry.decision
      /\ q.trade = inquiry.trade /\ q.own = inquiry.own /\ q.journal = inquiry.journal
  BY <1>2, <1>4 DEF InquiryType
<1>8. RejectionTold(q)
  BY <1>2, <1>7 DEF RejectionTold
<1>9. q.link = q.cid /\ NothingRead(q) /\ NothingAsked(q)
  BY <1>1, <1>2, <1>7 DEF ReadSoFar, Before, NothingRead, NothingAsked
<1>10. CASE rs # {}
  <2>1. OriginFound(q)
    BY <1>5, <1>7, <1>10 DEF OriginFound
  <2>2. ReadSoFar(q)
    BY <1>3, <1>7, <1>9, <1>10, <2>1 DEF ReadSoFar
  <2> QED
    BY <1>2, <1>3, <1>4, <1>6, <1>7, <1>8, <2>2, GoesKeeps
<1>11. CASE rs = {}
  <2>1. RowsOf(q.asked, "raw", q.cid) = {} /\ q.origin = {}
    BY <1>5, <1>7, <1>11
  <2>2. Found(q, "signal", q.cid, q.signal) /\ DecisionRead(q) /\ TradeRead(q)
    BY <1>9 DEF Found, DecisionRead, TradeRead, NothingRead, NothingAsked
  <2>3. (\A x \in Chain(q) : x.cid = q.link) /\ OriginTold(q)
    BY <1>9, <2>1 DEF Chain, NothingRead, OriginTold
  <2>4. ReadSoFar(q)
    BY <1>3, <1>7, <1>9, <1>11, <2>1, <2>2, <2>3 DEF ReadSoFar
  <2> QED
    BY <1>2, <1>3, <1>4, <1>6, <1>7, <1>8, <2>4, GoesKeeps
<1> QED
  BY <1>10, <1>11

(* A set of numbers has a smallest one *)
LEMMA SmallestIsThere ==
    ASSUME NEW Q, Q \subseteq Nat, Q # {}
    PROVE  \E x \in Q : \A y \in Q : x <= y
<1>1. \E x \in Q : \A y \in Q : ~(<<y, x>> \in OpToRel(<, Nat))
  BY NatLessThanWellFounded, WFMin
<1>2. \A x, y \in Q : <<y, x>> \in OpToRel(<, Nat) <=> y < x
  BY DEF OpToRel
<1>3. PICK x \in Q : \A y \in Q : ~(y < x)
  BY <1>1, <1>2
<1> QED
  BY <1>3

(* An event that has an analysis within its window is linked to a first one *)
LEMMA ConsumingFinds ==
    ASSUME StoryInv, NEW e, NEW s \in rows, InWindow(e, s)
    PROVE  Consuming(e) # {}
<1> DEFINE near == {r \in rows : InWindow(e, r)}
           Q == {r.at : r \in near}
<1>1. \A r \in near : r.at \in Nat
  <2>1. \A r \in rows : r \in EventType
    BY DEF StoryInv, TraceTypeInv
  <2> QED
    BY <2>1 DEF EventType
<1>2. Q \subseteq Nat /\ s.at \in Q
  BY <1>1
<1> HIDE DEF Q
<1>3. PICK x \in Q : \A y \in Q : x <= y
  BY <1>2, SmallestIsThere
<1>4. PICK r \in near : r.at = x
  BY DEF Q
<1>5. \A u \in near : r.at <= u.at
  BY <1>3, <1>4 DEF Q
<1> QED
  BY <1>4, <1>5 DEF Consuming

(* The raw event found is the one of its id *)
LEMMA OriginIsOne ==
    ASSUME StoryInv, NEW q, OriginFound(q), NEW e \in q.origin, NEW f \in q.origin
    PROVE  e = f
BY DEF StoryInv, TraceTypeInv, OneRaw, OriginFound

LEMMA ReadConsumingKeeps ==
    ASSUME StoryInv, ReadConsuming
    PROVE  StoryInv'
<1>1. inquiry.pc = "consuming"
  BY DEF ReadConsuming, AtStep
<1>2. /\ inquiry \in InquiryType /\ inquiry.asked \subseteq rows /\ rows \subseteq EventType
      /\ RejectionTold(inquiry) /\ ReadSoFar(inquiry)
  BY <1>1, AtRequest DEF AtStep
<1>3. /\ inquiry.link = inquiry.cid /\ NothingRead(inquiry) /\ NothingAsked(inquiry)
      /\ OriginFound(inquiry)
  BY <1>1, <1>2 DEF ReadSoFar
<1>4. PICK e \in inquiry.origin :
          \/ Consuming(e) = {} /\ Goes([inquiry EXCEPT !.pc = "answer"])
          \/ \E s \in Consuming(e) :
                Goes([inquiry EXCEPT
                         !.signal = {s}, !.link = s.cid,
                         !.pc = IF s.cid = inquiry.cid THEN "answer" ELSE "decision"])
  BY DEF ReadConsuming
<1>5. \A f \in inquiry.origin : f = e
  BY <1>3, OriginIsOne
<1>6. CASE Consuming(e) = {} /\ Goes([inquiry EXCEPT !.pc = "answer"])
  <2>1. PICK q : q = [inquiry EXCEPT !.pc = "answer"]
    OBVIOUS
  <2>2. q \in InquiryType
    BY <1>2, <2>1 DEF InquiryType
  <2>3. /\ q.pc = "answer" /\ q.origin = inquiry.origin /\ q.asked = inquiry.asked
        /\ q.link = inquiry.link /\ q.cid = inquiry.cid /\ q.rejection = inquiry.rejection
        /\ q.signal = inquiry.signal /\ q.decision = inquiry.decision
        /\ q.trade = inquiry.trade /\ q.own = inquiry.own /\ q.journal = inquiry.journal
    BY <1>2, <2>1 DEF InquiryType
  <2>4. RejectionTold(q)
    BY <1>2, <2>3 DEF RejectionTold
  <2>5. Found(q, "signal", q.cid, q.signal) /\ DecisionRead(q) /\ TradeRead(q)
    BY <1>3, <2>3 DEF Found, DecisionRead, TradeRead, NothingRead, NothingAsked
  <2>6. \A x \in Chain(q) : x.cid = q.link
    BY <1>3, <2>3 DEF Chain, NothingRead
  <2>7. \A s \in q.asked : ~InWindow(e, s)
    BY <1>2, <1>6, <2>3, ConsumingFinds
  <2>8. RowsOf(q.asked, "raw", q.cid) \subseteq {e}
    BY <1>3, <1>5, <2>3 DEF OriginFound
  <2>9. OriginTold(q)
    BY <2>3, <2>7, <2>8 DEF OriginTold
  <2>10. ReadSoFar(q)
    BY <1>3, <2>3, <2>5, <2>6, <2>9 DEF ReadSoFar, OriginFound
  <2> QED
    BY <1>2, <1>6, <2>1, <2>2, <2>3, <2>4, <2>10, GoesKeeps
<1>7. ASSUME NEW s \in Consuming(e), NEW pc,
             pc = IF s.cid = inquiry.cid THEN "answer" ELSE "decision",
             Goes([inquiry EXCEPT !.signal = {s}, !.link = s.cid, !.pc = pc])
      PROVE  StoryInv'
  <2>1. PICK q : q = [inquiry EXCEPT !.signal = {s}, !.link = s.cid, !.pc = pc]
    OBVIOUS
  <2>2. s \in rows /\ InWindow(e, s) /\ s \in EventType /\ s.cid \in Cids
    <3>1. s \in rows /\ InWindow(e, s)
      BY DEF Consuming
    <3> QED
      BY <1>2, <3>1 DEF EventType
  <2>3. q \in InquiryType
    BY <1>2, <1>7, <2>1, <2>2 DEF InquiryType
  <2>4. /\ q.pc = pc /\ q.origin = inquiry.origin /\ q.asked = inquiry.asked
        /\ q.link = s.cid /\ q.cid = inquiry.cid /\ q.rejection = inquiry.rejection
        /\ q.signal = {s} /\ q.decision = inquiry.decision
        /\ q.trade = inquiry.trade /\ q.own = inquiry.own /\ q.journal = inquiry.journal
    BY <1>2, <2>1 DEF InquiryType
  <2>5. RejectionTold(q)
    BY <1>2, <2>4 DEF RejectionTold
  <2>6. OriginFound(q) /\ q.decision = {} /\ q.trade = {}
    BY <1>3, <2>4 DEF OriginFound, NothingRead
  <2>7. CASE s.cid = inquiry.cid
    <3>1. Found(q, "signal", q.cid, q.signal) /\ DecisionRead(q) /\ TradeRead(q)
      BY <1>3, <2>4, <2>6, <2>7 DEF Found, DecisionRead, TradeRead, NothingAsked
    <3>2. s \in Chain(q) /\ \A x \in Chain(q) : x = s
      BY <2>4, <2>6 DEF Chain
    <3>3. (\A x \in Chain(q) : x.cid = q.link) /\ OriginTold(q)
      BY <2>4, <2>7, <3>2 DEF OriginTold
    <3>4. ReadSoFar(q)
      BY <1>7, <2>4, <2>6, <2>7, <3>1, <3>3 DEF ReadSoFar, OriginFound
    <3> QED
      BY <1>2, <1>7, <2>1, <2>3, <2>4, <2>5, <3>4, GoesKeeps
  <2>8. CASE s.cid # inquiry.cid
    <3>1. Linked(q)
      BY <1>5, <2>2, <2>4, <2>6, <2>8 DEF Linked
    <3>2. ReadSoFar(q)
      BY <1>7, <2>4, <2>6, <2>8, <3>1 DEF ReadSoFar
    <3> QED
      BY <1>2, <1>7, <2>1, <2>3, <2>4, <2>5, <3>2, GoesKeeps
  <2> QED
    BY <2>7, <2>8
<1> QED
  BY <1>4, <1>6, <1>7

(* The answer: what the request has read, and what is shown of it *)
LEMMA AnswerKeeps ==
    ASSUME StoryInv, Answer
    PROVE  StoryInv'
<1>1. inquiry.pc = "answer"
  BY DEF Answer, AtStep
<1>2. /\ inquiry \in InquiryType /\ RejectionTold(inquiry) /\ ReadSoFar(inquiry)
  BY <1>1, AtRequest DEF AtStep
<1>3. PICK q, t : /\ q = inquiry /\ told' = {t}
                  /\ t = [inquiry |-> q, stages |-> Reached, inferred |-> Inferred]
  BY DEF Answer
<1>4. /\ \A x \in Chain(q) : x.cid = q.link
      /\ q.link = q.cid \/ Linked(q)
      /\ Found(q, "signal", q.cid, q.signal) /\ DecisionRead(q) /\ TradeRead(q)
      /\ OriginTold(q) /\ \A e \in q.origin : e.cid = q.cid
  BY <1>1, <1>2, <1>3 DEF ReadSoFar
<1>5. t.inquiry = q /\ t.stages = Reached /\ t.inferred = Inferred
  BY <1>3
<1>6. q.link # q.cid => t.inferred /\ \A e \in q.origin, s \in q.signal : InWindow(e, s)
  BY <1>3, <1>4, <1>5 DEF Inferred, Linked, OriginFound
<1>7. ASSUME NEW e \in q.origin
      PROVE  Raw[q.cid].stage \subseteq t.stages
  <2>1. e.cid = q.cid /\ q.cid \in Cids
    BY <1>2, <1>3, <1>4 DEF InquiryType
  <2>2. Raw[q.cid].stage \subseteq {"price", "sentiment"}
    BY <2>1, TraceAssumption DEF Cids
  <2>3. \A s \in Raw[q.cid].stage : WasMeasured(s)
    BY <1>3, <2>1 DEF WasMeasured
  <2> QED
    BY <1>5, <2>2, <2>3 DEF Reached
<1>8. \A e \in RowsOf(q.asked, "raw", q.cid) :
          \/ \E x \in Chain(q) : x.cid = q.cid
          \/ /\ Raw[q.cid].stage \subseteq t.stages
             /\ {s \in q.asked : InWindow(e, s)} # {} => q.signal # {}
  BY <1>4, <1>7 DEF OriginTold
<1>9. \A r \in q.rejection : r.cid = q.cid /\ q.own # {} /\ q.journal = {}
  BY <1>2, <1>3 DEF RejectionTold
<1>10. Found(q, "decision", q.link, q.decision) /\ Found(q, "trade", q.link, q.trade)
  BY <1>4 DEF DecisionRead, TradeRead
<1>11. TellsOneStory'
  <2>1. \A u \in told' : u = t
    BY <1>3
  <2> QED
    BY <1>4, <1>5, <1>6, <1>8, <1>9, <1>10, <2>1 DEF TellsOneStory
<1>12. /\ UNCHANGED <<traceClock, happened, rows>> /\ inquiry' = NoInquiry("over")
  BY DEF Answer
<1>13. ~Asking'
  BY <1>12 DEF Asking, AtStep, NoInquiry
<1>14. TraceTypeInv' /\ OneRaw'
  BY <1>12, <1>13 DEF StoryInv, TraceTypeInv, OneRaw
<1> QED
  BY <1>11, <1>13, <1>14 DEF StoryInv

(* While nothing is asked, events are published *)
LEMMA EmitKeeps ==
    ASSUME StoryInv,
           NEW kind \in {"signal", "decision", "rejection", "journal", "trade"},
           NEW c \in Cids, NEW by \in {"", "engine", "sonnet"}, Emit(kind, c, by)
    PROVE  StoryInv'
<1>1. PICK e : e = Event(kind, c, by)
  OBVIOUS
<1>2. /\ happened' = happened \cup {e} /\ UNCHANGED <<traceClock, rows, inquiry, told>>
      /\ inquiry.pc = "none"
  BY <1>1 DEF Emit, AtStep
<1>3. traceClock \in Nat
  BY DEF StoryInv, TraceTypeInv
<1>4. e \in EventType /\ e.kind # "raw"
  BY <1>1, <1>3 DEF Event, EventType
<1>5. ~Asking'
  BY <1>2 DEF Asking, AtStep
<1>6. TraceTypeInv'
  BY <1>2, <1>4, <1>5 DEF StoryInv, TraceTypeInv
<1>7. OneRaw'
  BY <1>2, <1>4 DEF StoryInv, OneRaw
<1>8. TellsOneStory'
  BY <1>2 DEF StoryInv, TellsOneStory
<1> QED
  BY <1>5, <1>6, <1>7, <1>8 DEF StoryInv

LEMMA PipelineKeeps ==
    ASSUME StoryInv,
           NEW c \in Cids,
           \/ Analyse(c) \/ Score(c) \/ Validate(c) \/ JournalEntry(c)
           \/ \E by \in Deciders : Judge(c, by)
    PROVE  StoryInv'
<1>1. PICK kind \in {"signal", "decision", "rejection", "journal", "trade"},
           by \in {"", "engine", "sonnet"} : Emit(kind, c, by)
  BY DEF Analyse, Score, Validate, JournalEntry, Judge, Deciders
<1> QED
  BY <1>1, EmitKeeps

LEMMA StoreRowKeeps ==
    ASSUME StoryInv, StoreRow
    PROVE  StoryInv'
<1>1. PICK e \in happened : rows' = rows \cup {e}
  BY DEF StoreRow
<1>2. UNCHANGED <<traceClock, happened, inquiry, told>>
  BY DEF StoreRow
<1>3. PICK q : q = inquiry
  OBVIOUS
<1>4. OriginFound(q) => OriginFound(q)'
  BY <1>1 DEF OriginFound
<1>5. Linked(q) => Linked(q)'
  BY <1>4 DEF Linked
<1>6. ReadSoFar(q) => ReadSoFar(q)'
  BY <1>4, <1>5 DEF ReadSoFar
<1>7. TraceTypeInv' /\ OneRaw'
  BY <1>1, <1>2 DEF StoryInv, TraceTypeInv, OneRaw, Asking, AtStep
<1>8. TellsOneStory'
  BY <1>2 DEF StoryInv, TellsOneStory
<1>9. ASSUME Asking'
      PROVE  RejectionTold(inquiry)' /\ ReadSoFar(inquiry)'
  <2>1. RejectionTold(q) /\ ReadSoFar(q)
    BY <1>2, <1>3, <1>9 DEF StoryInv, Asking, AtStep
  <2>2. RejectionTold(q)' /\ ReadSoFar(q)' /\ inquiry' = q
    BY <1>2, <1>3, <1>6, <2>1 DEF RejectionTold
  <2> QED
    BY <2>2 DEF RejectionTold, ReadSoFar, Linked, OriginFound
<1> QED
  BY <1>7, <1>8, <1>9 DEF StoryInv

LEMMA StoryStep == StoryInv /\ [TraceNext]_traceVars => StoryInv'
<1> SUFFICES ASSUME StoryInv, [TraceNext]_traceVars
             PROVE  StoryInv'
  OBVIOUS
<1>1. CASE TraceTick
  <2>1. /\ traceClock' = traceClock + 1 /\ UNCHANGED <<happened, rows, inquiry, told>>
        /\ inquiry.pc = "none"
    BY <1>1 DEF TraceTick, AtStep
  <2>2. ~Asking'
    BY <2>1 DEF Asking, AtStep
  <2>3. TraceTypeInv' /\ OneRaw'
    BY <2>1, <2>2 DEF StoryInv, TraceTypeInv, OneRaw
  <2>4. TellsOneStory'
    BY <2>1 DEF StoryInv, TellsOneStory
  <2> QED
    BY <2>2, <2>3, <2>4 DEF StoryInv
<1>2. CASE StoreRow
  BY <1>2, StoreRowKeeps
<1>3. ASSUME NEW c \in Cids,
             \/ Analyse(c) \/ Score(c) \/ Validate(c) \/ JournalEntry(c)
             \/ \E by \in Deciders : Judge(c, by)
      PROVE  StoryInv'
  BY <1>3, PipelineKeeps
<1>4. ASSUME NEW c \in Cids,
             AskTrace(c) \/ AskJournal(c) \/ \E by \in Deciders : AskExplain(c, by)
      PROVE  StoryInv'
  BY <1>4, AsksKeep
<1>5. CASE \/ ReadOwn \/ ReadJournalRow \/ ReadRejection \/ ReadSignalRow
           \/ ReadDecisionRow \/ ReadTradeRow \/ ReadArchive \/ ReadConsuming \/ Answer
  BY <1>5, ReadOwnKeeps, ReadJournalRowKeeps, ReadRejectionKeeps, ReadSignalRowKeeps,
     ReadDecisionRowKeeps, ReadTradeRowKeeps, ReadArchiveKeeps, ReadConsumingKeeps, AnswerKeeps
<1>6. CASE UNCHANGED traceVars
  <2>1. UNCHANGED <<traceClock, happened, rows, inquiry, told>>
    BY <1>6 DEF traceVars
  <2>2. TraceTypeInv' /\ OneRaw'
    BY <2>1 DEF StoryInv, TraceTypeInv, OneRaw, Asking, AtStep
  <2>3. TellsOneStory'
    BY <2>1 DEF StoryInv, TellsOneStory
  <2>4. ASSUME Asking'
        PROVE  RejectionTold(inquiry)' /\ ReadSoFar(inquiry)'
    <3>1. RejectionTold(inquiry) /\ ReadSoFar(inquiry)
      BY <2>1, <2>4 DEF StoryInv, Asking, AtStep
    <3> QED
      BY <2>1, <3>1 DEF RejectionTold, ReadSoFar, Linked, OriginFound
  <2> QED
    BY <2>2, <2>3, <2>4 DEF StoryInv
<1> QED
  BY <1>1, <1>2, <1>3, <1>4, <1>5, <1>6 DEF TraceNext, Pipeline, Telling

(* An answer of /trace or /explain tells one story, and all of it that was  *)
(* stored when it was asked for, whatever is stored between its statements  *)
(* (read_api.py, explain.py).                                               *)
THEOREM OneStoryIsTold == TraceSpec => []TellsOneStory
<1>1. TraceInit => StoryInv
  BY StoryInitially
<1>2. StoryInv /\ [TraceNext]_traceVars => StoryInv'
  BY StoryStep
<1>3. StoryInv => TellsOneStory
  BY DEF StoryInv
<1> QED
  BY <1>1, <1>2, <1>3, PTL DEF TraceSpec

-----------------------------------------------------------------------------
(* What the journal's rows would have made *)

(* The path of a row up to a time, and the time that settles its position   *)
Touches(noted, t) == Touch(noted.plan, The(price[t]))
SettledAt(noted, horizon, o, t) ==
    /\ noted.plan.levels # {}
    /\ t \in Path(noted, horizon) /\ Touches(noted, t) = {o} /\ o # "horizon"
    /\ \A u \in Path(noted, horizon) : u < t => Touches(noted, u) = {}

OutcomesIn(S) == {o.outcome : o \in S}
OutcomesOf(noted, horizon) == OutcomesIn(Outcome(noted, horizon))

(* What was said of a row and is not a matter of the horizon was settled    *)
OutcomeInv ==
    /\ minute \in Nat /\ DOMAIN price = 0..minute
    /\ entries \in Seq([at : Nat, plan : Plans])
    /\ \A k \in DOMAIN said :
          /\ k[1] \in JournalRows /\ k[2] \in Horizons
          /\ \A o \in said[k] : o # "horizon" =>
                /\ said[k] = {o}
                /\ \E t \in Nat : SettledAt(entries[k[1]], k[2], o, t)

LEMMA TouchIsOne ==
    ASSUME NEW plan, NEW p
    PROVE  Touch(plan, p) \in {{}, {"stop_loss"}, {"take_profit"}}
<1> DEFINE l == The(plan.levels)
<1>1. CASE (Long(plan) /\ p <= l.stop) \/ (~Long(plan) /\ p >= l.stop)
  BY <1>1 DEF Touch
<1>2. CASE /\ ~((Long(plan) /\ p <= l.stop) \/ (~Long(plan) /\ p >= l.stop))
           /\ (Long(plan) /\ p >= l.target) \/ (~Long(plan) /\ p <= l.target)
  BY <1>2 DEF Touch
<1>3. CASE /\ ~((Long(plan) /\ p <= l.stop) \/ (~Long(plan) /\ p >= l.stop))
           /\ ~((Long(plan) /\ p >= l.target) \/ (~Long(plan) /\ p <= l.target))
  BY <1>3 DEF Touch
<1> QED
  BY <1>1, <1>2, <1>3

LEMMA SettleSays ==
    ASSUME NEW plan, NEW p, NEW o
    PROVE  \E pnl : Settle(plan, p, o) = {[outcome |-> o, pnl |-> pnl]}
<1> DEFINE entry == The(plan.levels).entry
           move == ((p - entry) * 10000) \div entry
           pnl == (IF Long(plan) THEN move ELSE -move) - 2 * Fee
<1>1. Settle(plan, p, o) = {[outcome |-> o, pnl |-> pnl]}
  BY DEF Settle
<1> HIDE DEF pnl
<1> QED
  BY <1>1

(* The walk along a path ends at the first price that touches a level       *)
LEMMA WalkEndsAtFirst ==
    ASSUME NEW plan, NEW path \in SUBSET Nat, NEW t \in path, NEW o,
           Touch(plan, The(price[t])) = {o},
           \A u \in path : u < t => Touch(plan, The(price[u])) = {}
    PROVE  OutcomesIn(SimulatePath(plan, path)) = {o}
<1> DEFINE touched == {u \in path : Touch(plan, The(price[u])) # {}}
<1>1. t \in touched /\ \A u \in touched : t <= u
  BY DEF touched
<1>2. Min(touched) = t
  <2>1. \A x \in touched : (\A y \in touched : x <= y) => x = t
    BY <1>1
  <2>2. \E x \in touched : \A y \in touched : x <= y
    BY <1>1
  <2> HIDE DEF touched
  <2> QED
    BY <2>1, <2>2 DEF Min
<1>3. touched # {}
  BY <1>1
<1>4. SimulatePath(plan, path)
         = Settle(plan, The(price[t]), The(Touch(plan, The(price[t]))))
  BY <1>2, <1>3 DEF SimulatePath
<1>5. The({o}) = o
  BY DEF The
<1>6. SimulatePath(plan, path) = Settle(plan, The(price[t]), o)
  BY <1>4, <1>5
<1>7. PICK pnl : SimulatePath(plan, path) = {[outcome |-> o, pnl |-> pnl]}
  BY <1>6, SettleSays
<1> QED
  BY <1>7 DEF OutcomesIn

(* ... and when it ended at a level it did so at the first touch of one     *)
LEMMA WalkEndedAtTouch ==
    ASSUME NEW plan, NEW path \in SUBSET Nat, NEW x \in SimulatePath(plan, path),
           x.outcome # "horizon"
    PROVE  /\ OutcomesIn(SimulatePath(plan, path)) = {x.outcome}
           /\ \E t \in path :
                 /\ Touch(plan, The(price[t])) = {x.outcome}
                 /\ \A u \in path : u < t => Touch(plan, The(price[u])) = {}
<1> DEFINE touched == {u \in path : Touch(plan, The(price[u])) # {}}
<1>1. touched # {}
  <2> SUFFICES ASSUME touched = {}
               PROVE  FALSE
    OBVIOUS
  <2>1. SimulatePath(plan, path) = Settle(plan, The(price[Max(path)]), "horizon")
    BY DEF SimulatePath
  <2>2. PICK pnl : SimulatePath(plan, path) = {[outcome |-> "horizon", pnl |-> pnl]}
    BY <2>1, SettleSays
  <2> QED
    BY <2>2
<1>2. PICK t \in touched : \A u \in touched : t <= u
  BY <1>1, SmallestIsThere
<1>3. \A u \in path : u < t => Touch(plan, The(price[u])) = {}
  BY <1>2
<1>4. PICK o : Touch(plan, The(price[t])) = {o}
  BY <1>2, TouchIsOne
<1>5. OutcomesIn(SimulatePath(plan, path)) = {o}
  BY <1>2, <1>3, <1>4, WalkEndsAtFirst
<1>6. x.outcome = o
  BY <1>5 DEF OutcomesIn
<1> QED
  BY <1>2, <1>3, <1>4, <1>5, <1>6

LEMMA RowsHaveTimes ==
    ASSUME OutcomeInv, NEW i \in JournalRows
    PROVE  entries[i].at \in Nat /\ i \in Nat
<1>1. entries \in Seq([at : Nat, plan : Plans])
  BY DEF OutcomeInv
<1>2. i \in 1..Len(entries) /\ i \in Nat
  BY <1>1 DEF JournalRows
<1>3. PICK T : T = [at : Nat, plan : Plans]
  OBVIOUS
<1>4. entries \in Seq(T)
  BY <1>1, <1>3
<1>5. entries[i] \in T
  BY <1>2, <1>4
<1> QED
  BY <1>2, <1>3, <1>5

(* A settled position stays so at every horizon that saw it                 *)
LEMMA SettledFurther ==
    ASSUME OutcomeInv, NEW i \in JournalRows, NEW h \in Horizons, NEW g \in Horizons, g >= h,
           NEW o, NEW t \in Nat, SettledAt(entries[i], h, o, t)
    PROVE  SettledAt(entries[i], g, o, t)
<1> DEFINE noted == entries[i]
<1>1. noted.at \in Nat /\ h \in Nat /\ g \in Nat
  BY RowsHaveTimes, OutcomesAssumption
<1> HIDE DEF noted
<1>2. t \in Path(noted, g)
  <2>1. t \in noted.at..noted.at + h /\ t \in DOMAIN price /\ price[t] # {}
    BY DEF SettledAt, Path, noted
  <2> QED
    BY <1>1, <2>1 DEF Path
<1>3. ASSUME NEW u \in Path(noted, g), u < t
      PROVE  u \in Path(noted, h)
  <2>1. t \in noted.at..noted.at + h
    BY DEF SettledAt, Path, noted
  <2>2. u \in noted.at..noted.at + g /\ u \in DOMAIN price /\ price[u] # {}
    BY <1>3 DEF Path
  <2>3. u \in noted.at..noted.at + h
    BY <1>1, <1>3, <2>1, <2>2
  <2> QED
    BY <2>2, <2>3 DEF Path
<1> QED
  BY <1>2, <1>3 DEF SettledAt, noted

LEMMA PathIsNat ==
    ASSUME OutcomeInv, NEW i \in JournalRows, NEW h \in Horizons
    PROVE  Path(entries[i], h) \in SUBSET Nat
<1>1. entries[i].at \in Nat /\ h \in Nat
  BY RowsHaveTimes, OutcomesAssumption
<1> QED
  BY <1>1 DEF Path

LEMMA SettledIsSaid ==
    ASSUME OutcomeInv, NEW i \in JournalRows, NEW h \in Horizons,
           NEW o, NEW t \in Nat, SettledAt(entries[i], h, o, t)
    PROVE  OutcomesOf(entries[i], h) = {o}
<1>1. Path(entries[i], h) \in SUBSET Nat /\ t \in Path(entries[i], h)
  BY PathIsNat DEF SettledAt
<1>2. Outcome(entries[i], h) = SimulatePath(entries[i].plan, Path(entries[i], h))
  BY <1>1 DEF SettledAt, Outcome
<1>3. PICK plan, path : plan = entries[i].plan /\ path = Path(entries[i], h)
  OBVIOUS
<1>4. /\ path \in SUBSET Nat /\ t \in path /\ Touch(plan, The(price[t])) = {o}
      /\ \A u \in path : u < t => Touch(plan, The(price[u])) = {}
  BY <1>1, <1>3 DEF SettledAt, Touches
<1>5. OutcomesIn(SimulatePath(plan, path)) = {o}
  BY <1>4, WalkEndsAtFirst
<1> QED
  BY <1>2, <1>3, <1>5 DEF OutcomesOf

LEMMA SaidIsSettled ==
    ASSUME OutcomeInv, NEW i \in JournalRows, NEW h \in Horizons,
           NEW o \in OutcomesOf(entries[i], h), o # "horizon"
    PROVE  /\ OutcomesOf(entries[i], h) = {o}
           /\ \E t \in Nat : SettledAt(entries[i], h, o, t)
<1>1. Path(entries[i], h) \in SUBSET Nat
  BY PathIsNat
<1>2. PICK x \in Outcome(entries[i], h) : x.outcome = o
  BY DEF OutcomesOf, OutcomesIn
<1>3. /\ entries[i].plan.levels # {}
      /\ Outcome(entries[i], h) = SimulatePath(entries[i].plan, Path(entries[i], h))
  BY <1>2 DEF Outcome
<1>4. PICK plan, path : plan = entries[i].plan /\ path = Path(entries[i], h)
  OBVIOUS
<1>5. x \in SimulatePath(plan, path) /\ path \in SUBSET Nat /\ x.outcome # "horizon"
  BY <1>1, <1>2, <1>3, <1>4
<1>6. /\ OutcomesIn(SimulatePath(plan, path)) = {x.outcome}
      /\ \E t \in path :
            /\ Touch(plan, The(price[t])) = {x.outcome}
            /\ \A u \in path : u < t => Touch(plan, The(price[u])) = {}
  BY <1>5, WalkEndedAtTouch
<1>7. PICK t \in path : /\ Touch(plan, The(price[t])) = {o}
                       /\ \A u \in path : u < t => Touch(plan, The(price[u])) = {}
  BY <1>2, <1>6
<1>8. SettledAt(entries[i], h, o, t) /\ t \in Nat
  BY <1>3, <1>4, <1>5, <1>7 DEF SettledAt, Touches
<1>9. OutcomesOf(entries[i], h) = {o}
  BY <1>2, <1>3, <1>4, <1>6 DEF OutcomesOf
<1> QED
  BY <1>8, <1>9

(* Prices to come change nothing of the path before them                    *)
LEMMA SettledStill ==
    ASSUME OutcomeInv, NEW noted, NEW h, NEW o, NEW t \in Nat, SettledAt(noted, h, o, t),
           \A u \in 0..minute : price'[u] = price[u],
           0..minute \subseteq DOMAIN price', noted.at \in Nat, h \in Nat
    PROVE  SettledAt(noted, h, o, t)'
<1>1. t \in 0..minute /\ t \in noted.at..noted.at + h /\ price[t] # {}
  BY DEF SettledAt, Path, OutcomeInv
<1>2. t \in Path(noted, h)' /\ Touches(noted, t)' = {o}
  BY <1>1 DEF SettledAt, Path, Touches
<1>3. ASSUME NEW u \in Path(noted, h)', u < t
      PROVE  Touches(noted, u)' = {}
  <2>1. u \in noted.at..noted.at + h /\ price'[u] # {}
    BY <1>3 DEF Path
  <2>2. u \in 0..minute
    BY <1>1, <1>3, <2>1 DEF OutcomeInv
  <2>3. u \in Path(noted, h)
    BY <2>1, <2>2 DEF Path, OutcomeInv
  <2> QED
    BY <1>3, <2>2, <2>3 DEF SettledAt, Touches
<1> QED
  BY <1>2, <1>3 DEF SettledAt

LEMMA OutcomeInitially == OutcomeInit => OutcomeInv
BY DEF OutcomeInit, OutcomeInv, JournalRows

LEMMA OutcomeStep == OutcomeInv /\ [OutcomeNext]_outcomeVars => OutcomeInv'
<1> SUFFICES ASSUME OutcomeInv, [OutcomeNext]_outcomeVars
             PROVE  OutcomeInv'
  OBVIOUS
<1>1. CASE OutcomeTick
  <2>1. /\ minute' = minute + 1 /\ entries' = entries /\ said' = said
        /\ DOMAIN price' = 0..minute + 1 /\ \A u \in 0..minute : price'[u] = price[u]
    <3>1. PICK p : price' = [t \in 0..minute' |-> IF t = minute' THEN p ELSE price[t]]
      BY <1>1 DEF OutcomeTick
    <3>2. minute' = minute + 1 /\ entries' = entries /\ said' = said
      BY <1>1 DEF OutcomeTick
    <3>3. minute \in Nat
      BY DEF OutcomeInv
    <3> QED
      BY <3>1, <3>2, <3>3
  <2>2. minute' \in Nat /\ 0..minute \subseteq DOMAIN price' /\ DOMAIN price' = 0..minute'
    BY <2>1 DEF OutcomeInv
  <2>3. ASSUME NEW k \in DOMAIN said, NEW o \in said[k], o # "horizon"
        PROVE  \E t \in Nat : SettledAt(entries[k[1]], k[2], o, t)'
    <3>1. PICK t \in Nat : SettledAt(entries[k[1]], k[2], o, t)
      BY <2>3 DEF OutcomeInv
    <3>2. PICK noted, h : noted = entries[k[1]] /\ h = k[2]
      OBVIOUS
    <3>3. noted.at \in Nat /\ h \in Nat
      BY <3>2, RowsHaveTimes, OutcomesAssumption DEF OutcomeInv
    <3>4. SettledAt(noted, h, o, t)'
      BY <2>1, <2>2, <3>1, <3>2, <3>3, SettledStill
    <3> QED
      BY <2>1, <3>2, <3>4 DEF SettledAt, Path, Touches
  <2> QED
    BY <2>1, <2>2, <2>3 DEF OutcomeInv, JournalRows
<1>2. CASE Record
  <2>1. PICK plan : entries' = Append(entries, [at |-> minute, plan |-> plan])
    BY <1>2 DEF Record
  <2>2. UNCHANGED <<minute, price, said>> /\ minute \in Nat
    BY <1>2 DEF Record, OutcomeInv
  <2>3. entries' \in Seq([at : Nat, plan : Plans])
    BY <1>2, <2>2 DEF Record, OutcomeInv
  <2>4. \A i \in JournalRows : i \in JournalRows' /\ entries'[i] = entries[i]
    BY <2>1 DEF OutcomeInv, JournalRows
  <2>5. ASSUME NEW k \in DOMAIN said, NEW o \in said[k], o # "horizon"
        PROVE  /\ k[1] \in JournalRows' /\ k[2] \in Horizons /\ said[k] = {o}
               /\ \E t \in Nat : SettledAt(entries[k[1]], k[2], o, t)'
    <3>1. PICK t \in Nat : SettledAt(entries[k[1]], k[2], o, t)
      BY <2>5 DEF OutcomeInv
    <3>2. k[1] \in JournalRows /\ k[2] \in Horizons /\ said[k] = {o}
      BY <2>5 DEF OutcomeInv
    <3>3. entries'[k[1]] = entries[k[1]]
      BY <2>4, <3>2
    <3> QED
      BY <2>2, <2>4, <3>1, <3>2, <3>3 DEF SettledAt, Path, Touches
  <2>6. \A k \in DOMAIN said : k[1] \in JournalRows' /\ k[2] \in Horizons
    BY <2>4 DEF OutcomeInv
  <2> QED
    BY <2>2, <2>3, <2>5, <2>6 DEF OutcomeInv
<1>3. CASE ReadSummary
  <2>1. /\ UNCHANGED <<minute, price, entries>>
        /\ said' = [k \in JournalRows \X Horizons |-> OutcomesOf(entries[k[1]], k[2])]
    BY <1>3 DEF ReadSummary, OutcomesOf, OutcomesIn
  <2>2. ASSUME NEW k \in JournalRows \X Horizons, NEW o \in said'[k], o # "horizon"
        PROVE  said'[k] = {o} /\ \E t \in Nat : SettledAt(entries[k[1]], k[2], o, t)'
    <3>1. PICK i \in JournalRows, h \in Horizons : k = <<i, h>>
      OBVIOUS
    <3>2. said'[k] = OutcomesOf(entries[i], h) /\ k[1] = i /\ k[2] = h
      BY <2>1, <3>1
    <3>3. /\ OutcomesOf(entries[i], h) = {o}
          /\ \E t \in Nat : SettledAt(entries[i], h, o, t)
      BY <2>2, <3>2, SaidIsSettled
    <3> QED
      BY <2>1, <3>2, <3>3 DEF SettledAt, Path, Touches
  <2>3. DOMAIN said' = JournalRows' \X Horizons
    BY <2>1 DEF JournalRows
  <2>4. \A k \in DOMAIN said' : k[1] \in JournalRows' /\ k[2] \in Horizons
    BY <2>3
  <2>5. JournalRows' = JournalRows
    BY <2>1 DEF JournalRows
  <2>6. ASSUME NEW k \in DOMAIN said', NEW o \in said'[k], o # "horizon"
        PROVE  said'[k] = {o} /\ \E t \in Nat : SettledAt(entries[k[1]], k[2], o, t)'
    BY <2>2, <2>3, <2>5, <2>6
  <2>7. /\ minute' \in Nat /\ DOMAIN price' = 0..minute'
        /\ entries' \in Seq([at : Nat, plan : Plans])
    BY <2>1 DEF OutcomeInv
  <2> QED
    BY <2>4, <2>6, <2>7 DEF OutcomeInv
<1>4. CASE LoadWindow \/ ReadCalibration \/ UNCHANGED outcomeVars
  <2>1. UNCHANGED <<minute, price, entries, said>>
    BY <1>4 DEF LoadWindow, ReadCalibration, outcomeVars
  <2>2. \A noted, h, o, t : SettledAt(noted, h, o, t)' <=> SettledAt(noted, h, o, t)
    BY <2>1 DEF SettledAt, Path, Touches
  <2>3. ASSUME NEW k \in DOMAIN said, NEW o \in said[k], o # "horizon"
        PROVE  said[k] = {o} /\ \E t \in Nat : SettledAt(entries[k[1]], k[2], o, t)'
    <3>1. said[k] = {o} /\ \E t \in Nat : SettledAt(entries[k[1]], k[2], o, t)
      BY <2>3 DEF OutcomeInv
    <3>2. PICK noted, h : noted = entries[k[1]] /\ h = k[2]
      OBVIOUS
    <3>3. \E t \in Nat : SettledAt(noted, h, o, t)'
      BY <2>2, <3>1, <3>2
    <3> QED
      BY <2>1, <3>1, <3>2, <3>3 DEF SettledAt, Path, Touches
  <2>4. \A k \in DOMAIN said : k[1] \in JournalRows' /\ k[2] \in Horizons
    BY <2>1 DEF OutcomeInv, JournalRows
  <2>5. /\ minute' \in Nat /\ DOMAIN price' = 0..minute'
        /\ entries' \in Seq([at : Nat, plan : Plans])
    BY <2>1 DEF OutcomeInv
  <2> QED
    BY <2>1, <2>3, <2>4, <2>5 DEF OutcomeInv
<1> QED
  BY <1>1, <1>2, <1>3, <1>4 DEF OutcomeNext

(* What a summary says again of a position that was settled it has said before *)
LEMMA SaidAgain ==
    ASSUME OutcomeInv, [OutcomeNext]_outcomeVars
    PROVE  [\A k \in DOMAIN said : \A o \in said[k] :
              o # "horizon" => \A h \in Horizons :
                  h >= k[2] => said'[<<k[1], h>>] = said[k]]_said
<1> SUFFICES ASSUME said' # said, NEW k \in DOMAIN said, NEW o \in said[k], o # "horizon",
                    NEW g \in Horizons, g >= k[2]
             PROVE  said'[<<k[1], g>>] = said[k]
  OBVIOUS
<1>1. ReadSummary
  BY DEF OutcomeNext, OutcomeTick, Record, LoadWindow, ReadCalibration, outcomeVars
<1>2. said' = [j \in JournalRows \X Horizons |-> OutcomesOf(entries[j[1]], j[2])]
  BY <1>1 DEF ReadSummary, OutcomesOf, OutcomesIn
<1>3. /\ k[1] \in JournalRows /\ k[2] \in Horizons /\ said[k] = {o}
      /\ \E t \in Nat : SettledAt(entries[k[1]], k[2], o, t)
  BY DEF OutcomeInv
<1>4. PICK t \in Nat : SettledAt(entries[k[1]], g, o, t)
  BY <1>3, SettledFurther
<1>5. OutcomesOf(entries[k[1]], g) = {o}
  BY <1>3, <1>4, SettledIsSaid
<1>6. said'[<<k[1], g>>] = OutcomesOf(entries[k[1]], g)
  BY <1>2, <1>3
<1> QED
  BY <1>3, <1>5, <1>6

(* A position stopped out or closed at its target stays so in the journal's *)
(* summary, at every horizon that saw it and whatever the price does after  *)
(* (journal_sim.simulate_path, journal_query.price_path).                   *)
THEOREM SettledForGood == OutcomeSpec => SettledStays
<1>1. OutcomeInit => OutcomeInv
  BY OutcomeInitially
<1>2. OutcomeInv /\ [OutcomeNext]_outcomeVars => OutcomeInv'
  BY OutcomeStep
<1>3. OutcomeInv /\ [OutcomeNext]_outcomeVars =>
          [\A k \in DOMAIN said : \A o \in said[k] :
              o # "horizon" => \A h \in Horizons :
                  h >= k[2] => said'[<<k[1], h>>] = said[k]]_said
  BY SaidAgain
<1> QED
  BY <1>1, <1>2, <1>3, PTL DEF OutcomeSpec, SettledStays

-----------------------------------------------------------------------------
(* The stream *)

Lives == {"new", "accepted", "open", "lost", "closed"}
Registered == {"open", "lost", "closed"}

Sending(c) == \E b \in casting : c \in b.pending

FanTypeInv ==
    /\ castPos \in Nat /\ castCommitted \in Nat
    /\ socket \in [Sockets -> Lives] /\ joined \in [Sockets -> Nat]
    /\ casts \in Seq(Nat) /\ received \in [Sockets -> Seq(Nat)]
    /\ connections \subseteq Sockets
    /\ casting \subseteq [frame : Nat, pending : SUBSET Sockets, dead : SUBSET Sockets]

(* A broadcast is of the last frame that went out, to sockets that were    *)
(* registered before it; those it found dead are not open                  *)
BroadcastIsLast ==
    \A b \in casting :
        /\ \A e \in casting : b = e
        /\ Len(casts) > 0 /\ b.frame = casts[Len(casts)]
        /\ \A c \in b.pending :
              c \in Sockets /\ socket[c] \in Registered /\ joined[c] < Len(casts)
        /\ \A c \in b.dead : c \in Sockets /\ socket[c] \in {"lost", "closed"}

(* A socket not registered yet got nothing, one that is open is registered *)
RegistryFollows ==
    \A c \in Sockets :
        /\ socket[c] \in {"new", "accepted"} => received[c] = <<>>
        /\ socket[c] = "open" => c \in connections /\ joined[c] <= Len(casts)
        /\ c \in connections => socket[c] \in Registered /\ joined[c] <= Len(casts)

Upto(c) == IF Sending(c) THEN Len(casts) - 1 ELSE Len(casts)

(* EveryFrameInOrder, frame by frame *)
FramesMatch ==
    \A c \in Sockets : socket[c] = "open" =>
        /\ Len(received[c]) = Upto(c) - joined[c]
        /\ \A i \in 1..Len(received[c]) : received[c][i] = casts[joined[c] + i]

FanInv == FanTypeInv /\ BroadcastIsLast /\ RegistryFollows /\ FramesMatch

-----------------------------------------------------------------------------
LEMMA FanInitially == FanInit => FanInv
<1> SUFFICES ASSUME FanInit
             PROVE  FanInv
  OBVIOUS
<1> USE DEF FanInit
<1>1. FanTypeInv
  BY DEF FanTypeInv, Lives
<1>2. BroadcastIsLast /\ RegistryFollows /\ FramesMatch
  BY DEF BroadcastIsLast, RegistryFollows, FramesMatch
<1> QED
  BY <1>1, <1>2 DEF FanInv

(* A frame goes out: to every open socket it is the one being sent *)
LEMMA BroadcastKeeps ==
    ASSUME FanInv, Broadcast
    PROVE  FanInv'
<1> USE DEF FanInv
<1>1. /\ casts' = Append(casts, castPos') /\ castPos' = castPos + 1 /\ casting = {}
      /\ UNCHANGED <<castCommitted, connections, socket, received, joined>>
  BY DEF Broadcast
<1>2. /\ casts' \in Seq(Nat) /\ Len(casts') = Len(casts) + 1
      /\ casts'[Len(casts')] = castPos'
      /\ \A i \in 1..Len(casts) : casts'[i] = casts[i]
  BY <1>1 DEF FanTypeInv
<1>4. \/ connections = {} /\ casting' = {}
      \/ \E b \in [frame : Nat, pending : SUBSET Sockets, dead : SUBSET Sockets] :
            casting' = {b} /\ b.frame = castPos' /\ b.pending = connections /\ b.dead = {}
  <2> DEFINE b == [frame |-> castPos', pending |-> connections, dead |-> {}]
  <2>1. casting' = IF connections = {} THEN {} ELSE {b}
    BY DEF Broadcast
  <2>2. /\ b \in [frame : Nat, pending : SUBSET Sockets, dead : SUBSET Sockets]
        /\ b.frame = castPos' /\ b.pending = connections /\ b.dead = {}
    BY <1>1 DEF FanTypeInv
  <2> QED
    BY <2>1, <2>2
<1>3. FanTypeInv'
  BY <1>1, <1>2, <1>4 DEF FanTypeInv
<1>5. connections # {} => \E b \in casting' : b.pending = connections
  BY <1>4
<1>6. BroadcastIsLast'
  <2>1. \A c \in connections :
           c \in Sockets /\ socket[c] \in Registered /\ joined[c] < Len(casts')
    BY <1>2 DEF RegistryFollows, FanTypeInv
  <2> QED
    BY <1>1, <1>2, <1>4, <2>1 DEF BroadcastIsLast, FanTypeInv
<1>7. RegistryFollows'
  BY <1>1, <1>2 DEF RegistryFollows, FanTypeInv
<1>8. ASSUME NEW c \in Sockets, socket[c] = "open"
      PROVE  Upto(c) = Len(casts) /\ Upto(c)' = Len(casts)
  BY <1>1, <1>2, <1>5, <1>8 DEF Upto, Sending, RegistryFollows, FanTypeInv
<1>9. FramesMatch'
  <2> SUFFICES ASSUME NEW c \in Sockets, socket[c] = "open"
               PROVE  /\ Len(received[c]) = Upto(c)' - joined[c]
                      /\ \A i \in 1..Len(received[c]) :
                            received[c][i] = casts'[joined[c] + i]
    BY <1>1 DEF FramesMatch
  <2>1. /\ Len(received[c]) = Len(casts) - joined[c]
        /\ \A i \in 1..Len(received[c]) : received[c][i] = casts[joined[c] + i]
    BY <1>8 DEF FramesMatch
  <2>2. joined[c] \in Nat /\ Len(casts) \in Nat
    BY DEF FanTypeInv
  <2>3. \A i \in 1..Len(received[c]) : joined[c] + i \in 1..Len(casts)
    BY <2>1, <2>2
  <2> QED
    BY <1>2, <1>8, <2>1, <2>3
<1> QED
  BY <1>3, <1>6, <1>7, <1>9

(* A send that succeeds gives an open socket the frame it still lacked *)
LEMMA SendKeeps ==
    ASSUME FanInv, NEW c \in Sockets, SendTo(c)
    PROVE  FanInv'
<1> USE DEF FanInv
<1>1. PICK b \in casting :
         /\ c \in b.pending
         /\ IF socket[c] = "open"
            THEN /\ received' = [received EXCEPT ![c] = Append(@, b.frame)]
                 /\ Casting([b EXCEPT !.pending = @ \ {c}])
            ELSE /\ Casting([b EXCEPT !.pending = @ \ {c}, !.dead = @ \cup {c}])
                 /\ UNCHANGED received
  BY DEF SendTo
<1>2. UNCHANGED <<castPos, castCommitted, connections, socket, casts, joined>>
  BY DEF SendTo
<1>3. /\ casting = {b} /\ Len(casts) > 0 /\ b.frame = casts[Len(casts)]
      /\ joined[c] < Len(casts) /\ socket[c] \in Registered
  BY <1>1 DEF BroadcastIsLast
<1>4. b.frame \in Nat /\ b.pending \subseteq Sockets /\ b.dead \subseteq Sockets
  BY DEF FanTypeInv
<1>5. PICK e \in [frame : Nat, pending : SUBSET Sockets, dead : SUBSET Sockets] :
         /\ casting' = {e} /\ e.frame = b.frame /\ e.pending = b.pending \ {c}
         /\ e.dead = IF socket[c] = "open" THEN b.dead ELSE b.dead \cup {c}
  <2> DEFINE sent == [b EXCEPT !.pending = @ \ {c}]
             lost == [b EXCEPT !.pending = @ \ {c}, !.dead = @ \cup {c}]
  <2>1. b \in [frame : Nat, pending : SUBSET Sockets, dead : SUBSET Sockets]
    BY DEF FanTypeInv
  <2>2. /\ sent \in [frame : Nat, pending : SUBSET Sockets, dead : SUBSET Sockets]
        /\ sent.frame = b.frame /\ sent.pending = b.pending \ {c} /\ sent.dead = b.dead
    BY <2>1
  <2>3. /\ lost \in [frame : Nat, pending : SUBSET Sockets, dead : SUBSET Sockets]
        /\ lost.frame = b.frame /\ lost.pending = b.pending \ {c}
        /\ lost.dead = b.dead \cup {c}
    BY <2>1
  <2>4. casting' = IF socket[c] = "open" THEN {sent} ELSE {lost}
    BY <1>1 DEF Casting
  <2> QED
    BY <2>2, <2>3, <2>4
<1>6. BroadcastIsLast'
  BY <1>2, <1>3, <1>5 DEF BroadcastIsLast, Registered
<1>7. \A d \in Sockets :
         /\ d # c => received'[d] = received[d] /\ Upto(d)' = Upto(d)
         /\ Upto(c) = Len(casts) - 1 /\ Upto(c)' = Len(casts)
  BY <1>1, <1>2, <1>3, <1>5 DEF Upto, Sending, FanTypeInv
<1>8. CASE socket[c] = "open"
  <2>1. received' = [received EXCEPT ![c] = Append(@, b.frame)]
    BY <1>1, <1>8
  <2>2. /\ received'[c] \in Seq(Nat) /\ Len(received'[c]) = Len(received[c]) + 1
        /\ received'[c][Len(received[c]) + 1] = b.frame
        /\ \A i \in 1..Len(received[c]) : received'[c][i] = received[c][i]
    BY <1>4, <2>1 DEF FanTypeInv
  <2>3. FanTypeInv'
    BY <1>2, <1>4, <1>5, <2>1, <2>2 DEF FanTypeInv
  <2>4. RegistryFollows'
    BY <1>2, <1>7, <1>8, <2>1 DEF RegistryFollows
  <2>5. /\ Len(received[c]) = Len(casts) - 1 - joined[c]
        /\ \A i \in 1..Len(received[c]) : received[c][i] = casts[joined[c] + i]
    BY <1>7, <1>8 DEF FramesMatch
  <2>6. joined[c] \in Nat /\ Len(casts) \in Nat
    BY DEF FanTypeInv
  <2>7. /\ Len(received'[c]) = Len(casts) - joined[c]
        /\ \A i \in 1..Len(received'[c]) : received'[c][i] = casts[joined[c] + i]
    <3>1. Len(received'[c]) = Len(casts) - joined[c] /\ Len(received[c]) \in Nat
      BY <1>3, <2>2, <2>5, <2>6
    <3>2. ASSUME NEW i \in 1..Len(received'[c])
          PROVE  received'[c][i] = casts[joined[c] + i]
      <4>1. i \in 1..Len(received[c]) \/ i = Len(received[c]) + 1
        BY <2>2, <3>1, <3>2
      <4>2. joined[c] + (Len(received[c]) + 1) = Len(casts)
        BY <2>5, <2>6
      <4> QED
        BY <1>3, <2>2, <2>5, <4>1, <4>2
    <3> QED
      BY <3>1, <3>2
  <2>8. FramesMatch'
    BY <1>2, <1>7, <2>7 DEF FramesMatch
  <2> QED
    BY <1>6, <2>3, <2>4, <2>8
<1>9. CASE socket[c] # "open"
  <2>1. received' = received
    BY <1>1, <1>9
  <2>2. FanTypeInv' /\ RegistryFollows'
    BY <1>2, <1>5, <2>1 DEF FanTypeInv, RegistryFollows
  <2>3. FramesMatch'
    BY <1>2, <1>7, <1>9, <2>1 DEF FramesMatch
  <2> QED
    BY <1>6, <2>2, <2>3
<1> QED
  BY <1>8, <1>9

(* A broadcast that has ended takes out none that is open *)
LEMMA EndKeeps ==
    ASSUME FanInv, EndBroadcast
    PROVE  FanInv'
<1> USE DEF FanInv
<1>1. PICK b \in casting : b.pending = {} /\ connections' = connections \ b.dead
  BY DEF EndBroadcast
<1>2. /\ casting' = {} /\ casting = {b}
      /\ UNCHANGED <<castPos, castCommitted, socket, received, casts, joined>>
  BY <1>1 DEF EndBroadcast, BroadcastIsLast
<1>3. \A c \in Sockets : socket[c] = "open" => c \notin b.dead
  BY DEF BroadcastIsLast
<1>4. FanTypeInv' /\ BroadcastIsLast' /\ RegistryFollows'
  BY <1>1, <1>2, <1>3 DEF FanTypeInv, BroadcastIsLast, RegistryFollows
<1>5. \A c \in Sockets : Upto(c)' = Upto(c)
  BY <1>1, <1>2 DEF Upto, Sending
<1>6. FramesMatch'
  BY <1>2, <1>5 DEF FramesMatch
<1> QED
  BY <1>4, <1>6

(* A socket that is registered is owed what goes out from then on *)
LEMMA RegisterKeeps ==
    ASSUME FanInv, NEW c \in Sockets, Register(c)
    PROVE  FanInv'
<1> USE DEF FanInv
<1>1. /\ socket[c] = "accepted" /\ socket' = [socket EXCEPT ![c] = "open"]
      /\ connections' = connections \cup {c} /\ joined' = [joined EXCEPT ![c] = Len(casts)]
      /\ UNCHANGED <<castPos, castCommitted, casting, received, casts>>
  BY DEF Register
<1>2. FanTypeInv' /\ Len(casts) \in Nat
  BY <1>1 DEF FanTypeInv, Lives
<1>3. ~Sending(c) /\ ~Sending(c)' /\ \A b \in casting : c \notin b.dead
  BY <1>1 DEF Sending, BroadcastIsLast, Registered
<1>4. BroadcastIsLast'
  BY <1>1, <1>3 DEF BroadcastIsLast, Sending, FanTypeInv
<1>5. RegistryFollows'
  BY <1>1, <1>2 DEF RegistryFollows, FanTypeInv, Registered
<1>6. \A d \in Sockets : Upto(d)' = Upto(d)
  BY <1>1 DEF Upto, Sending
<1>7. FramesMatch'
  <2>1. received[c] = <<>> /\ Upto(c) = Len(casts)
    BY <1>1, <1>3 DEF RegistryFollows, Upto
  <2> QED
    BY <1>1, <1>2, <1>6, <2>1 DEF FramesMatch, FanTypeInv
<1> QED
  BY <1>2, <1>4, <1>5, <1>7

(* The other steps of a socket make no socket open and send nothing *)
LEMMA SocketKeeps ==
    ASSUME FanInv, NEW c \in Sockets, Accept(c) \/ GoAway(c) \/ Disconnect(c)
    PROVE  FanInv'
<1> USE DEF FanInv
<1>1. UNCHANGED <<castPos, castCommitted, casting, received, casts, joined>>
  BY DEF Accept, GoAway, Disconnect
<1>2. PICK to \in {"accepted", "lost", "closed"} :
         /\ socket' = [socket EXCEPT ![c] = to]
         /\ IF to = "accepted" THEN socket[c] = "new" ELSE socket[c] \in {"open", "lost"}
         /\ connections' = IF to = "closed" THEN connections \ {c} ELSE connections
  BY DEF Accept, GoAway, Disconnect
<1>3. FanTypeInv' /\ BroadcastIsLast' /\ RegistryFollows'
  BY <1>1, <1>2 DEF FanTypeInv, BroadcastIsLast, RegistryFollows, Lives, Registered
<1>4. \A d \in Sockets : Upto(d)' = Upto(d) /\ (socket'[d] = "open" => socket[d] = "open")
  BY <1>1, <1>2 DEF Upto, Sending, FanTypeInv
<1>5. FramesMatch'
  BY <1>1, <1>4 DEF FramesMatch
<1> QED
  BY <1>3, <1>5

(* After a restart no socket is open *)
LEMMA RestartKeeps ==
    ASSUME FanInv, GatewayRestart
    PROVE  FanInv'
<1> USE DEF FanInv
<1>1. /\ castPos' = castCommitted /\ casting' = {} /\ connections' = {}
      /\ socket' = [c \in Sockets |-> IF socket[c] = "new" THEN "new" ELSE "closed"]
      /\ UNCHANGED <<castCommitted, received, casts, joined>>
  BY DEF GatewayRestart
<1>2. FanTypeInv' /\ BroadcastIsLast' /\ RegistryFollows' /\ FramesMatch'
  BY <1>1 DEF FanTypeInv, BroadcastIsLast, RegistryFollows, FramesMatch, Lives
<1> QED
  BY <1>2

LEMMA FanStep == FanInv /\ [FanNext]_fanVars => FanInv'
<1> SUFFICES ASSUME FanInv, [FanNext]_fanVars
             PROVE  FanInv'
  OBVIOUS
<1> DEFINE Same == UNCHANGED <<casting, connections, socket, received, casts, joined>>
<1>1. ASSUME Same, castPos' \in Nat, castCommitted' \in Nat
      PROVE  FanInv'
  <2>1. FanTypeInv' /\ BroadcastIsLast' /\ RegistryFollows'
    BY <1>1 DEF FanInv, FanTypeInv, BroadcastIsLast, RegistryFollows
  <2>2. FramesMatch'
    BY <1>1 DEF FanInv, FramesMatch, Upto, Sending
  <2> QED
    BY <2>1, <2>2 DEF FanInv
<1>2. CASE Offer \/ FrameFails \/ AutoCommit \/ UNCHANGED fanVars
  <2>1. Same /\ castPos' \in Nat /\ castCommitted' \in Nat
    BY <1>2 DEF Offer, FrameFails, AutoCommit, fanVars, FanInv, FanTypeInv
  <2> QED
    BY <1>1, <2>1
<1>3. CASE Broadcast
  BY <1>3, BroadcastKeeps
<1>4. CASE EndBroadcast
  BY <1>4, EndKeeps
<1>5. CASE GatewayRestart
  BY <1>5, RestartKeeps
<1>6. ASSUME NEW c \in Sockets, SendTo(c)
      PROVE  FanInv'
  BY <1>6, SendKeeps
<1>7. ASSUME NEW c \in Sockets, Register(c)
      PROVE  FanInv'
  BY <1>7, RegisterKeeps
<1>8. ASSUME NEW c \in Sockets, Accept(c) \/ GoAway(c) \/ Disconnect(c)
      PROVE  FanInv'
  BY <1>8, SocketKeeps
<1> QED
  BY <1>2, <1>3, <1>4, <1>5, <1>6, <1>7, <1>8 DEF FanNext

-----------------------------------------------------------------------------
(* The frames of a part of a sequence *)
LEMMA PartOfSeq ==
    ASSUME NEW s \in Seq(Nat), NEW j \in Nat, NEW n \in Nat, j <= n, n <= Len(s),
           NEW m \in Int, m = j + 1
    PROVE  /\ SubSeq(s, m, n) \in Seq(Nat)
           /\ Len(SubSeq(s, m, n)) = n - j
           /\ \A i \in 1..(n - j) : SubSeq(s, m, n)[i] = s[j + i]
<1>1. n \in Int /\ \A i \in m..n : s[i] \in Nat
  OBVIOUS
<1>2. /\ SubSeq(s, m, n) \in Seq(Nat)
      /\ Len(SubSeq(s, m, n)) = IF m <= n THEN n - m + 1 ELSE 0
      /\ \A i \in 1..(n - m + 1) : SubSeq(s, m, n)[i] = s[m + i - 1]
  BY <1>1
<1>3. n - m + 1 = n - j /\ \A i \in Int : m + i - 1 = j + i
  OBVIOUS
<1>4. ASSUME NEW i \in 1..(n - j)
      PROVE  SubSeq(s, m, n)[i] = s[j + i]
  <2>1. i \in 1..(n - m + 1)
    BY <1>3
  <2>2. SubSeq(s, m, n)[i] = s[m + i - 1]
    BY <1>2, <2>1
  <2>3. m + i - 1 = j + i
    BY <1>3
  <2> QED
    BY <2>2, <2>3
<1>5. Len(SubSeq(s, m, n)) = n - j
  <2>1. (IF m <= n THEN n - m + 1 ELSE 0) = n - j
    OBVIOUS
  <2> QED
    BY <1>2, <2>1, Zenon
<1>6. SubSeq(s, m, n) \in Seq(Nat)
  BY <1>2, Zenon
<1> QED
  BY <1>4, <1>5, <1>6, Zenon

(* Front of such a part ends one earlier *)
LEMMA FrontOfPart ==
    ASSUME NEW s \in Seq(Nat), NEW j \in Nat, j < Len(s), NEW m \in Int, m = j + 1
    PROVE  /\ Front(SubSeq(s, m, Len(s))) \in Seq(Nat)
           /\ Len(Front(SubSeq(s, m, Len(s)))) = Len(s) - 1 - j
           /\ \A i \in 1..(Len(s) - 1 - j) : Front(SubSeq(s, m, Len(s)))[i] = s[j + i]
<1> DEFINE t == SubSeq(s, m, Len(s))
           n == Len(t) - 1
<1>1. Len(s) \in Nat /\ j <= Len(s) /\ Len(s) <= Len(s)
  OBVIOUS
<1>2. /\ t \in Seq(Nat) /\ Len(t) = Len(s) - j
      /\ \A i \in 1..(Len(s) - j) : t[i] = s[j + i]
  BY <1>1, PartOfSeq, ZenonT(60)
<1>3. Front(t) = SubSeq(t, 1, n)
  BY DEF Front
<1> HIDE DEF t
<1>4. 0 \in Nat /\ n \in Nat /\ 0 <= n /\ n <= Len(t) /\ 1 \in Int /\ 1 = 0 + 1
  BY <1>2
<1>5. n = Len(s) - 1 - j /\ n - 0 = n /\ \A i \in Int : 0 + i = i
  BY <1>2
<1> HIDE DEF n
<1>6. /\ SubSeq(t, 1, n) \in Seq(Nat) /\ Len(SubSeq(t, 1, n)) = n - 0
      /\ \A i \in 1..(n - 0) : SubSeq(t, 1, n)[i] = t[0 + i]
  BY <1>2, <1>4, PartOfSeq, ZenonT(60)
<1>7. ASSUME NEW i \in 1..(Len(s) - 1 - j)
      PROVE  Front(t)[i] = s[j + i]
  <2>1. i \in 1..(n - 0) /\ i \in 1..(Len(s) - j) /\ 0 + i = i
    BY <1>1, <1>5
  <2>2. Front(t)[i] = t[i]
    BY <1>3, <1>6, <2>1
  <2> QED
    BY <1>2, <2>1, <2>2
<1> QED
  BY <1>3, <1>5, <1>6, <1>7 DEF t

LEMMA FanInvGives == FanInv => EveryFrameInOrder
<1> SUFFICES ASSUME FanInv, NEW c \in Sockets, socket[c] = "open"
             PROVE  /\ c \in connections
                    /\ LET owed == SubSeq(casts, joined[c] + 1, Len(casts))
                           sending == \E b \in casting : c \in b.pending
                       IN received[c] = IF sending THEN Front(owed) ELSE owed
  BY DEF EveryFrameInOrder
<1> DEFINE owed == SubSeq(casts, joined[c] + 1, Len(casts))
<1>1. /\ c \in connections /\ joined[c] \in Nat /\ casts \in Seq(Nat)
      /\ joined[c] <= Len(casts)
  BY DEF FanInv, FanTypeInv, RegistryFollows
<1>2. /\ received[c] \in Seq(Nat) /\ Len(received[c]) = Upto(c) - joined[c]
      /\ \A i \in 1..Len(received[c]) : received[c][i] = casts[joined[c] + i]
  BY DEF FanInv, FanTypeInv, FramesMatch
<1>3. CASE Sending(c)
  <2>1. joined[c] < Len(casts) /\ Upto(c) = Len(casts) - 1
    BY <1>3 DEF Sending, Upto, FanInv, BroadcastIsLast
  <2>2. /\ Front(owed) \in Seq(Nat) /\ Len(Front(owed)) = Len(casts) - 1 - joined[c]
        /\ \A i \in 1..(Len(casts) - 1 - joined[c]) : Front(owed)[i] = casts[joined[c] + i]
    <3>1. joined[c] + 1 \in Int
      BY <1>1
    <3> QED
      BY <1>1, <2>1, <3>1, FrontOfPart, Zenon
  <2>3. received[c] = Front(owed)
    <3> HIDE DEF owed
    <3>1. /\ Len(received[c]) = Len(Front(owed))
          /\ \A i \in 1..Len(received[c]) : received[c][i] = Front(owed)[i]
      BY <1>2, <2>1, <2>2
    <3> QED
      BY <1>2, <2>2, <3>1, SeqEqual
  <2> QED
    BY <1>1, <1>3, <2>3 DEF Sending
<1>4. CASE ~Sending(c)
  <2>1. Upto(c) = Len(casts)
    BY <1>4 DEF Upto
  <2>2. /\ owed \in Seq(Nat) /\ Len(owed) = Len(casts) - joined[c]
        /\ \A i \in 1..(Len(casts) - joined[c]) : owed[i] = casts[joined[c] + i]
    <3>1. Len(casts) \in Nat /\ Len(casts) <= Len(casts) /\ joined[c] + 1 \in Int
      BY <1>1
    <3> QED
      BY <1>1, <3>1, PartOfSeq, Zenon
  <2>3. received[c] = owed
    <3> HIDE DEF owed
    <3>1. /\ Len(received[c]) = Len(owed)
          /\ \A i \in 1..Len(received[c]) : received[c][i] = owed[i]
      BY <1>2, <2>1, <2>2
    <3> QED
      BY <1>2, <2>2, <3>1, SeqEqual
  <2> QED
    BY <1>1, <1>4, <2>3 DEF Sending
<1> QED
  BY <1>3, <1>4

(* A socket that is open has got every frame that went out since it was     *)
(* registered, once and in order, but for the one that is being sent, and   *)
(* stays registered, whatever other sockets do (manager.py, broadcast).     *)
THEOREM FramesInOrder == FanSpec => []EveryFrameInOrder
<1>1. FanInit => FanInv
  BY FanInitially
<1>2. FanInv /\ [FanNext]_fanVars => FanInv'
  BY FanStep
<1>3. FanInv => EveryFrameInOrder
  BY FanInvGives
<1> QED
  BY <1>1, <1>2, <1>3, PTL DEF FanSpec

-----------------------------------------------------------------------------
(* The panels of the pipeline *)

(* The provers do not know of a string that it is in STRING *)
Tags == STRING \cup Executed \cup Failed
PanelRow ==
    [table : Tables, tag : Tags, reason : DOMAIN Class, score : Nat, at : Nat,
     scored : SUBSET Nat]

(* The columns the persister writes *)
RowsTyped ==
    /\ panelClock \in Nat /\ db \in Seq(PanelRow)
    /\ \A i \in DOMAIN db : Columns(db[i])

LEMMA RowsFinite ==
    ASSUME RowsTyped, NEW rs \in SUBSET DOMAIN db
    PROVE  IsFiniteSet(rs) /\ Cardinality(rs) \in Nat
<1>1. Len(db) \in Nat /\ DOMAIN db = 1..Len(db)
  BY DEF RowsTyped
<1>2. IsFiniteSet(DOMAIN db)
  BY <1>1, FS_Interval
<1> QED
  BY <1>2, FS_Subset, FS_CardinalityType

(* g tells of the rows rs how many there are of each key *)
IsGrouping(g, rs, key) ==
    /\ DOMAIN g = {key[i] : i \in rs}
    /\ \A k \in DOMAIN g : g[k] = Cardinality(OfClass(rs, key, k))

LEMMA GroupsAddUp ==
    ASSUME RowsTyped, NEW rs \in SUBSET DOMAIN db, NEW key, NEW g, IsGrouping(g, rs, key)
    PROVE  /\ IsFiniteSet(DOMAIN g)
           /\ \A k \in DOMAIN g : g[k] \in Nat
           /\ \A T \in SUBSET DOMAIN g :
                 SumFunctionOnSet(g, T) = Cardinality(OfClasses(rs, key, T))
           /\ SumFunction(g) = Cardinality(rs)
<1>1. IsFiniteSet(rs)
  BY RowsFinite
<1>2. IsFiniteSet(DOMAIN g)
  <2> DEFINE m == [i \in rs |-> key[i]]
  <2>1. m \in Surjection(rs, DOMAIN g)
    BY DEF IsGrouping, Surjection
  <2> QED
    BY <1>1, <2>1, FS_Surjection
<1>3. ASSUME NEW k \in DOMAIN g PROVE g[k] \in Nat
  <2>1. OfClass(rs, key, k) \in SUBSET DOMAIN db
    BY DEF OfClass
  <2> QED
    BY <2>1, RowsFinite DEF IsGrouping
<1>4. ASSUME NEW T \in SUBSET DOMAIN g
      PROVE  SumFunctionOnSet(g, T) = Cardinality(OfClasses(rs, key, T))
  <2>1. IsFiniteSet(T)
    BY <1>2, FS_Subset
  <2>2. \A k \in T : g[k] = Cardinality(OfClass(rs, key, k))
    BY DEF IsGrouping
  <2> QED
    BY <1>1, <2>1, <2>2, ClassesAddUp
<1>5. OfClasses(rs, key, DOMAIN g) = rs
  BY DEF OfClasses, IsGrouping
<1>6. SumFunction(g) = Cardinality(rs)
  BY <1>4, <1>5 DEF SumFunction
<1> QED
  BY <1>2, <1>3, <1>4, <1>6

-----------------------------------------------------------------------------
(* Each panel counts the same rows *)

(* Rows a stage let through, and rows it stopped *)
CrossedRows(phase, from) == {i \in DOMAIN db : Crossed(phase, db[i], from)}
DroppedRows(phase, from) == {i \in DOMAIN db : Dropped(phase, db[i], from)}

LEMMA StageCounts ==
    ASSUME NEW phase, NEW from
    PROVE  /\ Volume(phase, from) = Cardinality(CrossedRows(phase, from))
           /\ Lost(phase, from) = Cardinality(DroppedRows(phase, from))
           /\ CrossedRows(phase, from) \in SUBSET DOMAIN db
           /\ DroppedRows(phase, from) \in SUBSET DOMAIN db
BY DEF Volume, Lost, N, CrossedRows, DroppedRows

(* The funnel and the panel of topics put the same questions as the graph *)
LEMMA FunnelAsksTheSame ==
    ASSUME NEW from
    PROVE  <<Funnel(from).analyses, Funnel(from).escalated, Funnel(from).decisions,
             Funnel(from).approved, Funnel(from).executed>> =
               <<Volume("triage", from), Volume("senior", from), Volume("decision", from),
                 Volume("risk", from), Volume("execute", from)>>
<1>1. Funnel(from).analyses = Volume("triage", from)
  BY DEF Funnel, Volume, N, Crossed
<1>2. Funnel(from).escalated = Volume("senior", from)
  <2>1. {i \in DOMAIN db : db[i].table = "signal" /\ db[i].at >= from /\ db[i].tag = "escalated"}
          = CrossedRows("senior", from)
    BY DEF CrossedRows, Crossed
  <2> QED
    BY <2>1, StageCounts DEF Funnel, N
<1>3. Funnel(from).decisions = Volume("decision", from)
  BY DEF Funnel, Volume, N, Crossed
<1>4. Funnel(from).approved = Volume("risk", from)
  BY DEF Funnel, Volume, N, Crossed
<1>5. Funnel(from).executed = Volume("execute", from)
  <2>1. {i \in DOMAIN db : db[i].table = "trade" /\ db[i].at >= from /\ FunnelExecuted(db[i])}
          = CrossedRows("execute", from)
    BY DEF CrossedRows, Crossed, FunnelExecuted, Executed
  <2> QED
    BY <2>1, StageCounts DEF Funnel, N
<1> QED
  BY <1>1, <1>2, <1>3, <1>4, <1>5

(* Whatever a breakdown is by, its parts add up to the rows it is of *)
LEMMA TriageDrawerAddsUp ==
    ASSUME RowsTyped, NEW from, NEW phase \in {"triage", "senior"}
    PROVE  SumFunction(Drawer(phase, from)) = Lost(phase, from)
<1> DEFINE rs == DroppedRows(phase, from)
           key == [i \in rs |-> db[i].reason]
           g == [k \in {db[i].reason : i \in rs} |-> Cardinality({i \in rs : db[i].reason = k})]
<1>1. Drawer(phase, from) = g
  BY DEF Drawer, Grouped, DroppedRows
<1>2. IsGrouping(g, rs, key)
  BY DEF IsGrouping, OfClass
<1> QED
  BY <1>1, <1>2, GroupsAddUp, StageCounts

LEMMA RefusalDrawerAddsUp ==
    ASSUME RowsTyped, NEW from, NEW phase \in {"decision", "risk"}
    PROVE  SumFunction(Drawer(phase, from)) = Lost(phase, from)
<1> DEFINE rs == DroppedRows(phase, from)
           key == [i \in rs |-> Class[db[i].reason]]
           g == [k \in {Class[db[i].reason] : i \in rs} |->
                    Cardinality({i \in rs : Class[db[i].reason] = k})]
<1>1. Drawer(phase, from) = g
  BY DEF Drawer, Grouped, DroppedRows
<1>2. IsGrouping(g, rs, key)
  BY DEF IsGrouping, OfClass
<1> QED
  BY <1>1, <1>2, GroupsAddUp, StageCounts

LEMMA CollectDrawerAddsUp ==
    ASSUME RowsTyped, NEW from
    PROVE  SumFunction(Drawer("collect", from)) = Volume("collect", from)
<1> DEFINE rs == CrossedRows("collect", from)
           Key(r) == IF r.table = "price" THEN "prices" ELSE r.tag
           key == [i \in rs |-> Key(db[i])]
           g == [k \in {Key(db[i]) : i \in rs} |-> Cardinality({i \in rs : Key(db[i]) = k})]
<1>1. Drawer("collect", from) = g
  BY DEF Drawer, Grouped, CrossedRows
<1>2. IsGrouping(g, rs, key)
  <2> HIDE DEF Key
  <2> QED
    BY DEF IsGrouping, OfClass
<1>3. rs \in SUBSET DOMAIN db /\ Volume("collect", from) = Cardinality(rs)
  BY StageCounts
<1> HIDE DEF rs, key, g
<1>4. SumFunction(g) = Cardinality(rs)
  BY <1>2, <1>3, GroupsAddUp
<1> QED
  BY <1>1, <1>3, <1>4

(* The orders of the drawer of execution are the trades the graph counts *)
LEMMA ExecuteDrawerAddsUp ==
    ASSUME RowsTyped, NEW from
    PROVE  LET d == Drawer("execute", from)
           IN /\ SumFunctionOnSet(d, {k \in DOMAIN d : k \in Executed}) = Volume("execute", from)
              /\ SumFunctionOnSet(d, {k \in DOMAIN d : k \in Failed}) = Lost("execute", from)
<1> DEFINE rs == CrossedRows("risk", from)
           key == [i \in rs |-> db[i].tag]
           g == [k \in {db[i].tag : i \in rs} |-> Cardinality({i \in rs : db[i].tag = k})]
           done == {k \in DOMAIN g : k \in Executed}
           lost == {k \in DOMAIN g : k \in Failed}
<1>1. Drawer("execute", from) = g
  BY DEF Drawer, Grouped, CrossedRows
<1>2. IsGrouping(g, rs, key) /\ rs \in SUBSET DOMAIN db
  BY DEF IsGrouping, OfClass, CrossedRows
<1>3. OfClasses(rs, key, done) = CrossedRows("execute", from)
  BY DEF OfClasses, CrossedRows, Crossed
<1>4. OfClasses(rs, key, lost) = DroppedRows("execute", from)
  BY DEF OfClasses, CrossedRows, Crossed, DroppedRows, Dropped
<1>5. done \in SUBSET DOMAIN g /\ lost \in SUBSET DOMAIN g
  OBVIOUS
<1> HIDE DEF rs, key, g, done, lost
<1>6. /\ SumFunctionOnSet(g, done) = Cardinality(OfClasses(rs, key, done))
      /\ SumFunctionOnSet(g, lost) = Cardinality(OfClasses(rs, key, lost))
  BY <1>2, <1>5, GroupsAddUp
<1>7. /\ SumFunctionOnSet(g, done) = Volume("execute", from)
      /\ SumFunctionOnSet(g, lost) = Lost("execute", from)
  BY <1>3, <1>4, <1>6, StageCounts
<1> QED
  BY <1>1, <1>7 DEF done, lost

(* The refusals are grouped by who refused and why: those of one source are *)
(* the rows its stage dropped                                               *)
LEMMA ReasonsAddUp ==
    ASSUME RowsTyped, NEW from
    PROVE  LET g == FunnelReasons(from)
               Refusals(source) == SumFunctionOnSet(g, {k \in DOMAIN g : k[1] = source})
           IN /\ Refusals("haiku") = Lost("triage", from)
              /\ Refusals("decision_engine") = Lost("decision", from)
              /\ Refusals("risk_engine") = Lost("risk", from)
<1> DEFINE rs == {i \in DOMAIN db :
                     /\ db[i].at >= from
                     /\ \/ db[i].table = "signal" /\ db[i].tag # "escalated"
                        \/ db[i].table = "rejection"}
           From(r) == IF r.table = "signal" THEN "haiku" ELSE r.tag
           Key(r) == <<From(r), Class[r.reason]>>
           key == [i \in rs |-> Key(db[i])]
           g == [k \in {Key(db[i]) : i \in rs} |-> Cardinality({i \in rs : Key(db[i]) = k})]
           By(source) == {k \in DOMAIN g : k[1] = source}
<1>1. FunnelReasons(from) = g
  BY DEF FunnelReasons, Grouped
<1>2. IsGrouping(g, rs, key) /\ rs \in SUBSET DOMAIN db
  <2> HIDE DEF Key
  <2> QED
    BY DEF IsGrouping, OfClass
<1>3. \A source : OfClasses(rs, key, By(source)) = {i \in rs : From(db[i]) = source}
  <2>1. \A i \in rs : key[i] = Key(db[i]) /\ key[i][1] = From(db[i]) /\ key[i] \in DOMAIN g
    OBVIOUS
  <2> HIDE DEF g, key, From, Key
  <2> QED
    BY <2>1 DEF OfClasses
<1>4. \A i \in DOMAIN db :
         db[i].table = "rejection" => db[i].tag \in {"decision_engine", "risk_engine"}
  BY DEF RowsTyped, Columns
<1>5. /\ {i \in rs : From(db[i]) = "haiku"} = DroppedRows("triage", from)
      /\ {i \in rs : From(db[i]) = "decision_engine"} = DroppedRows("decision", from)
      /\ {i \in rs : From(db[i]) = "risk_engine"} = DroppedRows("risk", from)
  BY <1>4 DEF DroppedRows, Dropped
<1>6. \A source : By(source) \in SUBSET DOMAIN g
  OBVIOUS
<1> HIDE DEF rs, From, Key, key, g, By
<1>7. ASSUME NEW source
      PROVE  SumFunctionOnSet(g, By(source)) = Cardinality(OfClasses(rs, key, By(source)))
  BY <1>2, <1>6, GroupsAddUp
<1>8. /\ SumFunctionOnSet(g, By("haiku")) = Lost("triage", from)
      /\ SumFunctionOnSet(g, By("decision_engine")) = Lost("decision", from)
      /\ SumFunctionOnSet(g, By("risk_engine")) = Lost("risk", from)
  BY <1>3, <1>5, <1>7, StageCounts
<1> QED
  BY <1>1, <1>8 DEF By

(* The histogram has a bucket for every score *)
LEMMA HistogramAddsUp ==
    ASSUME RowsTyped, NEW from
    PROVE  SumFunction(Histogram(from)) = Funnel(from).analyses
<1> DEFINE rs == {i \in DOMAIN db : db[i].table = "signal" /\ db[i].at >= from}
           Key(r) == (r.score \div 10) * 10
           key == [i \in rs |-> Key(db[i])]
           g == [k \in {Key(db[i]) : i \in rs} |-> Cardinality({i \in rs : Key(db[i]) = k})]
           Index(b) == IF b \div 10 < 9 THEN b \div 10 ELSE 9
           h == [n \in 0..9 |-> SumFunctionOnSet(g, {b \in DOMAIN g : Index(b) = n})]
           m == [b \in DOMAIN g |-> Index(b)]
<1>1. Histogram(from) = h /\ Funnel(from).analyses = Cardinality(rs)
  BY DEF Histogram, Grouped, Funnel, N
<1>2. IsGrouping(g, rs, key) /\ rs \in SUBSET DOMAIN db
  <2> HIDE DEF Key
  <2> QED
    BY DEF IsGrouping, OfClass
<1>3. \A b \in DOMAIN g : Index(b) \in 0..9
  <2>1. \A i \in rs : db[i].score \in Nat
    BY DEF RowsTyped, Columns
  <2>2. \A n \in Nat : (n \div 10) * 10 \in Nat
    OBVIOUS
  <2>3. \A i \in rs : Key(db[i]) \in Nat
    BY <2>1, <2>2
  <2>4. DOMAIN g \subseteq Nat
    <3> HIDE DEF Key
    <3> QED
      BY <2>3
  <2>5. \A b \in Nat : Index(b) \in 0..9
    OBVIOUS
  <2> QED
    BY <2>4, <2>5
<1>4. \A n \in 0..9 : h[n] = SumFunctionOnSet(g, OfClass(DOMAIN g, m, n))
  <2> SUFFICES ASSUME NEW n \in 0..9
               PROVE  h[n] = SumFunctionOnSet(g, OfClass(DOMAIN g, m, n))
    OBVIOUS
  <2> HIDE DEF g, Index
  <2>1. OfClass(DOMAIN g, m, n) = {b \in DOMAIN g : Index(b) = n}
    BY DEF OfClass
  <2> QED
    BY <2>1
<1>5. OfClasses(DOMAIN g, m, 0..9) = DOMAIN g
  <2> HIDE DEF g, Index
  <2> QED
    BY <1>3 DEF OfClasses
<1>6. DOMAIN h = 0..9 /\ IsFiniteSet(0..9)
  <2>1. IsFiniteSet(0..9)
    <3>1. 0 \in Int /\ 9 \in Int
      OBVIOUS
    <3> QED
      BY <3>1, FS_Interval, Zenon
  <2>2. DOMAIN h = 0..9
    OBVIOUS
  <2> QED
    BY <2>1, <2>2
<1> HIDE DEF rs, Key, key, g, Index, h, m
<1>7. /\ IsFiniteSet(DOMAIN g) /\ \A k \in DOMAIN g : g[k] \in Int
      /\ SumFunction(g) = Cardinality(rs)
  BY <1>2, GroupsAddUp
<1>8. SumFunctionOnSet(h, 0..9) = SumFunctionOnSet(g, OfClasses(DOMAIN g, m, 0..9))
  BY <1>4, <1>6, <1>7, SumByClass
<1>9. SumFunction(h) = SumFunction(g)
  BY <1>5, <1>6, <1>8 DEF SumFunction
<1> QED
  BY <1>1, <1>7, <1>9

(* What was collected is the prices and the contents *)
LEMMA CollectorsAddUp ==
    ASSUME RowsTyped, NEW from
    PROVE  PanelTopics(from).price + SumFunction(Collectors(from)) = Volume("collect", from)
<1> DEFINE rs == {i \in DOMAIN db : db[i].table = "content" /\ db[i].at >= from}
           prices == {i \in DOMAIN db : db[i].table = "price" /\ db[i].at >= from}
           Key(r) == <<r.tag, r.table>>
           key == [i \in rs |-> Key(db[i])]
           g == [k \in {Key(db[i]) : i \in rs} |-> Cardinality({i \in rs : Key(db[i]) = k})]
<1>1. Collectors(from) = g /\ PanelTopics(from).price = Cardinality(prices)
  BY DEF Collectors, Grouped, PanelTopics, N
<1>2. IsGrouping(g, rs, key)
  <2> HIDE DEF Key
  <2> QED
    BY DEF IsGrouping, OfClass
<1>3. /\ rs \in SUBSET DOMAIN db /\ prices \in SUBSET DOMAIN db
      /\ rs \cap prices = {} /\ rs \cup prices = CrossedRows("collect", from)
  BY DEF CrossedRows, Crossed
<1> HIDE DEF rs, prices, key, g
<1>4. SumFunction(g) = Cardinality(rs)
  BY <1>2, <1>3, GroupsAddUp
<1>5. /\ IsFiniteSet(rs) /\ IsFiniteSet(prices)
      /\ Cardinality(rs) \in Nat /\ Cardinality(prices) \in Nat
  BY <1>3, RowsFinite
<1>6. Cardinality(rs \cup prices) = Cardinality(rs) + Cardinality(prices)
  <2>1. Cardinality(rs \cup prices)
          = Cardinality(rs) + Cardinality(prices) - Cardinality(rs \cap prices)
    BY <1>5, FS_Union
  <2>2. Cardinality(rs \cap prices) = 0
    BY <1>3, FS_EmptySet
  <2> QED
    BY <1>5, <2>1, <2>2
<1>7. Volume("collect", from) = Cardinality(rs \cup prices)
  BY <1>3, StageCounts
<1> QED
  BY <1>1, <1>4, <1>5, <1>6, <1>7

LEMMA PanelsAddUp ==
    ASSUME RowsTyped
    PROVE  PanelsAgree
<1> DEFINE from == panelClock - PanelWindow
<1>1. PanelTopics(from).sentiment = Volume("sentiment", from)
  BY DEF PanelTopics, Volume, N, Crossed
<1>2. \A phase \in {"triage", "senior", "decision", "risk"} :
        SumFunction(Drawer(phase, from)) = Lost(phase, from)
  BY TriageDrawerAddsUp, RefusalDrawerAddsUp
<1>3. /\ SumFunction(Histogram(from)) = Funnel(from).analyses
      /\ SumFunction(Drawer("collect", from)) = Volume("collect", from)
      /\ PanelTopics(from).price + SumFunction(Collectors(from)) = Volume("collect", from)
  BY HistogramAddsUp, CollectDrawerAddsUp, CollectorsAddUp
<1> HIDE DEF from
<1> QED
  BY <1>1, <1>2, <1>3, FunnelAsksTheSame, ReasonsAddUp, ExecuteDrawerAddsUp
     DEF PanelsAgree, from

-----------------------------------------------------------------------------
(* What is cached and served is whole *)

CountsType == UNION {[S -> [volume : Nat, dropped : Nat]] : S \in SUBSET STRING}

(* A cache entry carries the time its counting began, and every stage *)
CacheWhole ==
    \A c \in panelCache :
        c.at \in Nat /\ c.begun = c.at /\ c.counts \in CountsType
        /\ DOMAIN c.counts = ToSet(Stages)

(* A fetch in progress has counted the first stages *)
FetchesInOrder ==
    /\ DOMAIN request = Terminals
    /\ \A t \in Terminals : \A q \in request[t] :
          /\ q \in [now : Nat, since : Int, counts : CountsType]
          /\ IsFiniteSet(DOMAIN q.counts)
          /\ Cardinality(DOMAIN q.counts) \in 0..Len(Stages)
          /\ DOMAIN q.counts = {Stages[i] : i \in 1..Cardinality(DOMAIN q.counts)}

PanelInv == RowsTyped /\ CacheWhole /\ FetchesInOrder /\ HonestPanel

(* Whole counts have a volume for each stage, so what is converted is there *)
LEMMA WholeIsHonest ==
    ASSUME NEW counts \in CountsType
    PROVE  \A s \in ToSet(Stages) : \A c \in Conversion(counts, s) :
              c[2] > 0 /\ {s, ConversionFrom[s]} \subseteq DOMAIN counts
<1> SUFFICES ASSUME NEW s \in ToSet(Stages), NEW c \in Conversion(counts, s)
             PROVE  c[2] > 0 /\ {s, ConversionFrom[s]} \subseteq DOMAIN counts
  OBVIOUS
<1>1. PICK v \in VolumeOf(counts, s), w \in VolumeOf(counts, ConversionFrom[s]) \ {0} :
        c = <<v, w>>
  BY DEF Conversion
<1>2. s \in DOMAIN counts /\ ConversionFrom[s] \in DOMAIN counts
  BY <1>1 DEF VolumeOf
<1>3. w = counts[ConversionFrom[s]].volume /\ w # 0
  BY <1>1, <1>2 DEF VolumeOf
<1>4. w \in Nat
  BY <1>2, <1>3 DEF CountsType
<1> QED
  BY <1>1, <1>2, <1>3, <1>4

LEMMA NoCounts == ASSUME TRUE PROVE <<>> \in CountsType /\ DOMAIN <<>> = {}
<1>1. <<>> \in [{} -> [volume : Nat, dropped : Nat]]
  OBVIOUS
<1> QED
  BY <1>1 DEF CountsType

LEMMA StagesAreSome ==
    ASSUME TRUE
    PROVE  /\ Len(Stages) \in Nat \ {0} /\ DOMAIN Stages = 1..Len(Stages)
           /\ ToSet(Stages) = {Stages[i] : i \in 1..Len(Stages)} /\ ToSet(Stages) # {}
           /\ \A i \in 1..Len(Stages) : Stages[i] \in STRING
           /\ \A i, j \in 1..Len(Stages) : Stages[i] = Stages[j] => i = j
<1>1. Stages \in Seq(STRING) /\ Stages # <<>>
  BY PanelAssumption
<1>2. Len(Stages) \in Nat \ {0} /\ DOMAIN Stages = 1..Len(Stages)
  BY <1>1
<1>3. \A i, j \in 1..Len(Stages) : Stages[i] = Stages[j] => i = j
  BY <1>2, PanelAssumption DEF IsInjective
<1>4. ToSet(Stages) = {Stages[i] : i \in 1..Len(Stages)}
  BY <1>2 DEF ToSet
<1>5. 1 \in 1..Len(Stages)
  BY <1>2
<1> QED
  BY <1>1, <1>2, <1>3, <1>4, <1>5

LEMMA PanelInitially == PanelInit => PanelInv
<1> SUFFICES ASSUME PanelInit PROVE PanelInv
  OBVIOUS
<1>1. RowsTyped
  <2>1. Stored \in Seq(PanelRow)
    <3> DEFINE StoredType == [table : Tables, tag : STRING, reason : DOMAIN Class, score : Nat,
                              at : Nat, scored : SUBSET Nat]
    <3>1. Stored \in Seq(StoredType)
      BY PanelAssumption
    <3>2. STRING \subseteq Tags
      BY DEF Tags
    <3>3. \A r \in StoredType : r \in PanelRow
      BY <3>2 DEF PanelRow
    <3> HIDE DEF StoredType
    <3>4. \A i \in 1..Len(Stored) : Stored[i] \in PanelRow
      BY <3>1, <3>3
    <3> QED
      BY <3>1, <3>4
  <2> QED
    BY <2>1, PanelAssumption DEF PanelInit, RowsTyped
<1>2. CacheWhole /\ FetchesInOrder /\ HonestPanel
  BY DEF PanelInit, CacheWhole, FetchesInOrder, HonestPanel
<1> QED
  BY <1>1, <1>2 DEF PanelInv

(* The rows: what arrives and what is settled has the columns of its table *)
LEMMA RowsStayTyped ==
    ASSUME PanelInv, Arrive \/ SettleRow \/ PanelTick
    PROVE  PanelInv'
<1>1. UNCHANGED <<panelCache, request, panelPage>>
  BY DEF Arrive, SettleRow, PanelTick
<1>2. panelClock \in Nat /\ db \in Seq(PanelRow) /\ \A i \in DOMAIN db : Columns(db[i])
  BY DEF PanelInv, RowsTyped
<1>3. CASE Arrive
  <2>1. PICK x \in Arrivals :
          db' = Append(db, [table |-> x.table, tag |-> x.tag, reason |-> x.reason,
                            score |-> x.score, at |-> panelClock, scored |-> {}])
    BY <1>3 DEF Arrive
  <2> DEFINE r == [table |-> x.table, tag |-> x.tag, reason |-> x.reason, score |-> x.score,
                   at |-> panelClock, scored |-> {}]
  <2>2. r \in PanelRow /\ Columns(r)
    BY <1>2, PanelAssumption DEF PanelRow, Columns, Tags
  <2> HIDE DEF r
  <2>3. /\ db' \in Seq(PanelRow) /\ DOMAIN db' = 1..(Len(db) + 1) /\ Len(db) \in Nat
        /\ \A i \in 1..Len(db) : db'[i] = db[i]
        /\ db'[Len(db) + 1] = r
    BY <1>2, <2>1, <2>2 DEF r
  <2>4. \A i \in DOMAIN db' : Columns(db'[i])
    <3>1. DOMAIN db = 1..Len(db)
      BY <1>2
    <3>2. ASSUME NEW i \in 1..Len(db) PROVE Columns(db'[i])
      BY <1>2, <2>3, <3>1
    <3>3. \A i \in DOMAIN db' : i \in 1..Len(db) \/ i = Len(db) + 1
      BY <2>3
    <3> QED
      BY <2>2, <2>3, <3>2, <3>3
  <2>5. RowsTyped'
    BY <1>2, <1>3, <2>3, <2>4 DEF RowsTyped, Arrive, Columns
  <2> QED
    BY <1>1, <2>5 DEF PanelInv, CacheWhole, FetchesInOrder, HonestPanel
<1>4. CASE SettleRow
  <2>1. PICK i, r :
          /\ i \in DOMAIN db
          /\ db' = [db EXCEPT ![i] = r] /\ r \in PanelRow /\ Columns(r)
    <3>1. PICK i \in DOMAIN db :
            \/ db' = [db EXCEPT ![i].scored = {panelClock}]
            \/ /\ db[i].table = "trade"
               /\ \E became \in Executed \cup Failed : db' = [db EXCEPT ![i].tag = became]
      BY <1>4 DEF SettleRow
    <3>2. db[i] \in PanelRow /\ Columns(db[i])
      BY <1>2
    <3>3. CASE db' = [db EXCEPT ![i].scored = {panelClock}]
      <4> DEFINE r == [db[i] EXCEPT !.scored = {panelClock}]
      <4>1. db' = [db EXCEPT ![i] = r]
        BY <3>3
      <4>2. r \in PanelRow /\ Columns(r)
        BY <1>2, <3>2 DEF PanelRow, Columns
      <4> QED
        BY <4>1, <4>2
    <3>4. ASSUME NEW became \in Executed \cup Failed, db[i].table = "trade",
                 db' = [db EXCEPT ![i].tag = became]
          PROVE  \E r : db' = [db EXCEPT ![i] = r] /\ r \in PanelRow /\ Columns(r)
      <4> DEFINE r == [db[i] EXCEPT !.tag = became]
      <4>1. db' = [db EXCEPT ![i] = r]
        BY <3>4
      <4>2. became \in Tags
        BY DEF Tags
      <4>3. r \in PanelRow /\ Columns(r)
        BY <3>2, <3>4, <4>2 DEF PanelRow, Columns
      <4> QED
        BY <4>1, <4>3
    <3> QED
      BY <3>1, <3>3, <3>4
  <2>2. db' \in Seq(PanelRow) /\ DOMAIN db' = DOMAIN db
        /\ \A j \in DOMAIN db : db'[j] = IF j = i THEN r ELSE db[j]
    BY <1>2, <2>1
  <2>3. \A j \in DOMAIN db' : Columns(db'[j])
    BY <1>2, <2>1, <2>2
  <2>4. RowsTyped'
    BY <1>2, <1>4, <2>2, <2>3 DEF RowsTyped, SettleRow, Columns
  <2> QED
    BY <1>1, <2>4 DEF PanelInv, CacheWhole, FetchesInOrder, HonestPanel
<1>5. CASE PanelTick
  <2>1. RowsTyped'
    BY <1>2, <1>5 DEF RowsTyped, PanelTick, Columns
  <2> QED
    BY <1>1, <2>1 DEF PanelInv, CacheWhole, FetchesInOrder, HonestPanel
<1> QED
  BY <1>3, <1>4, <1>5

-----------------------------------------------------------------------------
(* A stage is counted: the next in order, which was not counted yet *)
LEMMA CountKeepsPanel ==
    ASSUME PanelInv, NEW t \in Terminals, CountStage(t)
    PROVE  PanelInv'
<1>1. UNCHANGED <<panelClock, db, panelCache, panelPage>>
  BY DEF CountStage
<1>2. PICK q \in request[t] :
        /\ Cardinality(DOMAIN q.counts) < Len(Stages)
        /\ LET phase == Stages[Cardinality(DOMAIN q.counts) + 1]
               count == [volume |-> Volume(phase, q.since), dropped |-> Lost(phase, q.since)]
           IN request' = [request EXCEPT ![t] =
                  {[q EXCEPT !.counts = [s \in DOMAIN q.counts \cup {phase} |->
                       IF s = phase THEN count ELSE q.counts[s]]]}]
  BY DEF CountStage
<1> DEFINE n == Cardinality(DOMAIN q.counts)
           phase == Stages[n + 1]
           count == [volume |-> Volume(phase, q.since), dropped |-> Lost(phase, q.since)]
           counts == [s \in DOMAIN q.counts \cup {phase} |->
                         IF s = phase THEN count ELSE q.counts[s]]
           qq == [q EXCEPT !.counts = counts]
<1>3. /\ q \in [now : Nat, since : Int, counts : CountsType] /\ IsFiniteSet(DOMAIN q.counts)
      /\ n \in 0..Len(Stages) /\ n < Len(Stages)
      /\ DOMAIN q.counts = {Stages[i] : i \in 1..n}
  BY <1>2 DEF PanelInv, FetchesInOrder
<1>4. /\ n + 1 \in 1..Len(Stages) /\ phase = Stages[n + 1]
      /\ \A i \in 1..n : i \in 1..Len(Stages) /\ i # n + 1
  BY <1>2, <1>3, StagesAreSome
<1>5. phase \in STRING /\ phase \notin DOMAIN q.counts
  BY <1>3, <1>4, StagesAreSome
<1>6. count \in [volume : Nat, dropped : Nat]
  BY StageCounts, RowsFinite DEF PanelInv
<1> HIDE DEF phase, count
<1>7. counts \in CountsType /\ DOMAIN counts = DOMAIN q.counts \cup {phase}
  <2>1. PICK S \in SUBSET STRING : q.counts \in [S -> [volume : Nat, dropped : Nat]]
    BY <1>3 DEF CountsType
  <2>2. counts \in [S \cup {phase} -> [volume : Nat, dropped : Nat]]
    BY <1>6, <2>1
  <2>3. S \cup {phase} \in SUBSET STRING
    BY <1>5
  <2> QED
    BY <2>2, <2>3 DEF CountsType
<1>8. qq \in [now : Nat, since : Int, counts : CountsType] /\ qq.counts = counts
  <2> HIDE DEF counts
  <2> QED
    BY <1>3, <1>7
<1>9. IsFiniteSet(DOMAIN counts) /\ Cardinality(DOMAIN counts) = n + 1
  BY <1>3, <1>5, <1>7, FS_AddElement
<1>10. DOMAIN counts = {Stages[i] : i \in 1..n + 1}
  <2>1. \A i : i \in 1..n + 1 <=> i \in 1..n \/ i = n + 1
    BY <1>3
  <2> HIDE DEF counts, n
  <2> QED
    BY <1>3, <1>4, <1>7, <2>1
<1>11. FetchesInOrder'
  <2>1. request' = [request EXCEPT ![t] = {qq}] /\ DOMAIN request = Terminals
    BY <1>2 DEF PanelInv, FetchesInOrder, phase, count
  <2>2. n + 1 \in 0..Len(Stages)
    BY <1>3, StagesAreSome
  <2> HIDE DEF qq, counts, n
  <2>3. \A u \in Terminals : request'[u] = IF u = t THEN {qq} ELSE request[u]
    BY <2>1
  <2> QED
    BY <1>8, <1>9, <1>10, <2>1, <2>2, <2>3 DEF PanelInv, FetchesInOrder
<1>12. RowsTyped' /\ CacheWhole' /\ HonestPanel'
  BY <1>1 DEF PanelInv, RowsTyped, CacheWhole, HonestPanel, Columns
<1> QED
  BY <1>11, <1>12 DEF PanelInv

(* The fetch is over: what it counted is cached and served *)
LEMMA CountedKeepsPanel ==
    ASSUME PanelInv, NEW t \in Terminals, Counted(t)
    PROVE  PanelInv'
<1>1. request' = [request EXCEPT ![t] = {}] /\ UNCHANGED <<panelClock, db>>
  BY DEF Counted
<1>2. PICK q \in request[t] :
        /\ Cardinality(DOMAIN q.counts) = Len(Stages)
        /\ panelCache' = {[at |-> q.now, begun |-> q.now, counts |-> q.counts]}
        /\ panelPage' = {[begun |-> q.now, counts |-> q.counts, stale |-> FALSE,
                          asked |-> q.now]}
  BY DEF Counted, Put, PanelAnswer
<1>3. q.now \in Nat /\ q.counts \in CountsType /\ DOMAIN q.counts = ToSet(Stages)
  BY <1>2, StagesAreSome DEF PanelInv, FetchesInOrder
<1>4. CacheWhole'
  BY <1>2, <1>3 DEF CacheWhole
<1>5. q.now - q.now < PanelTtl /\ q.counts # <<>>
  BY <1>3, StagesAreSome, NoCounts, PanelAssumption
<1>6. HonestPanel'
  BY <1>2, <1>3, <1>5, WholeIsHonest DEF HonestPanel
<1>7. FetchesInOrder' /\ RowsTyped'
  BY <1>1 DEF PanelInv, FetchesInOrder, RowsTyped, Columns
<1> QED
  BY <1>4, <1>6, <1>7 DEF PanelInv

(* An answer from the cache, young enough *)
LEMMA HitKeepsPanel ==
    ASSUME PanelInv, NEW t \in Terminals, Hit(t)
    PROVE  PanelInv'
<1>1. UNCHANGED <<panelClock, db, panelCache, request>>
  BY DEF Hit
<1>2. PICK c \in panelCache :
        /\ panelClock - c.at < PanelTtl
        /\ panelPage' = {[begun |-> c.begun, counts |-> c.counts, stale |-> FALSE,
                          asked |-> panelClock]}
  BY DEF Hit, Cached, PanelAnswer
<1>3. c.begun = c.at /\ c.counts \in CountsType /\ DOMAIN c.counts = ToSet(Stages)
  BY <1>2 DEF PanelInv, CacheWhole
<1>4. c.counts # <<>>
  BY <1>3, StagesAreSome, NoCounts
<1>5. HonestPanel'
  BY <1>2, <1>3, <1>4, WholeIsHonest DEF HonestPanel
<1>6. FetchesInOrder' /\ RowsTyped' /\ CacheWhole'
  BY <1>1 DEF PanelInv, FetchesInOrder, RowsTyped, CacheWhole, Columns
<1> QED
  BY <1>5, <1>6 DEF PanelInv

(* The shaping fails: the last counts, flagged, or no numbers at all *)
LEMMA ShapeFailsKeepsPanel ==
    ASSUME PanelInv, NEW t \in Terminals, ShapeFails(t)
    PROVE  PanelInv'
<1>1. request' = [request EXCEPT ![t] = {}] /\ UNCHANGED <<panelClock, db, panelCache>>
  BY DEF ShapeFails
<1>2. PICK q \in request[t] :
        IF panelCache = {} THEN PanelAnswer(q.now, <<>>, TRUE, q.now)
        ELSE \E c \in panelCache : PanelAnswer(c.begun, c.counts, TRUE, q.now)
  BY DEF ShapeFails
<1>3. PICK begun, counts :
        /\ panelPage' = {[begun |-> begun, counts |-> counts, stale |-> TRUE,
                          asked |-> q.now]}
        /\ counts \in CountsType /\ (counts = <<>> \/ DOMAIN counts = ToSet(Stages))
  <2>1. CASE panelCache = {}
    BY <1>2, <2>1, NoCounts DEF PanelAnswer
  <2>2. CASE panelCache # {}
    BY <1>2, <2>2 DEF PanelAnswer, PanelInv, CacheWhole
  <2> QED
    BY <2>1, <2>2
<1>4. HonestPanel'
  BY <1>3, WholeIsHonest DEF HonestPanel
<1>5. FetchesInOrder' /\ RowsTyped' /\ CacheWhole'
  BY <1>1 DEF PanelInv, FetchesInOrder, RowsTyped, CacheWhole, Columns
<1> QED
  BY <1>4, <1>5 DEF PanelInv

LEMMA PanelStep == PanelInv /\ [PanelNext]_panelVars => PanelInv'
<1> SUFFICES ASSUME PanelInv, [PanelNext]_panelVars
             PROVE  PanelInv'
  OBVIOUS
<1>1. CASE Arrive \/ SettleRow \/ PanelTick
  BY <1>1, RowsStayTyped
<1>2. ASSUME NEW t \in Terminals, Hit(t) PROVE PanelInv'
  BY <1>2, HitKeepsPanel
<1>3. ASSUME NEW t \in Terminals, Miss(t) PROVE PanelInv'
  <2>1. /\ UNCHANGED <<panelClock, db, panelCache, panelPage>>
        /\ request' = [request EXCEPT ![t] =
              {[now |-> panelClock, since |-> panelClock - PanelWindow, counts |-> <<>>]}]
    BY <1>3 DEF Miss
  <2> DEFINE q == [now |-> panelClock, since |-> panelClock - PanelWindow, counts |-> <<>>]
  <2>2. /\ q \in [now : Nat, since : Int, counts : CountsType]
        /\ IsFiniteSet(DOMAIN q.counts) /\ Cardinality(DOMAIN q.counts) = 0
        /\ DOMAIN q.counts = {} /\ 1..0 = {} /\ 0 \in 0..Len(Stages)
    BY NoCounts, FS_EmptySet, PanelAssumption, StagesAreSome DEF PanelInv, RowsTyped
  <2>3. DOMAIN request = Terminals
    BY DEF PanelInv, FetchesInOrder
  <2> HIDE DEF q
  <2>4. \A u \in Terminals : request'[u] = IF u = t THEN {q} ELSE request[u]
    BY <2>1, <2>3 DEF q
  <2>5. DOMAIN q.counts = {Stages[i] : i \in 1..Cardinality(DOMAIN q.counts)}
    BY <2>2
  <2>6. FetchesInOrder'
    BY <2>1, <2>2, <2>3, <2>4, <2>5 DEF PanelInv, FetchesInOrder
  <2>7. RowsTyped' /\ CacheWhole' /\ HonestPanel'
    BY <2>1 DEF PanelInv, RowsTyped, CacheWhole, HonestPanel, Columns
  <2> QED
    BY <2>6, <2>7 DEF PanelInv
<1>4. ASSUME NEW t \in Terminals, CountStage(t) PROVE PanelInv'
  BY <1>4, CountKeepsPanel
<1>5. ASSUME NEW t \in Terminals, Counted(t) PROVE PanelInv'
  BY <1>5, CountedKeepsPanel
<1>6. ASSUME NEW t \in Terminals, ShapeFails(t) PROVE PanelInv'
  BY <1>6, ShapeFailsKeepsPanel
<1>7. ASSUME NEW t \in Terminals, StatementFails(t) PROVE PanelInv'
  <2>1. /\ UNCHANGED <<panelClock, db, panelCache>> /\ panelPage' = {}
        /\ request' = [request EXCEPT ![t] = {}]
    BY <1>7 DEF StatementFails
  <2> QED
    BY <2>1 DEF PanelInv, RowsTyped, CacheWhole, FetchesInOrder, HonestPanel, Columns
<1>8. CASE UNCHANGED panelVars
  BY <1>8 DEF panelVars, PanelInv, RowsTyped, CacheWhole, FetchesInOrder, HonestPanel, Columns
<1> QED
  BY <1>1, <1>2, <1>3, <1>4, <1>5, <1>6, <1>7, <1>8 DEF PanelNext, Serve

(* In every behaviour of the sum the panels of one moment agree with each   *)
(* other, and what is served unflagged is young and whole, for any rows,    *)
(* terminals and failures (systems_pipeline.py, funnel.py, read_api.py).    *)
THEOREM PanelsNeverDisagree == RecordSpec => []PanelsInAgreement
<1> DEFINE AtPanels == part = "panels" => PanelInv
<1>1. RecordInit => AtPanels
  BY PanelInitially DEF RecordInit
<1>2. AtPanels /\ [RecordNext]_recordVars => AtPanels'
  <2> SUFFICES ASSUME AtPanels, [RecordNext]_recordVars, part' = "panels"
               PROVE  PanelInv'
    OBVIOUS
  <2>1. CASE InPanels /\ PanelNext
    BY <2>1, PanelStep DEF InPanels
  <2>2. CASE UNCHANGED recordVars
    <3>1. part' = part /\ UNCHANGED panelVars
      BY <2>2 DEF recordVars, panelOwn, panelVars
    <3> QED
      BY <3>1, PanelStep
  <2>3. CASE part' = part /\ part # "panels"
    BY <2>3
  <2>4. RecordNext => (InPanels /\ PanelNext) \/ (part' = part /\ part # "panels")
    BY DEF RecordNext, InLedger, InPoll, InContent, InHealth, InOutcomes, InAccount, InCandles,
           InTokens, InTrace, InStream
  <2> QED
    BY <2>1, <2>2, <2>3, <2>4
<1>3. AtPanels => PanelsInAgreement
  BY PanelsAddUp DEF PanelsInAgreement, PanelInv
<1> HIDE DEF AtPanels
<1> QED
  BY <1>1, <1>2, <1>3, PTL DEF RecordSpec
=============================================================================
