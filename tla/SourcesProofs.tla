----------------------------- MODULE SourcesProofs -----------------------------
(***************************************************************************)
(* Proofs about what the sources bring in and what is stored of it: the    *)
(* poll loop (PollLoop), for every set of channels and every limit; the    *)
(* scoring of what it stored and the windows of its counts (Sentiment),    *)
(* for every set of symbols, batch and retention; the metadata of a token  *)
(* (TokenRows), for every set of metadata and every interval; and candles  *)
(* (Candles), for every set of pairs and every page. All hold for any      *)
(* number of posts, edits, items, hours, prices, failures and restarts.    *)
(***************************************************************************)
EXTENDS PollLoop, Sentiment, TokenRows, Candles, SumTheorems

(* The poll loop *)

(* Messages no cursor loses by passing them *)
Kept == table \cup OffTopic \cup gaps

(* What the advances of a cycle rest on is kept, or in the batch read       *)
AdvancesRead ==
    \A c \in DOMAIN advanced : \A i \in advanced[c].read : <<c, i>> \in Kept \cup batch

(* The stage is void while channels are walked, holds the advances of the   *)
(* cycle while its batch is inserted, and rests on what is kept once it is  *)
StageRead ==
    /\ pollPc \in {"client", "walk", "publish"} => DOMAIN pending = {}
    /\ pollPc = "insert" =>
          \A c \in DOMAIN pending : \A i \in pending[c].read : <<c, i>> \in Kept \cup batch
    /\ pollPc = "commit" =>
          \A c \in DOMAIN pending : \A i \in pending[c].read : <<c, i>> \in Kept

PollInv == CursorClaimsStored /\ AdvancesRead /\ StageRead

-----------------------------------------------------------------------------
LEMMA PollInitially == PollInit => PollInv
BY DEF PollInit, PollInv, CursorClaimsStored, AdvancesRead, StageRead, NoAdvance, None

(* Leaving a cycle early: nothing but the place of the loop changes *)
LEMMA ElsewhereKeeps ==
    ASSUME PollInv, UNCHANGED <<cursor, table, gaps, advanced, batch, pending>>,
           pollPc' \in {"toggle", "quota", "expire", "list", "sleep", pollPc}
    PROVE  PollInv'
BY DEF PollInv, CursorClaimsStored, AdvancesRead, StageRead, Kept

(* A walk ends, or fails *)
LEMMA LeavingKeeps ==
    ASSUME PollInv, UNCHANGED <<cursor, table, gaps, advanced, batch, pending>>,
           pollPc \in {"client", "walk", "publish"},
           pollPc' \in {"client", "walk", "publish"}
    PROVE  PollInv'
BY DEF PollInv, CursorClaimsStored, AdvancesRead, StageRead, Kept

(* A cycle begins, with nothing staged *)
LEMMA BeginKeeps ==
    ASSUME PollInv, UNCHANGED <<cursor, table, gaps>>,
           pending' = NoAdvance, advanced' = NoAdvance
    PROVE  PollInv'
BY DEF PollInv, CursorClaimsStored, AdvancesRead, StageRead, Kept, NoAdvance

(* The process starts again, without cursors *)
LEMMA ForgetKeeps ==
    ASSUME PollInv, UNCHANGED <<table, gaps>>, cursor' = [c \in Channels |-> None],
           pending' = NoAdvance, advanced' = NoAdvance
    PROVE  PollInv'
BY DEF PollInv, CursorClaimsStored, AdvancesRead, StageRead, NoAdvance, None

(* An advance rests on what was just read, and on the cursor before it *)
LEMMA FetchKeeps ==
    ASSUME PollInv, NEW c \in Channels, FetchChannel(c)
    PROVE  PollInv'
<1>1. UNCHANGED <<cursor, table, gaps, pending, pollPc>>
  BY DEF FetchChannel, memory
<1>2. batch' = batch \cup ({<<c, i>> : i \in Window(c)} \ OffTopic)
  BY DEF FetchChannel
<1>3. PICK read :
         /\ read \in {Window(c), Window(c) \cup 1..cursor[c]}
         /\ \A d \in DOMAIN advanced' :
               IF d = c THEN advanced'[d].read = read
               ELSE d \in DOMAIN advanced /\ advanced'[d] = advanced[d]
  BY DEF FetchChannel
<1>4. \A i \in read : <<c, i>> \in Kept \cup batch'
  BY <1>2, <1>3 DEF PollInv, CursorClaimsStored, Kept
<1>5. AdvancesRead'
  BY <1>1, <1>2, <1>3, <1>4 DEF PollInv, AdvancesRead, Kept
<1>6. StageRead' /\ CursorClaimsStored'
  BY <1>1, <1>2 DEF PollInv, StageRead, CursorClaimsStored, Kept
<1> QED
  BY <1>5, <1>6 DEF PollInv

LEMMA PublishKeeps ==
    ASSUME PollInv, PublishStatus
    PROVE  PollInv'
<1>1. /\ pollPc = "publish" /\ pollPc' \in {"insert", "sleep"}
      /\ pending' \in {pending, advanced}
      /\ UNCHANGED <<cursor, table, gaps, advanced, batch>>
  BY DEF PublishStatus, Goto, cycle
<1>2. \A c \in DOMAIN pending' : \A i \in pending'[c].read : <<c, i>> \in Kept \cup batch
  BY <1>1 DEF PollInv, AdvancesRead, StageRead
<1> QED
  BY <1>1, <1>2 DEF PollInv, CursorClaimsStored, AdvancesRead, StageRead, Kept

LEMMA InsertKeeps ==
    ASSUME PollInv, Insert
    PROVE  PollInv'
<1>1. /\ pollPc = "insert" /\ pollPc' = "commit" /\ table' = table \cup batch
      /\ UNCHANGED <<cursor, pending, gaps, advanced, batch>>
  BY DEF Insert, Goto, memory, cycle
<1> QED
  BY <1>1 DEF PollInv, CursorClaimsStored, AdvancesRead, StageRead, Kept

(* The cursors move over what was read, which is stored by now, and over    *)
(* what was beyond the limit                                                *)
LEMMA CommitKeeps ==
    ASSUME PollInv, CommitCursor
    PROVE  PollInv'
<1> DEFINE beyond(c) == {<<c, i>> : i \in (1..pending[c].to) \ pending[c].read}
<1>1. /\ pollPc = "commit" /\ pollPc' = "sleep" /\ pending' = NoAdvance
      /\ cursor' = [c \in Channels |->
                       IF c \in DOMAIN pending THEN pending[c].to ELSE cursor[c]]
      /\ gaps' = gaps \cup UNION {beyond(c) : c \in DOMAIN pending}
      /\ UNCHANGED <<table, advanced, batch>>
  BY DEF CommitCursor, Goto, cycle
<1>2. \A c \in DOMAIN pending : \A i \in 1..pending[c].to : <<c, i>> \in Kept'
  <2> SUFFICES ASSUME NEW c \in DOMAIN pending, NEW i \in 1..pending[c].to
               PROVE  <<c, i>> \in Kept'
    OBVIOUS
  <2>1. CASE i \in pending[c].read
    BY <1>1, <2>1 DEF PollInv, StageRead, Kept
  <2>2. CASE i \notin pending[c].read
    BY <1>1, <2>2 DEF Kept
  <2> QED
    BY <2>1, <2>2
<1>3. Kept \subseteq Kept'
  BY <1>1 DEF Kept
<1>4. CursorClaimsStored'
  BY <1>1, <1>2, <1>3 DEF PollInv, CursorClaimsStored, Kept
<1>5. AdvancesRead' /\ StageRead'
  BY <1>1, <1>3 DEF PollInv, AdvancesRead, StageRead
<1> QED
  BY <1>4, <1>5 DEF PollInv

LEMMA PollStep == PollInv /\ [PollNext]_pollVars => PollInv'
<1> SUFFICES ASSUME PollInv, [PollNext]_pollVars
             PROVE  PollInv'
  OBVIOUS
<1>1. CASE Toggle \/ Quota \/ SetExpiry \/ Wake \/ QuotaFails \/ Die \/ InsertFails
  <2>1. /\ UNCHANGED <<cursor, table, gaps, advanced, batch, pending>>
        /\ pollPc' \in {"toggle", "quota", "expire", "list", "sleep"}
    BY <1>1 DEF Toggle, Quota, SetExpiry, Wake, QuotaFails, Die, InsertFails, Goto, memory,
                cycle
  <2> QED
    BY <2>1, ElsewhereKeeps
<1>2. CASE Edit \/ Revoke \/ WindowExpires \/ (\E c \in Channels : Post(c) \/ WriteOff(c))
           \/ UNCHANGED pollVars
  <2>1. UNCHANGED <<cursor, table, gaps, advanced, batch, pending, pollPc>>
    BY <1>2 DEF Edit, Revoke, WindowExpires, Post, WriteOff, memory, cycle, pollVars
  <2> QED
    BY <2>1, ElsewhereKeeps
<1>3. CASE EnsureClient \/ SessionDies \/ WalkFails \/ EndWalk
  <2>1. /\ UNCHANGED <<cursor, table, gaps, advanced, batch, pending>>
        /\ pollPc \in {"client", "walk", "publish"} /\ pollPc' \in {"client", "walk", "publish"}
    BY <1>3 DEF EnsureClient, SessionDies, WalkFails, EndWalk, Leave, Goto, memory
  <2> QED
    BY <2>1, LeavingKeeps
<1>4. CASE PublishFails
  <2>1. /\ UNCHANGED <<cursor, table, gaps, advanced, batch, pending>>
        /\ pollPc = "publish" /\ pollPc' \in {"publish", "sleep"}
    BY <1>4 DEF PublishFails, Leave, Goto, memory
  <2> QED
    BY <2>1, ElsewhereKeeps, LeavingKeeps
<1>5. CASE ReadList \/ ListFails
  <2>1. UNCHANGED <<cursor, table, gaps>> /\ pending' = NoAdvance /\ advanced' = NoAdvance
    BY <1>5 DEF ReadList, ListFails
  <2> QED
    BY <2>1, BeginKeeps
<1>6. CASE Renew \/ PollRestart
  <2>1. /\ UNCHANGED <<table, gaps>> /\ cursor' = [c \in Channels |-> None]
        /\ pending' = NoAdvance /\ advanced' = NoAdvance
    BY <1>6 DEF Renew, PollRestart
  <2> QED
    BY <2>1, ForgetKeeps
<1>7. ASSUME NEW c \in Channels, FetchChannel(c)
      PROVE  PollInv'
  BY <1>7, FetchKeeps
<1>8. CASE PublishStatus
  BY <1>8, PublishKeeps
<1>9. CASE Insert
  BY <1>9, InsertKeeps
<1>10. CASE CommitCursor
  BY <1>10, CommitKeeps
<1> QED
  BY <1>1, <1>2, <1>3, <1>4, <1>5, <1>6, <1>7, <1>8, <1>9, <1>10
     DEF PollNext, LoopStep, LoopFails, Environment

(* A cursor never passes a message that is not stored, unless it is off     *)
(* topic or was beyond the limit of the read (loop.py and telegram.py:      *)
(* commit only after insert_items returned).                                *)
THEOREM CursorIsAClaim == PollSpec => []CursorClaimsStored
<1>1. PollInit => PollInv
  BY PollInitially
<1>2. PollInv /\ [PollNext]_pollVars => PollInv'
  BY PollStep
<1>3. PollInv => CursorClaimsStored
  BY DEF PollInv
<1> QED
  BY <1>1, <1>2, <1>3, PTL DEF PollSpec

-----------------------------------------------------------------------------
(* What is stored is scored and counted *)

(* A row is counted only after it was marked, and published only after it   *)
(* was counted                                                              *)
RowsInOrder ==
    \A r \in Nat, s \in Symbols :
        /\ r \notin scored => At(counted, <<r, s>>) = 0
        /\ At(counted, <<r, s>>) \in {0, 1}
        /\ At(published, <<r, s>>) \in 0..At(counted, <<r, s>>)

(* Of the batch in hand, the rows after the one in hand are not marked      *)
BatchUnmarked ==
    /\ sentimentPc = "row" => \A r \in queue : r \notin scored
    /\ sentimentPc \in {"count", "publish"} =>
          /\ queue # {} /\ Min(queue) \in scored /\ left \subseteq Symbols
          /\ \A r \in queue \ {Min(queue)} : r \notin scored
          /\ \A s \in left : At(counted, <<Min(queue), s>>) = 0

(* The mention whose event is due was counted, and is not counted again     *)
MentionDue ==
    sentimentPc = "publish" =>
        /\ symbol \in Symbols \ left
        /\ At(counted, <<Min(queue), symbol>>) = 1
        /\ At(published, <<Min(queue), symbol>>) = 0

SentimentInv ==
    /\ ItemRows \subseteq Nat /\ IsFiniteSet(ItemRows) /\ queue \subseteq Nat
    /\ \A r \in ItemRows : items[r].symbols \subseteq Symbols
    /\ queue \subseteq ItemRows
    /\ sentimentPc \in {"idle", "row", "count", "publish"}
    /\ RowsInOrder /\ BatchUnmarked /\ MentionDue

-----------------------------------------------------------------------------
(* A set of rows that is not empty has a first one *)
LEMMA FirstRow ==
    ASSUME NEW Q, Q \subseteq Nat, Q # {}
    PROVE  Min(Q) \in Q
<1>1. \E x \in Q : \A y \in Q : ~ (<<y, x>> \in OpToRel(<, Nat))
  BY NatLessThanWellFounded, WFMin
<1>2. \A x, y \in Q : <<y, x>> \in OpToRel(<, Nat) <=> y < x
  BY DEF OpToRel
<1>3. \E x \in Q : \A y \in Q : x <= y
  <2>1. PICK x \in Q : \A y \in Q : ~ (<<y, x>> \in OpToRel(<, Nat))
    BY <1>1
  <2>2. \A y \in Q : ~ (y < x)
    BY <1>2, <2>1
  <2>3. \A y \in Q : x <= y
    BY <2>2
  <2> QED
    BY <2>3
<1> QED
  BY <1>3 DEF Min

(* Adding to a count changes that one only *)
LEMMA AddOne ==
    ASSUME NEW f, NEW k, NEW x
    PROVE  At(Add(f, k, 1), x) = IF x = k THEN At(f, k) + 1 ELSE At(f, x)
BY DEF At, Add

LEMMA SentimentInitially == SentimentInit => SentimentInv
<1> SUFFICES ASSUME SentimentInit
             PROVE  SentimentInv
  OBVIOUS
<1>1. ItemRows = {} /\ IsFiniteSet(ItemRows)
  BY FS_EmptySet DEF SentimentInit, ItemRows
<1>2. \A k : At(counted, k) = 0 /\ At(published, k) = 0
  BY DEF SentimentInit, At
<1> QED
  BY <1>1, <1>2 DEF SentimentInit, SentimentInv, RowsInOrder, BatchUnmarked, MentionDue

LEMMA InsertRowKeeps ==
    ASSUME SentimentInv, InsertItem
    PROVE  SentimentInv'
<1>1. PICK S \in (SUBSET Symbols) \ {{}}, age \in Ages :
         items' = [r \in ItemRows \cup {Cardinality(ItemRows) + 1} |->
                      IF r \in ItemRows THEN items[r] ELSE [symbols |-> S, at |-> hour - age]]
  BY DEF InsertItem
<1>2. ItemRows' = ItemRows \cup {Cardinality(ItemRows) + 1}
  BY <1>1 DEF ItemRows
<1>3. ItemRows' \subseteq Nat /\ IsFiniteSet(ItemRows')
  <2>1. ItemRows \subseteq Nat /\ IsFiniteSet(ItemRows)
    BY DEF SentimentInv
  <2>2. Cardinality(ItemRows) \in Nat
    BY <2>1, FS_CardinalityType
  <2>3. IsFiniteSet(ItemRows \cup {Cardinality(ItemRows) + 1})
    BY <2>1, FS_AddElement
  <2>4. ItemRows' \subseteq Nat
    <3>1. Cardinality(ItemRows) + 1 \in Nat
      BY <2>2
    <3> QED
      BY <1>2, <2>1, <3>1, Zenon
  <2>5. IsFiniteSet(ItemRows')
    BY <1>2, <2>3
  <2> QED
    BY <2>4, <2>5
<1>4. \A r \in ItemRows' : items'[r].symbols \subseteq Symbols
  BY <1>1, <1>2 DEF SentimentInv
<1>5. UNCHANGED <<scored, sentimentPc, queue, left, symbol, counted, published>>
  BY DEF InsertItem, work, history
<1> QED
  BY <1>2, <1>3, <1>4, <1>5
     DEF SentimentInv, RowsInOrder, BatchUnmarked, MentionDue

LEMMA FetchRowKeeps ==
    ASSUME SentimentInv, Fetch
    PROVE  SentimentInv'
<1>1. Unscored \subseteq ItemRows \ scored
  BY DEF Unscored
<1>2. /\ sentimentPc' = "row" /\ queue' = Unscored
      /\ UNCHANGED <<items, scored, counted, published>>
  BY DEF Fetch, store, history
<1> QED
  BY <1>1, <1>2 DEF SentimentInv, ItemRows, RowsInOrder, BatchUnmarked, MentionDue

(* The first row of the batch is marked, and none of its symbols counted *)
LEMMA MarkRowKeeps ==
    ASSUME SentimentInv, MarkScored
    PROVE  SentimentInv'
<1> DEFINE r == Min(queue)
<1>1. /\ sentimentPc = "row" /\ sentimentPc' = "count" /\ queue # {}
      /\ scored' = scored \cup {r} /\ left' = items[r].symbols
      /\ UNCHANGED <<items, queue, counted, published>>
  BY DEF MarkScored, history
<1>2. r \in queue /\ r \in ItemRows /\ r \in Nat /\ r \notin scored
  BY <1>1, FirstRow DEF SentimentInv, BatchUnmarked
<1>3. left' \subseteq Symbols /\ \A s \in left' : At(counted, <<r, s>>) = 0
  BY <1>1, <1>2 DEF SentimentInv, RowsInOrder
<1> QED
  BY <1>1, <1>2, <1>3 DEF SentimentInv, ItemRows, RowsInOrder, BatchUnmarked, MentionDue

LEMMA CountRowKeeps ==
    ASSUME SentimentInv, NEW s \in Symbols, Count(s)
    PROVE  SentimentInv'
<1> DEFINE r == Min(queue)
<1>1. /\ sentimentPc = "count" /\ sentimentPc' = "publish" /\ s \in left
      /\ counted' = Add(counted, <<r, s>>, 1) /\ symbol' = s /\ left' = left \ {s}
      /\ UNCHANGED <<items, scored, queue, published>>
  BY DEF Count
<1>2. r \in queue /\ r \in Nat /\ At(counted, <<r, s>>) = 0
  BY <1>1, FirstRow DEF SentimentInv, BatchUnmarked
<1>3. \A k : At(counted', k) = IF k = <<r, s>> THEN 1 ELSE At(counted, k)
  BY <1>1, <1>2, AddOne
<1>4. At(published, <<r, s>>) = 0
  BY <1>2 DEF SentimentInv, RowsInOrder
<1>5. r \in scored
  BY <1>1 DEF SentimentInv, BatchUnmarked
<1> QED
  BY <1>1, <1>2, <1>3, <1>4, <1>5
     DEF SentimentInv, ItemRows, RowsInOrder, BatchUnmarked, MentionDue

LEMMA PublishRowKeeps ==
    ASSUME SentimentInv, PublishSentiment
    PROVE  SentimentInv'
<1> DEFINE r == Min(queue)
<1>1. /\ sentimentPc = "publish" /\ sentimentPc' = "count"
      /\ published' = Add(published, <<r, symbol>>, 1)
      /\ UNCHANGED <<items, scored, queue, left, counted>>
  BY DEF PublishSentiment, store
<1>2. r \in Nat /\ At(counted, <<r, symbol>>) = 1 /\ At(published, <<r, symbol>>) = 0
  BY <1>1, FirstRow DEF SentimentInv, BatchUnmarked, MentionDue
<1>3. \A k : At(published', k) = IF k = <<r, symbol>> THEN 1 ELSE At(published, k)
  BY <1>1, <1>2, AddOne
<1>4. RowsInOrder'
  <2> SUFFICES ASSUME NEW q \in Nat, NEW s \in Symbols
               PROVE  /\ q \notin scored => At(counted, <<q, s>>) = 0
                      /\ At(counted, <<q, s>>) \in {0, 1}
                      /\ At(published', <<q, s>>) \in 0..At(counted, <<q, s>>)
    BY <1>1 DEF RowsInOrder
  <2>1. /\ q \notin scored => At(counted, <<q, s>>) = 0
        /\ At(counted, <<q, s>>) \in {0, 1}
        /\ At(published, <<q, s>>) \in 0..At(counted, <<q, s>>)
    BY DEF SentimentInv, RowsInOrder
  <2>2. CASE <<q, s>> = <<r, symbol>>
    BY <1>2, <1>3, <2>1, <2>2
  <2>3. CASE <<q, s>> # <<r, symbol>>
    BY <1>3, <2>1, <2>3
  <2> QED
    BY <2>2, <2>3
<1>5. BatchUnmarked' /\ MentionDue'
  BY <1>1 DEF SentimentInv, BatchUnmarked, MentionDue
<1> QED
  BY <1>1, <1>4, <1>5 DEF SentimentInv, ItemRows

LEMMA EndRowKeeps ==
    ASSUME SentimentInv, EndRow
    PROVE  SentimentInv'
<1>1. /\ sentimentPc = "count" /\ queue' = queue \ {Min(queue)}
      /\ sentimentPc' = IF queue' = {} THEN "idle" ELSE "row"
      /\ UNCHANGED <<items, scored, left, counted, published>>
  BY DEF EndRow, store, history
<1> QED
  BY <1>1 DEF SentimentInv, ItemRows, RowsInOrder, BatchUnmarked, MentionDue

(* Whatever raises, the batch is given up and nothing stored changes *)
LEMMA BatchFailsKeeps ==
    ASSUME SentimentInv, BatchFails
    PROVE  SentimentInv'
<1>1. /\ sentimentPc' = "idle" /\ queue' = {}
      /\ UNCHANGED <<items, scored, counted, published>>
  BY DEF BatchFails, store, history
<1> QED
  BY <1>1 DEF SentimentInv, ItemRows, RowsInOrder, BatchUnmarked, MentionDue

LEMMA SentimentStep == SentimentInv /\ [SentimentNext]_sentimentVars => SentimentInv'
<1> SUFFICES ASSUME SentimentInv, [SentimentNext]_sentimentVars
             PROVE  SentimentInv'
  OBVIOUS
<1>1. CASE HourPasses \/ Compaction \/ CompactionFails \/ UNCHANGED sentimentVars
  <2>1. UNCHANGED <<items, scored, sentimentPc, queue, left, symbol, counted, published>>
    BY <1>1 DEF HourPasses, Compaction, ReadOldHours, DeleteOldHours, CompactionFails,
                sentimentVars, store, work, history
  <2> QED
    BY <2>1 DEF SentimentInv, ItemRows, RowsInOrder, BatchUnmarked, MentionDue
<1>2. CASE InsertItem
  BY <1>2, InsertRowKeeps
<1>3. CASE Fetch
  BY <1>3, FetchRowKeeps
<1>4. CASE MarkScored
  BY <1>4, MarkRowKeeps
<1>5. ASSUME NEW s \in Symbols, Count(s)
      PROVE  SentimentInv'
  BY <1>5, CountRowKeeps
<1>6. CASE PublishSentiment
  BY <1>6, PublishRowKeeps
<1>7. CASE EndRow
  BY <1>7, EndRowKeeps
<1>8. CASE BatchFails
  BY <1>8, BatchFailsKeeps
<1> QED
  BY <1>1, <1>2, <1>3, <1>4, <1>5, <1>6, <1>7, <1>8 DEF SentimentNext, WorkerStep

(* A mention is counted once at most and published once at most, and never  *)
(* published uncounted, whatever raises and whenever the service restarts   *)
(* (sentiment-service worker.py, mark_scored before upsert_aggregate).      *)
THEOREM MentionsAtMostOnce == SentimentSpec => []AtMostOnce
<1>1. SentimentInit => SentimentInv
  BY SentimentInitially
<1>2. SentimentInv /\ [SentimentNext]_sentimentVars => SentimentInv'
  BY SentimentStep
<1>3. SentimentInv => AtMostOnce
  <2> SUFFICES ASSUME SentimentInv, NEW r \in ItemRows, NEW s \in Symbols
               PROVE  /\ At(published, <<r, s>>) <= At(counted, <<r, s>>)
                      /\ At(counted, <<r, s>>) <= 1
    BY DEF AtMostOnce
  <2>1. /\ At(counted, <<r, s>>) \in {0, 1}
        /\ At(published, <<r, s>>) \in 0..At(counted, <<r, s>>)
    BY DEF SentimentInv, RowsInOrder
  <2> QED
    BY <2>1
<1> QED
  BY <1>1, <1>2, <1>3, PTL DEF SentimentSpec

-----------------------------------------------------------------------------
-----------------------------------------------------------------------------
(* Days and windows *)

(* The day of an hour begins no later than the hour, and days follow hours *)
LEMMA DayBegins ==
    ASSUME NEW h \in Int
    PROVE  /\ Midnight(h) \in Int /\ Midnight(h) <= h
           /\ Midnight(h) <= Midnight(h + 1)
<1>1. DayHours \in Nat /\ DayHours > 0
  BY SentimentAssumption
<1> DEFINE q(n) == n \div DayHours
           r(n) == n % DayHours
<1>2. ASSUME NEW n \in Int
      PROVE  /\ q(n) \in Int /\ r(n) \in 0..DayHours - 1
             /\ n = DayHours * q(n) + r(n)
  BY <1>1, SMT
<1>3. h + 1 \in Int
  OBVIOUS
<1>4. PICK p0 \in Int, t0 \in 0..DayHours - 1 : h = DayHours * p0 + t0 /\ t0 = r(h)
  BY <1>2
<1>5. PICK p1 \in Int, t1 \in 0..DayHours - 1 : h + 1 = DayHours * p1 + t1 /\ t1 = r(h + 1)
  BY <1>2, <1>3
<1> HIDE DEF q, r
<1>6. p0 <= p1
  <2> SUFFICES ASSUME p1 <= p0 - 1 PROVE FALSE
    OBVIOUS
  <2>1. DayHours * p1 <= DayHours * (p0 - 1)
    BY <1>1
  <2>2. DayHours * (p0 - 1) = DayHours * p0 - DayHours
    BY <1>1
  <2> QED
    BY <1>1, <1>4, <1>5, <2>1, <2>2
<1>7. DayHours * p0 <= DayHours * p1 /\ DayHours * p0 \in Int /\ DayHours * p1 \in Int
  BY <1>1, <1>6
<1>8. Midnight(h) = DayHours * p0 /\ Midnight(h + 1) = DayHours * p1
  BY <1>1, <1>4, <1>5 DEF Midnight, r
<1> QED
  BY <1>1, <1>4, <1>7, <1>8

-----------------------------------------------------------------------------
(* A table of mentions: of finitely many symbols and hours, or days *)
Counter(f) ==
    /\ IsFiniteSet(DOMAIN f) /\ DOMAIN f \subseteq Symbols \X Int
    /\ \A k \in DOMAIN f : f[k] \in Nat

CellsOf(f, s) == {k \in DOMAIN f : k[1] = s}
CellsSince(f, s, from) == {k \in DOMAIN f : k[1] = s /\ k[2] >= from}
OldCells(cut, s) == {k \in OldHours(cut) : k[1] = s}

LEMMA PartOfCounter ==
    ASSUME NEW f, Counter(f), NEW T \in SUBSET DOMAIN f
    PROVE  /\ IsFiniteSet(T) /\ \A k \in T : f[k] \in Nat /\ f[k] \in Int
           /\ SumFunctionOnSet(f, T) \in Nat
<1>1. IsFiniteSet(T) /\ \A k \in T : f[k] \in Nat
  BY FS_Subset DEF Counter
<1> QED
  BY <1>1, SumIsNat

(* A mention more in a cell is one more in each sum the cell is in *)
LEMMA OneMore ==
    ASSUME NEW f, Counter(f), NEW key, NEW T \in SUBSET (DOMAIN f \cup {key})
    PROVE  SumFunctionOnSet(Add(f, key, 1), T)
             = SumFunctionOnSet(f, T \cap DOMAIN f) + (IF key \in T THEN 1 ELSE 0)
<1> DEFINE g == Add(f, key, 1)
           rest == T \ {key}
<1>1. /\ DOMAIN g = DOMAIN f \cup {key}
      /\ \A k \in DOMAIN f \ {key} : g[k] = f[k]
      /\ g[key] = At(f, key) + 1
  BY DEF Add
<1> HIDE DEF g
<1>2. /\ IsFiniteSet(rest) /\ IsFiniteSet(T) /\ rest \subseteq DOMAIN f \ {key}
      /\ \A k \in rest : f[k] \in Int /\ g[k] = f[k]
  <2>1. rest \in SUBSET DOMAIN f
    OBVIOUS
  <2>2. IsFiniteSet(rest) /\ \A k \in rest : f[k] \in Int
    BY <2>1, PartOfCounter
  <2>3. IsFiniteSet(rest \cup {key})
    BY <2>2, FS_AddElement
  <2>4. T \in SUBSET (rest \cup {key})
    OBVIOUS
  <2>5. IsFiniteSet(T)
    BY <2>3, <2>4, FS_Subset
  <2> QED
    BY <1>1, <2>1, <2>2, <2>5
<1> HIDE DEF rest
<1>3. SumFunctionOnSet(g, rest) = SumFunctionOnSet(f, rest)
  BY <1>2, SumEqual
<1>4. PICK n \in Int : n = SumFunctionOnSet(f, rest)
  BY <1>2, SumIsInt
<1>5. CASE key \notin T
  <2>1. T = rest /\ T \cap DOMAIN f = rest
    BY <1>5 DEF rest
  <2> QED
    BY <1>3, <1>4, <1>5, <2>1 DEF g
<1>6. CASE key \in T
  <2>1. At(f, key) \in Int /\ g[key] = At(f, key) + 1 /\ \A k \in T : g[k] \in Int
    BY <1>1, <1>2 DEF At, Counter
  <2>2. SumFunctionOnSet(g, T) = g[key] + SumFunctionOnSet(g, rest)
    BY <1>2, <1>6, <2>1, SumRemove DEF rest
  <2>3. SumFunctionOnSet(f, T \cap DOMAIN f) = At(f, key) + n
    <3>1. CASE key \in DOMAIN f
      <4>1. T \cap DOMAIN f = T /\ \A k \in T : f[k] \in Int
        BY <3>1 DEF Counter
      <4>2. SumFunctionOnSet(f, T) = f[key] + SumFunctionOnSet(f, rest)
        BY <1>2, <1>6, <4>1, SumRemove DEF rest
      <4> QED
        BY <1>4, <3>1, <4>1, <4>2 DEF At
    <3>2. CASE key \notin DOMAIN f
      <4>1. T \cap DOMAIN f = rest
        BY <3>2 DEF rest
      <4>2. SumFunctionOnSet(f, T \cap DOMAIN f) = n
        BY <1>4, <4>1
      <4>3. At(f, key) + n = n
        BY <3>2 DEF At
      <4> QED
        BY <4>2, <4>3
    <3> QED
      BY <3>1, <3>2
  <2> QED
    BY <1>3, <1>4, <1>6, <2>1, <2>2, <2>3 DEF g
<1> QED
  BY <1>5, <1>6

LEMMA CountsOn ==
    ASSUME NEW f, Counter(f), NEW s \in Symbols, NEW h \in Int
    PROVE  Counter(Add(f, <<s, h>>, 1)) /\ DOMAIN Add(f, <<s, h>>, 1) = DOMAIN f \cup {<<s, h>>}
<1>1. DOMAIN Add(f, <<s, h>>, 1) = DOMAIN f \cup {<<s, h>>}
  BY DEF Add
<1>2. IsFiniteSet(DOMAIN f \cup {<<s, h>>})
  BY FS_AddElement DEF Counter
<1>3. \A k \in DOMAIN Add(f, <<s, h>>, 1) : Add(f, <<s, h>>, 1)[k] \in Nat
  BY DEF Add, At, Counter
<1> QED
  BY <1>1, <1>2, <1>3 DEF Counter

(* Two tables put into one *)
Merged(f, g) == [d \in DOMAIN f \cup DOMAIN g |-> At(f, d) + At(g, d)]

LEMMA PaddedSum ==
    ASSUME NEW f, Counter(f), NEW T, IsFiniteSet(T)
    PROVE  SumFunctionOnSet([d \in T |-> At(f, d)], T) = SumFunctionOnSet(f, T \cap DOMAIN f)
<1> DEFINE g == [d \in T |-> At(f, d)]
           inside == T \cap DOMAIN f
           outside == T \ DOMAIN f
<1>1. /\ \A d \in inside : g[d] = f[d] /\ g[d] \in Int
      /\ \A d \in outside : g[d] = 0
      /\ \A d \in inside \cup outside : g[d] \in Int
  BY DEF At, Counter
<1>2. IsFiniteSet(inside) /\ IsFiniteSet(outside)
  <2>1. inside \in SUBSET T /\ outside \in SUBSET T
    OBVIOUS
  <2> QED
    BY <2>1, FS_Subset
<1>3. inside \cap outside = {} /\ inside \cup outside = T
  OBVIOUS
<1> HIDE DEF g, inside, outside
<1>4. SumFunctionOnSet(g, T) = SumFunctionOnSet(g, inside) + SumFunctionOnSet(g, outside)
  <2>1. SumFunctionOnSet(g, inside \cup outside)
          = SumFunctionOnSet(g, inside) + SumFunctionOnSet(g, outside)
    BY <1>1, <1>2, <1>3, SumSplits
  <2> QED
    BY <1>3, <2>1
<1>5. SumFunctionOnSet(g, inside) = SumFunctionOnSet(f, inside)
  BY <1>1, <1>2, SumEqual
<1>6. SumFunctionOnSet(g, outside) = 0
  BY <1>1, <1>2, SumZero
<1>7. SumFunctionOnSet(g, inside) \in Int
  BY <1>1, <1>2, SumIsInt
<1>8. SumFunctionOnSet(g, T) = SumFunctionOnSet(f, inside)
  BY <1>4, <1>5, <1>6, <1>7
<1> QED
  BY <1>8 DEF g, inside

LEMMA MergedSum ==
    ASSUME NEW f, Counter(f), NEW g, Counter(g), NEW s
    PROVE  /\ Counter(Merged(f, g)) /\ DOMAIN Merged(f, g) = DOMAIN f \cup DOMAIN g
           /\ SumFunctionOnSet(Merged(f, g), CellsOf(Merged(f, g), s))
                = SumFunctionOnSet(f, CellsOf(f, s)) + SumFunctionOnSet(g, CellsOf(g, s))
<1> DEFINE T == CellsOf(Merged(f, g), s)
           ff == [d \in T |-> At(f, d)]
           gg == [d \in T |-> At(g, d)]
<1>1. DOMAIN Merged(f, g) = DOMAIN f \cup DOMAIN g
  BY DEF Merged
<1>2. Counter(Merged(f, g))
  <2>1. IsFiniteSet(DOMAIN f \cup DOMAIN g)
    BY FS_Union DEF Counter
  <2>2. \A d \in DOMAIN f \cup DOMAIN g : At(f, d) \in Nat /\ At(g, d) \in Nat
    BY DEF Counter, At
  <2>3. \A d \in DOMAIN Merged(f, g) : Merged(f, g)[d] \in Nat
    BY <1>1, <2>2 DEF Merged
  <2> QED
    BY <1>1, <2>1, <2>3 DEF Counter
<1>3. T \in SUBSET DOMAIN Merged(f, g) /\ IsFiniteSet(T)
  <2>1. T \in SUBSET DOMAIN Merged(f, g)
    BY DEF CellsOf
  <2> QED
    BY <1>2, <2>1, PartOfCounter
<1>4. T \cap DOMAIN f = CellsOf(f, s) /\ T \cap DOMAIN g = CellsOf(g, s)
  BY <1>1 DEF CellsOf
<1>5. \A d \in T : ff[d] \in Int /\ gg[d] \in Int /\ Merged(f, g)[d] = ff[d] + gg[d]
  <2>1. \A d : At(f, d) \in Int /\ At(g, d) \in Int
    BY DEF At, Counter
  <2>2. \A d \in T : Merged(f, g)[d] = At(f, d) + At(g, d)
    BY <1>3 DEF Merged
  <2> QED
    BY <2>1, <2>2
<1> HIDE DEF T
<1>6. /\ SumFunctionOnSet(ff, T) = SumFunctionOnSet(f, T \cap DOMAIN f)
      /\ SumFunctionOnSet(gg, T) = SumFunctionOnSet(g, T \cap DOMAIN g)
  BY <1>3, PaddedSum
<1> HIDE DEF ff, gg
<1>7. SumFunctionOnSet(Merged(f, g), T) = SumFunctionOnSet(ff, T) + SumFunctionOnSet(gg, T)
  BY <1>3, <1>5, SumAdds
<1> QED
  BY <1>1, <1>2, <1>4, <1>6, <1>7 DEF T

-----------------------------------------------------------------------------
(* What the tables hold of the mentions counted *)

CountedSince(s, from) == {k \in DOMAIN counted : k[2] = s /\ items[k[1]].at >= from}

CountsTyped ==
    /\ hour \in Nat /\ \A r \in ItemRows : items[r].at \in Nat
    /\ IsFiniteSet(DOMAIN counted) /\ DOMAIN counted \subseteq ItemRows \X Symbols
    /\ \A k \in DOMAIN counted : counted[k] # 0
    /\ Counter(hourly) /\ Counter(daily)
    /\ \A c \in compact : c.cut \in Int /\ Counter(c.sums)

(* From the cutoff on the hours hold every mention counted *)
HoursExact ==
    \A s \in Symbols, from \in Int :
        from >= Cutoff => SumFunctionOnSet(hourly, CellsSince(hourly, s, from))
                              = Cardinality(CountedSince(s, from))

(* No day has come nearer than the cutoff, nor would those in hand *)
DaysAreOld ==
    /\ \A d \in DOMAIN daily : d[2] < Cutoff
    /\ \A c \in compact : c.cut <= Cutoff /\ \A d \in DOMAIN c.sums : d[2] < c.cut

(* A compaction in progress adds no more to the days than it will delete    *)
MovesNoMore ==
    \A c \in compact, s \in Symbols :
        SumFunctionOnSet(c.sums, CellsOf(c.sums, s))
            <= SumFunctionOnSet(hourly, OldCells(c.cut, s))

(* Hours and days together hold no mention twice *)
InOneTable ==
    \A s \in Symbols :
        SumFunctionOnSet(hourly, CellsOf(hourly, s)) + SumFunctionOnSet(daily, CellsOf(daily, s))
            <= Cardinality(CountedSince(s, 0))

WindowsInv ==
    /\ SentimentInv /\ CountsTyped /\ HoursExact /\ DaysAreOld /\ MovesNoMore /\ InOneTable

LEMMA CellsArePart ==
    ASSUME NEW f, Counter(f), NEW s, NEW from
    PROVE  /\ CellsOf(f, s) \in SUBSET DOMAIN f /\ CellsSince(f, s, from) \in SUBSET DOMAIN f
           /\ SumFunctionOnSet(f, CellsOf(f, s)) \in Nat
           /\ SumFunctionOnSet(f, CellsSince(f, s, from)) \in Nat
<1>1. CellsOf(f, s) \in SUBSET DOMAIN f /\ CellsSince(f, s, from) \in SUBSET DOMAIN f
  BY DEF CellsOf, CellsSince
<1> QED
  BY <1>1, PartOfCounter

LEMMA MentionsFinite ==
    ASSUME CountsTyped, NEW s, NEW from
    PROVE  IsFiniteSet(CountedSince(s, from)) /\ Cardinality(CountedSince(s, from)) \in Nat
<1>1. CountedSince(s, from) \in SUBSET DOMAIN counted
  BY DEF CountedSince
<1> QED
  BY <1>1, FS_Subset, FS_CardinalityType DEF CountsTyped

LEMMA CutoffType ==
    ASSUME CountsTyped
    PROVE  Cutoff \in Int /\ Cutoff <= hour - Retention * DayHours
                          /\ Retention * DayHours \in Nat
<1>1. Retention * DayHours \in Nat
  BY SentimentAssumption
<1>2. Midnight(hour) \in Int /\ Midnight(hour) <= hour /\ hour \in Nat
  BY DayBegins DEF CountsTyped
<1> QED
  BY <1>1, <1>2 DEF Cutoff

(* What the invariant says of the windows *)
LEMMA WindowsGive ==
    ASSUME WindowsInv
    PROVE  WindowsExact
<1> SUFFICES ASSUME NEW s \in Symbols
             PROVE  /\ \A hours \in 0..Retention * DayHours :
                          WindowMentions(s, hours) = MentionsSince(s, hour - hours)
                    /\ WindowMentions(s, hour) <= MentionsSince(s, 0)
  BY DEF WindowsExact
<1>1. hour \in Nat /\ Counter(hourly) /\ Counter(daily)
  BY DEF WindowsInv, CountsTyped
<1>2. ASSUME NEW hours
      PROVE  WindowMentions(s, hours)
               = SumFunctionOnSet(hourly, CellsSince(hourly, s, hour - hours))
                 + SumFunctionOnSet(daily, CellsSince(daily, s, hour - hours))
  BY DEF WindowMentions, CellsSince
<1>3. ASSUME NEW from PROVE MentionsSince(s, from) = Cardinality(CountedSince(s, from))
  BY DEF MentionsSince, CountedSince
<1>4. ASSUME NEW hours \in 0..Retention * DayHours
      PROVE  WindowMentions(s, hours) = MentionsSince(s, hour - hours)
  <2> DEFINE begin == hour - hours
  <2>1. begin \in Int /\ begin >= Cutoff /\ Cutoff \in Int
    BY <1>1, CutoffType DEF WindowsInv
  <2> HIDE DEF begin
  <2>2. CellsSince(daily, s, begin) = {}
    <3> SUFFICES ASSUME NEW d \in DOMAIN daily, d[2] >= begin PROVE FALSE
      BY DEF CellsSince
    <3>1. d[2] < Cutoff /\ d[2] \in Int
      BY <1>1 DEF WindowsInv, DaysAreOld, Counter
    <3> QED
      BY <2>1, <3>1
  <2>3. SumFunctionOnSet(daily, CellsSince(daily, s, begin)) = 0
    BY <2>2, SumEmpty
  <2>4. SumFunctionOnSet(hourly, CellsSince(hourly, s, begin))
          = Cardinality(CountedSince(s, begin))
    BY <2>1 DEF WindowsInv, HoursExact
  <2>5. Cardinality(CountedSince(s, begin)) \in Nat
    BY MentionsFinite DEF WindowsInv
  <2>6. WindowMentions(s, hours)
          = SumFunctionOnSet(hourly, CellsSince(hourly, s, begin))
            + SumFunctionOnSet(daily, CellsSince(daily, s, begin))
    BY <1>2 DEF begin
  <2>7. MentionsSince(s, begin) = Cardinality(CountedSince(s, begin))
    BY <1>3
  <2> QED
    BY <2>3, <2>4, <2>5, <2>6, <2>7 DEF begin
<1>5. WindowMentions(s, hour) <= MentionsSince(s, 0)
  <2>1. ASSUME NEW f, Counter(f)
        PROVE  /\ SumFunctionOnSet(f, CellsSince(f, s, hour - hour)) \in Nat
               /\ SumFunctionOnSet(f, CellsOf(f, s)) \in Nat
               /\ SumFunctionOnSet(f, CellsSince(f, s, hour - hour))
                    <= SumFunctionOnSet(f, CellsOf(f, s))
    <3>1. CellsSince(f, s, hour - hour) \in SUBSET CellsOf(f, s)
      BY DEF CellsSince, CellsOf
    <3>2. /\ IsFiniteSet(CellsOf(f, s)) /\ \A k \in CellsOf(f, s) : f[k] \in Nat
          /\ SumFunctionOnSet(f, CellsSince(f, s, hour - hour)) \in Nat
          /\ SumFunctionOnSet(f, CellsOf(f, s)) \in Nat
      BY <2>1, CellsArePart, PartOfCounter
    <3> QED
      BY <3>1, <3>2, SumOfPart
  <2>2. SumFunctionOnSet(hourly, CellsOf(hourly, s)) + SumFunctionOnSet(daily, CellsOf(daily, s))
            <= Cardinality(CountedSince(s, 0))
    BY DEF WindowsInv, InOneTable
  <2>3. Cardinality(CountedSince(s, 0)) \in Nat
    BY MentionsFinite DEF WindowsInv
  <2>4. /\ SumFunctionOnSet(hourly, CellsSince(hourly, s, hour - hour)) \in Nat
        /\ SumFunctionOnSet(hourly, CellsOf(hourly, s)) \in Nat
        /\ SumFunctionOnSet(hourly, CellsSince(hourly, s, hour - hour))
             <= SumFunctionOnSet(hourly, CellsOf(hourly, s))
    BY <1>1, <2>1
  <2>5. /\ SumFunctionOnSet(daily, CellsSince(daily, s, hour - hour)) \in Nat
        /\ SumFunctionOnSet(daily, CellsOf(daily, s)) \in Nat
        /\ SumFunctionOnSet(daily, CellsSince(daily, s, hour - hour))
             <= SumFunctionOnSet(daily, CellsOf(daily, s))
    BY <1>1, <2>1
  <2>6. WindowMentions(s, hour) <= Cardinality(CountedSince(s, 0))
    BY <1>2, <2>2, <2>3, <2>4, <2>5
  <2> QED
    BY <1>3, <2>6
<1> QED
  BY <1>4, <1>5

LEMMA WindowsInitially == SentimentInit => WindowsInv
<1> SUFFICES ASSUME SentimentInit PROVE WindowsInv
  OBVIOUS
<1>1. /\ hour = 0 /\ items = <<>> /\ hourly = <<>> /\ daily = <<>> /\ compact = {}
      /\ counted = <<>> /\ DOMAIN hourly = {} /\ DOMAIN daily = {} /\ DOMAIN counted = {}
      /\ ItemRows = {} /\ IsFiniteSet({})
  BY FS_EmptySet DEF SentimentInit, ItemRows
<1>2. CountsTyped
  BY <1>1 DEF CountsTyped, Counter
<1>3. \A s, from : /\ CellsOf(hourly, s) = {} /\ CellsOf(daily, s) = {}
                   /\ CellsSince(hourly, s, from) = {} /\ CountedSince(s, from) = {}
  BY <1>1 DEF CellsOf, CellsSince, CountedSince
<1>4. /\ SumFunctionOnSet(hourly, {}) = 0 /\ SumFunctionOnSet(daily, {}) = 0
      /\ Cardinality({}) = 0
  BY SumEmpty, FS_EmptySet
<1>5. HoursExact
  BY <1>3, <1>4 DEF HoursExact
<1>6. InOneTable
  BY <1>3, <1>4 DEF InOneTable
<1>7. DaysAreOld /\ MovesNoMore
  BY <1>1 DEF DaysAreOld, MovesNoMore
<1> QED
  BY <1>2, <1>5, <1>6, <1>7, SentimentInitially DEF WindowsInv

-----------------------------------------------------------------------------
(* Each step keeps it *)

(* The clock moves, and the cutoff with it *)
LEMMA HourKeepsWindows ==
    ASSUME WindowsInv, HourPasses
    PROVE  WindowsInv'
<1>1. hour' = hour + 1 /\ UNCHANGED <<items, scored, hourly, daily, sentimentPc, queue, left,
                                      symbol, compact, counted, published>>
  BY DEF HourPasses, store, work, history
<1>2. SentimentInv'
  BY SentimentStep DEF WindowsInv, SentimentNext
<1>3. Cutoff \in Int /\ Cutoff' \in Int /\ Cutoff <= Cutoff'
  <2>1. /\ Midnight(hour) \in Int /\ Midnight(hour + 1) \in Int
        /\ Midnight(hour) <= Midnight(hour + 1)
    <3>1. hour \in Int
      BY DEF WindowsInv, CountsTyped
    <3> QED
      BY <3>1, DayBegins
  <2>2. Retention * DayHours \in Nat
    BY SentimentAssumption
  <2>3. Cutoff' = Midnight(hour + 1) - Retention * DayHours
    BY <1>1 DEF Cutoff, Midnight
  <2> QED
    BY <2>1, <2>2, <2>3 DEF Cutoff
<1>4. CountsTyped'
  BY <1>1 DEF WindowsInv, CountsTyped, Counter, ItemRows
<1>5. HoursExact'
  <2> SUFFICES ASSUME NEW s \in Symbols, NEW from \in Int, from >= Cutoff'
               PROVE  SumFunctionOnSet(hourly, CellsSince(hourly, s, from))
                        = Cardinality(CountedSince(s, from))
    BY <1>1 DEF HoursExact, CellsSince, CountedSince
  <2>1. from >= Cutoff
    BY <1>3
  <2> QED
    BY <2>1 DEF WindowsInv, HoursExact
<1>6. DaysAreOld'
  <2>1. \A d \in DOMAIN daily : d[2] \in Int /\ d[2] < Cutoff
    BY DEF WindowsInv, DaysAreOld, CountsTyped, Counter
  <2>2. \A c \in compact : /\ c.cut \in Int /\ c.cut <= Cutoff
                           /\ \A d \in DOMAIN c.sums : d[2] < c.cut
    BY DEF WindowsInv, DaysAreOld, CountsTyped
  <2> QED
    BY <1>1, <1>3, <2>1, <2>2 DEF DaysAreOld
<1>7. MovesNoMore' /\ InOneTable'
  BY <1>1 DEF WindowsInv, MovesNoMore, InOneTable, CellsOf, OldCells, OldHours, CountedSince
<1> QED
  BY <1>2, <1>4, <1>5, <1>6, <1>7 DEF WindowsInv

(* Rows keep the hour they were published in *)
LEMMA InsertKeepsWindows ==
    ASSUME WindowsInv, InsertItem
    PROVE  WindowsInv'
<1>1. UNCHANGED <<hour, hourly, daily, compact, counted>>
  BY DEF InsertItem, history
<1>2. SentimentInv'
  BY SentimentStep DEF WindowsInv, SentimentNext
<1>3. /\ ItemRows \subseteq ItemRows' /\ \A r \in ItemRows : items'[r] = items[r]
      /\ \A r \in ItemRows' : items'[r].at \in Nat
  <2>1. PICK S \in (SUBSET Symbols) \ {{}}, age \in Ages :
         /\ age <= hour
         /\ items' = [r \in ItemRows \cup {Cardinality(ItemRows) + 1} |->
                      IF r \in ItemRows THEN items[r] ELSE [symbols |-> S, at |-> hour - age]]
    BY DEF InsertItem
  <2>2. hour - age \in Nat /\ \A r \in ItemRows : items[r].at \in Nat
    BY <2>1, SentimentAssumption DEF WindowsInv, CountsTyped
  <2> QED
    BY <2>1, <2>2 DEF ItemRows
<1>4. CountsTyped'
  BY <1>1, <1>3 DEF WindowsInv, CountsTyped, Counter
<1>5. \A s, from : CountedSince(s, from)' = CountedSince(s, from)
  <2>1. \A k \in DOMAIN counted : items'[k[1]] = items[k[1]]
    BY <1>3 DEF WindowsInv, CountsTyped
  <2> QED
    BY <1>1, <2>1 DEF CountedSince
<1>6. HoursExact'
  BY <1>1, <1>5 DEF WindowsInv, HoursExact, CellsSince, Cutoff, Midnight
<1>7. DaysAreOld' /\ MovesNoMore'
  BY <1>1 DEF WindowsInv, DaysAreOld, MovesNoMore, CellsOf, OldCells, OldHours, Cutoff,
              Midnight
<1>8. InOneTable'
  BY <1>1, <1>5 DEF WindowsInv, InOneTable, CellsOf
<1> QED
  BY <1>2, <1>4, <1>6, <1>7, <1>8 DEF WindowsInv

(* Steps that touch neither the tables nor what was counted *)
LEMMA RestKeepsWindows ==
    ASSUME WindowsInv, [SentimentNext]_sentimentVars,
           UNCHANGED <<hour, items, hourly, daily, compact, counted>>
    PROVE  WindowsInv'
<1>1. SentimentInv'
  BY SentimentStep DEF WindowsInv
<1>2. CountsTyped' /\ DaysAreOld'
  BY DEF WindowsInv, CountsTyped, Counter, ItemRows, DaysAreOld, Cutoff, Midnight
<1>3. HoursExact'
  BY DEF WindowsInv, HoursExact, CellsSince, CountedSince, Cutoff, Midnight
<1>4. MovesNoMore' /\ InOneTable'
  BY DEF WindowsInv, MovesNoMore, InOneTable, CellsOf, OldCells, OldHours, CountedSince
<1> QED
  BY <1>1, <1>2, <1>3, <1>4 DEF WindowsInv

(* The compaction fails: what it read is forgotten *)
LEMMA RollbackKeepsWindows ==
    ASSUME WindowsInv, CompactionFails
    PROVE  WindowsInv'
<1>1. compact' = {} /\ UNCHANGED <<hour, items, hourly, daily, counted>>
  BY DEF CompactionFails, store, history
<1>2. SentimentInv'
  BY SentimentStep DEF WindowsInv, SentimentNext
<1>3. CountsTyped' /\ DaysAreOld'
  BY <1>1 DEF WindowsInv, CountsTyped, Counter, ItemRows, DaysAreOld, Cutoff, Midnight
<1>4. HoursExact'
  BY <1>1 DEF WindowsInv, HoursExact, CellsSince, CountedSince, Cutoff, Midnight
<1>5. MovesNoMore' /\ InOneTable'
  BY <1>1 DEF WindowsInv, MovesNoMore, InOneTable, CellsOf, CountedSince
<1> QED
  BY <1>2, <1>3, <1>4, <1>5 DEF WindowsInv

(* A mention is counted: one more in a cell of the hours, and one more in   *)
(* each window that cell is in                                              *)
LEMMA CountKeepsWindows ==
    ASSUME WindowsInv, NEW s \in Symbols, Count(s)
    PROVE  WindowsInv'
<1> DEFINE r == Min(queue)
           at == items[r].at
           cell == <<s, at>>
           mention == <<r, s>>
<1>1. /\ hourly' = Add(hourly, cell, 1) /\ counted' = Add(counted, mention, 1)
      /\ UNCHANGED <<hour, items, daily, compact>>
      /\ sentimentPc = "count" /\ s \in left
  BY DEF Count
<1>2. SentimentInv'
  BY SentimentStep DEF WindowsInv, SentimentNext, WorkerStep
<1>3. r \in ItemRows /\ at \in Nat /\ At(counted, mention) = 0
  <2>1. queue # {} /\ queue \subseteq Nat /\ queue \subseteq ItemRows
        /\ At(counted, mention) = 0
    BY <1>1 DEF WindowsInv, SentimentInv, BatchUnmarked
  <2>2. r \in ItemRows
    BY <2>1, FirstRow
  <2> QED
    BY <2>1, <2>2 DEF WindowsInv, CountsTyped
<1>4. /\ Counter(hourly) /\ Counter(daily) /\ IsFiniteSet(DOMAIN counted)
      /\ DOMAIN counted \subseteq ItemRows \X Symbols
      /\ \A k \in DOMAIN counted : counted[k] # 0
  BY DEF WindowsInv, CountsTyped
<1>5. mention \notin DOMAIN counted /\ mention \in ItemRows \X Symbols
  <2>1. mention \notin DOMAIN counted
    BY <1>3, <1>4 DEF At
  <2> QED
    BY <1>3, <2>1
<1>6. /\ DOMAIN counted' = DOMAIN counted \cup {mention}
      /\ \A k \in DOMAIN counted' : counted'[k] # 0
  <2>1. /\ DOMAIN counted' = DOMAIN counted \cup {mention}
        /\ counted'[mention] = 0 + 1
        /\ \A k \in DOMAIN counted : counted'[k] = counted[k]
    BY <1>1, <1>3, <1>5 DEF Add
  <2> QED
    BY <1>4, <2>1
<1>7. Counter(hourly') /\ DOMAIN hourly' = DOMAIN hourly \cup {cell}
  BY <1>1, <1>3, <1>4, CountsOn
<1> HIDE DEF r, cell, mention, at
<1>8. CountsTyped'
  <2>1. IsFiniteSet(DOMAIN counted')
    BY <1>4, <1>6, FS_AddElement
  <2>2. DOMAIN counted' \subseteq ItemRows \X Symbols
    BY <1>4, <1>5, <1>6
  <2>3. ItemRows' = ItemRows /\ (Counter(daily) => Counter(daily)')
        /\ (Counter(hourly') => Counter(hourly)')
    BY <1>1 DEF ItemRows, Counter
  <2>4. (\A c \in compact : c.cut \in Int /\ Counter(c.sums))'
    BY <1>1 DEF WindowsInv, CountsTyped, Counter
  <2>5. (hour \in Nat /\ \A q \in ItemRows : items[q].at \in Nat)'
    BY <1>1, <2>3 DEF WindowsInv, CountsTyped
  <2> QED
    BY <1>4, <1>6, <1>7, <2>1, <2>2, <2>3, <2>4, <2>5 DEF CountsTyped
<1>9. ASSUME NEW T \in SUBSET DOMAIN hourly'
      PROVE  SumFunctionOnSet(hourly', T)
               = SumFunctionOnSet(hourly, T \cap DOMAIN hourly) + (IF cell \in T THEN 1 ELSE 0)
  BY <1>1, <1>4, <1>7, OneMore
<1>10. ASSUME NEW t \in Symbols, NEW from \in Int
       PROVE  /\ Cardinality(CountedSince(t, from)) \in Nat
              /\ Cardinality(CountedSince(t, from)')
                   = Cardinality(CountedSince(t, from))
                     + (IF t = s /\ at >= from THEN 1 ELSE 0)
  <2>1. IsFiniteSet(CountedSince(t, from)) /\ Cardinality(CountedSince(t, from)) \in Nat
    BY MentionsFinite DEF WindowsInv
  <2>2. mention \notin CountedSince(t, from)
    BY <1>5 DEF CountedSince
  <2>3. CASE t = s /\ at >= from
    <3>1. CountedSince(t, from)' = CountedSince(t, from) \cup {mention}
      BY <1>1, <1>6, <2>3 DEF CountedSince, mention, at
    <3>2. Cardinality(CountedSince(t, from) \cup {mention})
            = Cardinality(CountedSince(t, from)) + 1
      BY <2>1, <2>2, FS_AddElement
    <3> QED
      BY <2>1, <2>3, <3>1, <3>2
  <2>4. CASE ~(t = s /\ at >= from)
    <3>1. CountedSince(t, from)' = CountedSince(t, from)
      BY <1>1, <1>6, <2>4 DEF CountedSince, mention, at
    <3> QED
      BY <2>1, <2>4, <3>1
  <2> QED
    BY <2>3, <2>4
<1>11. HoursExact'
  <2> SUFFICES ASSUME NEW t \in Symbols, NEW from \in Int, from >= Cutoff'
               PROVE  SumFunctionOnSet(hourly', CellsSince(hourly', t, from))
                        = Cardinality(CountedSince(t, from)')
    BY DEF HoursExact, CellsSince, CountedSince
  <2>1. from >= Cutoff
    BY <1>1 DEF Cutoff, Midnight
  <2>2. SumFunctionOnSet(hourly, CellsSince(hourly, t, from))
          = Cardinality(CountedSince(t, from))
    BY <2>1 DEF WindowsInv, HoursExact
  <2>3. /\ CellsSince(hourly', t, from) \in SUBSET DOMAIN hourly'
        /\ CellsSince(hourly', t, from) \cap DOMAIN hourly = CellsSince(hourly, t, from)
        /\ cell \in CellsSince(hourly', t, from) <=> t = s /\ at >= from
    <3>1. \A k : k \in CellsSince(hourly', t, from)
                   <=> k \in DOMAIN hourly \cup {cell} /\ k[1] = t /\ k[2] >= from
      BY <1>7 DEF CellsSince
    <3> QED
      BY <1>7, <3>1 DEF CellsSince, cell
  <2>4. SumFunctionOnSet(hourly', CellsSince(hourly', t, from))
          = SumFunctionOnSet(hourly, CellsSince(hourly, t, from))
            + (IF t = s /\ at >= from THEN 1 ELSE 0)
    <3>1. SumFunctionOnSet(hourly', CellsSince(hourly', t, from))
            = SumFunctionOnSet(hourly, CellsSince(hourly', t, from) \cap DOMAIN hourly)
              + (IF cell \in CellsSince(hourly', t, from) THEN 1 ELSE 0)
      BY <1>9, <2>3
    <3> QED
      BY <2>3, <3>1
  <2> QED
    BY <1>10, <2>2, <2>4
<1>12. DaysAreOld'
  BY <1>1 DEF WindowsInv, DaysAreOld, Cutoff, Midnight
<1>13. MovesNoMore'
  <2> SUFFICES ASSUME NEW c \in compact, NEW t \in Symbols
               PROVE  SumFunctionOnSet(c.sums, CellsOf(c.sums, t))
                        <= SumFunctionOnSet(hourly', OldCells(c.cut, t)')
    BY <1>1 DEF MovesNoMore, CellsOf, OldCells, OldHours
  <2> DEFINE T == OldCells(c.cut, t)'
  <2>1. /\ T \in SUBSET DOMAIN hourly' /\ T \cap DOMAIN hourly = OldCells(c.cut, t)
        /\ OldCells(c.cut, t) \in SUBSET DOMAIN hourly
    BY <1>7 DEF OldCells, OldHours
  <2> HIDE DEF T
  <2>2. PICK n \in Nat : n = SumFunctionOnSet(hourly, OldCells(c.cut, t))
    BY <1>4, <2>1, PartOfCounter
  <2>3. SumFunctionOnSet(hourly', T) = n + (IF cell \in T THEN 1 ELSE 0)
    <3>1. SumFunctionOnSet(hourly', T)
            = SumFunctionOnSet(hourly, T \cap DOMAIN hourly) + (IF cell \in T THEN 1 ELSE 0)
      BY <1>9, <2>1
    <3> QED
      BY <2>1, <2>2, <3>1
  <2>4. SumFunctionOnSet(c.sums, CellsOf(c.sums, t)) <= n
    BY <2>2 DEF WindowsInv, MovesNoMore
  <2>5. SumFunctionOnSet(c.sums, CellsOf(c.sums, t)) \in Nat
    BY CellsArePart DEF WindowsInv, CountsTyped
  <2> QED
    BY <2>2, <2>3, <2>4, <2>5 DEF T
<1>14. InOneTable'
  <2> SUFFICES ASSUME NEW t \in Symbols
               PROVE  SumFunctionOnSet(hourly', CellsOf(hourly', t))
                        + SumFunctionOnSet(daily, CellsOf(daily, t))
                        <= Cardinality(CountedSince(t, 0)')
    BY <1>1 DEF InOneTable, CellsOf, CountedSince
  <2>1. /\ CellsOf(hourly', t) \in SUBSET DOMAIN hourly'
        /\ CellsOf(hourly', t) \cap DOMAIN hourly = CellsOf(hourly, t)
        /\ cell \in CellsOf(hourly', t) <=> t = s
    BY <1>7 DEF CellsOf, cell
  <2>2. PICK n \in Nat, m \in Nat : /\ n = SumFunctionOnSet(hourly, CellsOf(hourly, t))
                                    /\ m = SumFunctionOnSet(daily, CellsOf(daily, t))
    BY <1>4, CellsArePart
  <2>3. SumFunctionOnSet(hourly', CellsOf(hourly', t)) = n + (IF t = s THEN 1 ELSE 0)
    <3>1. SumFunctionOnSet(hourly', CellsOf(hourly', t))
            = SumFunctionOnSet(hourly, CellsOf(hourly', t) \cap DOMAIN hourly)
              + (IF cell \in CellsOf(hourly', t) THEN 1 ELSE 0)
      BY <1>9, <2>1
    <3> QED
      BY <2>1, <2>2, <3>1
  <2>4. n + m <= Cardinality(CountedSince(t, 0))
    BY <2>2 DEF WindowsInv, InOneTable
  <2>5. /\ Cardinality(CountedSince(t, 0)) \in Nat
        /\ Cardinality(CountedSince(t, 0)')
             = Cardinality(CountedSince(t, 0)) + (IF t = s THEN 1 ELSE 0)
    BY <1>3, <1>10
  <2> QED
    BY <2>2, <2>3, <2>4, <2>5
<1> QED
  BY <1>2, <1>8, <1>11, <1>12, <1>13, <1>14 DEF WindowsInv

(* The compaction reads: the sums of the days are those of the old hours *)
LEMMA ReadKeepsWindows ==
    ASSUME WindowsInv, ReadOldHours
    PROVE  WindowsInv'
<1> DEFINE old == OldHours(Cutoff)
           day(k) == <<k[1], Midnight(k[2])>>
           days == {day(k) : k \in old}
           sums == [d \in days |-> SumFunctionOnSet(hourly, {k \in old : day(k) = d})]
           m == [k \in old |-> day(k)]
           c0 == [cut |-> Cutoff, sums |-> sums]
<1>1. compact' = {c0} /\ UNCHANGED <<hour, items, hourly, daily, counted>>
  BY DEF ReadOldHours, store, history
<1>2. SentimentInv'
  BY SentimentStep DEF WindowsInv, SentimentNext, Compaction
<1>3. Counter(hourly) /\ Cutoff \in Int
  BY CutoffType DEF WindowsInv, CountsTyped
<1>4. old \in SUBSET DOMAIN hourly /\ \A k \in old : k \in Symbols \X Int /\ k[2] < Cutoff
  BY <1>3 DEF OldHours, Counter
<1>5. IsFiniteSet(old) /\ \A k \in old : hourly[k] \in Int
  BY <1>3, <1>4, PartOfCounter
<1>6. \A k \in old : day(k) \in Symbols \X Int /\ k[1] = day(k)[1] /\ day(k)[2] < Cutoff
  <2> SUFFICES ASSUME NEW k \in old
               PROVE  day(k) \in Symbols \X Int /\ k[1] = day(k)[1] /\ day(k)[2] < Cutoff
    OBVIOUS
  <2>1. k[2] \in Int /\ k[1] \in Symbols /\ k[2] < Cutoff
    BY <1>4
  <2>2. Midnight(k[2]) \in Int /\ Midnight(k[2]) <= k[2]
    BY <2>1, DayBegins
  <2> QED
    BY <1>3, <2>1, <2>2
<1>7. IsFiniteSet(days) /\ days \subseteq Symbols \X Int /\ \A d \in days : d[2] < Cutoff
  <2>1. IsFiniteSet(days)
    <3>1. m \in Surjection(old, days)
      BY DEF Surjection
    <3> QED
      BY <1>5, <3>1, FS_Surjection
  <2> QED
    BY <1>6, <2>1
<1>8. Counter(sums) /\ DOMAIN sums = days
  <2>1. ASSUME NEW d \in days PROVE sums[d] \in Nat
    <3> DEFINE members == {k \in old : day(k) = d}
    <3>1. members \in SUBSET DOMAIN hourly
      BY <1>4
    <3>2. SumFunctionOnSet(hourly, members) \in Nat
      BY <1>3, <3>1, PartOfCounter
    <3> QED
      BY <3>2
  <2>2. DOMAIN sums = days
    OBVIOUS
  <2> QED
    BY <1>7, <2>1, <2>2 DEF Counter
<1>9. ASSUME NEW t \in Symbols
      PROVE  SumFunctionOnSet(sums, CellsOf(sums, t))
               = SumFunctionOnSet(hourly, OldCells(Cutoff, t))
  <2> DEFINE C == CellsOf(sums, t)
  <2>1. C \in SUBSET days /\ IsFiniteSet(C)
    <3>1. C \in SUBSET DOMAIN sums
      BY DEF CellsOf
    <3> QED
      BY <1>8, <3>1, PartOfCounter
  <2>2. ASSUME NEW d \in C
        PROVE  sums[d] = SumFunctionOnSet(hourly, OfClass(old, m, d))
    <3>1. OfClass(old, m, d) = {k \in old : day(k) = d}
      BY DEF OfClass
    <3>2. sums[d] = SumFunctionOnSet(hourly, {k \in old : day(k) = d})
      BY <2>1
    <3> QED
      BY <3>1, <3>2
  <2>3. OfClasses(old, m, C) = OldCells(Cutoff, t)
    <3>1. \A k \in old : m[k] = day(k) /\ day(k) \in days
      OBVIOUS
    <3>2. \A d : d \in C <=> d \in days /\ d[1] = t
      BY <1>8 DEF CellsOf
    <3>3. \A k \in old : m[k] \in C <=> k[1] = t
      BY <1>6, <3>1, <3>2
    <3> QED
      BY <3>3 DEF OldCells, OfClasses
  <2> HIDE DEF m, C, sums, old
  <2>4. SumFunctionOnSet(sums, C) = SumFunctionOnSet(hourly, OfClasses(old, m, C))
    BY <1>5, <2>1, <2>2, SumByClass
  <2> QED
    BY <2>3, <2>4 DEF C
<1> HIDE DEF sums
<1>10. \A c \in compact' : c.cut = Cutoff /\ c.sums = sums
  BY <1>1
<1>11. CountsTyped'
  <2>1. (hour \in Nat /\ (\A r \in ItemRows : items[r].at \in Nat)
         /\ IsFiniteSet(DOMAIN counted) /\ DOMAIN counted \subseteq ItemRows \X Symbols
         /\ (\A k \in DOMAIN counted : counted[k] # 0)
         /\ Counter(hourly) /\ Counter(daily))'
    BY <1>1 DEF WindowsInv, CountsTyped, ItemRows, Counter
  <2>2. (\A c \in compact : c.cut \in Int /\ Counter(c.sums))'
    BY <1>3, <1>8, <1>10 DEF Counter
  <2> QED
    BY <2>1, <2>2 DEF CountsTyped
<1>12. HoursExact'
  BY <1>1 DEF WindowsInv, HoursExact, CellsSince, CountedSince, Cutoff, Midnight
<1>13. DaysAreOld'
  <2>1. Cutoff' = Cutoff
    BY <1>1 DEF Cutoff, Midnight
  <2>2. (\A d \in DOMAIN daily : d[2] < Cutoff)'
    BY <1>1, <2>1 DEF WindowsInv, DaysAreOld
  <2> QED
    BY <1>3, <1>7, <1>8, <1>10, <2>1, <2>2 DEF DaysAreOld
<1>14. MovesNoMore'
  <2> SUFFICES ASSUME NEW c \in compact', NEW t \in Symbols
               PROVE  SumFunctionOnSet(c.sums, CellsOf(c.sums, t))
                        <= SumFunctionOnSet(hourly, OldCells(c.cut, t))
    BY <1>1 DEF MovesNoMore, CellsOf, OldCells, OldHours
  <2>1. c.sums = sums /\ c.cut = Cutoff
    BY <1>10
  <2>2. SumFunctionOnSet(sums, CellsOf(sums, t)) \in Nat
    BY <1>8, CellsArePart
  <2> QED
    BY <1>9, <2>1, <2>2
<1>15. InOneTable'
  BY <1>1 DEF WindowsInv, InOneTable, CellsOf, CountedSince
<1> QED
  BY <1>2, <1>11, <1>12, <1>13, <1>14, <1>15 DEF WindowsInv

(* The compaction deletes what is old by now, and the days it read come in: *)
(* what was counted into an old hour in between is lost, never doubled      *)
LEMMA DeleteKeepsWindows ==
    ASSUME WindowsInv, DeleteOldHours
    PROVE  WindowsInv'
<1>1. PICK c \in compact :
        /\ hourly' = [k \in DOMAIN hourly \ OldHours(c.cut) |-> hourly[k]]
        /\ daily' = Merged(daily, c.sums)
  BY DEF DeleteOldHours, Merged
<1>2. compact' = {} /\ UNCHANGED <<hour, items, counted>>
  BY DEF DeleteOldHours, history
<1>3. SentimentInv'
  BY SentimentStep DEF WindowsInv, SentimentNext, Compaction
<1>4. /\ Counter(hourly) /\ Counter(daily) /\ Counter(c.sums) /\ c.cut \in Int
      /\ Cutoff \in Int /\ c.cut <= Cutoff
  BY CutoffType DEF WindowsInv, CountsTyped, DaysAreOld
<1> DEFINE kept == DOMAIN hourly \ OldHours(c.cut)
<1>5. /\ DOMAIN hourly' = kept /\ \A k \in kept : hourly'[k] = hourly[k]
      /\ kept \in SUBSET DOMAIN hourly /\ \A k \in kept : k[2] >= c.cut /\ k[2] \in Int
      /\ \A k \in DOMAIN hourly : k[2] \in Int /\ (k[2] >= c.cut => k \in kept)
  BY <1>1, <1>4 DEF OldHours, Counter
<1>6. Counter(hourly')
  BY <1>4, <1>5, PartOfCounter DEF Counter
<1>7. Counter(daily') /\ DOMAIN daily' = DOMAIN daily \cup DOMAIN c.sums
  BY <1>1, <1>4, MergedSum
<1>8. CountsTyped'
  <2>1. Counter(hourly)' /\ Counter(daily)'
    BY <1>6, <1>7 DEF Counter
  <2>2. (hour \in Nat /\ (\A r \in ItemRows : items[r].at \in Nat)
         /\ IsFiniteSet(DOMAIN counted) /\ DOMAIN counted \subseteq ItemRows \X Symbols
         /\ (\A k \in DOMAIN counted : counted[k] # 0))'
    BY <1>2 DEF WindowsInv, CountsTyped, ItemRows
  <2> QED
    BY <1>2, <2>1, <2>2 DEF CountsTyped
<1>9. ASSUME NEW T \in SUBSET kept
      PROVE  /\ SumFunctionOnSet(hourly', T) = SumFunctionOnSet(hourly, T)
             /\ SumFunctionOnSet(hourly, T) \in Nat
  <2>1. T \in SUBSET DOMAIN hourly /\ \A k \in T : hourly'[k] = hourly[k]
    BY <1>5
  <2>2. IsFiniteSet(T) /\ SumFunctionOnSet(hourly, T) \in Nat
    BY <1>4, <2>1, PartOfCounter
  <2> QED
    BY <2>1, <2>2, SumEqual
<1>10. HoursExact'
  <2> SUFFICES ASSUME NEW t \in Symbols, NEW from \in Int, from >= Cutoff
               PROVE  SumFunctionOnSet(hourly', CellsSince(hourly', t, from))
                        = Cardinality(CountedSince(t, from))
    BY <1>2 DEF HoursExact, CellsSince, CountedSince, Cutoff, Midnight
  <2>1. CellsSince(hourly', t, from) = CellsSince(hourly, t, from)
    <3>1. \A k \in DOMAIN hourly : k[2] >= from => k \in kept
      BY <1>4, <1>5
    <3> QED
      BY <1>5, <3>1 DEF CellsSince
  <2>2. CellsSince(hourly', t, from) \in SUBSET kept
    BY <1>5 DEF CellsSince
  <2>3. SumFunctionOnSet(hourly', CellsSince(hourly', t, from))
          = SumFunctionOnSet(hourly, CellsSince(hourly, t, from))
    BY <1>9, <2>1, <2>2
  <2> QED
    BY <2>3 DEF WindowsInv, HoursExact
<1>11. DaysAreOld'
  <2>1. \A d \in DOMAIN daily' : d[2] < Cutoff
    <3>1. \A d \in DOMAIN daily : d[2] < Cutoff
      BY DEF WindowsInv, DaysAreOld
    <3>2. \A d \in DOMAIN c.sums : d[2] < c.cut /\ d[2] \in Int
      BY <1>4 DEF WindowsInv, DaysAreOld, Counter
    <3> QED
      BY <1>4, <1>7, <3>1, <3>2
  <2> QED
    BY <1>2, <2>1 DEF DaysAreOld, Cutoff, Midnight
<1>12. MovesNoMore'
  BY <1>2 DEF MovesNoMore
<1>13. InOneTable'
  <2> SUFFICES ASSUME NEW t \in Symbols
               PROVE  SumFunctionOnSet(hourly', CellsOf(hourly', t))
                        + SumFunctionOnSet(daily', CellsOf(daily', t))
                        <= Cardinality(CountedSince(t, 0))
    BY <1>2 DEF InOneTable, CellsOf, CountedSince
  <2> DEFINE gone == OldCells(c.cut, t)
             stay == CellsOf(hourly', t)
  <2>1. /\ stay \in SUBSET kept /\ stay \in SUBSET DOMAIN hourly
        /\ gone \in SUBSET DOMAIN hourly
        /\ stay \cap gone = {} /\ stay \cup gone = CellsOf(hourly, t)
    BY <1>5 DEF OldCells, CellsOf, OldHours
  <2> HIDE DEF gone, stay
  <2>2. /\ IsFiniteSet(stay) /\ IsFiniteSet(gone)
        /\ \A k \in stay \cup gone : hourly[k] \in Int
    BY <1>4, <2>1, PartOfCounter
  <2>3. PICK a \in Nat, b \in Nat : /\ a = SumFunctionOnSet(hourly, stay)
                                    /\ b = SumFunctionOnSet(hourly, gone)
    BY <1>4, <2>1, PartOfCounter
  <2>4. SumFunctionOnSet(hourly, CellsOf(hourly, t)) = a + b
    <3>1. SumFunctionOnSet(hourly, stay \cup gone)
            = SumFunctionOnSet(hourly, stay) + SumFunctionOnSet(hourly, gone)
      BY <2>1, <2>2, SumSplits
    <3> QED
      BY <2>1, <2>3, <3>1
  <2>5. PICK m \in Nat, n \in Nat : /\ m = SumFunctionOnSet(daily, CellsOf(daily, t))
                                    /\ n = SumFunctionOnSet(c.sums, CellsOf(c.sums, t))
    BY <1>4, CellsArePart
  <2>6. SumFunctionOnSet(daily', CellsOf(daily', t)) = m + n
    <3>1. SumFunctionOnSet(Merged(daily, c.sums), CellsOf(Merged(daily, c.sums), t)) = m + n
      BY <1>4, <2>5, MergedSum
    <3> QED
      BY <1>1, <3>1
  <2>7. SumFunctionOnSet(hourly', stay) = a
    BY <1>9, <2>1, <2>3
  <2>8. n <= b
    BY <2>3, <2>5 DEF WindowsInv, MovesNoMore, gone
  <2>9. (a + b) + m <= Cardinality(CountedSince(t, 0))
    BY <2>4, <2>5 DEF WindowsInv, InOneTable
  <2>10. Cardinality(CountedSince(t, 0)) \in Nat
    BY MentionsFinite DEF WindowsInv
  <2> QED
    BY <2>3, <2>5, <2>6, <2>7, <2>8, <2>9, <2>10 DEF stay
<1> QED
  BY <1>3, <1>8, <1>10, <1>11, <1>12, <1>13 DEF WindowsInv

LEMMA WindowsStep == WindowsInv /\ [SentimentNext]_sentimentVars => WindowsInv'
<1> SUFFICES ASSUME WindowsInv, [SentimentNext]_sentimentVars
             PROVE  WindowsInv'
  OBVIOUS
<1>1. CASE HourPasses
  BY <1>1, HourKeepsWindows
<1>2. CASE InsertItem
  BY <1>2, InsertKeepsWindows
<1>3. CASE Fetch \/ MarkScored \/ PublishSentiment \/ EndRow \/ BatchFails
           \/ UNCHANGED sentimentVars
  <2>1. UNCHANGED <<hour, items, hourly, daily, compact, counted>>
    BY <1>3 DEF Fetch, MarkScored, PublishSentiment, EndRow, BatchFails, sentimentVars, store,
                work, history
  <2> QED
    BY <2>1, RestKeepsWindows
<1>4. ASSUME NEW s \in Symbols, Count(s)
      PROVE  WindowsInv'
  BY <1>4, CountKeepsWindows
<1>5. CASE ReadOldHours
  BY <1>5, ReadKeepsWindows
<1>6. CASE DeleteOldHours
  BY <1>6, DeleteKeepsWindows
<1>7. CASE CompactionFails
  BY <1>7, RollbackKeepsWindows
<1> QED
  BY <1>1, <1>2, <1>3, <1>4, <1>5, <1>6, <1>7 DEF SentimentNext, WorkerStep, Compaction

(* A window no longer than the retention adds up exactly the mentions       *)
(* counted in it, and no mention is in both tables, however compaction and  *)
(* counting interleave, fail and start again (compact_hourly_to_daily,      *)
(* upsert_aggregate and SqlSentimentAggReader).                             *)
THEOREM WindowsAddUp == SentimentSpec => []WindowsExact
<1>1. WindowsInv => WindowsExact
  BY WindowsGive
<1> QED
  BY <1>1, WindowsInitially, WindowsStep, PTL DEF SentimentSpec

-----------------------------------------------------------------------------
(* The metadata of a token *)

TokenTypeInv ==
    /\ tokenClock \in Nat /\ reachedAt \in Nat
    /\ priceTopic \in Seq(Metas) /\ pricePos \in Nat /\ priceCommitted \in Nat
    /\ seen \subseteq [meta : Metas, at : Nat]
    /\ failedAt \subseteq Nat

(* The cache remembers one claim, made no later than the last event came   *)
OneClaim == \A c \in seen : c.at <= reachedAt /\ \A e \in seen : c = e

(* While the row is being written, the claim is that of the event in hand  *)
ClaimInHand ==
    writing => /\ pricePos < Len(priceTopic)
               /\ seen = {[meta |-> Meta, at |-> reachedAt]}

(* A claim that is not stored failed after it was made, and the last event *)
(* came less than an interval after the claim                              *)
ClaimsAnswered ==
    /\ \A c \in seen : reachedAt - c.at < Rewrite
    /\ ~writing => \A c \in seen : tokenRow = {c.meta} \/ \E at \in failedAt : c.at <= at

TokenInv ==
    TokenTypeInv /\ reachedAt <= tokenClock /\ OneClaim /\ ClaimInHand /\ ClaimsAnswered

-----------------------------------------------------------------------------
LEMMA TokenInitially == TokenInit => TokenInv
<1> SUFFICES ASSUME TokenInit
             PROVE  TokenInv
  OBVIOUS
<1>1. seen = {} /\ ~writing /\ failedAt = {} /\ priceTopic \in Seq(Metas)
  BY DEF TokenInit
<1>2. TokenTypeInv /\ reachedAt <= tokenClock
  BY <1>1 DEF TokenInit, TokenTypeInv
<1>3. OneClaim /\ ClaimInHand /\ ClaimsAnswered
  BY <1>1 DEF OneClaim, ClaimInHand, ClaimsAnswered
<1> QED
  BY <1>2, <1>3 DEF TokenInv

(* An event that gets to _save_token's cache *)
LEMMA SavePriceKeeps ==
    ASSUME TokenInv, SavePrice
    PROVE  TokenInv'
<1> USE DEF TokenInv
<1>2. CASE ShouldWrite(Meta)
  <2>1. seen' = {[meta |-> Meta, at |-> tokenClock]} /\ writing' /\ reachedAt' = tokenClock
    BY <1>2 DEF SavePrice, Claimed, Claim, ShouldWrite
  <2>2. pricePos' = pricePos /\ Meta' = Meta
    BY <1>2 DEF SavePrice, Meta
  <2>3. Meta \in Metas
    BY DEF SavePrice, TokenTypeInv, Meta
  <2>4. TokenTypeInv'
    BY <2>1, <2>2, <2>3 DEF SavePrice, TokenTypeInv
  <2> QED
    BY <2>1, <2>2, <2>4, TokenRowsAssumption
       DEF SavePrice, TokenTypeInv, OneClaim, ClaimInHand, ClaimsAnswered
<1>3. CASE ~ShouldWrite(Meta)
  <2>1. seen' = seen /\ ~writing' /\ pricePos' = pricePos + 1
       /\ reachedAt' = tokenClock
    BY <1>3 DEF SavePrice, Claimed, ShouldWrite
  <2>2. TokenTypeInv'
    BY <2>1 DEF SavePrice, TokenTypeInv
  <2>3. PICK c \in seen : tokenClock - c.at < Rewrite
    BY <1>3, TokenRowsAssumption DEF ShouldWrite, TokenTypeInv
  <2>4. \A e \in seen : e = c
    BY DEF OneClaim
  <2>5. tokenRow' = tokenRow /\ failedAt' = failedAt /\ ~writing /\ tokenClock' = tokenClock
    BY DEF SavePrice
  <2> QED
    BY <2>1, <2>2, <2>3, <2>4, <2>5, TokenRowsAssumption
       DEF TokenTypeInv, OneClaim, ClaimInHand, ClaimsAnswered
<1> QED
  BY <1>2, <1>3

LEMMA TokenStep == TokenInv /\ [TokenNext]_tokenVars => TokenInv'
<1> SUFFICES ASSUME TokenInv, [TokenNext]_tokenVars
             PROVE  TokenInv'
  OBVIOUS
<1> USE TokenRowsAssumption DEF TokenInv, TokenTypeInv, OneClaim, ClaimInHand, ClaimsAnswered
<1>1. CASE TokenTick
  BY <1>1 DEF TokenTick, Meta
<1>2. CASE PublishPrice
  <2>1. PICK meta \in Metas : priceTopic' = Append(priceTopic, meta)
    BY <1>2 DEF PublishPrice
  <2>2. priceTopic' \in Seq(Metas) /\ Len(priceTopic') = Len(priceTopic) + 1
    BY <2>1
  <2>3. pricePos < Len(priceTopic) => Meta' = Meta
    BY <2>1, <1>2 DEF PublishPrice, Meta
  <2> QED
    BY <1>2, <2>2, <2>3 DEF PublishPrice
<1>3. CASE SavePrice
  BY <1>3, SavePriceKeeps
<1>4. CASE PriceRaises
  BY <1>4 DEF PriceRaises
<1>5. CASE SaveToken
  BY <1>5 DEF SaveToken
<1>6. CASE TokenRaises
  BY <1>6 DEF TokenRaises
<1>7. CASE CommitPrices
  BY <1>7 DEF CommitPrices, Meta
<1>8. CASE ReplayPrices
  BY <1>8 DEF ReplayPrices
<1>9. CASE UNCHANGED tokenVars
  BY <1>9 DEF tokenVars, Meta
<1> QED
  BY <1>1, <1>2, <1>3, <1>4, <1>5, <1>6, <1>7, <1>8, <1>9 DEF TokenNext

LEMMA TokenInvHeals == TokenInv => TokenRowHeals
<1> SUFFICES ASSUME TokenInv, ~writing, NEW c \in seen
             PROVE  tokenRow = {c.meta} \/ \E at \in failedAt : reachedAt - at < Rewrite
  BY DEF TokenRowHeals
<1> QED
  BY TokenRowsAssumption DEF TokenInv, TokenTypeInv, ClaimsAnswered

(* The row of a coin heals: it holds the metadata of the last event that   *)
(* got as far, or its write failed less than an interval before            *)
(* (persister.py, TokenMetaCache and _save_token).                         *)
THEOREM RowHeals == TokenSpec => []TokenRowHeals
<1>1. TokenInit => TokenInv
  BY TokenInitially
<1>2. TokenInv /\ [TokenNext]_tokenVars => TokenInv'
  BY TokenStep
<1>3. TokenInv => TokenRowHeals
  BY TokenInvHeals
<1> QED
  BY <1>1, <1>2, <1>3, PTL DEF TokenSpec

-----------------------------------------------------------------------------
(* Candles *)

(* The smallest and the largest of a set of numbers are in it *)
LEMMA MinIsIn ==
    ASSUME NEW Q, Q \subseteq Nat, Q # {}
    PROVE  Min(Q) \in Q /\ \A y \in Q : Min(Q) <= y
<1>1. \E x \in Q : \A y \in Q : ~(<<y, x>> \in OpToRel(<, Nat))
  BY NatLessThanWellFounded, WFMin
<1>2. \A x, y \in Q : <<y, x>> \in OpToRel(<, Nat) <=> y < x
  BY DEF OpToRel
<1>3. PICK x \in Q : \A y \in Q : ~(y < x)
  BY <1>1, <1>2
<1>4. \A y \in Q : x <= y
  BY <1>3
<1> QED
  BY <1>4 DEF Min

LEMMA MaxIsIn ==
    ASSUME NEW n \in Nat, NEW Q, Q \subseteq 0..n, Q # {}
    PROVE  Max(Q) \in Q /\ \A y \in Q : Max(Q) >= y
<1> DEFINE R == {n - q : q \in Q}
<1>1. R \subseteq Nat /\ R # {}
  <2>1. \A q \in Q : q \in 0..n
    OBVIOUS
  <2>2. \A q \in Q : n - q \in Nat
    BY <2>1
  <2> QED
    BY <2>2
<1> HIDE DEF R
<1>2. Min(R) \in R /\ \A y \in R : Min(R) <= y
  BY <1>1, MinIsIn
<1>3. PICK x \in Q : n - x = Min(R)
  BY <1>2 DEF R
<1>4. ASSUME NEW y \in Q PROVE x >= y
  <2>1. n - y \in R
    BY DEF R
  <2>2. n - x <= n - y
    BY <1>2, <1>3, <2>1
  <2> QED
    BY <2>2
<1> QED
  BY <1>4 DEF Max

(* What the topic carries *)
CandleMessage == [symbol : Pairs, time : Nat, final : BOOLEAN]

CandleTypeInv ==
    /\ candleClock \in Nat /\ since \in Int
    /\ specs \subseteq Pairs /\ spec \in Pairs /\ found \subseteq CandleMessage
    /\ candleTopic \in Seq(CandleMessage)
    /\ candlePos \in 0..Len(candleTopic) /\ candleCommitted \in 0..candlePos
    /\ candles = [s \in Pairs |-> candles[s]]
    /\ \A s \in Pairs : StoredTimes(s) \subseteq Nat /\ candles[s] \in [StoredTimes(s) -> BOOLEAN]

(* A candle is out of the account, or its final values were published *)
Finished(s, t) == [symbol |-> s, time |-> t, final |-> TRUE]
Accounted(s, t) ==
    <<s, t>> \in passed \/ \E i \in 1..Len(candleTopic) : candleTopic[i] = Finished(s, t)

(* No candle is published before it begins, and none as final that has not closed *)
InItsTime(m) == m.time <= candleClock /\ (m.final => m.time < candleClock)
ClosedWhenFinal ==
    /\ \A i \in 1..Len(candleTopic) : InItsTime(candleTopic[i])
    /\ \A c \in found : InItsTime(c)

(* The answer in hand has one version of a candle of its symbol *)
OneVersion ==
    /\ sweepPc # "publish" => found = {}
    /\ \A c \in found : c.symbol = spec /\ \A d \in found : c.time = d.time => c = d

(* On the topic no unfinished candle comes after the finished one *)
NotUndone(m, n) == m.symbol = n.symbol /\ m.time = n.time /\ m.final => n.final
FinalIsLast ==
    /\ \A i, j \in 1..Len(candleTopic) : i < j => NotUndone(candleTopic[i], candleTopic[j])
    /\ \A i \in 1..Len(candleTopic) : \A c \in found : NotUndone(candleTopic[i], c)

(* All that comes before a published candle is accounted for *)
NoGapBefore ==
    \A i \in 1..Len(candleTopic) :
        \A t \in 0..candleTopic[i].time - 1 : Accounted(candleTopic[i].symbol, t)

(* All before the cursor is, and of the answer in hand what is yet to come  *)
CursorBacked ==
    /\ sweepPc = "fetch" => \A t \in 0..since - 1 : Accounted(spec, t)
    /\ sweepPc = "publish" =>
           \A c \in found : \A t \in 0..c.time - 1 :
               Accounted(spec, t) \/ Finished(spec, t) \in found

(* The table holds what was published, and the final values that were handled *)
StoredWasPublished ==
    \A s \in Pairs : \A t \in StoredTimes(s) :
        \E i \in 1..Len(candleTopic) :
            candleTopic[i].symbol = s /\ candleTopic[i].time = t
                /\ (candles[s][t] => candleTopic[i].final)
HandledIsStored ==
    \A i \in 1..candlePos :
        LET m == candleTopic[i]
        IN m.final => \/ <<m.symbol, m.time>> \in passed
                      \/ m.time \in StoredTimes(m.symbol) /\ candles[m.symbol][m.time]

CandleInv ==
    /\ CandleTypeInv /\ ClosedWhenFinal /\ OneVersion /\ FinalIsLast
    /\ NoGapBefore /\ CursorBacked /\ StoredWasPublished /\ HandledIsStored

-----------------------------------------------------------------------------
(* What is accounted for stays so while the topic grows or stays            *)
LEMMA AccountedStays ==
    ASSUME NEW s, NEW t, Accounted(s, t), passed \subseteq passed', candleTopic' = candleTopic
    PROVE  Accounted(s, t)'
BY DEF Accounted

LEMMA AccountedGrows ==
    ASSUME CandleTypeInv, NEW s, NEW t, Accounted(s, t), passed' = passed,
           NEW c, candleTopic' = Append(candleTopic, c)
    PROVE  Accounted(s, t)'
<1>1. CASE <<s, t>> \in passed
  BY <1>1 DEF Accounted
<1>2. CASE \E i \in 1..Len(candleTopic) : candleTopic[i] = Finished(s, t)
  <2>1. PICK i \in 1..Len(candleTopic) : candleTopic[i] = Finished(s, t)
    BY <1>2
  <2>2. i \in 1..Len(candleTopic') /\ candleTopic'[i] = candleTopic[i]
    BY DEF CandleTypeInv
  <2> QED
    BY <2>1, <2>2 DEF Accounted, Finished
<1> QED
  BY <1>1, <1>2 DEF Accounted

LEMMA StoredWithin ==
    ASSUME CandleInv, NEW s \in Pairs
    PROVE  StoredTimes(s) \subseteq 0..candleClock
<1> SUFFICES ASSUME NEW t \in StoredTimes(s)
             PROVE  t \in 0..candleClock
  OBVIOUS
<1>1. t \in Nat /\ candleClock \in Nat
  BY DEF CandleInv, CandleTypeInv
<1>2. PICK i \in 1..Len(candleTopic) : candleTopic[i].time = t
  BY DEF CandleInv, StoredWasPublished
<1>3. candleTopic[i].time <= candleClock
  BY DEF CandleInv, ClosedWhenFinal, InItsTime
<1> QED
  BY <1>1, <1>2, <1>3

LEMMA BeforeStored ==
    ASSUME CandleInv, NEW s \in Pairs, NEW t \in StoredTimes(s), NEW u \in 0..t - 1
    PROVE  Accounted(s, u)
<1>1. PICK i \in 1..Len(candleTopic) : candleTopic[i].symbol = s /\ candleTopic[i].time = t
  BY DEF CandleInv, StoredWasPublished
<1> QED
  BY <1>1 DEF CandleInv, NoGapBefore

LEMMA NewestIsStored ==
    ASSUME CandleInv, NEW s \in Pairs
    PROVE  /\ StoredTimes(s) = {} => Newest(s) = -1
           /\ StoredTimes(s) # {} => Newest(s) \in StoredTimes(s) /\ Newest(s) \in Nat
<1>1. CASE StoredTimes(s) = {}
  BY <1>1 DEF Newest, NoCandle
<1>2. CASE StoredTimes(s) # {}
  <2>1. StoredTimes(s) \subseteq 0..candleClock /\ candleClock \in Nat
    BY StoredWithin DEF CandleInv, CandleTypeInv
  <2>2. Max(StoredTimes(s)) \in StoredTimes(s)
    BY <1>2, <2>1, MaxIsIn
  <2> QED
    BY <1>2, <2>1, <2>2 DEF Newest
<1> QED
  BY <1>1, <1>2

(* All before the cursor of a symbol is accounted for *)
LEMMA BeforeNewest ==
    ASSUME CandleInv, NEW s \in Pairs, NEW t \in 0..Newest(s) - 1
    PROVE  Accounted(s, t)
<1>1. StoredTimes(s) # {}
  BY NewestIsStored
<1> QED
  BY <1>1, NewestIsStored, BeforeStored

LEMMA CandleInvGives == CandleInv => NoHoleBehind
<1> SUFFICES ASSUME CandleInv, NEW s \in Pairs, NEW t \in Between(s)
             PROVE  \/ t \in Series(s, candleClock) /\ candles[s][t]
                    \/ \E i \in candlePos + 1..Len(candleTopic) :
                           candleTopic[i] = Finished(s, t)
                    \/ <<s, t>> \in passed
  BY DEF NoHoleBehind, Finished
<1>1. StoredTimes(s) # {} /\ StoredTimes(s) \subseteq Nat
  BY DEF Between, CandleInv, CandleTypeInv
<1>2. t \in 0..Newest(s) - 1
  <2>1. Min(StoredTimes(s)) \in Nat
    BY <1>1, MinIsIn
  <2>2. t \in Min(StoredTimes(s))..Newest(s) - 1
    BY <1>1 DEF Between
  <2>3. Newest(s) \in Nat
    BY <1>1, NewestIsStored
  <2> QED
    BY <2>1, <2>2, <2>3
<1>3. Accounted(s, t)
  BY <1>2, BeforeNewest
<1>4. CASE <<s, t>> \in passed
  BY <1>4
<1>5. ASSUME NEW i \in 1..Len(candleTopic), candleTopic[i] = Finished(s, t),
             <<s, t>> \notin passed
      PROVE  \/ t \in Series(s, candleClock) /\ candles[s][t]
             \/ \E j \in candlePos + 1..Len(candleTopic) : candleTopic[j] = Finished(s, t)
  <2>1. Len(candleTopic) \in Nat /\ candlePos \in 0..Len(candleTopic) /\ candleClock \in Nat
    BY DEF CandleInv, CandleTypeInv
  <2>2. CASE i > candlePos
    BY <1>5, <2>1, <2>2
  <2>3. CASE i <= candlePos
    <3>1. i \in 1..candlePos /\ candleTopic[i].final
          /\ candleTopic[i].symbol = s /\ candleTopic[i].time = t
      BY <1>5, <2>1, <2>3 DEF Finished
    <3>2. t \in StoredTimes(s) /\ candles[s][t]
      BY <1>5, <3>1 DEF CandleInv, HandledIsStored
    <3>3. t < candleClock
      BY <3>1 DEF CandleInv, ClosedWhenFinal, InItsTime
    <3>4. t \in Nat
      BY <1>2, <1>1, NewestIsStored
    <3>5. IsClosed(t) /\ t >= candleClock - candleClock
      BY <2>1, <3>3, <3>4 DEF IsClosed
    <3> QED
      BY <3>2, <3>5 DEF Series
  <2> QED
    BY <2>1, <2>2, <2>3
<1> QED
  BY <1>3, <1>4, <1>5 DEF Accounted

LEMMA CandleInitially == CandleInit => CandleInv
<1> SUFFICES ASSUME CandleInit
             PROVE  CandleInv
  OBVIOUS
<1>1. \A s \in Pairs : StoredTimes(s) = {} /\ candles[s] = <<>>
  BY DEF CandleInit, StoredTimes
<1>2. candleTopic = <<>> /\ Len(candleTopic) = 0 /\ found = {} /\ candlePos = 0
  BY DEF CandleInit
<1>3. CandleTypeInv
  BY <1>1, <1>2 DEF CandleInit, CandleTypeInv, NoCandle, StoredTimes
<1>4. ClosedWhenFinal /\ OneVersion /\ FinalIsLast /\ NoGapBefore /\ HandledIsStored
  BY <1>2 DEF ClosedWhenFinal, OneVersion, FinalIsLast, NoGapBefore, HandledIsStored
<1>5. CursorBacked /\ StoredWasPublished
  BY <1>1 DEF CandleInit, CursorBacked, StoredWasPublished
<1> QED
  BY <1>3, <1>4, <1>5 DEF CandleInv

(* A step of the sweeper that neither publishes nor passes over a candle    *)
LEMMA SweeperKeeps ==
    ASSUME CandleInv, NEW s \in Pairs, spec' = s,
           candleClock' = candleClock, candleTopic' = candleTopic, persisted' = persisted,
           passed' = passed,
           specs' \subseteq Pairs, since' \in Int,
           found' = {} \/ (found' = found /\ s = spec /\ sweepPc' = "publish"),
           sweepPc' = "fetch" => \A t \in 0..since' - 1 : Accounted(s, t),
           sweepPc' = "publish" => sweepPc = "publish"
    PROVE  CandleInv'
<1> USE DEF CandleInv, persisted
<1>1. CandleTypeInv'
  BY DEF CandleTypeInv, StoredTimes
<1>2. ClosedWhenFinal' /\ OneVersion' /\ FinalIsLast'
  BY DEF ClosedWhenFinal, InItsTime, OneVersion, FinalIsLast, NotUndone
<1>3. \A r, t : Accounted(r, t) => Accounted(r, t)'
  BY AccountedStays
<1>4. NoGapBefore'
  BY <1>3 DEF NoGapBefore
<1>5. CursorBacked'
  <2>1. ASSUME sweepPc' = "fetch", NEW t \in 0..since' - 1
        PROVE  Accounted(s, t)'
    BY <1>3, <2>1
  <2>2. ASSUME sweepPc' = "publish", NEW c \in found', NEW t \in 0..c.time - 1
        PROVE  Accounted(s, t)' \/ Finished(s, t) \in found'
    <3>1. s = spec /\ found' = found /\ sweepPc = "publish"
      BY <2>2
    <3>2. Accounted(s, t) \/ Finished(s, t) \in found
      BY <2>2, <3>1 DEF CursorBacked
    <3> QED
      BY <1>3, <3>1, <3>2
  <2> QED
    BY <2>1, <2>2 DEF CursorBacked, Accounted, Finished
<1>6. /\ candles' = candles /\ candleTopic' = candleTopic /\ candlePos' = candlePos
      /\ passed' = passed
  OBVIOUS
<1>7. StoredWasPublished'
  BY <1>6 DEF StoredWasPublished, StoredTimes
<1>8. HandledIsStored'
  BY <1>6 DEF HandledIsStored, StoredTimes
<1> QED
  BY <1>1, <1>2, <1>4, <1>5, <1>7, <1>8

LEMMA ReadCursorKeeps ==
    ASSUME CandleInv, ReadCursor
    PROVE  CandleInv'
<1>1. PICK s \in Pairs : spec' = s /\ since' = Newest(s)
  BY DEF ReadCursor, CandleInv, CandleTypeInv
<1>2. Newest(s) \in Int
  BY NewestIsStored
<1>3. \A t \in 0..since' - 1 : Accounted(s, t)
  BY <1>1, BeforeNewest
<1>4. /\ UNCHANGED <<candleClock, specs, found, candleTopic, persisted, passed>>
      /\ sweepPc' = "fetch" /\ found = {}
  BY DEF ReadCursor, CandleInv, OneVersion
<1>5. specs' \subseteq Pairs /\ since' \in Int /\ found' = {}
  BY <1>1, <1>2, <1>4 DEF CandleInv, CandleTypeInv
<1>6. /\ sweepPc' # "publish" /\ candleClock' = candleClock
      /\ candleTopic' = candleTopic /\ persisted' = persisted /\ passed' = passed
  BY <1>4
<1> QED
  BY <1>1, <1>3, <1>5, <1>6, SweeperKeeps

(* The clock: what is final stays so *)
LEMMA CandleClosesKeeps ==
    ASSUME CandleInv, CandleCloses
    PROVE  CandleInv'
<1> USE DEF CandleInv
<1>1. candleClock' = candleClock + 1 /\ UNCHANGED <<sweepVars, candleTopic, persisted, passed>>
  BY DEF CandleCloses
<1>2. CandleTypeInv'
  BY <1>1 DEF CandleTypeInv, sweepVars, persisted, StoredTimes
<1>3. ClosedWhenFinal'
  <2>1. ASSUME NEW m \in CandleMessage, InItsTime(m)
        PROVE  InItsTime(m)'
    BY <1>1, <2>1 DEF InItsTime, CandleMessage, CandleTypeInv
  <2>2. \A i \in 1..Len(candleTopic) : candleTopic[i] \in CandleMessage
    BY DEF CandleTypeInv
  <2>3. \A c \in found : c \in CandleMessage
    BY DEF CandleTypeInv
  <2>4. candleTopic' = candleTopic /\ found' = found
    BY <1>1 DEF sweepVars
  <2> QED
    BY <2>1, <2>2, <2>3, <2>4 DEF ClosedWhenFinal, InItsTime
<1>4. \A s, t : Accounted(s, t)' <=> Accounted(s, t)
  BY <1>1 DEF Accounted
<1>5. OneVersion' /\ FinalIsLast' /\ StoredWasPublished' /\ HandledIsStored'
  BY <1>1 DEF OneVersion, FinalIsLast, NotUndone, StoredWasPublished, HandledIsStored,
              StoredTimes, sweepVars, persisted
<1>6. NoGapBefore' /\ CursorBacked'
  BY <1>1, <1>4 DEF NoGapBefore, CursorBacked, sweepVars, Finished
<1> QED
  BY <1>2, <1>3, <1>5, <1>6

(* The answer: what of it is not found is out of reach, or dropped *)
LEMMA FetchCandlesKeeps ==
    ASSUME CandleInv, FetchCandles
    PROVE  CandleInv'
<1> USE DEF CandleInv
<1>1. PICK bad \in SUBSET Ohlc :
          /\ found' = {Candle(spec, t) : t \in Ohlc \ bad}
          /\ passed' = passed \cup ({spec} \X (bad \cup (Asked \ Ohlc)))
  BY DEF FetchCandles
<1>2. /\ sweepPc = "fetch" /\ sweepPc' = "publish"
      /\ UNCHANGED <<candleClock, specs, spec, since, candleTopic, persisted>>
  BY DEF FetchCandles
<1>3. /\ Ohlc \subseteq Asked /\ Asked \subseteq 0..candleClock /\ candleClock \in Nat
      /\ since \in Int /\ spec \in Pairs
  BY DEF Ohlc, Asked, CandleTypeInv
<1>4. ASSUME NEW c \in found'
      PROVE  /\ c.symbol = spec /\ c.time \in Ohlc \ bad /\ c = Candle(spec, c.time)
             /\ (c.final <=> c.time < candleClock) /\ c.time \in 0..candleClock
             /\ c \in CandleMessage
  <2>1. PICK t \in Ohlc \ bad : c = Candle(spec, t)
    BY <1>1
  <2>2. t \in 0..candleClock /\ t \in Nat
    BY <1>3
  <2>3. c = [symbol |-> spec, time |-> t, final |-> (t < candleClock)]
    BY <2>1 DEF Candle
  <2>4. c.symbol = spec /\ c.time = t /\ c.final = (t < candleClock)
    BY <2>3
  <2>5. c.final <=> t < candleClock
    BY <2>4
  <2>6. c \in CandleMessage
    BY <1>3, <2>2, <2>3 DEF CandleMessage
  <2> QED
    BY <2>1, <2>2, <2>4, <2>5, <2>6
<1>5. CandleTypeInv'
  <2>1. found' \subseteq CandleMessage
    BY <1>4
  <2> QED
    BY <1>2, <2>1 DEF CandleTypeInv, persisted, StoredTimes
<1>6. ClosedWhenFinal'
  <2>1. \A c \in found' : c.time <= candleClock /\ (c.final => c.time < candleClock)
    BY <1>3, <1>4
  <2> QED
    BY <1>2, <2>1 DEF ClosedWhenFinal, InItsTime
<1>7. OneVersion'
  BY <1>2, <1>4 DEF OneVersion
<1>8. FinalIsLast'
  <2>1. ASSUME NEW i \in 1..Len(candleTopic), NEW c \in found',
               candleTopic[i].time = c.time, candleTopic[i].final
        PROVE  c.final
    <3>1. candleTopic[i].time < candleClock
      BY <2>1 DEF ClosedWhenFinal, InItsTime
    <3> QED
      BY <1>4, <2>1, <3>1 DEF Candle
  <2> QED
    BY <1>2, <2>1 DEF FinalIsLast, NotUndone
<1>9. \A s, t : Accounted(s, t) => Accounted(s, t)'
  <2>1. candleTopic' = candleTopic /\ passed \subseteq passed'
    BY <1>1, <1>2
  <2> QED
    BY <2>1, AccountedStays
<1>10. NoGapBefore'
  BY <1>2, <1>9 DEF NoGapBefore
<1>11. CursorBacked'
  <2>1. PICK s : s = spec
    OBVIOUS
  <2>2. ASSUME NEW c \in found', NEW t \in 0..c.time - 1
        PROVE  Accounted(s, t)' \/ Finished(s, t) \in found'
    <3>1. c.time \in 0..candleClock
      BY <1>4
    <3>2. t \in Nat /\ t \in 0..candleClock /\ t < candleClock
      BY <1>3, <3>1
    <3>3. CASE t < since
      <4>1. Accounted(s, t)
        BY <1>2, <1>3, <2>1, <3>2, <3>3 DEF CursorBacked
      <4> QED
        BY <1>9, <4>1
    <3>4. CASE t >= since /\ (t \notin Ohlc \/ t \in bad)
      <4>1. t \in bad \cup (Asked \ Ohlc)
        BY <3>2, <3>4 DEF Asked
      <4>2. <<s, t>> \in passed'
        BY <1>1, <2>1, <4>1
      <4> QED
        BY <4>2 DEF Accounted
    <3>5. CASE t \in Ohlc \ bad
      <4>1. Candle(s, t) \in found'
        BY <1>1, <2>1, <3>5
      <4>2. (t < candleClock) = TRUE
        BY <3>2
      <4> QED
        BY <4>1, <4>2 DEF Candle, Finished
    <3> QED
      BY <1>3, <3>2, <3>3, <3>4, <3>5
  <2>3. spec' = s
    BY <1>2, <2>1
  <2> QED
    BY <1>2, <2>2, <2>3 DEF CursorBacked, Accounted, Finished
<1>12. StoredWasPublished'
  BY <1>2 DEF StoredWasPublished, StoredTimes, persisted
<1>13. HandledIsStored'
  BY <1>1, <1>2 DEF HandledIsStored, StoredTimes, persisted
<1> QED
  BY <1>5, <1>6, <1>7, <1>8, <1>10, <1>11, <1>12, <1>13

(* The oldest of the answer goes onto the topic: all before it is there     *)
LEMMA PublishCandleKeeps ==
    ASSUME CandleInv, PublishCandle
    PROVE  CandleInv'
<1> USE DEF CandleInv
<1>1. PICK c \in found : /\ \A d \in found : c.time <= d.time
                         /\ candleTopic' = Append(candleTopic, c) /\ found' = found \ {c}
  BY DEF PublishCandle
<1>2. /\ sweepPc = "publish" /\ sweepPc' = "publish" /\ spec' = spec /\ since' = since
      /\ candleClock' = candleClock /\ specs' = specs /\ passed' = passed
      /\ candlePos' = candlePos /\ candleCommitted' = candleCommitted /\ candles' = candles
  BY DEF PublishCandle, persisted
<1> DEFINE n == Len(candleTopic)
<1>3. /\ c \in CandleMessage /\ n \in Nat /\ candleTopic \in Seq(CandleMessage)
      /\ found \subseteq CandleMessage /\ candlePos \in 0..n
  BY DEF CandleTypeInv
<1>4. /\ candleTopic' \in Seq(CandleMessage) /\ Len(candleTopic') = n + 1
      /\ candleTopic'[n + 1] = c
      /\ \A i \in 1..n : candleTopic'[i] = candleTopic[i]
  BY <1>1, <1>3
<1> HIDE DEF n
<1>5. \A i \in 1..n + 1 : (i \in 1..n /\ candleTopic'[i] = candleTopic[i])
                          \/ (i = n + 1 /\ candleTopic'[i] = c)
  BY <1>3, <1>4
<1>6. \A i \in 1..n : candleTopic[i] \in CandleMessage
  BY <1>3 DEF n
<1>7. CandleTypeInv'
  BY <1>1, <1>2, <1>3, <1>4 DEF CandleTypeInv, StoredTimes, n
<1>8. c.symbol = spec /\ \A d \in found : c.time = d.time => c = d
  BY DEF OneVersion
<1>9. \A s, t : Accounted(s, t) => Accounted(s, t)'
  BY <1>1, <1>2, AccountedGrows
<1>10. ClosedWhenFinal'
  <2>1. InItsTime(c) /\ \A i \in 1..n : InItsTime(candleTopic[i])
    BY DEF ClosedWhenFinal, n
  <2>2. \A m : InItsTime(m) => InItsTime(m)'
    BY <1>2 DEF InItsTime
  <2>3. \A i \in 1..n + 1 : InItsTime(candleTopic'[i])
    BY <1>5, <2>1
  <2>4. \A d \in found' : InItsTime(d)
    BY <1>1 DEF ClosedWhenFinal
  <2> QED
    BY <1>2, <1>4, <2>3, <2>4 DEF ClosedWhenFinal, InItsTime
<1>11. OneVersion'
  BY <1>1, <1>2 DEF OneVersion
<1>12. FinalIsLast'
  <2>1. \A i, j \in 1..n : i < j => NotUndone(candleTopic[i], candleTopic[j])
    BY DEF FinalIsLast, n
  <2>2. \A i \in 1..n : \A d \in found : NotUndone(candleTopic[i], d)
    BY DEF FinalIsLast, n
  <2>3. \A d \in found' : ~(c.time = d.time)
    BY <1>1, <1>8
  <2>4. \A d \in found' : NotUndone(c, d)
    BY <2>3 DEF NotUndone
  <2>5. ASSUME NEW i \in 1..n + 1, NEW j \in 1..n + 1, i < j
        PROVE  NotUndone(candleTopic'[i], candleTopic'[j])
    <3>1. i \in 1..n
      BY <1>3, <2>5
    <3>2. CASE j \in 1..n
      BY <1>4, <2>1, <2>5, <3>1, <3>2
    <3>3. CASE j = n + 1
      BY <1>1, <1>4, <2>2, <3>1, <3>3
    <3> QED
      BY <1>5, <3>2, <3>3
  <2>6. \A i \in 1..n + 1 : \A d \in found' : NotUndone(candleTopic'[i], d)
    BY <1>1, <1>5, <2>2, <2>4
  <2> QED
    BY <1>4, <2>5, <2>6 DEF FinalIsLast
<1>13. \A t \in 0..c.time - 1 : Accounted(spec, t)
  <2> SUFFICES ASSUME NEW t \in 0..c.time - 1, ~Accounted(spec, t)
               PROVE  FALSE
    OBVIOUS
  <2>1. Finished(spec, t) \in found
    BY <1>2 DEF CursorBacked
  <2>2. c.time <= Finished(spec, t).time
    BY <1>1, <2>1
  <2>3. c.time <= t /\ c.time \in Nat
    BY <1>3, <2>2 DEF Finished, CandleMessage
  <2> QED
    BY <2>3
<1>14. NoGapBefore'
  <2>1. ASSUME NEW i \in 1..n + 1, NEW t \in 0..candleTopic'[i].time - 1
        PROVE  Accounted(candleTopic'[i].symbol, t)
    <3>1. CASE i \in 1..n
      BY <1>4, <2>1, <3>1 DEF NoGapBefore, n
    <3>2. CASE i = n + 1
      BY <1>4, <1>8, <1>13, <2>1, <3>2
    <3> QED
      BY <1>5, <3>1, <3>2
  <2>2. \A i \in 1..n + 1 : \A t \in 0..candleTopic'[i].time - 1 :
            \A s : s = candleTopic'[i].symbol => Accounted(s, t)'
    BY <1>9, <2>1
  <2> QED
    BY <1>4, <2>2 DEF NoGapBefore, Accounted
<1>15. CursorBacked'
  <2>1. PICK s : s = spec
    OBVIOUS
  <2>2. ASSUME NEW d \in found', NEW t \in 0..d.time - 1
        PROVE  Accounted(s, t)' \/ Finished(s, t) \in found'
    <3>1. CASE Accounted(s, t)
      BY <1>9, <3>1
    <3>2. CASE Finished(s, t) \in found'
      BY <3>2
    <3>3. CASE Finished(s, t) = c
      <4>1. n + 1 \in 1..Len(candleTopic') /\ candleTopic'[n + 1] = Finished(s, t)
        BY <1>3, <1>4, <3>3
      <4> QED
        BY <4>1 DEF Accounted, Finished
    <3> QED
      BY <1>1, <1>2, <2>1, <2>2, <3>1, <3>2, <3>3 DEF CursorBacked
  <2>3. spec' = s /\ sweepPc' = "publish"
    BY <1>2, <2>1
  <2> QED
    BY <2>2, <2>3 DEF CursorBacked, Accounted, Finished
<1>16. StoredWasPublished'
  <2>1. ASSUME NEW s \in Pairs, NEW t \in StoredTimes(s)
        PROVE  \E i \in 1..n + 1 : candleTopic'[i].symbol = s /\ candleTopic'[i].time = t
                                   /\ (candles[s][t] => candleTopic'[i].final)
    <3>1. PICK i \in 1..n : candleTopic[i].symbol = s /\ candleTopic[i].time = t
                            /\ (candles[s][t] => candleTopic[i].final)
      BY DEF StoredWasPublished, n
    <3>2. i \in 1..n + 1 /\ candleTopic'[i] = candleTopic[i]
      BY <1>3, <1>4
    <3> QED
      BY <3>1, <3>2
  <2> QED
    BY <1>2, <1>4, <2>1 DEF StoredWasPublished, StoredTimes
<1>17. HandledIsStored'
  <2>1. \A i \in 1..candlePos : i \in 1..n
    BY <1>3
  <2> QED
    BY <1>2, <1>4, <2>1 DEF HandledIsStored, StoredTimes
<1> QED
  BY <1>7, <1>10, <1>11, <1>12, <1>14, <1>15, <1>16, <1>17

(* A step of the persister, which changes neither the topic nor the sweep   *)
LEMMA PersisterKeeps ==
    ASSUME CandleInv, UNCHANGED <<candleClock, sweepVars, candleTopic>>,
           passed \subseteq passed',
           CandleTypeInv', StoredWasPublished', HandledIsStored'
    PROVE  CandleInv'
<1> USE DEF CandleInv, sweepVars
<1>1. \A s, t : Accounted(s, t) => Accounted(s, t)'
  BY AccountedStays
<1>2. ClosedWhenFinal' /\ OneVersion' /\ FinalIsLast'
  BY DEF ClosedWhenFinal, InItsTime, OneVersion, FinalIsLast, NotUndone
<1>3. NoGapBefore' /\ CursorBacked'
  BY <1>1 DEF NoGapBefore, CursorBacked, Finished
<1> QED
  BY <1>2, <1>3

LEMMA NextCandleFacts ==
    ASSUME CandleInv, candlePos < Len(candleTopic)
    PROVE  /\ candlePos + 1 \in 1..Len(candleTopic) /\ candlePos \in Nat
           /\ NextCandle = candleTopic[candlePos + 1] /\ NextCandle \in CandleMessage
           /\ \A i \in 1..candlePos + 1 : i \in 1..candlePos \/ i = candlePos + 1
           /\ \A i \in 1..candlePos : i \in 1..Len(candleTopic)
BY DEF CandleInv, CandleTypeInv, NextCandle

LEMMA UpsertCandleKeeps ==
    ASSUME CandleInv, UpsertCandle
    PROVE  CandleInv'
<1> USE DEF CandleInv
<1>1. /\ candlePos < Len(candleTopic) /\ candlePos' = candlePos + 1
      /\ candleCommitted' = candleCommitted /\ passed' = passed
      /\ UNCHANGED <<candleClock, sweepVars, candleTopic>>
  BY DEF UpsertCandle
<1>2. PICK m \in CandleMessage :
          /\ m = NextCandle /\ m = candleTopic[candlePos + 1]
          /\ candlePos + 1 \in 1..Len(candleTopic) /\ candlePos \in Nat
  BY <1>1, NextCandleFacts
<1>3. m.symbol \in Pairs /\ m.time \in Nat /\ m.final \in BOOLEAN
  BY DEF CandleMessage
<1>4. candles' = [candles EXCEPT ![m.symbol] =
                     [t \in StoredTimes(m.symbol) \cup {m.time} |->
                         IF t = m.time THEN m.final ELSE candles[m.symbol][t]]]
  BY <1>2 DEF UpsertCandle
<1>5. \A s \in Pairs :
          s # m.symbol => candles'[s] = candles[s] /\ StoredTimes(s)' = StoredTimes(s)
  BY <1>4 DEF CandleTypeInv, StoredTimes
<1>6. /\ StoredTimes(m.symbol)' = StoredTimes(m.symbol) \cup {m.time}
      /\ candles'[m.symbol] = [t \in StoredTimes(m.symbol) \cup {m.time} |->
                                  IF t = m.time THEN m.final ELSE candles[m.symbol][t]]
  BY <1>3, <1>4 DEF CandleTypeInv, StoredTimes
<1>7. /\ candles'[m.symbol][m.time] = m.final
      /\ \A t \in StoredTimes(m.symbol) :
            t # m.time => candles'[m.symbol][t] = candles[m.symbol][t]
  BY <1>6
<1>8. CandleTypeInv'
  <2>1. ASSUME NEW s \in Pairs
        PROVE  StoredTimes(s)' \subseteq Nat /\ candles'[s] \in [StoredTimes(s)' -> BOOLEAN]
    <3>1. StoredTimes(s) \subseteq Nat /\ candles[s] \in [StoredTimes(s) -> BOOLEAN]
      BY DEF CandleTypeInv
    <3>2. CASE s = m.symbol
      BY <1>3, <1>6, <3>1, <3>2
    <3>3. CASE s # m.symbol
      BY <1>5, <3>1, <3>3
    <3> QED
      BY <3>2, <3>3
  <2>2. candles' = [s \in Pairs |-> candles'[s]]
    BY <1>4 DEF CandleTypeInv
  <2>3. candlePos' \in 0..Len(candleTopic) /\ candleCommitted' \in 0..candlePos'
    BY <1>1, <1>2 DEF CandleTypeInv
  <2> QED
    BY <1>1, <2>1, <2>2, <2>3 DEF CandleTypeInv, sweepVars
<1>9. StoredWasPublished'
  <2>1. ASSUME NEW s \in Pairs, NEW t \in StoredTimes(s)'
        PROVE  \E i \in 1..Len(candleTopic) :
                   candleTopic[i].symbol = s /\ candleTopic[i].time = t
                       /\ (candles'[s][t] => candleTopic[i].final)
    <3>1. CASE s = m.symbol /\ t = m.time
      BY <1>2, <1>7, <3>1
    <3>2. CASE s # m.symbol
      BY <1>5, <3>2 DEF StoredWasPublished
    <3>3. CASE s = m.symbol /\ t # m.time
      BY <1>6, <1>7, <3>3 DEF StoredWasPublished
    <3> QED
      BY <3>1, <3>2, <3>3
  <2> QED
    BY <1>1, <2>1 DEF StoredWasPublished
<1>10. HandledIsStored'
  <2>1. ASSUME NEW i \in 1..candlePos + 1, candleTopic[i].final,
               <<candleTopic[i].symbol, candleTopic[i].time>> \notin passed
        PROVE  /\ candleTopic[i].time \in DOMAIN candles'[candleTopic[i].symbol]
               /\ candles'[candleTopic[i].symbol][candleTopic[i].time]
    <3>0. i \in 1..Len(candleTopic)
      BY <1>1, NextCandleFacts
    <3>1. PICK s \in Pairs, t \in Nat : s = candleTopic[i].symbol /\ t = candleTopic[i].time
      <4>1. candleTopic[i] \in CandleMessage
        BY <3>0 DEF CandleTypeInv
      <4> QED
        BY <4>1 DEF CandleMessage
    <3>2. CASE s = m.symbol /\ t = m.time
      <4>1. m.final
        <5>1. CASE i = candlePos + 1
          BY <1>2, <2>1, <5>1
        <5>2. CASE i \in 1..candlePos
          <6>1. i < candlePos + 1
            BY <1>2, <5>2
          <6>2. NotUndone(candleTopic[i], m)
            BY <1>2, <3>0, <6>1 DEF FinalIsLast
          <6> QED
            BY <2>1, <3>1, <3>2, <6>2 DEF NotUndone
        <5> QED
          BY <1>1, <5>1, <5>2, NextCandleFacts
      <4> QED
        BY <1>6, <1>7, <3>1, <3>2, <4>1 DEF StoredTimes
    <3>3. CASE ~(s = m.symbol /\ t = m.time)
      <4>1. i \in 1..candlePos
        BY <1>1, <1>2, <3>1, <3>3, NextCandleFacts
      <4>2. t \in StoredTimes(s) /\ candles[s][t]
        BY <2>1, <3>1, <4>1 DEF HandledIsStored
      <4>3. CASE s # m.symbol
        BY <1>5, <3>1, <4>2, <4>3 DEF StoredTimes
      <4>4. CASE s = m.symbol /\ t # m.time
        BY <1>6, <1>7, <3>1, <4>2, <4>4 DEF StoredTimes
      <4> QED
        BY <3>3, <4>3, <4>4
    <3> QED
      BY <3>2, <3>3
  <2> QED
    BY <1>1, <2>1 DEF HandledIsStored, StoredTimes
<1> QED
  BY <1>1, <1>8, <1>9, <1>10, PersisterKeeps

LEMMA UpsertRaisesKeeps ==
    ASSUME CandleInv, UpsertRaises
    PROVE  CandleInv'
<1> USE DEF CandleInv
<1>1. /\ candlePos < Len(candleTopic) /\ candlePos' = candlePos + 1
      /\ passed' = passed \cup {<<NextCandle.symbol, NextCandle.time>>}
      /\ UNCHANGED <<candleClock, sweepVars, candleTopic, candleCommitted, candles>>
  BY DEF UpsertRaises
<1>2. candlePos + 1 \in 1..Len(candleTopic) /\ NextCandle = candleTopic[candlePos + 1]
      /\ \A i \in 1..candlePos + 1 : i \in 1..candlePos \/ i = candlePos + 1
  BY <1>1, NextCandleFacts
<1>3. CandleTypeInv'
  BY <1>1, <1>2 DEF CandleTypeInv, StoredTimes, sweepVars
<1>4. StoredWasPublished'
  BY <1>1 DEF StoredWasPublished, StoredTimes
<1>5. HandledIsStored'
  BY <1>1, <1>2 DEF HandledIsStored, StoredTimes
<1> QED
  BY <1>1, <1>3, <1>4, <1>5, PersisterKeeps

(* The position of the persister moves on to what it has, or back            *)
LEMMA PositionKeeps ==
    ASSUME CandleInv, CommitCandles \/ ReplayCandles
    PROVE  CandleInv'
<1> USE DEF CandleInv
<1>1. /\ candlePos' \in 0..candlePos /\ candleCommitted' \in 0..candlePos'
      /\ UNCHANGED <<candleClock, sweepVars, candleTopic, candles, passed>>
      /\ candlePos \in 0..Len(candleTopic) /\ Len(candleTopic) \in Nat
  BY DEF CommitCandles, ReplayCandles, CandleTypeInv
<1>2. CandleTypeInv'
  BY <1>1 DEF CandleTypeInv, StoredTimes, sweepVars
<1>3. StoredWasPublished'
  BY <1>1 DEF StoredWasPublished, StoredTimes
<1>4. HandledIsStored'
  <2>1. \A i \in 1..candlePos' : i \in 1..candlePos
    BY <1>1
  <2> QED
    BY <1>1, <2>1 DEF HandledIsStored, StoredTimes
<1> QED
  BY <1>1, <1>2, <1>3, <1>4, PersisterKeeps

LEMMA CandleStep == CandleInv /\ [CandleNext]_candleVars => CandleInv'
<1> SUFFICES ASSUME CandleInv, [CandleNext]_candleVars
             PROVE  CandleInv'
  OBVIOUS
<1>1. specs \subseteq Pairs /\ spec \in Pairs /\ since \in Int
  BY DEF CandleInv, CandleTypeInv
<1>2. CASE CandleCloses
  BY <1>2, CandleClosesKeeps
<1>3. CASE ResolveUniverse \/ NextSpec \/ ReportHealth
  <2>1. /\ candleClock' = candleClock /\ candleTopic' = candleTopic
        /\ persisted' = persisted /\ passed' = passed
        /\ spec' = spec /\ since' = since /\ found' = found /\ specs' \subseteq Pairs
        /\ sweepPc' \notin {"fetch", "publish"} /\ found = {}
    BY <1>1, <1>3 DEF ResolveUniverse, NextSpec, ReportHealth, CandleInv, OneVersion
  <2> QED
    BY <1>1, <2>1, SweeperKeeps
<1>4. CASE ReadCursor
  BY <1>4, ReadCursorKeeps
<1>5. CASE FetchCandles
  BY <1>5, FetchCandlesKeeps
<1>6. CASE PublishCandle
  BY <1>6, PublishCandleKeeps
<1>7. CASE SweepFails \/ CollectorRestart
  <2>1. /\ candleClock' = candleClock /\ candleTopic' = candleTopic
        /\ persisted' = persisted /\ passed' = passed
        /\ spec' = spec /\ since' = since /\ found' = {} /\ specs' \subseteq Pairs
        /\ sweepPc' = "rest"
    BY <1>1, <1>7 DEF SweepFails, CollectorRestart, Abandon
  <2> QED
    BY <1>1, <2>1, SweeperKeeps
<1>8. CASE UpsertCandle
  BY <1>8, UpsertCandleKeeps
<1>9. CASE UpsertRaises
  BY <1>9, UpsertRaisesKeeps
<1>10. CASE CommitCandles \/ ReplayCandles
  BY <1>10, PositionKeeps
<1>11. CASE UNCHANGED candleVars
  <2>1. UNCHANGED <<candleClock, sweepVars, candleTopic, persisted, passed>>
    BY <1>11 DEF candleVars
  <2>2. CandleTypeInv'
    BY <2>1 DEF CandleInv, CandleTypeInv, StoredTimes, sweepVars, persisted
  <2>3. StoredWasPublished' /\ HandledIsStored'
    BY <2>1 DEF CandleInv, StoredWasPublished, HandledIsStored, StoredTimes, persisted
  <2> QED
    BY <2>1, <2>2, <2>3, PersisterKeeps
<1> QED
  BY <1>2, <1>3, <1>4, <1>5, <1>6, <1>7, <1>8, <1>9, <1>10, <1>11
     DEF CandleNext, SweepStep, PersistCandles

(* The cursor leaves no hole behind: of the candles between the first and   *)
(* the last stored of a symbol each is read with its final values, or these *)
(* are on their way (sweeper.py, persister.py _save_candle, candles.py).    *)
THEOREM CursorLeavesNoHole == CandleSpec => []NoHoleBehind
<1>1. CandleInit => CandleInv
  BY CandleInitially
<1>2. CandleInv /\ [CandleNext]_candleVars => CandleInv'
  BY CandleStep
<1>3. CandleInv => NoHoleBehind
  BY CandleInvGives
<1> QED
  BY <1>1, <1>2, <1>3, PTL DEF CandleSpec
=============================================================================
