---------------------------- MODULE DecideProofs ----------------------------
(***************************************************************************)
(* Proofs about the way from evidence to an approved size: the shared      *)
(* exposure (RiskExposure), the activity of repositories (GithubActivity), *)
(* scheduled dilution (Fundamentals), the triage and its analyses (Triage, *)
(* SeniorAnalyst), the score (Scoring) and the calibration of the          *)
(* threshold it is held to (ThresholdScan).  They hold for every set of    *)
(* decisions, coins, tokens, symbols, replicas, readings and rows, and any *)
(* number of faults.                                                       *)
(*                                                                         *)
(* An invariant of a part is preserved by the steps of that part and by    *)
(* whatever leaves its own variables alone, so that it holds in the part's *)
(* specification and in the sum.                                           *)
(***************************************************************************)
EXTENDS MCDecide, SumTheorems

-----------------------------------------------------------------------------
(* The exposure: risk-engine and the reconciler *)

(* A handler in progress has its decision or approval, what it read was in  *)
(* range, and one about to write was found to fit                           *)
HandlersOK ==
    /\ risk.seen \in 0..Cap /\ rec.seen \in 0..Cap
    /\ risk.pc # "idle" => risk.d \in Decisions
    /\ risk.pc = "write" => risk.seen + Size[risk.d] <= Cap
    /\ rec.pc # "idle" => rec.a \in Approvals

RiskTypeInv == TypeOK /\ HandlersOK /\ ExposureInRange

(* What risk-engine has booked for an approval it has yet to publish *)
Unpublished == IF risk.pc = "publish" THEN Size[risk.d] ELSE 0

(* As long as no read-modify-write overlapped another: the value a handler  *)
(* read is still the value of the key, and the key covers what is           *)
(* outstanding and what is about to be                                      *)
CoverInv ==
    ~overlapped /\ ~refreed =>
        /\ outstanding + Unpublished <= exposure
        /\ risk.pc \in {"evaluate", "write"} => risk.seen = exposure /\ rec.pc # "write"
        /\ rec.pc = "write" => rec.seen = exposure

LEMMA RiskTypeStep ==
    ASSUME RiskTypeInv, [Next]_vars
    PROVE  RiskTypeInv'
<1> USE ExposureAssumption DEF RiskTypeInv, TypeOK, HandlersOK, ExposureInRange,
                               logVars, histVars
<1>1. ASSUME NEW d \in Decisions, PublishDecision(d) PROVE RiskTypeInv'
  BY <1>1 DEF PublishDecision
<1>2. CASE ReadExposure
  <2>1. (overlapped \in BOOLEAN)'
    BY <1>2, Zenon DEF ReadExposure
  <2>2. log[pos + 1] \in Decisions /\ pos + 1 \in 0..Len(log)
    BY <1>2 DEF ReadExposure
  <2>3. (risk \in RiskType /\ HandlersOK)'
    BY <1>2, <2>2 DEF ReadExposure, RiskType
  <2> QED
    BY <1>2, <2>1, <2>2, <2>3 DEF ReadExposure
<1>3. CASE Evaluate
  <2>1. PICK rulesPass \in BOOLEAN :
           risk' = IF rulesPass /\ risk.seen + Size[risk.d] <= Cap
                   THEN [risk EXCEPT !.pc = "write"] ELSE RiskIdle
    BY <1>3 DEF Evaluate
  <2>2. CASE rulesPass /\ risk.seen + Size[risk.d] <= Cap
    <3>1. (risk \in RiskType /\ HandlersOK)'
      BY <1>3, <2>1, <2>2 DEF Evaluate, RiskType
    <3> QED
      BY <1>3, <3>1 DEF Evaluate
  <2>3. CASE ~(rulesPass /\ risk.seen + Size[risk.d] <= Cap)
    <3>1. (risk \in RiskType /\ HandlersOK)'
      BY <1>3, <2>1, <2>3 DEF Evaluate, RiskType, RiskIdle
    <3> QED
      BY <1>3, <3>1 DEF Evaluate
  <2> QED
    BY <2>2, <2>3
<1>4. CASE WriteExposure
  <2>1. (exposure \in 0..Cap)'
    BY <1>4 DEF WriteExposure, RiskType
  <2>2. (risk \in RiskType /\ HandlersOK)'
    BY <1>4 DEF WriteExposure, RiskType
  <2> QED
    BY <1>4, <2>1, <2>2 DEF WriteExposure
<1>5. CASE PublishApproval
  <2>0. risk.d \in Decisions
    BY <1>5 DEF PublishApproval
  <2>1. approved[risk.d] + 1 \in Nat /\ outstanding + Size[risk.d] \in Int
    BY <2>0
  <2>2. (approved \in [Decisions -> Nat] /\ status \in [Approvals -> Statuses])'
    BY <1>5, <2>1 DEF PublishApproval, Statuses
  <2>3. (risk \in RiskType /\ HandlersOK)'
    BY <1>5 DEF PublishApproval, RiskIdle, RiskType
  <2> QED
    BY <1>5, <2>1, <2>2, <2>3 DEF PublishApproval
<1>6. CASE CommitDecisions
  BY <1>6 DEF CommitDecisions
<1>7. CASE RiskRaise
  BY <1>7 DEF RiskRaise, RiskIdle, RiskType
<1>8. CASE RiskCrash
  BY <1>8 DEF RiskCrash, RiskIdle, RiskType
<1>9. ASSUME NEW a \in Approvals, Execute(a) PROVE RiskTypeInv'
  BY <1>9 DEF Execute, Statuses
<1>10. ASSUME NEW a \in Approvals, Refuse(a) PROVE RiskTypeInv'
  <2>1. SizeOf(a) \in Nat
    BY DEF SizeOf, Approvals
  <2> QED
    BY <1>10, <2>1 DEF Refuse, Statuses
<1>11. ASSUME NEW a \in Approvals, CloseRead(a) PROVE RiskTypeInv'
  BY <1>11 DEF CloseRead, RecType
<1>12. CASE CloseWrite
  <2>1. SizeOf(rec.a) \in Nat
    BY <1>12 DEF CloseWrite, SizeOf, Approvals
  <2>2. (exposure \in 0..Cap /\ outstanding \in Int)'
    BY <1>12, <2>1 DEF CloseWrite, RecType
  <2>3. (rec \in RecType /\ HandlersOK)'
    BY <1>12 DEF CloseWrite, RecType
  <2> QED
    BY <1>12, <2>2, <2>3 DEF CloseWrite
<1>13. CASE CloseUntrack
  BY <1>13 DEF CloseUntrack, RecIdle, RecType, Statuses
<1>14. CASE RecFail
  BY <1>14 DEF RecFail, RecIdle, RecType
<1>15. CASE UNCHANGED vars
  BY <1>15 DEF vars
<1> QED
  BY <1>1, <1>2, <1>3, <1>4, <1>5, <1>6, <1>7, <1>8, <1>9, <1>10, <1>11, <1>12, <1>13,
     <1>14, <1>15 DEF Next

LEMMA CoverStep ==
    ASSUME RiskTypeInv, CoverInv, [Next]_vars
    PROVE  CoverInv'
<1> USE ExposureAssumption DEF CoverInv, Unpublished, logVars, histVars
<1>0. /\ exposure \in 0..Cap /\ outstanding \in Int /\ Cap \in Nat
      /\ risk.seen \in 0..Cap /\ rec.seen \in 0..Cap
      /\ overlapped \in BOOLEAN /\ refreed \in BOOLEAN
      /\ risk.pc # "idle" => Size[risk.d] \in Nat
      /\ rec.pc # "idle" => SizeOf(rec.a) \in Nat
  <2>1. exposure \in 0..Cap /\ outstanding \in Int /\ Cap \in Nat
    BY DEF RiskTypeInv, TypeOK, ExposureInRange
  <2>2. risk.seen \in 0..Cap /\ rec.seen \in 0..Cap
    BY DEF RiskTypeInv, HandlersOK
  <2>3. overlapped \in BOOLEAN /\ refreed \in BOOLEAN
    BY Zenon DEF RiskTypeInv, TypeOK
  <2>4. /\ risk.pc # "idle" => Size[risk.d] \in Nat
        /\ rec.pc # "idle" => SizeOf(rec.a) \in Nat
    BY DEF RiskTypeInv, HandlersOK, SizeOf, Approvals
  <2> QED
    BY <2>1, <2>2, <2>3, <2>4, Zenon
<1>1. ASSUME NEW d \in Decisions, PublishDecision(d) PROVE CoverInv'
  BY <1>1 DEF PublishDecision
<1>2. CASE ReadExposure
  BY <1>0, <1>2 DEF ReadExposure
<1>3. CASE Evaluate
  BY <1>0, <1>3 DEF Evaluate, RiskIdle, RiskTypeInv, TypeOK, RiskType
<1>4. CASE WriteExposure
  BY <1>0, <1>4 DEF WriteExposure, RiskTypeInv, TypeOK, RiskType
<1>5. CASE PublishApproval
  BY <1>0, <1>5 DEF PublishApproval, RiskIdle
<1>6. CASE CommitDecisions
  BY <1>6 DEF CommitDecisions
<1>7. CASE RiskRaise
  BY <1>0, <1>7 DEF RiskRaise, RiskIdle
<1>8. CASE RiskCrash
  BY <1>0, <1>8 DEF RiskCrash, RiskIdle
<1>9. ASSUME NEW a \in Approvals, Execute(a) PROVE CoverInv'
  BY <1>9 DEF Execute
<1>10. ASSUME NEW a \in Approvals, Refuse(a) PROVE CoverInv'
  <2>1. SizeOf(a) \in Nat
    BY DEF SizeOf, Approvals
  <2> QED
    BY <1>0, <1>10, <2>1 DEF Refuse
<1>11. ASSUME NEW a \in Approvals, CloseRead(a) PROVE CoverInv'
  BY <1>0, <1>11 DEF CloseRead
<1>12. CASE CloseWrite
  BY <1>0, <1>12, SMTT(30) DEF CloseWrite, RiskTypeInv, TypeOK, RecType
<1>13. CASE CloseUntrack
  BY <1>0, <1>13 DEF CloseUntrack, RecIdle
<1>14. CASE RecFail
  BY <1>0, <1>14 DEF RecFail, RecIdle
<1>15. CASE UNCHANGED vars
  BY <1>15 DEF vars
<1> QED
  BY <1>1, <1>2, <1>3, <1>4, <1>5, <1>6, <1>7, <1>8, <1>9, <1>10, <1>11, <1>12, <1>13,
     <1>14, <1>15 DEF Next

LEMMA RiskTypeInvariant == Spec => []RiskTypeInv
<1>1. Init => RiskTypeInv
  <2> SUFFICES ASSUME Init PROVE RiskTypeInv
    OBVIOUS
  <2>a. risk = RiskIdle /\ rec = RecIdle /\ 0 \in 0..Cap
    BY ExposureAssumption DEF Init
  <2>b. RiskIdle \in RiskType
    BY <2>a DEF RiskType, RiskIdle
  <2>c. RecIdle \in RecType
    BY <2>a DEF RecType, RecIdle
  <2>d. HandlersOK
    BY <2>a DEF RiskIdle, RecIdle, HandlersOK
  <2>1. risk \in RiskType /\ rec \in RecType /\ HandlersOK
    BY <2>a, <2>b, <2>c, <2>d
  <2>2. approved \in [Decisions -> Nat] /\ status \in [Approvals -> Statuses]
    BY DEF Init, Statuses
  <2>3. log \in Seq(Decisions) /\ pos \in 0..Len(log) /\ committed \in 0..pos
    BY DEF Init
  <2>4. exposure \in Int /\ ExposureInRange /\ crashes \in 0..MaxCrashes /\ outstanding \in Int
    BY ExposureAssumption DEF Init, ExposureInRange
  <2>5. overlapped \in BOOLEAN /\ refreed \in BOOLEAN
    BY Zenon DEF Init
  <2> QED
    BY <2>1, <2>2, <2>3, <2>4, <2>5, Zenon DEF RiskTypeInv, TypeOK
<1>2. RiskTypeInv /\ [Next]_vars => RiskTypeInv'
  BY RiskTypeStep
<1> QED
  BY <1>1, <1>2, PTL DEF Spec

(* Whatever stale value risk-engine or the reconciler writes back, the      *)
(* exposure stays between nothing and the whole portfolio.                  *)
THEOREM InRange == Spec => []ExposureInRange
<1>1. RiskTypeInv => ExposureInRange
  BY ExposureAssumption DEF RiskTypeInv, TypeOK, ExposureInRange
<1> QED
  BY <1>1, RiskTypeInvariant, PTL

(* The exposure covers the published and tracked positions until two        *)
(* read-modify-writes overlap or a sweep fails half-way through a close:    *)
(* those two races are the only ways to book too little.                    *)
THEOREM Covers == Spec => []ExposureCovers
<1>1. Init => CoverInv
  BY DEF Init, CoverInv, Unpublished, RiskIdle, RecIdle
<1>2. RiskTypeInv /\ CoverInv /\ [Next]_vars => CoverInv'
  BY CoverStep
<1>3. RiskTypeInv /\ CoverInv => ExposureCovers
  BY ExposureAssumption
     DEF RiskTypeInv, TypeOK, HandlersOK, CoverInv, Unpublished, ExposureCovers
<1> QED
  BY <1>1, <1>2, <1>3, RiskTypeInvariant, PTL DEF Spec
-----------------------------------------------------------------------------
(* Scheduled dilution *)

(* The smallest and the largest of a set of numbers are in it *)
LEMMA MinIsIn ==
    ASSUME NEW Q, Q \subseteq Nat, Q # {}
    PROVE  Min(Q) \in Q /\ \A y \in Q : Min(Q) <= y
<1>1. \E x \in Q : \A y \in Q : ~(<<y, x>> \in OpToRel(<, Nat))
  BY NatLessThanWellFounded, WFMin
<1>2. \A x, y \in Q : <<y, x>> \in OpToRel(<, Nat) <=> y < x
  BY DEF OpToRel
<1>3. PICK x \in Q : \A y \in Q : ~(y < x)
  BY <1>1, <1>2
<1>4. \A y \in Q : x <= y
  BY <1>3
<1> QED
  BY <1>4 DEF Min

LEMMA MaxIsIn ==
    ASSUME NEW n \in Nat, NEW Q, Q \subseteq 0..n, Q # {}
    PROVE  Max(Q) \in Q /\ \A y \in Q : Max(Q) >= y
<1> DEFINE R == {n - q : q \in Q}
<1>1. R \subseteq Nat /\ R # {}
  <2>1. \A q \in Q : q \in 0..n
    OBVIOUS
  <2>2. \A q \in Q : n - q \in Nat
    BY <2>1
  <2> QED
    BY <2>2
<1> HIDE DEF R
<1>2. Min(R) \in R /\ \A y \in R : Min(R) <= y
  BY <1>1, MinIsIn
<1>3. PICK x \in Q : n - x = Min(R)
  BY <1>2 DEF R
<1>4. ASSUME NEW y \in Q PROVE x >= y
  <2>1. n - y \in R
    BY DEF R
  <2>2. n - x <= n - y
    BY <1>2, <1>3, <2>1
  <2> QED
    BY <2>2
<1> QED
  BY <1>4 DEF Max

(* when is what the document of c, read on day r, said of the next unlock *)
AsRead(c, when, r) == r \in Nat /\ when = NextUnlock(c, r) /\ ~Raises(c, r)

(* An event tells of a reading or of none, never of a date without one *)
UnlockEvent ==
    [token : Tokens, schedule : BOOLEAN, at : SUBSET Nat, read : SUBSET Nat]
EventTells(e) ==
    /\ e.read = {} => e.at = {} /\ e.schedule = FALSE
    /\ \A r \in e.read : AsRead(e.token, e.at, r)

(* What the merge leaves: an unlock of the document, or, when there never   *)
(* was one, a last reading that found none ahead                            *)
FeaturesTell(c, f) ==
    /\ f.schedule = {TRUE} => f.read # {}
    /\ f.at = {} => \A r \in f.read : Upcoming(c, r) = {}
    /\ \A u \in f.at : u \in document[c].days /\ document[c].sized

UnlockInv ==
    /\ day \in Nat /\ document \in Worlds
    /\ dueEvents \subseteq Tokens
    /\ \A c \in Tokens : \A e \in cached[c] : AsRead(c, e.at, e.read)
    /\ \A c \in DOMAIN result : AsRead(c, result[c].at, result[c].read)
    /\ topic \in Seq(UnlockEvent) /\ \A i \in 1..Len(topic) : EventTells(topic[i])
    /\ DOMAIN cached = Tokens /\ DOMAIN features = Tokens
    /\ \A c \in Tokens : FeaturesTell(c, features[c])

(* A date that was read is one of the document's, and sized *)
LEMMA ReadDate ==
    ASSUME document \in Worlds, NEW c \in Tokens, NEW when, NEW r, AsRead(c, when, r)
    PROVE  /\ when \subseteq Nat
           /\ when = {} => Upcoming(c, r) = {}
           /\ \A u \in when : u \in document[c].days /\ document[c].sized
<1>1. Upcoming(c, r) \subseteq document[c].days /\ document[c].days \subseteq Nat
  BY FundamentalsAssumption DEF Upcoming
<1>2. CASE Upcoming(c, r) = {}
  BY <1>2 DEF AsRead, NextUnlock
<1>3. CASE Upcoming(c, r) # {}
  <2>1. Min(Upcoming(c, r)) \in Upcoming(c, r)
    BY <1>1, <1>3, MinIsIn
  <2>2. document[c].sized
    BY <1>3 DEF AsRead, Raises
  <2>3. when = {Min(Upcoming(c, r))}
    BY <1>3 DEF AsRead, NextUnlock
  <2> QED
    BY <1>1, <2>1, <2>2, <2>3
<1> QED
  BY <1>2, <1>3

(* Documents do not change, so what was read stays read *)
LEMMA ReadStays ==
    ASSUME document' = document
    PROVE  /\ \A c, when, r : AsRead(c, when, r)' <=> AsRead(c, when, r)
           /\ \A c, f : FeaturesTell(c, f)' <=> FeaturesTell(c, f)
           /\ \A e : EventTells(e)' <=> EventTells(e)
BY DEF AsRead, NextUnlock, Raises, Upcoming, FeaturesTell, EventTells

(* The invariant after a step, told of the documents as they were *)
LEMMA UnlockNow ==
    ASSUME document' = document, document \in Worlds, day' \in Nat, dueEvents' \subseteq Tokens,
           \A c \in Tokens : \A e \in cached'[c] : AsRead(c, e.at, e.read),
           \A c \in DOMAIN result' : AsRead(c, result'[c].at, result'[c].read),
           topic' \in Seq(UnlockEvent), \A i \in 1..Len(topic') : EventTells(topic'[i]),
           DOMAIN cached' = Tokens, DOMAIN features' = Tokens,
           \A c \in Tokens : FeaturesTell(c, features'[c])
    PROVE  UnlockInv'
BY ReadStays DEF UnlockInv

LEMMA EventIsTold ==
    ASSUME UnlockInv, dueEvents # {}
    PROVE  /\ EventOf(Min(dueEvents)) \in UnlockEvent
           /\ EventTells(EventOf(Min(dueEvents)))
<1> DEFINE c == Min(dueEvents)
<1>1. c \in Tokens
  BY FundamentalsAssumption, MinIsIn DEF UnlockInv
<1> HIDE DEF c
<1>2. CASE c \in DOMAIN result
  <2>1. AsRead(c, result[c].at, result[c].read)
    BY <1>2 DEF UnlockInv
  <2>2. result[c].at \subseteq Nat /\ result[c].read \in Nat
    BY <1>1, <2>1, ReadDate DEF UnlockInv, AsRead
  <2>3. EventOf(c) = [token |-> c, schedule |-> TRUE, at |-> result[c].at,
                      read |-> {result[c].read}]
    BY <1>2 DEF EventOf
  <2>4. EventOf(c) \in UnlockEvent
    BY <1>1, <2>2, <2>3 DEF UnlockEvent
  <2>5. EventTells(EventOf(c))
    BY <2>1, <2>3 DEF EventTells
  <2> QED
    BY <2>4, <2>5 DEF c
<1>3. CASE c \notin DOMAIN result
  <2>1. EventOf(c) = [token |-> c, schedule |-> FALSE, at |-> {}, read |-> {}]
    <3>1. (c \in DOMAIN result) = FALSE
      BY <1>3
    <3> QED
      BY <3>1, Zenon DEF EventOf
  <2>2. EventOf(c) \in UnlockEvent
    BY <1>1, <2>1 DEF UnlockEvent
  <2>3. EventTells(EventOf(c))
    BY <2>1 DEF EventTells
  <2> QED
    BY <2>2, <2>3 DEF c
<1> QED
  BY <1>2, <1>3

LEMMA MergeTells ==
    ASSUME document \in Worlds, NEW e \in UnlockEvent, EventTells(e),
           NEW f, FeaturesTell(e.token, f)
    PROVE  FeaturesTell(e.token, MergeUnlock(f, e))
<1> DEFINE g == MergeUnlock(f, e)
<1>1. /\ g.schedule = {e.schedule} /\ g.at = (IF e.at = {} THEN f.at ELSE e.at)
      /\ g.read = (IF e.read = {} THEN f.read ELSE e.read)
  BY DEF MergeUnlock
<1> HIDE DEF g
<1>2. e.token \in Tokens /\ e.schedule \in BOOLEAN
  BY DEF UnlockEvent
<1>3. CASE e.read = {}
  <2>1. e.at = {} /\ e.schedule = FALSE
    BY <1>3 DEF EventTells
  <2>2. g.at = f.at /\ g.read = f.read /\ g.schedule # {TRUE}
    BY <1>1, <1>3, <2>1
  <2> QED
    BY <2>2 DEF FeaturesTell, g
<1>4. CASE e.read # {}
  <2>1. \A r \in e.read : AsRead(e.token, e.at, r)
    BY DEF EventTells
  <2>2. PICK r \in e.read : TRUE
    BY <1>4
  <2>3. \A u \in e.at : u \in document[e.token].days /\ document[e.token].sized
    BY <1>2, <2>1, <2>2, ReadDate
  <2>4. e.at = {} => \A q \in e.read : Upcoming(e.token, q) = {}
    BY <1>2, <2>1, ReadDate
  <2>5. g.at = {} => e.at = {}
    BY <1>1
  <2>6. \A u \in g.at : u \in document[e.token].days /\ document[e.token].sized
    BY <1>1, <2>3 DEF FeaturesTell
  <2>7. g.read = e.read
    BY <1>1, <1>4
  <2> QED
    BY <1>4, <2>4, <2>5, <2>6, <2>7 DEF FeaturesTell, g
<1> QED
  BY <1>3, <1>4

LEMMA UnlockStep ==
    ASSUME UnlockInv, [UnlockNext]_unlockOwn
    PROVE  UnlockInv'
<1> USE DEF poll
<1>0. /\ day \in Nat /\ document \in Worlds /\ dueEvents \subseteq Tokens
      /\ \A c \in Tokens : \A e \in cached[c] : AsRead(c, e.at, e.read)
      /\ \A c \in DOMAIN result : AsRead(c, result[c].at, result[c].read)
      /\ topic \in Seq(UnlockEvent) /\ \A i \in 1..Len(topic) : EventTells(topic[i])
      /\ DOMAIN cached = Tokens /\ DOMAIN features = Tokens
      /\ \A c \in Tokens : FeaturesTell(c, features[c])
  BY DEF UnlockInv
<1>1. CASE Poll \/ LookupFails \/ Rotate
  BY <1>0, <1>1, UnlockNow DEF Poll, LookupFails, Rotate
<1>2. CASE ReadCached
  <2>1. PICK hits \in SUBSET Tokens :
           /\ \A c \in hits : Cached(c) # {}
           /\ result' = [c \in hits |-> CHOOSE e \in Cached(c) : TRUE]
    BY <1>2 DEF ReadCached, Eligible
  <2>2. ASSUME NEW c \in hits PROVE AsRead(c, result'[c].at, result'[c].read)
    <3>1. (CHOOSE e \in Cached(c) : TRUE) \in cached[c]
      BY <2>1 DEF Cached
    <3> QED
      BY <1>0, <2>1, <3>1
  <2>3. /\ UNCHANGED <<day, document, cached, topic, features>> /\ dueEvents' = Tokens
        /\ DOMAIN result' = hits
    BY <1>2, <2>1 DEF ReadCached
  <2> QED
    BY <1>0, <2>2, <2>3, UnlockNow
<1>3. CASE FetchUnlock
  <2> DEFINE reading == [at |-> NextUnlock(Candidate, day), read |-> day,
                         expires |-> day + CacheDays]
  <2>1. /\ ~Raises(Candidate, day) /\ cached' = [cached EXCEPT ![Candidate] = {reading}]
        /\ result' = [d \in DOMAIN result \cup {Candidate} |->
                         IF d = Candidate THEN reading ELSE result[d]]
        /\ UNCHANGED <<day, document, dueEvents, topic, features>>
    BY <1>3 DEF FetchUnlock
  <2>2. AsRead(Candidate, reading.at, reading.read)
    BY <1>0, <2>1 DEF AsRead
  <2> HIDE DEF reading
  <2>3. \A c \in Tokens : \A e \in cached'[c] : AsRead(c, e.at, e.read)
    BY <1>0, <2>1, <2>2
  <2>4. \A c \in DOMAIN result' : AsRead(c, result'[c].at, result'[c].read)
    BY <1>0, <2>1, <2>2
  <2> QED
    BY <1>0, <2>1, <2>3, <2>4, UnlockNow
<1>4. CASE PublishEvent
  <2> DEFINE e == EventOf(Min(dueEvents))
  <2>1. /\ topic' = Append(topic, e) /\ dueEvents' \subseteq Tokens
        /\ UNCHANGED <<day, document, cached, result, features>>
    BY <1>0, <1>4 DEF PublishEvent
  <2>2. e \in UnlockEvent /\ EventTells(e)
    BY <1>4, EventIsTold DEF PublishEvent
  <2> HIDE DEF e
  <2>3. topic' \in Seq(UnlockEvent) /\ \A i \in 1..Len(topic') : EventTells(topic'[i])
    BY <1>0, <2>1, <2>2
  <2> QED
    BY <1>0, <2>1, <2>3, UnlockNow
<1>5. CASE EndPoll \/ PollFails \/ UnlockRestart
  <2>1. /\ result' = <<>> /\ dueEvents' \subseteq Tokens
        /\ UNCHANGED <<day, document, cached, topic, features>>
    BY <1>0, <1>5 DEF EndPoll, PollFails, UnlockRestart
  <2>2. DOMAIN result' = {}
    BY <2>1
  <2> QED
    BY <1>0, <2>1, <2>2, UnlockNow
<1>6. CASE HandleEvent
  <2> DEFINE e == Head(topic)
  <2>1. /\ topic # <<>> /\ topic' = Tail(topic)
        /\ features' = [features EXCEPT ![e.token] = MergeUnlock(features[e.token], e)]
        /\ UNCHANGED <<day, document, cached, result, dueEvents>>
    BY <1>6 DEF HandleEvent
  <2>2. e \in UnlockEvent /\ EventTells(e) /\ e.token \in Tokens
    <3>1. e \in UnlockEvent
      BY <1>0, <2>1
    <3>2. e = topic[1] /\ 1 \in 1..Len(topic)
      BY <1>0, <2>1
    <3>3. EventTells(topic[1])
      BY <1>0, <3>2
    <3>4. e.token \in Tokens
      BY <3>1 DEF UnlockEvent
    <3> QED
      BY <3>1, <3>2, <3>3, <3>4
  <2>3. topic' \in Seq(UnlockEvent) /\ \A i \in 1..Len(topic') : EventTells(topic'[i])
    BY <1>0, <2>1
  <2>4. FeaturesTell(e.token, MergeUnlock(features[e.token], e))
    BY <1>0, <2>2, MergeTells
  <2> HIDE DEF e
  <2>5. \A c \in Tokens : FeaturesTell(c, features'[c])
    BY <1>0, <2>1, <2>4
  <2> QED
    BY <1>0, <2>1, <2>3, <2>5, UnlockNow
<1>7. ASSUME NEW c \in Tokens, FeaturesExpire(c) PROVE UnlockInv'
  <2>1. FeaturesTell(c, Empty)
    BY DEF FeaturesTell, Empty
  <2>2. \A x \in Tokens : FeaturesTell(x, features'[x])
    BY <1>0, <1>7, <2>1 DEF FeaturesExpire
  <2> QED
    BY <1>0, <1>7, <2>2, UnlockNow DEF FeaturesExpire
<1>8. CASE NextDay
  BY <1>0, <1>8, UnlockNow DEF NextDay
<1>9. CASE UNCHANGED unlockOwn
  BY <1>0, <1>9, UnlockNow DEF unlockOwn
<1> QED
  BY <1>1, <1>2, <1>3, <1>4, <1>5, <1>6, <1>7, <1>8, <1>9 DEF UnlockNext, PollStep

LEMMA UnlockStarts == UnlockInit => UnlockInv
<1> SUFFICES ASSUME UnlockInit PROVE UnlockInv
  OBVIOUS
<1>1. DOMAIN result = {} /\ Len(topic) = 0 /\ topic \in Seq(UnlockEvent)
  BY DEF UnlockInit
<1>2. \A c \in Tokens : FeaturesTell(c, features[c]) /\ cached[c] = {}
  BY DEF UnlockInit, FeaturesTell, Empty
<1> QED
  BY <1>1, <1>2 DEF UnlockInit, UnlockInv

LEMMA UnlockTermTold == UnlockInv => UnlockTermWasRead
<1> SUFFICES ASSUME UnlockInv, NEW c \in Tokens
             PROVE  /\ DilutionTerm(features[c]) = "clear" =>
                          \E r \in features[c].read : Upcoming(c, r) = {}
                    /\ DilutionTerm(features[c]) = "pending" =>
                          \E u \in features[c].at :
                             u \in document[c].days /\ u >= day /\ document[c].sized
  BY DEF UnlockTermWasRead
<1>1. FeaturesTell(c, features[c])
  BY DEF UnlockInv
<1>2. DilutionTerm(features[c]) = "clear" => features[c].schedule = {TRUE} /\ features[c].at = {}
  BY DEF DilutionTerm
<1>3. DilutionTerm(features[c]) = "pending" => \E u \in features[c].at : u >= day
  BY DEF DilutionTerm, DaysToUnlock
<1> QED
  BY <1>1, <1>2, <1>3 DEF FeaturesTell
-----------------------------------------------------------------------------
(* The triage *)

(* ai-worker-haiku: what is pending, in hand and read of a symbol *)
Values == {"none", "old", "new"}
Windows == [quiet : 0..Settle, open : 0..MaxDelay]
EventType ==
    [symbol : TriageSymbols, field : Fields, base : [Fields -> Values], stored : BOOLEAN]
ReadType == [symbol : TriageSymbols, read : SUBSET [Fields -> Values]]

TriageType ==
    /\ store \in [TriageSymbols -> [Fields -> Values]]
    /\ pending \in [TriageReplicas -> [TriageSymbols -> SUBSET Windows]]
    /\ hand \in [TriageReplicas -> SUBSET EventType]
    /\ taken \in [TriageReplicas -> SUBSET ReadType]
    /\ triageDue \in [TriageReplicas -> SUBSET TriageSymbols]
    /\ owed \subseteq TriageSymbols \X Fields

(* A replica has one event in hand and one symbol taken at a time *)
OneAtATime ==
    \A r \in TriageReplicas :
        /\ \A g, h \in hand[r] : g = h
        /\ \A t, u \in taken[r] : t = u
        /\ \A t \in taken[r] : \A f, g \in t.read : f = g

(* An analysis of the newest event on the field is still to come: the       *)
(* symbol is pending, an event on it is about to make it so, or it is taken *)
(* and what was read of the field, if anything, is that event               *)
Kept(s, g) ==
    \E r \in TriageReplicas :
        \/ pending[r][s] # {}
        \/ \E h \in hand[r] : h.symbol = s /\ h.stored
        \/ \E t \in taken[r] : t.symbol = s /\ \A f \in t.read : f[g] = "new"

(* What is owed is in the hash *)
OwedIsKept ==
    \A s \in TriageSymbols, g \in Fields :
        <<s, g>> \in owed => store[s][g] = "new" /\ (~Ready(store[s]) \/ Kept(s, g))

TriageInv == TriageType /\ OneAtATime /\ OwedIsKept

LEMMA AgedTyped ==
    ASSUME NEW f \in [Fields -> Values], NEW g \in Fields
    PROVE  Aged(f, g) \in [Fields -> Values]
BY DEF Aged, Values

LEMMA SetFeaturesTyped ==
    ASSUME TriageInv, NEW r \in TriageReplicas, SetFeatures(r)
    PROVE  TriageType'
<1>1. PICK e \in hand[r] :
         /\ store' = [store EXCEPT ![e.symbol] = [e.base EXCEPT ![e.field] = "new"]]
         /\ hand' = [q \in TriageReplicas |-> IF q = r THEN {[e EXCEPT !.stored = TRUE]}
                                              ELSE AgedHand(hand[q], e.symbol, e.field)]
         /\ taken' = [q \in TriageReplicas |-> AgedReads(taken[q], e.symbol, e.field)]
         /\ owed' \subseteq owed \cup {<<e.symbol, e.field>>}
  BY DEF SetFeatures
<1>2. e \in EventType /\ e.symbol \in TriageSymbols /\ e.field \in Fields
  BY <1>1 DEF TriageInv, TriageType, EventType
<1>3. store' \in [TriageSymbols -> [Fields -> Values]]
  BY <1>1, <1>2 DEF TriageInv, TriageType, EventType, Values
<1>4. hand' \in [TriageReplicas -> SUBSET EventType]
  <2>1. [e EXCEPT !.stored = TRUE] \in EventType
    BY <1>2 DEF EventType
  <2>2. ASSUME NEW q \in TriageReplicas, NEW h \in hand[q]
        PROVE  [h EXCEPT !.base = Aged(@, e.field)] \in EventType
    <3>1. h \in EventType
      BY DEF TriageInv, TriageType
    <3>2. Aged(h.base, e.field) \in [Fields -> Values]
      BY <1>2, <3>1, AgedTyped DEF EventType
    <3> QED
      BY <3>1, <3>2 DEF EventType
  <2>3. \A q \in TriageReplicas : AgedHand(hand[q], e.symbol, e.field) \subseteq EventType
    BY <2>2 DEF AgedHand, TriageInv, TriageType
  <2> QED
    BY <1>1, <2>1, <2>3
<1>5. taken' \in [TriageReplicas -> SUBSET ReadType]
  <2>1. ASSUME NEW q \in TriageReplicas, NEW t \in taken[q]
        PROVE  [t EXCEPT !.read = {Aged(f, e.field) : f \in @}] \in ReadType
    <3>1. t \in ReadType /\ t.read \subseteq [Fields -> Values]
      BY DEF TriageInv, TriageType, ReadType
    <3>2. {Aged(f, e.field) : f \in t.read} \subseteq [Fields -> Values]
      BY <1>2, <3>1, AgedTyped
    <3> QED
      BY <3>1, <3>2 DEF ReadType
  <2>2. \A q \in TriageReplicas : AgedReads(taken[q], e.symbol, e.field) \subseteq ReadType
    BY <2>1 DEF AgedReads, TriageInv, TriageType
  <2> QED
    BY <1>1, <2>2
<1>6. owed' \subseteq TriageSymbols \X Fields
  BY <1>1, <1>2 DEF TriageInv, TriageType
<1> QED
  BY <1>3, <1>4, <1>5, <1>6 DEF SetFeatures, TriageInv, TriageType

LEMMA TriageTypeStep ==
    ASSUME TriageInv, [TriageNext]_triageOwn
    PROVE  TriageType'
<1> USE DEF TriageInv, TriageType
<1>1. ASSUME NEW s \in TriageSymbols, NEW f \in Fields, GetFeatures(s, f)
      PROVE  TriageType'
  <2>1. Owner[f] \in TriageReplicas /\ store[s] \in [Fields -> Values]
    BY TriageAssumption
  <2>2. [symbol |-> s, field |-> f, base |-> store[s], stored |-> FALSE] \in EventType
    BY <2>1 DEF EventType
  <2> QED
    BY <1>1, <2>1, <2>2 DEF GetFeatures
<1>2. ASSUME NEW r \in TriageReplicas, SetFeatures(r) PROVE TriageType'
  BY <1>2, SetFeaturesTyped
<1>3. ASSUME NEW r \in TriageReplicas, NotePending(r) PROVE TriageType'
  <2>1. PICK e \in hand[r] :
           pending' = [pending EXCEPT ![r][e.symbol] =
                          {[quiet |-> 0, open |-> IF @ = {} THEN 0
                                                  ELSE (CHOOSE w \in @ : TRUE).open]}]
    BY <1>3 DEF NotePending
  <2>2. e.symbol \in TriageSymbols /\ pending[r][e.symbol] \subseteq Windows
    BY <2>1 DEF EventType
  <2>3. pending[r][e.symbol] # {} =>
           (CHOOSE w \in pending[r][e.symbol] : TRUE) \in pending[r][e.symbol]
    OBVIOUS
  <2>4. [quiet |-> 0, open |-> IF pending[r][e.symbol] = {} THEN 0
                    ELSE (CHOOSE w \in pending[r][e.symbol] : TRUE).open] \in Windows
    BY <2>2, <2>3, TriageAssumption DEF Windows
  <2>5. pending' \in [TriageReplicas -> [TriageSymbols -> SUBSET Windows]]
    BY <2>1, <2>2, <2>4
  <2> QED
    BY <1>3, <2>5 DEF NotePending
<1>4. ASSUME NEW r \in TriageReplicas, HandleFails(r) PROVE TriageType'
  BY <1>4 DEF HandleFails
<1>5. ASSUME NEW r \in TriageReplicas, SweepStart(r) PROVE TriageType'
  BY <1>5 DEF SweepStart
<1>6. ASSUME NEW r \in TriageReplicas, NEW s \in TriageSymbols, TakeDue(r, s)
      PROVE  TriageType'
  <2>1. [symbol |-> s, read |-> {}] \in ReadType
    BY DEF ReadType
  <2> QED
    BY <1>6, <2>1 DEF TakeDue
<1>7. ASSUME NEW r \in TriageReplicas, ReadFeatures(r) PROVE TriageType'
  <2>1. PICK t \in taken[r] :
           taken' = [taken EXCEPT ![r] =
              IF Ready(store[t.symbol]) THEN {[t EXCEPT !.read = {store[t.symbol]}]} ELSE {}]
    BY <1>7 DEF ReadFeatures
  <2>2. [t EXCEPT !.read = {store[t.symbol]}] \in ReadType
    BY <2>1 DEF ReadType
  <2>3. taken' \in [TriageReplicas -> SUBSET ReadType]
    BY <2>1, <2>2
  <2> QED
    BY <1>7, <2>3 DEF ReadFeatures
<1>8. ASSUME NEW r \in TriageReplicas, PublishAnalysis(r) PROVE TriageType'
  BY <1>8 DEF PublishAnalysis
<1>9. ASSUME NEW r \in TriageReplicas, SweepFails(r) PROVE TriageType'
  BY <1>9 DEF SweepFails
<1>10. ASSUME NEW r \in TriageReplicas, Crash(r) PROVE TriageType'
  BY <1>10 DEF Crash
<1>11. ASSUME NEW s \in TriageSymbols, ExpireFeatures(s) PROVE TriageType'
  BY <1>11 DEF ExpireFeatures, Nothing, Values
<1>12. CASE TriageTick
  <2>1. ASSUME NEW w \in Windows
        PROVE  [quiet |-> Older(w.quiet, Settle), open |-> Older(w.open, MaxDelay)] \in Windows
    BY TriageAssumption DEF Windows, Older
  <2> QED
    BY <1>12, <2>1 DEF TriageTick
<1>13. CASE UNCHANGED triageOwn
  BY <1>13 DEF triageOwn
<1> QED
  BY <1>1, <1>2, <1>3, <1>4, <1>5, <1>6, <1>7, <1>8, <1>9, <1>10, <1>11, <1>12, <1>13
     DEF TriageNext, TriageHandle, Sweep

(* A step that leaves the hash of s and what is owed on it, and loses no    *)
(* window, event or reading of it                                           *)
LEMMA KeptFrame ==
    ASSUME OwedIsKept, NEW s \in TriageSymbols, NEW g \in Fields, <<s, g>> \in owed,
           store'[s] = store[s], Kept(s, g) => Kept(s, g)'
    PROVE  store'[s][g] = "new" /\ (~Ready(store'[s]) \/ Kept(s, g)')
BY DEF OwedIsKept

LEMMA SetFeaturesKeeps ==
    ASSUME TriageInv, NEW r \in TriageReplicas, SetFeatures(r)
    PROVE  OneAtATime' /\ OwedIsKept'
<1> DEFINE Newer(e) == [e.base EXCEPT ![e.field] = "new"]
<1>1. PICK e \in hand[r] :
         /\ store' = [store EXCEPT ![e.symbol] = Newer(e)]
         /\ hand' = [q \in TriageReplicas |-> IF q = r THEN {[e EXCEPT !.stored = TRUE]}
                                              ELSE AgedHand(hand[q], e.symbol, e.field)]
         /\ taken' = [q \in TriageReplicas |-> AgedReads(taken[q], e.symbol, e.field)]
         /\ owed' = (owed \ ({e.symbol} \X {g \in Fields \ {e.field} : e.base[g] # "new"}))
                       \cup {<<e.symbol, e.field>>}
  BY DEF SetFeatures
<1>2. /\ e \in EventType /\ e.symbol \in TriageSymbols /\ e.field \in Fields
      /\ e.base \in [Fields -> Values] /\ pending' = pending
  BY <1>1 DEF TriageInv, TriageType, EventType, SetFeatures
<1>3. OneAtATime'
  <2>1. ASSUME NEW q \in TriageReplicas PROVE \A g, h \in hand'[q] : g = h
    <3>1. CASE q = r
      BY <1>1, <3>1
    <3>2. CASE q # r
      <4>1. \A g, h \in hand[q] : g = h
        BY DEF TriageInv, OneAtATime
      <4> QED
        BY <1>1, <3>2, <4>1 DEF AgedHand
    <3> QED
      BY <3>1, <3>2
  <2>2. ASSUME NEW q \in TriageReplicas PROVE \A t, u \in taken'[q] : t = u
    <3>1. \A t, u \in taken[q] : t = u
      BY DEF TriageInv, OneAtATime
    <3> QED
      BY <1>1, <3>1 DEF AgedReads
  <2>3. ASSUME NEW q \in TriageReplicas, NEW t \in taken'[q]
        PROVE  \A f, g \in t.read : f = g
    <3>1. PICK u \in taken[q] :
             t = IF u.symbol = e.symbol
                 THEN [u EXCEPT !.read = {Aged(f, e.field) : f \in @}] ELSE u
      BY <1>1, <2>3 DEF AgedReads
    <3>2. u \in ReadType /\ \A f, g \in u.read : f = g
      BY DEF TriageInv, TriageType, OneAtATime
    <3>3. CASE u.symbol = e.symbol
      <4>1. t.read = {Aged(f, e.field) : f \in u.read}
        BY <3>1, <3>2, <3>3 DEF ReadType
      <4> QED
        BY <3>2, <4>1
    <3> QED
      BY <3>1, <3>2, <3>3
  <2> QED
    BY <2>1, <2>2, <2>3 DEF OneAtATime
<1>4. ASSUME NEW s \in TriageSymbols, NEW g \in Fields, <<s, g>> \in owed'
      PROVE  store'[s][g] = "new" /\ (~Ready(store'[s]) \/ Kept(s, g)')
  <2>1. CASE s = e.symbol
    <3>1. g = e.field \/ e.base[g] = "new"
      BY <1>1, <1>4, <2>1
    <3>2. store'[s][g] = "new"
      BY <1>1, <1>2, <2>1, <3>1 DEF TriageInv, TriageType
    <3>3. /\ [e EXCEPT !.stored = TRUE] \in hand'[r]
          /\ [e EXCEPT !.stored = TRUE].symbol = s /\ [e EXCEPT !.stored = TRUE].stored
      BY <1>1, <1>2, <2>1 DEF EventType
    <3> QED
      BY <3>2, <3>3 DEF Kept
  <2>2. CASE s # e.symbol
    <3>1. <<s, g>> \in owed /\ store'[s] = store[s]
      BY <1>1, <1>2, <1>4, <2>2 DEF TriageInv, TriageType
    <3>2. ASSUME NEW q \in TriageReplicas, NEW h \in hand[q], h.symbol = s, h.stored
          PROVE  h \in hand'[q]
      <4>1. q # r
        BY <1>1, <2>2, <3>2 DEF TriageInv, OneAtATime
      <4> QED
        BY <1>1, <2>2, <3>2, <4>1 DEF AgedHand
    <3>3. ASSUME NEW q \in TriageReplicas, NEW t \in taken[q], t.symbol = s
          PROVE  t \in taken'[q]
      BY <1>1, <2>2, <3>3 DEF AgedReads
    <3>4. Kept(s, g) => Kept(s, g)'
      BY <1>2, <3>2, <3>3 DEF Kept
    <3> QED
      BY <3>1, <3>4, KeptFrame DEF TriageInv
  <2> QED
    BY <2>1, <2>2
<1> QED
  BY <1>3, <1>4 DEF OwedIsKept

LEMMA OneFrame ==
    ASSUME OneAtATime, NEW r \in TriageReplicas, hand' = hand,
           \A q \in TriageReplicas \ {r} : taken'[q] = taken[q],
           \A t, u \in taken'[r] : t = u, \A t \in taken'[r] : \A f, g \in t.read : f = g
    PROVE  OneAtATime'
<1>1. ASSUME NEW q \in TriageReplicas
      PROVE  /\ \A g, h \in hand'[q] : g = h
             /\ \A t, u \in taken'[q] : t = u
             /\ \A t \in taken'[q] : \A f, g \in t.read : f = g
  <2>1. CASE q = r
    BY <2>1 DEF OneAtATime
  <2>2. CASE q # r
    BY <2>2 DEF OneAtATime
  <2> QED
    BY <2>1, <2>2
<1> QED
  BY <1>1 DEF OneAtATime

LEMMA OneStep ==
    ASSUME TriageInv, [TriageNext]_triageOwn
    PROVE  OneAtATime'
<1> USE DEF TriageInv, TriageType, OneAtATime
<1>1. ASSUME NEW s \in TriageSymbols, NEW f \in Fields, GetFeatures(s, f)
      PROVE  OneAtATime'
  <2>1. /\ taken' = taken /\ Owner[f] \in TriageReplicas
        /\ \E e : hand' = [hand EXCEPT ![Owner[f]] = {e}]
    BY <1>1, TriageAssumption DEF GetFeatures
  <2>2. PICK e : hand' = [hand EXCEPT ![Owner[f]] = {e}]
    BY <2>1
  <2>3. \A q \in TriageReplicas : \A g, h \in hand'[q] : g = h
    BY <2>1, <2>2
  <2> QED
    BY <2>1, <2>3
<1>2. ASSUME NEW r \in TriageReplicas, SetFeatures(r) PROVE OneAtATime'
  BY <1>2, SetFeaturesKeeps
<1>3. ASSUME NEW r \in TriageReplicas, NotePending(r) PROVE OneAtATime'
  BY <1>3 DEF NotePending
<1>4. ASSUME NEW r \in TriageReplicas, HandleFails(r) PROVE OneAtATime'
  BY <1>4 DEF HandleFails
<1>5. ASSUME NEW r \in TriageReplicas, SweepStart(r) PROVE OneAtATime'
  BY <1>5 DEF SweepStart
<1>6. ASSUME NEW r \in TriageReplicas, NEW s \in TriageSymbols, TakeDue(r, s)
      PROVE  OneAtATime'
  <2>1. /\ taken'[r] = {[symbol |-> s, read |-> {}]} /\ hand' = hand
        /\ \A q \in TriageReplicas \ {r} : taken'[q] = taken[q]
    BY <1>6 DEF TakeDue
  <2>2. /\ \A t \in taken'[r] : t.read = {}
        /\ \A t, u \in taken'[r] : t = u
    BY <2>1
  <2> QED
    BY <2>1, <2>2, OneFrame
<1>7. ASSUME NEW r \in TriageReplicas, ReadFeatures(r) PROVE OneAtATime'
  <2>1. PICK t \in taken[r] :
           taken' = [taken EXCEPT ![r] =
              IF Ready(store[t.symbol]) THEN {[t EXCEPT !.read = {store[t.symbol]}]} ELSE {}]
    BY <1>7 DEF ReadFeatures
  <2>2. [t EXCEPT !.read = {store[t.symbol]}].read = {store[t.symbol]}
    BY <2>1 DEF ReadType
  <2>3. /\ taken'[r] \subseteq {[t EXCEPT !.read = {store[t.symbol]}]} /\ hand' = hand
        /\ \A q \in TriageReplicas \ {r} : taken'[q] = taken[q]
    BY <1>7, <2>1 DEF ReadFeatures
  <2>4. ASSUME NEW u \in taken'[r] PROVE \A f, g \in u.read : f = g
    <3>1. u.read = {store[t.symbol]}
      BY <2>2, <2>3, <2>4
    <3> QED
      BY <3>1
  <2>5. \A u, w \in taken'[r] : u = w
    BY <2>3
  <2> QED
    BY <2>3, <2>4, <2>5, OneFrame
<1>8. ASSUME NEW r \in TriageReplicas, PublishAnalysis(r) PROVE OneAtATime'
  BY <1>8 DEF PublishAnalysis
<1>9. ASSUME NEW r \in TriageReplicas, SweepFails(r) PROVE OneAtATime'
  BY <1>9 DEF SweepFails
<1>10. ASSUME NEW r \in TriageReplicas, Crash(r) PROVE OneAtATime'
  BY <1>10 DEF Crash
<1>11. ASSUME NEW s \in TriageSymbols, ExpireFeatures(s) PROVE OneAtATime'
  BY <1>11 DEF ExpireFeatures
<1>12. CASE TriageTick
  BY <1>12 DEF TriageTick
<1>13. CASE UNCHANGED triageOwn
  BY <1>13 DEF triageOwn
<1> QED
  BY <1>1, <1>2, <1>3, <1>4, <1>5, <1>6, <1>7, <1>8, <1>9, <1>10, <1>11, <1>12, <1>13
     DEF TriageNext, TriageHandle, Sweep

LEMMA OwedStep ==
    ASSUME TriageInv, [TriageNext]_triageOwn
    PROVE  OwedIsKept'
<1> SUFFICES ASSUME NEW s \in TriageSymbols, NEW g \in Fields, <<s, g>> \in owed',
                    ~\E r \in TriageReplicas : SetFeatures(r)
             PROVE  store'[s][g] = "new" /\ (~Ready(store'[s]) \/ Kept(s, g)')
  BY SetFeaturesKeeps DEF OwedIsKept
<1> DEFINE Result == store'[s][g] = "new" /\ (~Ready(store'[s]) \/ Kept(s, g)')
<1>0. /\ OwedIsKept /\ OneAtATime /\ \A q \in TriageReplicas : hand[q] \subseteq EventType
      /\ hand \in [TriageReplicas -> SUBSET EventType]
      /\ taken \in [TriageReplicas -> SUBSET ReadType]
      /\ pending \in [TriageReplicas -> [TriageSymbols -> SUBSET Windows]]
      /\ store \in [TriageSymbols -> [Fields -> Values]]
  BY DEF TriageInv, TriageType
<1> HIDE DEF Result
<1>1. ASSUME NEW x \in TriageSymbols, NEW f \in Fields, GetFeatures(x, f) PROVE Result
  <2>1. \A q \in TriageReplicas : \A h \in hand[q] : h \in hand'[q]
    BY <1>0, <1>1, TriageAssumption DEF GetFeatures
  <2>2. Kept(s, g) => Kept(s, g)'
    BY <1>1, <2>1 DEF GetFeatures, Kept
  <2> QED
    BY <1>0, <1>1, <2>2, KeptFrame DEF GetFeatures, Result
<1>2. ASSUME NEW r \in TriageReplicas, NotePending(r) PROVE Result
  <2>1. PICK e \in hand[r] : \E w :
           /\ w # {} /\ pending' = [pending EXCEPT ![r][e.symbol] = w]
    <3>1. PICK e \in hand[r] :
             pending' = [pending EXCEPT ![r][e.symbol] =
                            {[quiet |-> 0, open |-> IF @ = {} THEN 0
                                                    ELSE (CHOOSE w \in @ : TRUE).open]}]
      BY <1>2 DEF NotePending
    <3> DEFINE opened == IF pending[r][e.symbol] = {} THEN 0
                         ELSE (CHOOSE w \in pending[r][e.symbol] : TRUE).open
    <3>2. pending' = [pending EXCEPT ![r][e.symbol] = {[quiet |-> 0, open |-> opened]}]
      BY <1>0, <3>1 DEF EventType
    <3> HIDE DEF opened
    <3> QED
      BY <3>2
  <2>2. hand' = [hand EXCEPT ![r] = {}] /\ taken' = taken /\ store' = store /\ owed' = owed
    BY <1>2 DEF NotePending
  <2>3. \A q \in TriageReplicas : pending[q][s] # {} => pending'[q][s] # {}
    BY <1>0, <2>1
  <2>4. \A h \in hand[r] : h.symbol = s => pending'[r][s] # {}
    BY <1>0, <2>1 DEF OneAtATime, EventType
  <2>5. \A q \in TriageReplicas \ {r} : hand'[q] = hand[q]
    BY <1>0, <2>2
  <2>6. Kept(s, g) => Kept(s, g)'
    BY <2>2, <2>3, <2>4, <2>5 DEF Kept
  <2> QED
    BY <1>0, <2>2, <2>6, KeptFrame DEF Result
<1>3. ASSUME NEW r \in TriageReplicas, HandleFails(r) PROVE Result
  <2>1. \A q \in TriageReplicas : \A h \in hand[q] : h.stored => h \in hand'[q]
    BY <1>0, <1>3 DEF HandleFails
  <2>2. Kept(s, g) => Kept(s, g)'
    BY <1>3, <2>1 DEF HandleFails, Kept
  <2> QED
    BY <1>0, <1>3, <2>2, KeptFrame DEF HandleFails, Result
<1>4. ASSUME NEW r \in TriageReplicas, SweepStart(r) PROVE Result
  <2>1. Kept(s, g) => Kept(s, g)'
    BY <1>4 DEF SweepStart, Kept
  <2> QED
    BY <1>0, <1>4, <2>1, KeptFrame DEF SweepStart, Result
<1>5. ASSUME NEW r \in TriageReplicas, NEW x \in TriageSymbols, TakeDue(r, x) PROVE Result
  <2>1. /\ taken' = [taken EXCEPT ![r] = {[symbol |-> x, read |-> {}]}]
        /\ pending' = [pending EXCEPT ![r][x] = {}]
        /\ taken[r] = {} /\ hand' = hand /\ store' = store /\ owed' = owed
    BY <1>5 DEF TakeDue
  <2>2. CASE s = x
    <3>1. Kept(s, g)'
      BY <1>0, <2>1, <2>2 DEF Kept
    <3> QED
      BY <1>0, <2>1, <3>1, KeptFrame DEF Result
  <2>3. CASE s # x
    <3>1. \A q \in TriageReplicas : pending'[q][s] = pending[q][s] /\ taken[q] \subseteq taken'[q]
      BY <1>0, <2>1, <2>3
    <3>2. Kept(s, g) => Kept(s, g)'
      BY <2>1, <3>1 DEF Kept
    <3> QED
      BY <1>0, <2>1, <3>2, KeptFrame DEF Result
  <2> QED
    BY <2>2, <2>3
<1>6. ASSUME NEW r \in TriageReplicas, ReadFeatures(r) PROVE Result
  <2>1. PICK t \in taken[r] :
           taken' = [taken EXCEPT ![r] =
              IF Ready(store[t.symbol]) THEN {[t EXCEPT !.read = {store[t.symbol]}]} ELSE {}]
    BY <1>6 DEF ReadFeatures
  <2>2. hand' = hand /\ store' = store /\ owed' = owed /\ pending' = pending
    BY <1>6 DEF ReadFeatures
  <2>3. store[s][g] = "new"
    BY <1>0, <2>2 DEF OwedIsKept
  <2>4. CASE s = t.symbol /\ Ready(store[s])
    <3>1. /\ [t EXCEPT !.read = {store[s]}] \in taken'[r]
          /\ [t EXCEPT !.read = {store[s]}].symbol = s
          /\ [t EXCEPT !.read = {store[s]}].read = {store[s]}
      BY <1>0, <2>1, <2>4 DEF ReadType
    <3>2. Kept(s, g)'
      BY <2>3, <3>1 DEF Kept
    <3> QED
      BY <2>2, <2>3, <3>2 DEF Result
  <2>5. CASE s # t.symbol
    <3>1. \A q \in TriageReplicas : \A u \in taken[q] : u.symbol = s => u \in taken'[q]
      BY <1>0, <2>1, <2>5 DEF OneAtATime
    <3>2. Kept(s, g) => Kept(s, g)'
      BY <2>2, <3>1 DEF Kept
    <3> QED
      BY <1>0, <2>2, <3>2, KeptFrame DEF Result
  <2> QED
    BY <2>2, <2>3, <2>4, <2>5 DEF Result
<1>7. ASSUME NEW r \in TriageReplicas, PublishAnalysis(r) PROVE Result
  <2>1. PICK t \in taken[r] : \E f \in t.read :
           /\ owed' = owed \ {<<t.symbol, h>> : h \in {k \in Fields : f[k] = "new"}}
           /\ taken' = [taken EXCEPT ![r] = {}]
    BY <1>7 DEF PublishAnalysis
  <2>2. hand' = hand /\ store' = store /\ pending' = pending /\ <<s, g>> \in owed
    BY <1>7, <2>1 DEF PublishAnalysis
  <2>3. \A u \in taken[r] : ~(u.symbol = s /\ \A h \in u.read : h[g] = "new")
    BY <1>0, <2>1 DEF OneAtATime
  <2>4. Kept(s, g) => Kept(s, g)'
    BY <1>0, <2>1, <2>2, <2>3 DEF Kept
  <2> QED
    BY <1>0, <2>2, <2>4, KeptFrame DEF Result
<1>8. ASSUME NEW r \in TriageReplicas, SweepFails(r) PROVE Result
  <2>1. <<s, g>> \in owed /\ \A t \in taken[r] : t.symbol # s
    BY <1>8 DEF SweepFails
  <2>2. Kept(s, g) => Kept(s, g)'
    BY <1>0, <1>8, <2>1 DEF SweepFails, Kept
  <2> QED
    BY <1>0, <1>8, <2>1, <2>2, KeptFrame DEF SweepFails, Result
<1>9. ASSUME NEW r \in TriageReplicas, Crash(r) PROVE Result
  <2>1. <<s, g>> \in owed /\ pending[r][s] = {} /\ \A x \in taken[r] \cup hand[r] : x.symbol # s
    BY <1>9 DEF Crash
  <2>2. Kept(s, g) => Kept(s, g)'
    BY <1>0, <1>9, <2>1 DEF Crash, Kept
  <2> QED
    BY <1>0, <1>9, <2>1, <2>2, KeptFrame DEF Crash, Result
<1>10. ASSUME NEW x \in TriageSymbols, ExpireFeatures(x) PROVE Result
  <2>1. <<s, g>> \in owed /\ s # x
    BY <1>10 DEF ExpireFeatures
  <2>2. Kept(s, g) => Kept(s, g)'
    BY <1>10 DEF ExpireFeatures, Kept
  <2> QED
    BY <1>0, <1>10, <2>1, <2>2, KeptFrame DEF ExpireFeatures, Result
<1>11. CASE TriageTick
  <2>1. \A q \in TriageReplicas : pending[q][s] # {} => pending'[q][s] # {}
    BY <1>11 DEF TriageTick
  <2>2. Kept(s, g) => Kept(s, g)'
    BY <1>11, <2>1 DEF TriageTick, Kept
  <2> QED
    BY <1>0, <1>11, <2>2, KeptFrame DEF TriageTick, Result
<1>12. CASE UNCHANGED triageOwn
  <2>1. Kept(s, g) => Kept(s, g)'
    BY <1>12 DEF triageOwn, Kept
  <2> QED
    BY <1>0, <1>12, <2>1, KeptFrame DEF triageOwn, Result
<1> QED
  BY <1>1, <1>2, <1>3, <1>4, <1>5, <1>6, <1>7, <1>8, <1>9, <1>10, <1>11, <1>12
     DEF TriageNext, TriageHandle, Sweep, Result

LEMMA TriageStarts == TriageInit => TriageInv
BY DEF TriageInit, TriageInv, TriageType, OneAtATime, OwedIsKept, Nothing, Values

LEMMA TriageStep ==
    ASSUME TriageInv, [TriageNext]_triageOwn
    PROVE  TriageInv'
BY TriageTypeStep, OneStep, OwedStep DEF TriageInv

LEMMA TriageForgetsNothing == TriageInv => NothingForgotten
<1> SUFFICES ASSUME TriageInv, NEW e \in owed
             PROVE  \/ ~Ready(store[e[1]])
                    \/ \E r \in TriageReplicas :
                          \/ pending[r][e[1]] # {}
                          \/ \E h \in hand[r] : h.symbol = e[1]
                          \/ \E t \in taken[r] : t.symbol = e[1]
  BY DEF NothingForgotten
<1>1. e[1] \in TriageSymbols /\ e[2] \in Fields /\ e = <<e[1], e[2]>>
  BY DEF TriageInv, TriageType
<1>2. ~Ready(store[e[1]]) \/ Kept(e[1], e[2])
  BY <1>1 DEF TriageInv, OwedIsKept
<1> QED
  BY <1>2 DEF Kept
-----------------------------------------------------------------------------
(* The senior analyst *)

(* ai-worker-sonnet: every analysis before the one in hand is accounted     *)
(* for, and what the journal is about to be told is so                      *)
SeniorInv ==
    /\ seniorCommitted \in Nat /\ at \in Nat \ {0} /\ seniorCommitted < at
    /\ \A m \in 1..(at - 1) : m \in dropped \/ \E r \in rows : r[1] = m
    /\ \A r \in rows : r[2] = "validated" => r[1] \in decisions
    /\ seniorPc = "journal" /\ outcome = "validated" => at \in decisions

(* A step that moves on within a message, and concludes nothing untrue      *)
LEMMA WithinMessage ==
    ASSUME SeniorInv,
           UNCHANGED <<seniorCommitted, at, rows, dropped>>, decisions \subseteq decisions',
           seniorPc' = "journal" /\ outcome' = "validated" =>
               \/ seniorPc = "journal" /\ outcome = "validated"
               \/ at \in decisions'
    PROVE  SeniorInv'
BY DEF SeniorInv

LEMMA SeniorStep ==
    ASSUME SeniorInv, [SeniorNext]_seniorOwn
    PROVE  SeniorInv'
<1> USE DEF Goto, Conclude, gate, output
<1>1. CASE FetchBatch \/ CommitRefused \/ SeniorHandle \/ CheckCooldown \/ SpendBudget
  BY <1>1, WithinMessage
     DEF FetchBatch, CommitRefused, SeniorHandle, CheckCooldown, SpendBudget
<1>2. CASE SetCooldown \/ Answer \/ Pause \/ Resume \/ SeniorPublish
  BY <1>2, WithinMessage DEF SetCooldown, Answer, Pause, Resume, SeniorPublish
<1>3. CASE Commit
  BY <1>3 DEF Commit, SeniorInv
<1>4. CASE SeniorJournal
  <2>1. /\ rows' = rows \cup {<<at, outcome>>} /\ at' = at + 1 /\ dropped' = dropped
        /\ seniorPc' \in {"handle", "commit"} /\ decisions' = decisions
        /\ outcome = "validated" => at \in decisions
        /\ seniorCommitted' = seniorCommitted
    BY <1>4 DEF SeniorJournal, NextMessage, SeniorInv
  <2>2. (\A m \in 1..(at - 1) : m \in dropped \/ \E r \in rows : r[1] = m)'
    <3>1. ASSUME NEW m \in 1..at PROVE m \in dropped \/ \E r \in rows' : r[1] = m
      <4>1. <<at, outcome>> \in rows' /\ <<at, outcome>>[1] = at
        BY <2>1
      <4>2. m = at \/ m \in 1..(at - 1)
        BY DEF SeniorInv
      <4> QED
        BY <2>1, <4>1, <4>2 DEF SeniorInv
    <3>2. at' - 1 = at
      BY <2>1 DEF SeniorInv
    <3> QED
      BY <2>1, <3>1, <3>2
  <2>3. (\A r \in rows : r[2] = "validated" => r[1] \in decisions)'
    BY <2>1 DEF SeniorInv
  <2> QED
    BY <2>1, <2>2, <2>3 DEF SeniorInv
<1>5. CASE HandlerFails
  <2>1. /\ rows' = rows /\ at' = at + 1 /\ dropped' = dropped \cup {at}
        /\ seniorPc' \in {"handle", "commit"} /\ decisions' = decisions
        /\ seniorCommitted' = seniorCommitted
    BY <1>5 DEF HandlerFails, NextMessage
  <2>2. \A m \in 1..at : m = at \/ m \in 1..(at - 1)
    BY DEF SeniorInv
  <2> QED
    BY <2>1, <2>2 DEF SeniorInv
<1>6. CASE SeniorRestart
  BY <1>6 DEF SeniorRestart, SeniorInv
<1>7. CASE LeaveGroup \/ BudgetWindowEnds \/ LimitReached \/ LimitLifted
  BY <1>7, WithinMessage DEF LeaveGroup, BudgetWindowEnds, LimitReached, LimitLifted
<1>8. ASSUME NEW s \in SeniorSymbols, CooldownEnds(s) PROVE SeniorInv'
  BY <1>8, WithinMessage DEF CooldownEnds
<1>9. CASE UNCHANGED seniorOwn
  BY <1>9, WithinMessage DEF seniorOwn
<1> QED
  BY <1>1, <1>2, <1>3, <1>4, <1>5, <1>6, <1>7, <1>8, <1>9 DEF SeniorNext, Work

LEMMA SeniorStarts == SeniorInit => SeniorInv
BY DEF SeniorInit, SeniorInv

LEMMA SeniorAccounts == SeniorInv => JournalAccounts
BY DEF SeniorInv, JournalAccounts
-----------------------------------------------------------------------------
(* The calibration of the threshold *)

(* decision-engine's scan: what a proposal claims of the rows it is made of *)
KeepsWord(W, q) ==
    /\ W # {} /\ \A a \in ScanAxes : Presence(W, a) > 0
    /\ \E r \in W : Kind(r).regime /\ journal[r].at <= Start(W) + RegimeGap
    /\ q.decisions <= Target * Days \/ q.threshold = Top
    /\ q.threshold > 0 => CountsGe(W, q.threshold - 1) > Target * Days
    /\ q.distinct_symbols <= q.decisions /\ q.confidence_passing <= q.decisions
    /\ \A v \in Scores : q.risk_min_score_effect[v] <= q.decisions

(* The report stored and those still to be stored *)
AllReports == latest \cup UNION {job[r].report : r \in ScanReplicas}

ReportKept(p) == p.rows \subseteq Rows /\ \A q \in p.proposal : KeepsWord(p.rows, q)

ScanInv ==
    /\ scanClock \in Nat /\ IsFiniteSet(Rows)
    /\ \A r \in Rows : journal[r].at \in Nat /\ journal[r].kind \in Kinds
    /\ DOMAIN job = ScanReplicas
    /\ \A p \in AllReports : ReportKept(p)

LEMMA ScoresTyped ==
    ASSUME ScanInv, NEW W, W \subseteq Rows, NEW r \in Scored(W)
    PROVE  ScoreOf(r) \in Kind(r).score /\ ScoreOf(r) \in 0..Top
<1>1. Kind(r).score # {} /\ Kind(r) \in Kinds
  BY DEF Scored, Kind, ScanInv
<1> QED
  BY <1>1, ScanAssumption DEF ScoreOf

(* Fewer rows, or a higher bar, never count for more *)
LEMMA CountsFall ==
    ASSUME ScanInv, NEW W, W \subseteq Rows, NEW V, V \subseteq W,
           NEW t \in Nat, NEW u \in Nat, t <= u
    PROVE  /\ CountsGe(V, u) \in Nat /\ CountsGe(W, t) \in Nat
           /\ CountsGe(V, u) <= CountsGe(W, t)
<1> DEFINE A == {r \in Scored(V) : ScoreOf(r) >= u}
           B == {r \in Scored(W) : ScoreOf(r) >= t}
<1>1. Scored(V) \subseteq Scored(W) /\ Scored(W) \subseteq Rows
  BY DEF Scored
<1>2. A \subseteq B
  BY <1>1, ScoresTyped
<1>3. IsFiniteSet(B)
  BY <1>1, FS_Subset DEF ScanInv
<1> HIDE DEF A, B
<1>4. IsFiniteSet(A) /\ Cardinality(A) <= Cardinality(B)
  BY <1>2, <1>3, FS_Subset
<1>5. Cardinality(A) \in Nat /\ Cardinality(B) \in Nat
  BY <1>3, <1>4, FS_CardinalityType
<1> QED
  BY <1>4, <1>5 DEF CountsGe, A, B

(* Every symbol and day counted has a row that is *)
LEMMA SymbolsWithinRows ==
    ASSUME ScanInv, NEW W, W \subseteq Rows, NEW t \in Nat
    PROVE  Cardinality({k \in SymbolDays(W) : Best(W, k) >= t}) <= CountsGe(W, t)
<1> DEFINE C == {r \in Scored(W) : ScoreOf(r) >= t}
           D == {k \in SymbolDays(W) : Best(W, k) >= t}
           f == [r \in C |-> <<Kind(r).symbol, Day(r)>>]
           E == {f[r] : r \in C}
<1>1. IsFiniteSet(C)
  BY FS_Subset DEF ScanInv, Scored
<1>2. D \subseteq E
  <2>1. ASSUME NEW k \in D PROVE k \in E
    <3> DEFINE Of == {q \in Scored(W) : <<Kind(q).symbol, Day(q)>> = k}
               S == {ScoreOf(r) : r \in Of}
    <3>1. Of # {} /\ S # {}
      BY <2>1 DEF SymbolDays
    <3>2. S \subseteq 0..Top
      BY ScoresTyped
    <3>3. Best(W, k) = Max(S)
      BY DEF Best
    <3>4. Max(S) \in S
      BY <3>1, <3>2, MaxIsIn, ScanAssumption
    <3>5. PICK r \in Of : ScoreOf(r) = Best(W, k)
      BY <3>3, <3>4
    <3>6. r \in C /\ f[r] = k
      BY <2>1, <3>5
    <3> QED
      BY <3>6
  <2> QED
    BY <2>1
<1>3. f \in Surjection(C, E)
  BY DEF Surjection
<1> HIDE DEF C, D, f, E
<1>4. IsFiniteSet(E) /\ Cardinality(E) <= Cardinality(C)
  BY <1>1, <1>3, FS_Surjection
<1>5. IsFiniteSet(D) /\ Cardinality(D) <= Cardinality(E)
  BY <1>2, <1>4, FS_Subset
<1>6. Cardinality(C) \in Nat /\ Cardinality(D) \in Nat /\ Cardinality(E) \in Nat
  BY <1>1, <1>4, <1>5, FS_CardinalityType
<1> QED
  BY <1>4, <1>5, <1>6 DEF CountsGe, C, D

(* The threshold keeps within the target, and a point less would not        *)
LEMMA ThresholdIsRight ==
    ASSUME ScanInv, NEW W, W \subseteq Rows
    PROVE  /\ ThresholdFor(W) \in 0..Top
           /\ CountsGe(W, ThresholdFor(W)) <= Target * Days \/ ThresholdFor(W) = Top
           /\ ThresholdFor(W) > 0 => CountsGe(W, ThresholdFor(W) - 1) > Target * Days
<1> DEFINE over == {v \in Scores : CountsGe(W, v) > Target * Days}
           t == ThresholdFor(W)
<1>0. /\ over \subseteq 0..Top /\ Top \in Nat /\ Target * Days \in Nat
      /\ \A v \in Nat : CountsGe(W, v) \in Nat
  BY ScanAssumption, CountsFall DEF Scores
<1>1. CASE over = {}
  <2>1. t = 0 /\ 0 \in Scores
    BY <1>0, <1>1 DEF ThresholdFor, Scores
  <2>2. ~(CountsGe(W, 0) > Target * Days)
    BY <1>1, <2>1
  <2> QED
    BY <1>0, <2>1, <2>2
<1>2. CASE over # {}
  <2>1. Max(over) \in over /\ \A v \in over : Max(over) >= v
    BY <1>0, <1>2, MaxIsIn
  <2>2. t = Min({Top, Max(over) + 1})
    BY <1>2 DEF ThresholdFor
  <2> DEFINE m == Max(over)
  <2>3. m \in 0..Top /\ CountsGe(W, m) > Target * Days
    BY <1>0, <2>1
  <2> HIDE DEF m, over
  <2>4. /\ Min({Top, m + 1}) \in {Top, m + 1}
        /\ Min({Top, m + 1}) <= Top /\ Min({Top, m + 1}) <= m + 1
    BY <1>0, <2>3, MinIsIn
  <2>5. CASE m < Top
    <3>1. t = m + 1
      BY <1>0, <2>2, <2>3, <2>4, <2>5 DEF m
    <3>2. m + 1 \in Scores /\ m + 1 \notin over
      BY <1>0, <2>1, <2>3, <2>5 DEF m, Scores
    <3>3. CountsGe(W, m + 1) <= Target * Days
      BY <1>0, <2>3, <3>2 DEF over
    <3>4. t \in 0..Top /\ t - 1 = m
      BY <1>0, <2>3, <2>5, <3>1
    <3> QED
      BY <2>3, <3>1, <3>3, <3>4
  <2>6. CASE m = Top
    <3>1. t = Top
      BY <1>0, <2>2, <2>3, <2>4, <2>6 DEF m
    <3>2. Top > 0 => CountsGe(W, Top) <= CountsGe(W, Top - 1)
      BY <1>0, CountsFall
    <3>3. Top > 0 => CountsGe(W, Top - 1) > Target * Days
      BY <1>0, <2>3, <2>6, <3>2
    <3> QED
      BY <1>0, <3>1, <3>3
  <2> QED
    BY <1>0, <2>3, <2>5, <2>6
<1> QED
  BY <1>1, <1>2

LEMMA StartIsFirst ==
    ASSUME ScanInv, NEW W, W \subseteq Rows, W # {}
    PROVE  /\ Start(W) \in Nat
           /\ \E r \in W : journal[r].at = Start(W)
<1> DEFINE S == {journal[r].at : r \in W}
<1>1. S \subseteq Nat /\ S # {}
  BY DEF ScanInv
<1> HIDE DEF S
<1>2. Min(S) \in S
  BY <1>1, MinIsIn
<1>3. Start(W) = Min(S)
  BY DEF Start, S
<1> QED
  BY <1>1, <1>2, <1>3 DEF S

LEMMA ProposalKept ==
    ASSUME ScanInv, NEW W, W \subseteq Rows, Refusal(W) = "none"
    PROVE  KeepsWord(W, Proposal(W))
<1> DEFINE t == ThresholdFor(W)
<1>1. Mute(W) = {} /\ RegimeSeen(W) # {} /\ ~(Gap(W) > RegimeGap)
  BY DEF Refusal
<1>2. W # {} /\ RegimeSeen(W) \subseteq W
  BY <1>1 DEF RegimeSeen
<1>3. ASSUME NEW a \in ScanAxes PROVE Presence(W, a) > 0
  <2>1. ~(100 * Presence(W, a) < MinPresence * Cardinality(W))
    BY <1>1, <1>2 DEF Mute
  <2>2. IsFiniteSet(W)
    BY FS_Subset DEF ScanInv
  <2>3. Cardinality(W) \in Nat /\ Cardinality(W) # 0
    BY <1>2, <2>2, FS_CardinalityType, FS_EmptySet
  <2>4. IsFiniteSet({r \in W : a \in Kind(r).axes})
    BY <2>2, FS_Subset
  <2>5. Presence(W, a) \in Nat
    BY <2>4, FS_CardinalityType DEF Presence
  <2>6. MinPresence * Cardinality(W) > 0
    BY <2>3, ScanAssumption
  <2>7. MinPresence * Cardinality(W) \in Nat
    BY <2>3, ScanAssumption
  <2> HIDE DEF t
  <2> QED
    BY <2>1, <2>5, <2>6, <2>7
<1>4. \E r \in W : Kind(r).regime /\ journal[r].at <= Start(W) + RegimeGap
  <2>1. Start(W) \in Nat
    BY <1>2, StartIsFirst
  <2>2. PICK r \in RegimeSeen(W) : journal[r].at = Start(RegimeSeen(W))
    BY <1>1, <1>2, StartIsFirst
  <2>3. Start(RegimeSeen(W)) \in Nat
    BY <1>1, <1>2, StartIsFirst
  <2>4. Start(RegimeSeen(W)) <= Start(W) + RegimeGap
    BY <1>1, <2>1, <2>3, ScanAssumption DEF Gap
  <2>5. r \in W /\ Kind(r).regime
    BY <2>2 DEF RegimeSeen
  <2> QED
    BY <2>2, <2>4, <2>5
<1>5. /\ t \in 0..Top /\ t \in Nat
      /\ CountsGe(W, t) <= Target * Days \/ t = Top
      /\ t > 0 => CountsGe(W, t - 1) > Target * Days
  BY ThresholdIsRight, ScanAssumption
<1> HIDE DEF t
<1>6. Cardinality({k \in SymbolDays(W) : Best(W, k) >= t}) <= CountsGe(W, t)
  BY <1>5, SymbolsWithinRows
<1>7. CountsGe(Confident(W), t) <= CountsGe(W, t)
  BY <1>5, CountsFall DEF Confident
<1>8. ASSUME NEW v \in Scores PROVE BoundedPassing(W, v, t) <= CountsGe(W, t)
  <2>1. v \in Nat /\ {v, t} \subseteq 0..(v + t) /\ v + t \in Nat
    BY <1>5, ScanAssumption DEF Scores
  <2>2. Max({v, t}) \in Nat /\ t <= Max({v, t})
    BY <1>5, <2>1, MaxIsIn
  <2> QED
    BY <1>5, <2>2, CountsFall DEF BoundedPassing
<1>9. Proposal(W) =
        [threshold |-> t, decisions |-> CountsGe(W, t),
         confidence_passing |-> CountsGe(Confident(W), t),
         distinct_symbols |-> Cardinality({k \in SymbolDays(W) : Best(W, k) >= t}),
         risk_min_score_effect |-> [v \in Scores |-> BoundedPassing(W, v, t)]]
  BY DEF Proposal, t
<1> QED
  BY <1>2, <1>3, <1>4, <1>5, <1>6, <1>7, <1>8, <1>9 DEF KeepsWord

(* The journal only grows: what is claimed of its rows stays true *)
LEMMA ClaimsStay ==
    ASSUME Rows \subseteq Rows', \A r \in Rows : journal'[r] = journal[r],
           NEW p, ReportKept(p)
    PROVE  ReportKept(p)'
<1> DEFINE W == p.rows
<1>1. W \subseteq Rows /\ W \subseteq Rows' /\ \A r \in W : journal'[r] = journal[r]
  BY DEF ReportKept
<1>2. \A q \in p.proposal : KeepsWord(W, q)
  BY DEF ReportKept
<1> HIDE DEF W
<1>3. \A r \in W : Kind(r)' = Kind(r)
  BY <1>1 DEF Kind
<1>4. \A a : Presence(W, a)' = Presence(W, a)
  <2>1. \A a : {r \in W : a \in Kind(r)'.axes} = {r \in W : a \in Kind(r).axes}
    BY <1>3
  <2> QED
    BY <2>1 DEF Presence
<1>5. Start(W)' = Start(W)
  <2>1. {journal'[r].at : r \in W} = {journal[r].at : r \in W}
    BY <1>1
  <2> QED
    BY <2>1 DEF Start
<1>6. \A t : CountsGe(W, t)' = CountsGe(W, t)
  <2>1. {r \in W : Kind(r)'.score # {}} = {r \in W : Kind(r).score # {}}
    BY <1>3
  <2>2. Scored(W)' = Scored(W) /\ Scored(W) \subseteq W
    BY <2>1 DEF Scored
  <2>3. \A r \in W : ScoreOf(r)' = ScoreOf(r)
    BY <1>3 DEF ScoreOf
  <2>4. \A t : {r \in Scored(W)' : ScoreOf(r)' >= t} = {r \in Scored(W) : ScoreOf(r) >= t}
    BY <2>2, <2>3
  <2> QED
    BY <2>4 DEF CountsGe
<1>7. (\E r \in W : Kind(r).regime /\ journal[r].at <= Start(W) + RegimeGap) =>
        (\E r \in W : Kind(r)'.regime /\ journal'[r].at <= Start(W)' + RegimeGap)
  BY <1>1, <1>3, <1>5
<1>8. \A q : KeepsWord(W, q) => KeepsWord(W, q)'
  BY <1>4, <1>6, <1>7 DEF KeepsWord, Scores
<1> QED
  BY <1>1, <1>2, <1>8 DEF ReportKept, W

(* A step of a scan, the journal as it was: the reports it leaves were      *)
(* there, or it made one that keeps its word                                *)
LEMMA ScanNow ==
    ASSUME ScanInv, scanClock' \in Nat, journal' = journal, DOMAIN job' = ScanReplicas,
           \A p \in AllReports' : p \in AllReports \/ ReportKept(p)
    PROVE  ScanInv'
<1>1. Rows' = Rows
  BY DEF Rows
<1>2. \A p : ReportKept(p) => ReportKept(p)'
  BY <1>1, ClaimsStay
<1>3. \A p \in AllReports' : ReportKept(p)'
  BY <1>2 DEF ScanInv
<1> QED
  BY <1>1, <1>3 DEF ScanInv

(* What a replica holds, and what it may come to hold *)
LEMMA ReportsNow ==
    ASSUME ScanInv, NEW r \in ScanReplicas, NEW x, job' = [job EXCEPT ![r] = x],
           latest' \subseteq AllReports
    PROVE  AllReports' \subseteq AllReports \cup x.report
<1>1. \A q \in ScanReplicas : job'[q] = IF q = r THEN x ELSE job[q]
  BY DEF ScanInv
<1> QED
  BY <1>1 DEF AllReports

LEMMA ScanStep ==
    ASSUME ScanInv, [ScanNext]_scanOwn
    PROVE  ScanInv'
<1> USE DEF reports
<1>0. DOMAIN job = ScanReplicas /\ scanClock \in Nat /\ latest \subseteq AllReports
  BY DEF ScanInv, AllReports
<1>1. CASE WriteJournal
  <2>1. PICK k \in Kinds :
           journal' = [r \in Rows \cup {Cardinality(Rows) + 1} |->
                          IF r \in Rows THEN journal[r] ELSE [at |-> scanClock, kind |-> k]]
    BY <1>1 DEF WriteJournal
  <2>2. /\ Rows' = Rows \cup {Cardinality(Rows) + 1}
        /\ \A r \in Rows : journal'[r] = journal[r]
        /\ \A r \in Rows' \ Rows : journal'[r] = [at |-> scanClock, kind |-> k]
    BY <2>1 DEF Rows
  <2>3. IsFiniteSet(Rows')
    BY <2>2, FS_AddElement DEF ScanInv
  <2>4. \A p : ReportKept(p) => ReportKept(p)'
    BY <2>2, ClaimsStay
  <2>5. AllReports' = AllReports
    BY <1>1 DEF WriteJournal, AllReports
  <2>6. \A p \in AllReports' : ReportKept(p)'
    BY <2>4, <2>5 DEF ScanInv
  <2>7. ASSUME NEW r \in Rows' PROVE journal'[r].at \in Nat /\ journal'[r].kind \in Kinds
    BY <1>0, <2>2 DEF ScanInv
  <2>8. scanClock' \in Nat /\ DOMAIN job' = ScanReplicas
    BY <1>0, <1>1 DEF WriteJournal
  <2> QED
    BY <2>3, <2>6, <2>7, <2>8 DEF ScanInv
<1>2. CASE ScanTick \/ ExpireLock \/ UNCHANGED scanOwn
  <2>1. AllReports' = AllReports
    BY <1>2 DEF ScanTick, ExpireLock, scanOwn, AllReports
  <2> QED
    BY <1>0, <1>2, <2>1, ScanNow DEF ScanTick, ExpireLock, scanOwn
<1>3. ASSUME NEW r \in ScanReplicas,
             Acquire(r) \/ StoreFails(r) \/ Kill(r) \/ ScanFails(r)
      PROVE  ScanInv'
  <2>1. PICK x \in {job'[r]} :
           /\ job' = [job EXCEPT ![r] = x]
           /\ \A p \in x.report : p.proposal = {} /\ p.rows = {}
    <3>1. CASE Acquire(r)
      BY <1>0, <3>1 DEF Acquire
    <3>2. CASE StoreFails(r) \/ Kill(r)
      BY <1>0, <3>2 DEF StoreFails, Kill, Idle
    <3>3. CASE ScanFails(r)
      BY <1>0, <3>3 DEF ScanFails, Failed
    <3> QED
      BY <1>3, <3>1, <3>2, <3>3
  <2>2. latest' = latest /\ journal' = journal /\ scanClock' = scanClock
    BY <1>3 DEF Acquire, StoreFails, Kill, ScanFails
  <2>3. AllReports' \subseteq AllReports \cup x.report
    BY <1>0, <2>1, <2>2, ReportsNow
  <2>4. \A p \in x.report : ReportKept(p)
    BY <2>1 DEF ReportKept
  <2>5. DOMAIN job' = ScanReplicas
    BY <1>0, <2>1
  <2> QED
    BY <1>0, <2>2, <2>3, <2>4, <2>5, ScanNow
<1>4. ASSUME NEW r \in ScanReplicas, ScanWindow(r) PROVE ScanInv'
  <2> DEFINE W == Window(scanClock, Days)
             x == [pc |-> "store", report |-> {Analyze(W, scanClock)}]
  <2>1. /\ job' = [job EXCEPT ![r] = x] /\ latest' = latest /\ journal' = journal
        /\ scanClock' = scanClock
    BY <1>4 DEF ScanWindow
  <2>2. W \subseteq Rows
    BY DEF Window
  <2>3. AllReports' \subseteq AllReports \cup x.report
    BY <1>0, <2>1, ReportsNow
  <2>4. ReportKept(Analyze(W, scanClock))
    <3>1. /\ Analyze(W, scanClock).rows = W
          /\ Analyze(W, scanClock).proposal =
                IF Refusal(W) = "none" THEN {Proposal(W)} ELSE {}
      BY DEF Analyze
    <3> HIDE DEF W
    <3>2. Refusal(W) = "none" => KeepsWord(W, Proposal(W))
      BY <2>2, ProposalKept
    <3> QED
      BY <2>2, <3>1, <3>2 DEF ReportKept
  <2>5. DOMAIN job' = ScanReplicas
    BY <1>0, <2>1
  <2>6. x.report = {Analyze(W, scanClock)}
    OBVIOUS
  <2> HIDE DEF x, W
  <2> QED
    BY <1>0, <2>1, <2>3, <2>4, <2>5, <2>6, ScanNow
<1>5. ASSUME NEW r \in ScanReplicas, Store(r) PROVE ScanInv'
  <2>1. /\ job' = [job EXCEPT ![r] = Idle] /\ latest' = job[r].report /\ journal' = journal
        /\ scanClock' = scanClock
    BY <1>5 DEF Store
  <2>2. latest' \subseteq AllReports
    BY <2>1 DEF AllReports
  <2>3. AllReports' \subseteq AllReports
    <3>1. AllReports' \subseteq AllReports \cup Idle.report
      BY <2>1, <2>2, ReportsNow
    <3>2. Idle.report = {}
      BY DEF Idle
    <3> QED
      BY <3>1, <3>2
  <2>4. DOMAIN job' = ScanReplicas
    BY <1>0, <2>1
  <2> QED
    BY <1>0, <2>1, <2>3, <2>4, ScanNow
<1> QED
  BY <1>1, <1>2, <1>3, <1>4, <1>5 DEF ScanNext

LEMMA ScanStarts == ScanInit => ScanInv
<1> SUFFICES ASSUME ScanInit PROVE ScanInv
  OBVIOUS
<1>1. Rows = {} /\ IsFiniteSet(Rows)
  BY FS_EmptySet DEF ScanInit, Rows
<1>2. AllReports = {}
  BY DEF ScanInit, AllReports, Idle
<1> QED
  BY <1>1, <1>2 DEF ScanInit, ScanInv

LEMMA ScanKeepsTarget == ScanInv => ProposalKeepsTarget
BY DEF ScanInv, AllReports, ReportKept, KeepsWord, ProposalKeepsTarget
-----------------------------------------------------------------------------
(* The activity of repositories *)

AllReadings == UNION {RepoReadings[r] : r \in AllRepos}
SnapshotRow == [read : AllReadings, at : Nat]

(* The last event of a coin was made, some time ago, of the rows it was     *)
(* based on                                                                 *)
ActivityInv ==
    /\ hours \in Nat /\ snapshots \in [AllRepos -> Seq(SnapshotRow)]
    /\ DOMAIN event = ToSet(Coins) /\ DOMAIN based = ToSet(Coins)
    /\ \A c \in ToSet(Coins) :
          \/ event[c] = {}
          \/ \E t \in Nat : t <= hours /\ event[c] = {Aggregate(based[c], t)}

(* Rows that were read: there are finitely many, and what they say may be   *)
(* read of a repository                                                     *)
AreRead(newest) ==
    IsFiniteSet(DOMAIN newest) /\ \A r \in DOMAIN newest : newest[r][1].read \in AllReadings

LEMMA ReadingsAreCounts ==
    \A x \in AllReadings :
       x.commits \subseteq Nat /\ x.pace \subseteq Nat /\ x.pushed \subseteq Int
BY GithubAssumption DEF AllReadings, AllRepos

(* What the rows of a coin are, at a publication *)
LEMMA RowsAreRead ==
    ASSUME ActivityInv, NEW c \in ToSet(Coins)
    PROVE  AreRead(RowsOf(c))
<1> DEFINE have == {r \in ToSet(ReposOf[c]) : snapshots[r] # <<>>}
<1>1. RowsOf(c) = [r \in have |-> snapshots[r]]
  BY DEF RowsOf
<1>2. IsFiniteSet(have)
  BY GithubAssumption, FS_Subset
<1>3. ASSUME NEW r \in have PROVE snapshots[r][1].read \in AllReadings
  <2>1. r \in AllRepos
    BY DEF AllRepos
  <2>2. snapshots[r] \in Seq(SnapshotRow) /\ snapshots[r] # <<>>
    BY <2>1 DEF ActivityInv
  <2>3. snapshots[r][1] \in SnapshotRow
    BY <2>2
  <2> QED
    BY <2>3 DEF SnapshotRow
<1> HIDE DEF have
<1> QED
  BY <1>1, <1>2, <1>3 DEF AreRead

(* A ratio there is has a pace that is not zero *)
LEMMA RatioHasPace ==
    ASSUME NEW newest, NEW live \in SUBSET DOMAIN newest, IsFiniteSet(live),
           \A r \in live : newest[r][1].read \in AllReadings, NEW q \in Ratio(newest, live)
    PROVE  \E r \in live : LET x == newest[r][1].read
                           IN x.commits # {} /\ \E p \in x.pace : p > 0
<1> DEFINE both == {r \in live : newest[r][1].read.commits # {} /\ newest[r][1].read.pace # {}}
           paces == [r \in both |-> CHOOSE n \in newest[r][1].read.pace : TRUE]
<1>1. SumFunction(paces) > 0
  BY DEF Ratio
<1>2. DOMAIN paces = both /\ IsFiniteSet(both)
  BY FS_Subset
<1>3. SUFFICES ASSUME \A r \in both : ~\E p \in newest[r][1].read.pace : p > 0
               PROVE  FALSE
  OBVIOUS
<1>4. ASSUME NEW r \in both PROVE paces[r] = 0
  <2>1. PICK x \in AllReadings : x = newest[r][1].read
    OBVIOUS
  <2>2. x.pace \subseteq Nat /\ x.pace # {} /\ paces[r] = CHOOSE n \in x.pace : TRUE
    BY <2>1, ReadingsAreCounts
  <2>3. paces[r] \in x.pace
    BY <2>2
  <2> QED
    BY <1>3, <2>1, <2>2, <2>3
<1> HIDE DEF paces, both
<1>5. SumFunctionOnSet(paces, both) = 0
  BY <1>2, <1>4, SumZero
<1> QED
  BY <1>1, <1>2, <1>5 DEF SumFunction

(* What an event made of rows says is in them *)
LEMMA AggregateTells ==
    ASSUME NEW newest, AreRead(newest), NEW t
    PROVE  LET e == Aggregate(newest, t)
           IN /\ e.archived <=> \A r \in DOMAIN newest : newest[r][1].read.archived = {TRUE}
              /\ \A q \in e.commit_ratio : ~e.archived =>
                    \E r \in DOMAIN newest :
                       LET x == newest[r][1].read
                       IN x.commits # {} /\ \E p \in x.pace : p > 0
<1> DEFINE live == Live(newest)
<1>1. live \in SUBSET DOMAIN newest /\ IsFiniteSet(live)
  BY FS_Subset DEF Live, AreRead
<1>2. (live = {}) <=> \A r \in DOMAIN newest : newest[r][1].read.archived = {TRUE}
  BY DEF Live
<1>3. Aggregate(newest, t).archived <=> live = {}
  BY DEF Aggregate
<1>4. live # {} => Aggregate(newest, t).commit_ratio = Ratio(newest, live)
  BY DEF Aggregate
<1> HIDE DEF live
<1>5. ASSUME live # {}, NEW q \in Ratio(newest, live)
      PROVE  \E r \in DOMAIN newest : LET x == newest[r][1].read
                                    IN x.commits # {} /\ \E p \in x.pace : p > 0
  BY <1>1, <1>5, RatioHasPace DEF AreRead
<1> QED
  BY <1>2, <1>3, <1>4, <1>5

(* Whole days: what is left is less than one *)
LEMMA WholeDays ==
    ASSUME NEW n \in Nat
    PROVE  /\ n \div PushDay \in Nat
           /\ PushDay * (n \div PushDay) <= n
           /\ n < PushDay * ((n \div PushDay) + 1)
<1>1. PICK D \in Nat \ {0} : D = PushDay
  BY GithubAssumption
<1>2. n = D * (n \div D) + (n % D) /\ n % D \in 0..D - 1 /\ n \div D \in Nat
  BY <1>1
<1>3. PICK q \in Nat : q = n \div D
  BY <1>2
<1>4. D * (q + 1) = D * q + D
  BY <1>1, <1>3
<1> QED
  BY <1>1, <1>2, <1>3, <1>4

(* A longer time is not fewer days *)
LEMMA DaysAreOrdered ==
    ASSUME NEW m \in Nat, NEW n \in Nat, m <= n
    PROVE  m \div PushDay <= n \div PushDay
<1>1. PICK D \in Nat \ {0} : D = PushDay
  BY GithubAssumption
<1>2. PICK x \in Nat : x = m \div PushDay /\ D * x <= m
  BY <1>1, WholeDays
<1>3. PICK y \in Nat : y = n \div PushDay /\ n < D * (y + 1)
  BY <1>1, WholeDays
<1>4. D * x < D * (y + 1)
  BY <1>1, <1>2, <1>3
<1>5. x < y + 1
  <2>1. SUFFICES ASSUME y + 1 <= x PROVE FALSE
    BY <1>2, <1>3
  <2>2. PICK k \in Nat : x = (y + 1) + k
    BY <1>2, <1>3, <2>1
  <2>3. D * x = D * (y + 1) + D * k /\ D * k >= 0
    BY <1>1, <1>3, <2>2
  <2> QED
    BY <1>1, <1>3, <1>4, <2>3
<1> QED
  BY <1>2, <1>3, <1>5

(* The age of the last push, of the same rows at two times *)
LEMMA LastPushAges ==
    ASSUME NEW newest, AreRead(newest), NEW t1 \in Nat, NEW t2 \in Nat, t1 <= t2
    PROVE  LET live == Live(newest)
           IN /\ DaysSincePush(newest, live, t1) # {} => DaysSincePush(newest, live, t2) # {}
              /\ \A d \in DaysSincePush(newest, live, t1), g \in DaysSincePush(newest, live, t2) :
                    /\ PushDay * g < PushDay * (d + 1) + (t2 - t1)
                    /\ g < d => \E r \in live : \E p \in newest[r][1].read.pushed : p > t1
<1> DEFINE live == Live(newest)
           pushes == UNION {newest[r][1].read.pushed : r \in live}
           Believed(t) == {(t - p) \div PushDay : p \in {q \in pushes : q <= t}}
           Days1 == DaysSincePush(newest, live, t1)
           Days2 == DaysSincePush(newest, live, t2)
<1>1. pushes \subseteq Int
  BY ReadingsAreCounts DEF AreRead, Live
<1>2. /\ Days1 = IF Believed(t1) = {} THEN {} ELSE {Min(Believed(t1))}
      /\ Days2 = IF Believed(t2) = {} THEN {} ELSE {Min(Believed(t2))}
  BY DEF DaysSincePush
<1>3. \A p \in pushes : p > t1 => \E r \in live : \E q \in newest[r][1].read.pushed : q > t1
  OBVIOUS
<1> HIDE DEF pushes, Days1, Days2
<1>4. Believed(t1) \subseteq Nat /\ Believed(t2) \subseteq Nat
  <2>1. ASSUME NEW t \in Nat, NEW p \in pushes, p <= t PROVE (t - p) \div PushDay \in Nat
    <3>1. t - p \in Nat
      BY <1>1, <2>1
    <3> QED
      BY <3>1, WholeDays
  <2> QED
    BY <2>1
<1>5. \A p \in pushes : p <= t1 => p <= t2 /\ t1 - p \in Nat /\ t2 - p \in Nat /\ t1 - p <= t2 - p
  BY <1>1
<1>6. Believed(t1) # {} => Believed(t2) # {}
  BY <1>5
<1>7. ASSUME Believed(t1) # {}, NEW d, d = Min(Believed(t1)), NEW g, g = Min(Believed(t2))
      PROVE  /\ PushDay * g < PushDay * (d + 1) + (t2 - t1)
             /\ g < d => \E p \in pushes : p > t1
  <2>1. /\ d \in Believed(t1) /\ \A y \in Believed(t1) : d <= y
        /\ g \in Believed(t2) /\ \A y \in Believed(t2) : g <= y
    BY <1>4, <1>6, <1>7, MinIsIn
  <2>2. PICK p \in pushes : p <= t1 /\ d = (t1 - p) \div PushDay
    BY <2>1
  <2>3. PICK q \in pushes : q <= t2 /\ g = (t2 - q) \div PushDay
    BY <2>1
  <2>4. PICK h \in Nat : h = (t2 - p) \div PushDay /\ g <= h
    BY <1>4, <1>5, <2>1, <2>2
  <2>5. PICK D \in Nat \ {0} : D = PushDay
    BY GithubAssumption
  <2>6. d \in Nat /\ g \in Nat /\ p \in Int /\ q \in Int
    BY <1>1, <1>4, <2>1
  <2>7. t1 - p < D * (d + 1) /\ D * h <= t2 - p
    BY <1>5, <2>2, <2>4, <2>5, WholeDays
  <2>8. D * g <= D * h
    <3>1. PICK k \in Nat : h = g + k
      BY <2>4, <2>6
    <3>2. D * h = D * g + D * k /\ D * k >= 0 /\ D * g \in Int
      BY <2>5, <2>6, <3>1
    <3> QED
      BY <2>5, <3>2
  <2>9. PushDay * g < PushDay * (d + 1) + (t2 - t1)
    <3>1. D * g \in Int /\ D * h \in Int /\ D * (d + 1) \in Int
      BY <2>4, <2>5, <2>6
    <3> QED
      BY <2>5, <2>6, <2>7, <2>8, <3>1
  <2>10. ASSUME g < d PROVE q > t1
    <3>1. SUFFICES ASSUME q <= t1 PROVE FALSE
      BY <2>6
    <3>2. PICK y \in Nat : y = (t1 - q) \div PushDay /\ d <= y
      BY <1>4, <2>1, <3>1
    <3>3. y <= g
      BY <1>5, <2>3, <3>1, <3>2, DaysAreOrdered
    <3> QED
      BY <2>6, <2>10, <3>2, <3>3
  <2> QED
    BY <2>9, <2>10
<1> HIDE DEF Believed
<1>8. \A d \in Days1 : Believed(t1) # {} /\ d = Min(Believed(t1))
  BY <1>2
<1>9. \A g \in Days2 : g = Min(Believed(t2))
  BY <1>2
<1>10. Days1 # {} => Days2 # {}
  BY <1>2, <1>6
<1>11. \A d \in Days1, g \in Days2 :
          /\ PushDay * g < PushDay * (d + 1) + (t2 - t1)
          /\ g < d => \E r \in live : \E p \in newest[r][1].read.pushed : p > t1
  BY <1>3, <1>7, <1>8, <1>9
<1> QED
  BY <1>10, <1>11 DEF Days1, Days2

(* Of the same rows, an event made later says the same but for the age *)
LEMMA AggregateAges ==
    ASSUME NEW newest, AreRead(newest), NEW t1 \in Nat, NEW t2 \in Nat, t1 <= t2
    PROVE  /\ SameCounts(Aggregate(newest, t1), Aggregate(newest, t2))
           /\ AgesWithClock(Aggregate(newest, t1), Aggregate(newest, t2), newest)
<1>1. CASE Live(newest) = {}
  BY <1>1 DEF Aggregate, SameCounts, AgesWithClock
<1>2. CASE Live(newest) # {}
  <2>1. SameCounts(Aggregate(newest, t1), Aggregate(newest, t2))
    BY <1>2 DEF Aggregate, SameCounts
  <2>2. ASSUME NEW t PROVE /\ Aggregate(newest, t).occurred_at = t
                           /\ Aggregate(newest, t).days_since_push =
                                DaysSincePush(newest, Live(newest), t)
    BY <1>2 DEF Aggregate
  <2>3. AgesWithClock(Aggregate(newest, t1), Aggregate(newest, t2), newest)
    BY <2>2, LastPushAges DEF AgesWithClock
  <2> QED
    BY <2>1, <2>3
<1> QED
  BY <1>1, <1>2

(* A fetch puts what it read first *)
LEMMA FetchKeeps ==
    ASSUME ActivityInv, Fetch
    PROVE  snapshots' \in [AllRepos -> Seq(SnapshotRow)]
<1>1. PICK x \in RepoReadings[Repo] :
         snapshots' = [snapshots EXCEPT ![Repo] =
             SubSeq(<<[read |-> x, at |-> hours]>> \o snapshots[Repo], 1,
                    IF snapshots[Repo] = <<>> THEN 1 ELSE 2)]
  BY DEF Fetch
<1>2. CASE Repo \in AllRepos
  <2>1. PICK row \in SnapshotRow : row = [read |-> x, at |-> hours]
    BY <1>1, <1>2 DEF ActivityInv, SnapshotRow, AllReadings
  <2>2. ASSUME NEW s \in Seq(SnapshotRow)
        PROVE  SubSeq(<<row>> \o s, 1, IF s = <<>> THEN 1 ELSE 2) \in Seq(SnapshotRow)
    <3>1. <<row>> \o s \in Seq(SnapshotRow) /\ Len(<<row>> \o s) = 1 + Len(s)
      OBVIOUS
    <3>2. s # <<>> => Len(s) >= 1
      OBVIOUS
    <3> QED
      BY <3>1, <3>2
  <2> QED
    BY <1>1, <2>1, <2>2 DEF ActivityInv
<1>3. CASE Repo \notin AllRepos
  BY <1>1, <1>3 DEF ActivityInv
<1> QED
  BY <1>2, <1>3

(* A publication: the event is made of the rows there are, at this time *)
LEMMA PublishCoinMeasures ==
    ASSUME ActivityInv, NEW c \in ToSet(Coins), PublishCoin(c)
    PROVE  /\ ActivityInv'
           /\ \A d \in ToSet(Coins) : event'[d] # event[d] =>
                 d = c /\ based'[d] = RowsOf(c) /\ event'[d] = {Aggregate(RowsOf(c), hours)}
<1>1. UNCHANGED <<hours, snapshots>>
  BY DEF PublishCoin, known
<1>2. CASE /\ event' = [event EXCEPT ![c] = {Aggregate(RowsOf(c), hours)}]
           /\ based' = [based EXCEPT ![c] = RowsOf(c)]
  <2>1. /\ DOMAIN event' = ToSet(Coins) /\ DOMAIN based' = ToSet(Coins)
        /\ event'[c] = {Aggregate(RowsOf(c), hours)} /\ based'[c] = RowsOf(c)
        /\ \A d \in ToSet(Coins) \ {c} : event'[d] = event[d] /\ based'[d] = based[d]
    BY <1>2 DEF ActivityInv
  <2>2. hours \in Nat /\ hours' = hours
    BY <1>1 DEF ActivityInv
  <2>3. \E t \in Nat : t <= hours' /\ event'[c] = {Aggregate(based'[c], t)}
    BY <2>1, <2>2
  <2>4. ActivityInv'
    BY <1>1, <2>1, <2>3 DEF ActivityInv
  <2> QED
    BY <2>1, <2>4
<1>3. CASE UNCHANGED sent
  BY <1>1, <1>3 DEF ActivityInv, sent
<1> QED
  BY <1>2, <1>3 DEF PublishCoin

(* Every other step leaves the events alone *)
LEMMA ActivityElsewhere ==
    ASSUME ActivityInv, [GithubNext]_githubVars,
           ~\E c \in ToSet(Coins) : PublishCoin(c)
    PROVE  ActivityInv' /\ UNCHANGED sent
<1>1. CASE Fetch
  <2>1. UNCHANGED <<hours, sent>>
    BY <1>1 DEF Fetch
  <2> QED
    BY <1>1, <2>1, FetchKeeps DEF ActivityInv, sent
<1>2. CASE EndCycle \/ SaveFails \/ MapReadFails
  <2>1. hours' \in Nat /\ hours <= hours' /\ UNCHANGED <<snapshots, sent>>
    BY <1>2 DEF EndCycle, SaveFails, MapReadFails, NextCycle, ActivityInv
  <2>2. ASSUME NEW c \in ToSet(Coins), NEW t \in Nat, t <= hours PROVE t <= hours'
    BY <2>1, <2>2 DEF ActivityInv
  <2> QED
    BY <2>1, <2>2 DEF ActivityInv, sent
<1>3. ASSUME UNCHANGED <<hours, snapshots, sent>>
      PROVE  ActivityInv' /\ UNCHANGED sent
  BY <1>3 DEF ActivityInv, sent
<1>4. CASE \/ AskCoin \/ EndBatch \/ AskFails \/ RepoGone \/ FetchFails \/ GithubRestart
           \/ \E c \in ToSet(Coins) : CoinFails(c)
  BY <1>3, <1>4 DEF AskCoin, EndBatch, AskFails, RepoGone, FetchFails, GithubRestart, CoinFails
<1>5. CASE UNCHANGED githubVars
  BY <1>3, <1>5 DEF githubVars
<1> QED
  BY <1>1, <1>2, <1>4, <1>5 DEF GithubNext, Cycle

LEMMA ActivityStarts == GithubInit => ActivityInv
BY DEF GithubInit, ActivityInv

LEMMA ActivityStep ==
    ActivityInv /\ [GithubNext]_githubVars => ActivityInv'
BY PublishCoinMeasures, ActivityElsewhere

(* What the property says of a step *)
Measured ==
    \A c \in ToSet(Coins) : event'[c] # event[c] =>
        /\ based'[c] = based[c] => \A e \in event[c], f \in event'[c] :
              SameCounts(e, f) /\ AgesWithClock(e, f, based[c])
        /\ \A e \in event'[c] :
              /\ e.archived <=>
                    \A r \in DOMAIN based'[c] : based'[c][r][1].read.archived = {TRUE}
              /\ \A q \in e.commit_ratio : ~e.archived =>
                    \E r \in DOMAIN based'[c] :
                       LET x == based'[c][r][1].read
                       IN x.commits # {} /\ \E p \in x.pace : p > 0

LEMMA EventsAreMeasured ==
    ASSUME ActivityInv, [GithubNext]_githubVars
    PROVE  Measured
<1>1. ASSUME NEW c \in ToSet(Coins), PublishCoin(c), NEW d \in ToSet(Coins), event'[d] # event[d]
      PROVE  /\ based'[d] = based[d] => \A e \in event[d], f \in event'[d] :
                   SameCounts(e, f) /\ AgesWithClock(e, f, based[d])
             /\ \A e \in event'[d] :
                   /\ e.archived <=>
                         \A r \in DOMAIN based'[d] : based'[d][r][1].read.archived = {TRUE}
                   /\ \A q \in e.commit_ratio : ~e.archived =>
                         \E r \in DOMAIN based'[d] :
                            LET x == based'[d][r][1].read
                            IN x.commits # {} /\ \E p \in x.pace : p > 0
  <2>1. PICK newest : newest = RowsOf(c)
    OBVIOUS
  <2>2. based'[d] = newest /\ event'[d] = {Aggregate(newest, hours)}
    BY <1>1, <2>1, PublishCoinMeasures
  <2>3. AreRead(newest)
    BY <1>1, <2>1, RowsAreRead
  <2>4. ASSUME based'[d] = based[d], NEW e \in event[d], NEW f \in event'[d]
        PROVE  SameCounts(e, f) /\ AgesWithClock(e, f, based[d])
    <3>1. PICK t \in Nat : t <= hours /\ e = Aggregate(newest, t)
      BY <2>2, <2>4 DEF ActivityInv
    <3>2. f = Aggregate(newest, hours) /\ hours \in Nat /\ based[d] = newest
      BY <2>2, <2>4 DEF ActivityInv
    <3> QED
      BY <2>3, <3>1, <3>2, AggregateAges
  <2>5. \A e \in event'[d] :
           /\ e.archived <=>
                 \A r \in DOMAIN based'[d] : based'[d][r][1].read.archived = {TRUE}
           /\ \A q \in e.commit_ratio : ~e.archived =>
                 \E r \in DOMAIN based'[d] :
                    LET x == based'[d][r][1].read
                    IN x.commits # {} /\ \E p \in x.pace : p > 0
    <3> DEFINE now == Aggregate(newest, hours)
    <3>1. /\ now.archived <=> \A r \in DOMAIN newest : newest[r][1].read.archived = {TRUE}
          /\ \A q \in now.commit_ratio : ~now.archived =>
                \E r \in DOMAIN newest :
                   LET x == newest[r][1].read
                   IN x.commits # {} /\ \E p \in x.pace : p > 0
      BY <2>3, AggregateTells
    <3>2. based'[d] = newest /\ \A e \in event'[d] : e = now
      BY <2>2
    <3> HIDE DEF now
    <3> QED
      BY <3>1, <3>2
  <2> QED
    BY <2>4, <2>5
<1>2. CASE UNCHANGED sent
  BY <1>2 DEF sent, Measured
<1> QED
  BY <1>1, <1>2, ActivityElsewhere DEF Measured
-----------------------------------------------------------------------------
(* The score *)

(* The fields of the hash that each axis reads *)
FieldsOf ==
    [volume |-> {"volume_spike_ratio"}, social |-> {"social_growth"},
     news |-> {"has_news", "sentiment_score", "market_sentiment"},
     trend |-> {"price_change_pct_24h"},
     liquidity |-> {"liquidity_usd", "volume_24h_usd"},
     positioning |-> {"funding_rate_8h", "long_short_account_ratio",
                      "open_interest_change_pct_24h"},
     fundamentals |-> {"tvl_change_pct_7d", "fees_change_pct_7d", "next_unlock_pct_supply",
                       "next_unlock_at", "has_unlock_schedule"},
     developer |-> {"all_repos_archived", "commit_ratio_4w", "pr_ratio_4w",
                    "days_since_push", "star_growth_pct_7d"}]

(* A field that is not read by an axis moves none of its terms *)
LEMMA FieldIsKept ==
    ASSUME NEW f, MergeField(f), NEW g, g # f
    PROVE  /\ Has(g)' <=> Has(g)
           /\ Has(g) => raw'[g] = raw[g]
           /\ IsKnown(g)' = IsKnown(g)
           /\ Flag(g)' <=> Flag(g)
<1>1. PICK x : raw' = [h \in DOMAIN raw \cup {f} |-> IF h = f THEN x ELSE raw[h]]
  BY DEF MergeField
<1>2. (Has(g)' <=> Has(g)) /\ (Has(g) => raw'[g] = raw[g])
  BY <1>1 DEF Has
<1> QED
  BY <1>2 DEF IsKnown, Flag, Has

LEMMA AxisIsKept ==
    ASSUME NEW f, MergeField(f), NEW a \in Axes, f \notin FieldsOf[a]
    PROVE  Sub'[a] = Sub[a]
<1>1. \A g \in FieldsOf[a] :
         /\ Has(g)' <=> Has(g)
         /\ Has(g) => raw'[g] = raw[g]
         /\ IsKnown(g)' = IsKnown(g)
         /\ Flag(g)' <=> Flag(g)
  BY FieldIsKept
<1>2. CASE a = "volume"
  <2>1. "volume_spike_ratio" \in FieldsOf[a]
    BY <1>2 DEF FieldsOf
  <2>2. NormVolume' = NormVolume
    BY <1>1, <2>1 DEF NormVolume
  <2> QED
    BY <1>2, <2>2 DEF Sub
<1>3. CASE a = "social"
  <2>1. "social_growth" \in FieldsOf[a]
    BY <1>3 DEF FieldsOf
  <2>2. NormSocial' = NormSocial
    BY <1>1, <2>1 DEF NormSocial, Scaled
  <2> QED
    BY <1>3, <2>2 DEF Sub
<1>4. CASE a = "news"
  <2>1. {"has_news", "sentiment_score", "market_sentiment"} = FieldsOf[a]
    BY <1>4 DEF FieldsOf
  <2>2. NormNews' = NormNews
    BY <1>1, <2>1 DEF NormNews
  <2> QED
    BY <1>4, <2>2 DEF Sub
<1>5. CASE a = "trend"
  <2>1. "price_change_pct_24h" \in FieldsOf[a]
    BY <1>5 DEF FieldsOf
  <2>2. NormTrend' = NormTrend
    BY <1>1, <2>1 DEF NormTrend, Scaled
  <2> QED
    BY <1>5, <2>2 DEF Sub
<1>6. CASE a = "liquidity"
  <2>1. {"liquidity_usd", "volume_24h_usd"} = FieldsOf[a]
    BY <1>6 DEF FieldsOf
  <2>2. Liquidity' = Liquidity
    BY <1>1, <2>1 DEF Liquidity
  <2>3. NormLiquidity' = NormLiquidity
    BY <2>2 DEF NormLiquidity
  <2> QED
    BY <1>6, <2>3 DEF Sub
<1>7. CASE a = "positioning"
  <2>1. {"funding_rate_8h", "long_short_account_ratio", "open_interest_change_pct_24h"}
           = FieldsOf[a]
    BY <1>7 DEF FieldsOf
  <2>2. /\ {Sigmoid(-x, 3) : x \in IsKnown("funding_rate_8h")}'
              = {Sigmoid(-x, 3) : x \in IsKnown("funding_rate_8h")}
        /\ {Sigmoid(-x, 2) : x \in IsKnown("long_short_account_ratio")}'
              = {Sigmoid(-x, 2) : x \in IsKnown("long_short_account_ratio")}
        /\ Scaled("open_interest_change_pct_24h", 40)'
              = Scaled("open_interest_change_pct_24h", 40)
    BY <1>1, <2>1 DEF Scaled
  <2>3. NormPositioning' = NormPositioning
    BY <2>2, Zenon DEF NormPositioning
  <2> QED
    BY <1>7, <2>3 DEF Sub
<1>8. CASE a = "fundamentals"
  <2>1. {"tvl_change_pct_7d", "fees_change_pct_7d", "next_unlock_pct_supply",
         "next_unlock_at", "has_unlock_schedule"} = FieldsOf[a]
    BY <1>8 DEF FieldsOf
  <2>2. UnlockDays' = UnlockDays
    BY <1>1, <2>1 DEF UnlockDays
  <2>3. UnlockTerm' = UnlockTerm
    <3>1. /\ IsKnown("next_unlock_pct_supply")' = IsKnown("next_unlock_pct_supply")
          /\ Flag("has_unlock_schedule")' <=> Flag("has_unlock_schedule")
      BY <1>1, <2>1
    <3>2. CASE Flag("has_unlock_schedule")
      BY <2>2, <3>1, <3>2 DEF UnlockTerm
    <3>3. CASE ~Flag("has_unlock_schedule")
      BY <3>1, <3>3 DEF UnlockTerm
    <3> QED
      BY <3>2, <3>3
  <2>4. /\ Scaled("tvl_change_pct_7d", 30)' = Scaled("tvl_change_pct_7d", 30)
        /\ Scaled("fees_change_pct_7d", 50)' = Scaled("fees_change_pct_7d", 50)
    BY <1>1, <2>1 DEF Scaled
  <2>5. NormFundamentals' = NormFundamentals
    BY <2>3, <2>4, Zenon DEF NormFundamentals
  <2> QED
    BY <1>8, <2>5 DEF Sub
<1>9. CASE a = "developer"
  <2>1. {"all_repos_archived", "commit_ratio_4w", "pr_ratio_4w", "days_since_push",
         "star_growth_pct_7d"} = FieldsOf[a]
    BY <1>9 DEF FieldsOf
  <2>2. /\ IsKnown("commit_ratio_4w")' = IsKnown("commit_ratio_4w")
        /\ IsKnown("pr_ratio_4w")' = IsKnown("pr_ratio_4w")
        /\ IsKnown("days_since_push")' = IsKnown("days_since_push")
        /\ IsKnown("star_growth_pct_7d")' = IsKnown("star_growth_pct_7d")
        /\ Flag("all_repos_archived")' <=> Flag("all_repos_archived")
    BY <1>1, <2>1
  <2>3. NormDeveloperActivity' = NormDeveloperActivity
    BY <2>2, Zenon DEF NormDeveloperActivity
  <2> QED
    BY <1>9, <2>3 DEF Sub
<1> QED
  BY <1>2, <1>3, <1>4, <1>5, <1>6, <1>7, <1>8, <1>9 DEF Axes, Weights
-----------------------------------------------------------------------------
(* Marks are whole numbers of thousandths *)

TypedHash ==
    DOMAIN raw \subseteq DOMAIN FieldReadings /\ \A f \in DOMAIN raw : raw[f] \in FieldReadings[f]

(* No mark, or one *)
OneMark(S) == S = {} \/ \E v \in Int : S = {v}

LEMMA NumbersAreKnown ==
    ASSUME TypedHash, NEW f, f \notin Flags
    PROVE  OneMark(IsKnown(f)) /\ (Has(f) => raw[f] \in Int)
<1>1. Has(f) => raw[f] \in Int
  BY ScoringAssumption DEF TypedHash, Has
<1> QED
  BY <1>1 DEF IsKnown, OneMark

LEMMA MarksAreInt ==
    /\ \A x \in Int : Mark(x) \in Int
    /\ \A x \in Int : Sigmoid(x, 2) \in Int /\ Sigmoid(x, 3) \in Int /\ Sigmoid(x, 30) \in Int
                      /\ Sigmoid(x, 40) \in Int /\ Sigmoid(x, 50) \in Int
    /\ \A x \in Int : Momentum(x) \in Int /\ Freshness(x) \in Int
BY DEF Mark, Clamp, Sigmoid, Momentum, Freshness

(* What is made of one number *)
LEMMA MarksOfOne ==
    ASSUME NEW S, OneMark(S)
    PROVE  /\ OneMark({Sigmoid(x - 3, 3) : x \in S})
           /\ OneMark({Mark((1000 * (x - 3)) \div 4) : x \in S})
           /\ OneMark({Sigmoid(-x, 3) : x \in S}) /\ OneMark({Sigmoid(-x, 2) : x \in S})
           /\ OneMark({Momentum(x) : x \in S}) /\ OneMark({Freshness(x) : x \in S})
           /\ OneMark({Mark(500 * x) : x \in S})
<1>1. CASE S = {}
  BY <1>1 DEF OneMark
<1>2. CASE S # {}
  <2>1. PICK v \in Int : S = {v}
    BY <1>2 DEF OneMark
  <2>2. v - 3 \in Int /\ -v \in Int /\ 500 * v \in Int /\ (1000 * (v - 3)) \div 4 \in Int
    OBVIOUS
  <2>3. /\ Sigmoid(v - 3, 3) \in Int /\ Mark((1000 * (v - 3)) \div 4) \in Int
        /\ Sigmoid(-v, 3) \in Int /\ Sigmoid(-v, 2) \in Int
        /\ Momentum(v) \in Int /\ Freshness(v) \in Int /\ Mark(500 * v) \in Int
    BY <2>2, MarksAreInt
  <2>4. /\ {Sigmoid(x - 3, 3) : x \in S} = {Sigmoid(v - 3, 3)}
        /\ {Mark((1000 * (x - 3)) \div 4) : x \in S} = {Mark((1000 * (v - 3)) \div 4)}
        /\ {Sigmoid(-x, 3) : x \in S} = {Sigmoid(-v, 3)}
        /\ {Sigmoid(-x, 2) : x \in S} = {Sigmoid(-v, 2)}
        /\ {Momentum(x) : x \in S} = {Momentum(v)} /\ {Freshness(x) : x \in S} = {Freshness(v)}
        /\ {Mark(500 * x) : x \in S} = {Mark(500 * v)}
    BY <2>1
  <2> QED
    BY <2>3, <2>4 DEF OneMark
<1> QED
  BY <1>1, <1>2

LEMMA ScaledIsOne ==
    ASSUME TypedHash, NEW f, f \notin Flags, NEW half \in {2, 30, 40, 50}
    PROVE  OneMark(Scaled(f, half))
<1>1. OneMark(IsKnown(f))
  BY NumbersAreKnown
<1>2. \A x \in Int : Sigmoid(x, half) \in Int
  BY MarksAreInt
<1> QED
  BY <1>1, <1>2 DEF OneMark, Scaled

(* Terms of an axis *)
Terms(T) == IsFiniteSet(T) /\ \A t \in T : t.weight \in Nat \ {0} /\ t.mark \in Int

LEMMA TermsTogether ==
    ASSUME NEW T, NEW U, Terms(T), Terms(U)
    PROVE  Terms(T \cup U)
BY FS_Union DEF Terms

LEMMA TermsAreFew ==
    ASSUME NEW name, NEW w \in {1, 10, 25, 40}, NEW marks, OneMark(marks)
    PROVE  Terms(Term(name, w, marks))
<1>1. CASE marks = {}
  <2>1. Term(name, w, marks) = {}
    BY <1>1 DEF Term
  <2> QED
    BY <2>1, FS_EmptySet DEF Terms
<1>2. CASE \E v \in Int : marks = {v}
  <2>1. PICK v \in Int : marks = {v}
    BY <1>2
  <2>2. PICK t : t = [name |-> name, weight |-> w, mark |-> v]
    OBVIOUS
  <2>3. t.weight = w /\ t.mark = v
    BY <2>2
  <2>4. Term(name, w, marks) = {t}
    BY <2>1, <2>2 DEF Term
  <2>5. IsFiniteSet({t})
    BY FS_Singleton
  <2> QED
    BY <2>3, <2>4, <2>5 DEF Terms
<1> QED
  BY <1>1, <1>2 DEF OneMark

LEMMA MeanIsInt ==
    ASSUME NEW terms, Terms(terms)
    PROVE  OneMark(MeanPresent(terms))
<1>1. CASE terms = {}
  BY <1>1 DEF MeanPresent, OneMark
<1>2. CASE terms # {}
  <2> DEFINE parts == [t \in terms |-> t.weight * t.mark]
             weights == [t \in terms |-> t.weight]
  <2>1. /\ IsFiniteSet(terms)
        /\ \A t \in terms : parts[t] \in Int /\ weights[t] \in Nat \ {0}
    BY DEF Terms
  <2>2. DOMAIN parts = terms /\ DOMAIN weights = terms
    OBVIOUS
  <2>3. MeanPresent(terms) = {SumFunction(parts) \div SumFunction(weights)}
    BY <1>2 DEF MeanPresent
  <2> HIDE DEF parts, weights
  <2>4. SumFunction(parts) \in Int
    BY <2>1, <2>2, SumIsInt DEF SumFunction
  <2>5. PICK t \in terms : TRUE
    BY <1>2
  <2>6. SumFunction(weights) = weights[t] + SumFunctionOnSet(weights, terms \ {t})
    <3>1. \A x \in terms : weights[x] \in Int
      BY <2>1
    <3> QED
      BY <2>1, <2>2, <2>5, <3>1, SumRemove DEF SumFunction
  <2>7. SumFunctionOnSet(weights, terms \ {t}) \in Nat
    <3>1. IsFiniteSet(terms \ {t}) /\ \A x \in terms \ {t} : weights[x] \in Nat
      BY <2>1, FS_Subset
    <3> QED
      BY <3>1, SumIsNat
  <2>8. SumFunction(weights) \in Nat \ {0}
    BY <2>1, <2>6, <2>7
  <2>9. PICK n \in Int, d \in Nat \ {0} : n = SumFunction(parts) /\ d = SumFunction(weights)
    BY <2>4, <2>8
  <2>10. n \div d \in Int
    OBVIOUS
  <2> QED
    BY <2>3, <2>9, <2>10 DEF OneMark
<1> QED
  BY <1>1, <1>2

(* An axis has one mark, or none *)
LEMMA AxisHasOneMark ==
    ASSUME TypedHash, NEW a \in Axes
    PROVE  OneMark(Sub[a])
<1>1. CASE a = "volume"
  <2>1. OneMark(IsKnown("volume_spike_ratio"))
    BY NumbersAreKnown DEF Flags
  <2>2. OneMark(NormVolume)
    BY <2>1, MarksOfOne DEF NormVolume
  <2> QED
    BY <1>1, <2>2 DEF Sub
<1>2. CASE a = "social"
  <2>1. OneMark(Scaled("social_growth", 2))
    BY ScaledIsOne DEF Flags
  <2> QED
    BY <1>2, <2>1 DEF Sub, NormSocial
<1>3. CASE a = "news"
  <2>1. /\ Has("sentiment_score") => raw["sentiment_score"] \in Int
        /\ Has("market_sentiment") => raw["market_sentiment"] \in Int
    BY NumbersAreKnown DEF Flags
  <2>2. \A x \in Int : x \div 2 \in Int /\ Mark(0 + (x + 1000) \div 4) \in Int
                       /\ Mark(500 + (x + 1000) \div 4) \in Int
    BY MarksAreInt
  <2>3. PICK s \in Int :
           s = IF Has("sentiment_score") THEN raw["sentiment_score"]
               ELSE IF Has("market_sentiment") THEN raw["market_sentiment"] \div 2 ELSE 0
    BY <2>1, <2>2
  <2>4. NormNews \in {{}, {Mark(0 + (s + 1000) \div 4)}, {Mark(500 + (s + 1000) \div 4)}}
    BY <2>3 DEF NormNews
  <2> QED
    BY <1>3, <2>2, <2>4 DEF Sub, OneMark
<1>4. CASE a = "trend"
  <2>1. OneMark(Scaled("price_change_pct_24h", 30))
    BY ScaledIsOne DEF Flags
  <2> QED
    BY <1>4, <2>1 DEF Sub, NormTrend
<1>5. CASE a = "liquidity"
  <2>1. OneMark(IsKnown("liquidity_usd")) /\ OneMark(IsKnown("volume_24h_usd"))
    BY NumbersAreKnown DEF Flags
  <2>2. OneMark(Liquidity)
    BY <2>1 DEF OneMark, Liquidity, IsKnown
  <2>3. OneMark(NormLiquidity)
    BY <2>2, MarksOfOne DEF NormLiquidity
  <2> QED
    BY <1>5, <2>3 DEF Sub
<1>6. CASE a = "positioning"
  <2> DEFINE T1 == Term("funding", 1, {Sigmoid(-x, 3) : x \in IsKnown("funding_rate_8h")})
             T2 == Term("ratio", 1, {Sigmoid(-x, 2) : x \in IsKnown("long_short_account_ratio")})
             T3 == Term("interest", 1, Scaled("open_interest_change_pct_24h", 40))
  <2>1. /\ OneMark(IsKnown("funding_rate_8h")) /\ OneMark(IsKnown("long_short_account_ratio"))
        /\ OneMark(Scaled("open_interest_change_pct_24h", 40))
    BY NumbersAreKnown, ScaledIsOne DEF Flags
  <2>2. /\ OneMark({Sigmoid(-x, 3) : x \in IsKnown("funding_rate_8h")})
        /\ OneMark({Sigmoid(-x, 2) : x \in IsKnown("long_short_account_ratio")})
    BY <2>1, MarksOfOne
  <2>3. Terms(T1) /\ Terms(T2) /\ Terms(T3)
    BY <2>1, <2>2, TermsAreFew
  <2>4. NormPositioning = MeanPresent(T1 \cup T2 \cup T3)
    BY DEF NormPositioning
  <2> HIDE DEF T1, T2, T3
  <2>5. Terms(T1 \cup T2 \cup T3)
    BY <2>3, TermsTogether
  <2>6. OneMark(NormPositioning)
    BY <2>4, <2>5, MeanIsInt
  <2> QED
    BY <1>6, <2>6 DEF Sub
<1>7. CASE a = "fundamentals"
  <2> DEFINE T1 == Term("tvl", 1, Scaled("tvl_change_pct_7d", 30))
             T2 == Term("fees", 1, Scaled("fees_change_pct_7d", 50))
             T3 == Term("unlock", 1, UnlockTerm)
  <2>1. /\ OneMark(Scaled("tvl_change_pct_7d", 30)) /\ OneMark(Scaled("fees_change_pct_7d", 50))
        /\ OneMark(IsKnown("next_unlock_pct_supply")) /\ OneMark(IsKnown("next_unlock_at"))
    BY NumbersAreKnown, ScaledIsOne DEF Flags
  <2>2. OneMark(UnlockDays)
    BY <2>1 DEF OneMark, UnlockDays
  <2>3. OneMark(UnlockTerm)
    <3>1. CASE \E p, d \in Int : IsKnown("next_unlock_pct_supply") = {p} /\ UnlockDays = {d}
      <4>1. PICK p \in Int, d \in Int :
               IsKnown("next_unlock_pct_supply") = {p} /\ UnlockDays = {d}
        BY <3>1
      <4>2. Mark(200 * p) \in Int /\ Mark(1000 - (1000 * d) \div 30) \in Int
        BY MarksAreInt
      <4>3. UnlockRisk(p, d) \in Int
        <5>1. PICK m \in Int, n \in Int : m = Mark(200 * p) /\ n = Mark(1000 - (1000 * d) \div 30)
          BY <4>2
        <5>2. m * n \in Int
          OBVIOUS
        <5>3. (m * n) \div 1000 \in Int
          BY <5>2
        <5> QED
          BY <5>1, <5>3 DEF UnlockRisk
      <4>4. UnlockTerm \in {{}, {1000 - UnlockRisk(p, d)}}
        BY <4>1 DEF UnlockTerm
      <4> QED
        BY <4>3, <4>4 DEF OneMark
    <3>2. CASE IsKnown("next_unlock_pct_supply") = {} \/ UnlockDays = {}
      <4>1. UnlockTerm \in {{}, {1000}}
        BY <3>2 DEF UnlockTerm
      <4> QED
        BY <4>1 DEF OneMark
    <3> QED
      BY <2>1, <2>2, <3>1, <3>2 DEF OneMark
  <2>4. Terms(T1) /\ Terms(T2) /\ Terms(T3)
    BY <2>1, <2>3, TermsAreFew
  <2>5. NormFundamentals = MeanPresent(T1 \cup T2 \cup T3)
    BY DEF NormFundamentals
  <2> HIDE DEF T1, T2, T3
  <2>6. Terms(T1 \cup T2 \cup T3)
    BY <2>4, TermsTogether
  <2>7. OneMark(NormFundamentals)
    BY <2>5, <2>6, MeanIsInt
  <2> QED
    BY <1>7, <2>7 DEF Sub
<1>8. CASE a = "developer"
  <2> DEFINE T1 == Term("commit", 40, {Momentum(x) : x \in IsKnown("commit_ratio_4w")})
             T2 == Term("pr", 25, {Momentum(x) : x \in IsKnown("pr_ratio_4w")})
             T3 == Term("freshness", 25, {Freshness(x) : x \in IsKnown("days_since_push")})
             T4 == Term("stars", 10, {Mark(500 * x) : x \in IsKnown("star_growth_pct_7d")})
  <2>1. /\ OneMark(IsKnown("commit_ratio_4w")) /\ OneMark(IsKnown("pr_ratio_4w"))
        /\ OneMark(IsKnown("days_since_push")) /\ OneMark(IsKnown("star_growth_pct_7d"))
    BY NumbersAreKnown DEF Flags
  <2>2. /\ OneMark({Momentum(x) : x \in IsKnown("commit_ratio_4w")})
        /\ OneMark({Momentum(x) : x \in IsKnown("pr_ratio_4w")})
        /\ OneMark({Freshness(x) : x \in IsKnown("days_since_push")})
        /\ OneMark({Mark(500 * x) : x \in IsKnown("star_growth_pct_7d")})
    BY <2>1, MarksOfOne
  <2>3. Terms(T1) /\ Terms(T2) /\ Terms(T3) /\ Terms(T4)
    BY <2>2, TermsAreFew
  <2>4. \/ NormDeveloperActivity = {0}
        \/ NormDeveloperActivity = MeanPresent(T1 \cup T2 \cup T3 \cup T4)
    BY DEF NormDeveloperActivity
  <2> HIDE DEF T1, T2, T3, T4
  <2>5. Terms(T1 \cup T2 \cup T3 \cup T4)
    BY <2>3, TermsTogether
  <2>6. OneMark(MeanPresent(T1 \cup T2 \cup T3 \cup T4))
    BY <2>5, MeanIsInt
  <2>7. OneMark(NormDeveloperActivity)
    BY <2>4, <2>6 DEF OneMark
  <2> QED
    BY <1>8, <2>7 DEF Sub
<1> QED
  BY <1>1, <1>2, <1>3, <1>4, <1>5, <1>6, <1>7, <1>8 DEF Axes, Weights
-----------------------------------------------------------------------------
(* Weights *)

LEMMA WeightsAre ==
    IsFiniteSet(Axes) /\ \A b \in Axes : Weights[b] \in Nat \ {0}
<1> DEFINE A == {"volume"} \cup {"social"}
           B == {"news"} \cup {"trend"}
           C == {"liquidity"} \cup {"positioning"}
           D == {"fundamentals"} \cup {"developer"}
<1>1. IsFiniteSet(A) /\ IsFiniteSet(B) /\ IsFiniteSet(C) /\ IsFiniteSet(D)
  BY FS_Singleton, FS_Union
<1>2. Axes = (A \cup B) \cup (C \cup D) /\ \A b \in Axes : Weights[b] \in Nat \ {0}
  BY DEF Axes, Weights
<1> HIDE DEF A, B, C, D
<1>3. IsFiniteSet(A \cup B) /\ IsFiniteSet(C \cup D)
  BY <1>1, FS_Union
<1> QED
  BY <1>2, <1>3, FS_Union

LEMMA WeightIsNat ==
    ASSUME NEW S \in SUBSET Axes
    PROVE  /\ IsFiniteSet(S) /\ WeightOf(S) \in Nat
           /\ \A b \in S : WeightOf(S) = Weights[b] + WeightOf(S \ {b})
           /\ \A T \in SUBSET S : WeightOf(T) <= WeightOf(S)
<1>1. IsFiniteSet(S) /\ \A b \in S : Weights[b] \in Nat /\ Weights[b] \in Int
  BY WeightsAre, FS_Subset
<1> QED
  BY <1>1, SumIsNat, SumRemove, SumOfPart DEF WeightOf

(* What a score is made of *)
Marked(sub) == {b \in Axes : sub[b] # {}}
Weighted(sub) == SumFunction([b \in Marked(sub) |-> Weights[b] * The(sub[b])])
Judged(sub, skip) ==
    IF WeightOf(Marked(sub)) < MinPresentWeight
    THEN [score |-> 0, confidence |-> 0, breakdown |-> [b \in Axes |-> {}]]
    ELSE [score |-> Round(Weighted(sub), 10 * WeightOf(Marked(sub))),
          confidence |-> WeightOf(Marked(sub) \ skip), breakdown |-> sub]
Skip == IF Flag("has_news") \/ Has("sentiment_score") THEN {} ELSE {"news"}

LEMMA VerdictIs ==
    Verdict.result = Judged(Sub, Skip) /\ Verdict.fields = DOMAIN raw
BY DEF Verdict, Score, ScoreBy, Confidence, Judged, Skip, Marked, Weighted

(* A mark more adds its part to the sum *)
LEMMA WeightedIsInt ==
    ASSUME NEW sub, \A b \in Axes : OneMark(sub[b])
    PROVE  /\ Weighted(sub) \in Int
           /\ \A b \in Marked(sub) : The(sub[b]) \in Int
<1> DEFINE f == [b \in Marked(sub) |-> Weights[b] * The(sub[b])]
<1>1. \A b \in Marked(sub) : The(sub[b]) \in Int
  BY DEF Marked, OneMark, The
<1>2. \A b \in Marked(sub) : f[b] \in Int
  <2>1. ASSUME NEW b \in Marked(sub) PROVE f[b] \in Int
    <3>1. PICK w \in Nat, t \in Int : w = Weights[b] /\ t = The(sub[b])
      BY <1>1, WeightsAre DEF Marked
    <3>2. w * t \in Int
      OBVIOUS
    <3> QED
      BY <3>1, <3>2
  <2> QED
    BY <2>1
<1>3. DOMAIN f = Marked(sub) /\ Weighted(sub) = SumFunction(f)
  BY DEF Weighted
<1>4. IsFiniteSet(Marked(sub))
  BY WeightIsNat DEF Marked
<1> HIDE DEF f
<1> QED
  BY <1>1, <1>2, <1>3, <1>4, SumIsInt DEF SumFunction

LEMMA WeightedGains ==
    ASSUME NEW sub, NEW sub2, \A b \in Axes : OneMark(sub[b]) /\ OneMark(sub2[b]),
           NEW a \in Axes, sub[a] = {}, sub2[a] # {},
           \A b \in Axes \ {a} : sub2[b] = sub[b]
    PROVE  /\ Marked(sub2) = Marked(sub) \cup {a} /\ a \notin Marked(sub)
           /\ Weighted(sub2) = Weighted(sub) + Weights[a] * The(sub2[a])
<1> DEFINE f == [b \in Marked(sub) |-> Weights[b] * The(sub[b])]
           g == [b \in Marked(sub2) |-> Weights[b] * The(sub2[b])]
<1>1. Marked(sub2) = Marked(sub) \cup {a} /\ a \notin Marked(sub)
  BY DEF Marked
<1>2. g[a] = Weights[a] * The(sub2[a])
  BY <1>1
<1>3. \A b \in Marked(sub) : f[b] = g[b]
  BY <1>1 DEF Marked
<1>4. \A b \in Marked(sub2) : g[b] \in Int
  <2>1. ASSUME NEW b \in Marked(sub2) PROVE g[b] \in Int
    <3>1. PICK w \in Nat, t \in Int : w = Weights[b] /\ t = The(sub2[b])
      BY WeightedIsInt, WeightsAre DEF Marked
    <3>2. w * t \in Int
      OBVIOUS
    <3> QED
      BY <3>1, <3>2
  <2> QED
    BY <2>1
<1>5. /\ DOMAIN f = Marked(sub) /\ Weighted(sub) = SumFunction(f)
      /\ DOMAIN g = Marked(sub2) /\ Weighted(sub2) = SumFunction(g)
  BY DEF Weighted
<1>6. IsFiniteSet(Marked(sub)) /\ IsFiniteSet(Marked(sub2))
  BY WeightIsNat DEF Marked
<1> HIDE DEF f, g
<1>7. SumFunctionOnSet(g, Marked(sub2)) = g[a] + SumFunctionOnSet(g, Marked(sub2) \ {a})
  BY <1>1, <1>4, <1>6, SumRemove
<1>8. Marked(sub2) \ {a} = Marked(sub)
  BY <1>1
<1>9. SumFunctionOnSet(g, Marked(sub)) = SumFunctionOnSet(f, Marked(sub))
  BY <1>3, <1>6, SumEqual
<1>10. /\ Weighted(sub) = SumFunctionOnSet(f, Marked(sub))
       /\ Weighted(sub2) = SumFunctionOnSet(g, Marked(sub2))
  BY <1>5 DEF SumFunction
<1>11. Weighted(sub2) = g[a] + Weighted(sub)
  BY <1>7, <1>8, <1>9, <1>10
<1>12. PICK x \in Int, y \in Int : x = g[a] /\ y = Weighted(sub)
  BY <1>1, <1>4, WeightedIsInt
<1> QED
  BY <1>1, <1>2, <1>11, <1>12
-----------------------------------------------------------------------------
(* Rounding *)

LEMMA RoundNear ==
    ASSUME NEW n \in Int, NEW d \in Nat \ {0}
    PROVE  /\ Round(n, d) \in Int
           /\ 2 * n - d <= 2 * (d * Round(n, d)) /\ 2 * (d * Round(n, d)) <= 2 * n + d
<1> DEFINE q == n \div d
           r == n % d
<1>1. q \in Int /\ r \in 0..(d - 1) /\ n = d * q + r
  OBVIOUS
<1>2. Round(n, d) = IF 2 * r > d \/ (2 * r = d /\ q % 2 = 1) THEN q + 1 ELSE q
  BY DEF Round
<1> HIDE DEF q, r
<1>3. d * (q + 1) = d * q + d /\ d * q \in Int
  BY <1>1
<1>4. CASE Round(n, d) = q + 1 /\ 2 * r >= d
  BY <1>1, <1>3, <1>4
<1>5. CASE Round(n, d) = q /\ 2 * r <= d
  BY <1>1, <1>3, <1>5
<1> QED
  BY <1>1, <1>2, <1>4, <1>5

LEMMA TimesKeepsOrder ==
    ASSUME NEW n \in Nat, NEW x \in Int, NEW y \in Int
    PROVE  /\ x <= y => n * x <= n * y
           /\ n # 0 /\ n * x <= n * y => x <= y
OBVIOUS

(* The score of a weight more, between the score so far and the new mark *)
LEMMA MeanBetween ==
    ASSUME NEW whole \in Nat \ {0}, NEW sum \in Int, NEW w \in Nat \ {0}, NEW mark \in Int,
           NEW low \in Int, NEW high \in Int,
           10 * Round(sum, 10 * whole) \in low..high, mark \in low..high
    PROVE  10 * Round(sum + w * mark, 10 * (whole + w)) \in (low - 10)..(high + 10)
<1>1. 10 * whole \in Nat \ {0} /\ 10 * (whole + w) \in Nat \ {0} /\ w * mark \in Int
  OBVIOUS
<1>2. PICK s \in Int : /\ s = Round(sum, 10 * whole)
                       /\ 2 * sum - 10 * whole <= 2 * ((10 * whole) * s)
                       /\ 2 * ((10 * whole) * s) <= 2 * sum + 10 * whole
  BY <1>1, RoundNear
<1>3. PICK t \in Int : /\ t = Round(sum + w * mark, 10 * (whole + w))
                       /\ 2 * (sum + w * mark) - 10 * (whole + w) <= 2 * ((10 * (whole + w)) * t)
                       /\ 2 * ((10 * (whole + w)) * t) <= 2 * (sum + w * mark) + 10 * (whole + w)
  <2>1. PICK n \in Int, d \in Nat \ {0} : n = sum + w * mark /\ d = 10 * (whole + w)
    BY <1>1
  <2>2. /\ Round(n, d) \in Int
        /\ 2 * n - d <= 2 * (d * Round(n, d)) /\ 2 * (d * Round(n, d)) <= 2 * n + d
    BY RoundNear
  <2> QED
    BY <2>1, <2>2
<1>4. /\ (10 * whole) * s = whole * (10 * s)
      /\ (10 * (whole + w)) * t = (whole + w) * (10 * t)
  OBVIOUS
<1>5. /\ low <= 10 * s /\ 10 * s <= high /\ low <= mark /\ mark <= high
  BY <1>2
<1>6. /\ whole * low <= whole * (10 * s) /\ whole * (10 * s) <= whole * high
      /\ w * low <= w * mark /\ w * mark <= w * high
  BY <1>5, TimesKeepsOrder
<1>7. PICK wl \in Int, wh \in Int, vl \in Int, vh \in Int, ws \in Int, wt \in Int, m \in Int :
         /\ wl = whole * low /\ wh = whole * high /\ vl = w * low /\ vh = w * high
         /\ ws = whole * (10 * s) /\ wt = (whole + w) * (10 * t) /\ m = w * mark
  OBVIOUS
<1>8. /\ wl + vl - 10 * (whole + w) <= wt /\ wt <= wh + vh + 10 * (whole + w)
  BY <1>2, <1>3, <1>4, <1>6, <1>7
<1>9. /\ (whole + w) * (low - 10) = wl + vl - 10 * (whole + w)
      /\ (whole + w) * (high + 10) = wh + vh + 10 * (whole + w)
  BY <1>7
<1>10. low - 10 <= 10 * t /\ 10 * t <= high + 10
  BY <1>7, <1>8, <1>9, TimesKeepsOrder
<1> QED
  BY <1>3, <1>10
-----------------------------------------------------------------------------
(* Evidence nudges *)

(* The verdict while an analysis is due: that of the hash before the field  *)
(* that was merged last                                                     *)
IsBefore(f, sub, skip) ==
    /\ verdict.result = Judged(sub, skip)
    /\ verdict.fields \cup {f} = DOMAIN raw
    /\ \A b \in Axes : OneMark(sub[b]) /\ (f \notin FieldsOf[b] => sub[b] = Sub[b])
    /\ skip \in {{}, {"news"}}
    /\ f \notin {"has_news", "sentiment_score"} => skip = Skip
    /\ skip = {} => sub["news"] # {}

ScoreInv ==
    /\ TypedHash
    /\ ~scoreDue => verdict = Verdict
    /\ scoreDue => \E f, sub, skip : IsBefore(f, sub, skip)

LEMMA ScoreStarts == ScoreInit => ScoreInv
BY DEF ScoreInit, ScoreInv, TypedHash

LEMMA MergeKeeps ==
    ASSUME ScoreInv, NEW f \in DOMAIN FieldReadings, MergeField(f)
    PROVE  ScoreInv'
<1>1. PICK x \in FieldReadings[f] :
         raw' = [g \in DOMAIN raw \cup {f} |-> IF g = f THEN x ELSE raw[g]]
  BY DEF MergeField
<1>2. TypedHash'
  BY <1>1 DEF ScoreInv, TypedHash
<1>3. scoreDue' /\ verdict' = verdict /\ verdict = Verdict
  BY DEF MergeField, ScoreInv
<1>4. verdict'.result = Judged(Sub, Skip) /\ verdict'.fields = DOMAIN raw
  BY <1>3, VerdictIs
<1>5. verdict'.fields \cup {f} = DOMAIN raw'
  BY <1>1, <1>4
<1>6. \A b \in Axes : OneMark(Sub[b]) /\ (f \notin FieldsOf[b] => Sub[b] = Sub'[b])
  BY AxisIsKept, AxisHasOneMark DEF ScoreInv
<1>7. f \notin {"has_news", "sentiment_score"} => Skip = Skip'
  BY FieldIsKept DEF Skip
<1>8. Skip \in {{}, {"news"}} /\ (Skip = {} => Sub["news"] # {})
  BY DEF Skip, Sub, NormNews
<1>9. PICK sub, skip : sub = Sub /\ skip = Skip
  OBVIOUS
<1>10. IsBefore(f, sub, skip)'
  BY <1>4, <1>5, <1>6, <1>7, <1>8, <1>9 DEF IsBefore
<1> QED
  BY <1>2, <1>3, <1>10 DEF ScoreInv

(* The verdict is a function of the hash *)
LEMMA HashGivesVerdict ==
    ASSUME UNCHANGED raw
    PROVE  Sub' = Sub /\ Skip' = Skip /\ Verdict' = Verdict
<1>1. \A f : (Has(f)' <=> Has(f)) /\ IsKnown(f)' = IsKnown(f) /\ (Flag(f)' <=> Flag(f))
  BY DEF Has, IsKnown, Flag
<1>2. NormVolume' = NormVolume /\ NormSocial' = NormSocial /\ NormTrend' = NormTrend
  BY <1>1 DEF NormVolume, NormSocial, NormTrend, Scaled
<1>3. NormNews' = NormNews
  BY <1>1 DEF NormNews
<1>4. NormLiquidity' = NormLiquidity
  <2>1. Liquidity' = Liquidity
    BY <1>1 DEF Liquidity
  <2> QED
    BY <2>1 DEF NormLiquidity
<1>5. NormPositioning' = NormPositioning
  BY <1>1 DEF NormPositioning, Scaled
<1>6. NormFundamentals' = NormFundamentals
  <2>1. UnlockDays' = UnlockDays
    BY <1>1 DEF UnlockDays
  <2>2. UnlockTerm' = UnlockTerm
    <3>1. CASE Flag("has_unlock_schedule")
      BY <1>1, <2>1, <3>1 DEF UnlockTerm
    <3>2. CASE ~Flag("has_unlock_schedule")
      BY <1>1, <3>2 DEF UnlockTerm
    <3> QED
      BY <3>1, <3>2
  <2> QED
    BY <1>1, <2>2 DEF NormFundamentals, Scaled
<1>7. NormDeveloperActivity' = NormDeveloperActivity
  BY <1>1 DEF NormDeveloperActivity
<1>8. Sub' = Sub /\ Skip' = Skip
  BY <1>1, <1>2, <1>3, <1>4, <1>5, <1>6, <1>7 DEF Sub, Skip
<1>9. Score(Sub)' = Score(Sub)
  BY <1>8 DEF Score, ScoreBy, Confidence, Skip
<1> QED
  BY <1>8, <1>9 DEF Verdict

LEMMA ScoreStep == ScoreInv /\ [ScoreNext]_scoreVars => ScoreInv'
<1> SUFFICES ASSUME ScoreInv, [ScoreNext]_scoreVars PROVE ScoreInv'
  OBVIOUS
<1>1. CASE \E f \in DOMAIN FieldReadings : MergeField(f)
  BY <1>1, MergeKeeps
<1>2. CASE Analyse
  <2>1. raw' = raw /\ verdict' = Verdict /\ scoreDue' = FALSE
    BY <1>2 DEF Analyse
  <2>2. Verdict' = Verdict
    BY <2>1, HashGivesVerdict
  <2> QED
    BY <2>1, <2>2 DEF ScoreInv, TypedHash
<1>3. CASE UNCHANGED scoreVars
  <2>1. UNCHANGED raw /\ UNCHANGED verdict /\ UNCHANGED scoreDue
    BY <1>3 DEF scoreVars
  <2>2. Sub' = Sub /\ Skip' = Skip /\ Verdict' = Verdict
    BY <2>1, HashGivesVerdict
  <2> QED
    BY <2>1, <2>2 DEF ScoreInv, TypedHash, IsBefore
<1> QED
  BY <1>1, <1>2, <1>3 DEF ScoreNext

(* Only the axis of a field may come with it *)
LEMMA OneAxisReads ==
    ASSUME NEW a \in Axes, NEW b \in Axes, a # b
    PROVE  FieldsOf[a] \cap FieldsOf[b] = {}
BY DEF FieldsOf, Axes, Weights

LEMMA MarkedScore ==
    ASSUME NEW sub, NEW skip, {b \in Axes : Judged(sub, skip).breakdown[b] # {}} # {}
    PROVE  /\ Judged(sub, skip).breakdown = sub
           /\ WeightOf(Marked(sub)) \in Nat \ {0}
           /\ Judged(sub, skip).score = Round(Weighted(sub), 10 * WeightOf(Marked(sub)))
           /\ Judged(sub, skip).confidence = WeightOf(Marked(sub) \ skip)
<1>1. CASE WeightOf(Marked(sub)) < MinPresentWeight
  <2>1. Judged(sub, skip).breakdown = [b \in Axes |-> {}]
    BY <1>1 DEF Judged
  <2> QED
    BY <2>1
<1>2. CASE ~(WeightOf(Marked(sub)) < MinPresentWeight)
  <2>1. WeightOf(Marked(sub)) \in Nat
    BY WeightIsNat DEF Marked
  <2> QED
    BY <1>2, <2>1 DEF Judged, MinPresentWeight
<1> QED
  BY <1>1, <1>2

LEMMA EndsOfTwo ==
    ASSUME NEW x \in Int, NEW y \in Int
    PROVE  /\ Min({x, y}) \in Int /\ Max({x, y}) \in Int
           /\ x \in Min({x, y})..Max({x, y}) /\ y \in Min({x, y})..Max({x, y})
<1>1. CASE x <= y
  <2>1. Min({x, y}) = x /\ Max({x, y}) = y
    BY <1>1 DEF Min, Max
  <2> QED
    BY <1>1, <2>1
<1>2. CASE y <= x
  <2>1. Min({x, y}) = y /\ Max({x, y}) = x
    BY <1>2 DEF Min, Max
  <2> QED
    BY <1>2, <2>1
<1> QED
  BY <1>1, <1>2

(* What the property says of a step *)
Nudged(a) ==
    LET ends == {10 * verdict.result.score, The(verdict'.result.breakdown[a])}
    IN /\ 10 * verdict'.result.score \in (Min(ends) - 10)..(Max(ends) + 10)
       /\ verdict'.result.confidence >= verdict.result.confidence
       /\ verdict'.fields \ verdict.fields = {"market_sentiment"} =>
             verdict'.result.confidence = verdict.result.confidence
Nudges ==
    \A a \in Axes \ Present :
        (scoreDue /\ Present # {} /\ Present' = Present \cup {a}) => Nudged(a)

LEMMA AnalysisNudges ==
    ASSUME ScoreInv, Analyse, NEW a \in Axes \ Present,
           Present # {}, Present' = Present \cup {a}
    PROVE  Nudged(a)
<1>1. PICK f, sub, skip : IsBefore(f, sub, skip)
  BY DEF Analyse, ScoreInv
<1>2. /\ verdict'.result = Judged(Sub, Skip) /\ verdict'.fields = DOMAIN raw
      /\ verdict.result = Judged(sub, skip) /\ verdict.fields \cup {f} = DOMAIN raw
  BY <1>1, VerdictIs DEF Analyse, IsBefore
<1>3. PICK marks, left : marks = Sub /\ left = Skip
  OBVIOUS
<1>4. /\ Present = {b \in Axes : Judged(sub, skip).breakdown[b] # {}}
      /\ Present' = {b \in Axes : Judged(marks, left).breakdown[b] # {}}
  BY <1>2, <1>3 DEF Present
<1>5. /\ verdict.result.breakdown = sub /\ verdict'.result.breakdown = marks
      /\ WeightOf(Marked(sub)) \in Nat \ {0}
      /\ verdict.result.score = Round(Weighted(sub), 10 * WeightOf(Marked(sub)))
      /\ verdict.result.confidence = WeightOf(Marked(sub) \ skip)
      /\ verdict'.result.score = Round(Weighted(marks), 10 * WeightOf(Marked(marks)))
      /\ verdict'.result.confidence = WeightOf(Marked(marks) \ left)
  <2>1. /\ {b \in Axes : Judged(sub, skip).breakdown[b] # {}} # {}
        /\ {b \in Axes : Judged(marks, left).breakdown[b] # {}} # {}
    BY <1>4
  <2>2. verdict'.result = Judged(marks, left)
    BY <1>2, <1>3
  <2>3. /\ verdict.result.breakdown = sub
        /\ WeightOf(Marked(sub)) \in Nat \ {0}
        /\ verdict.result.score = Round(Weighted(sub), 10 * WeightOf(Marked(sub)))
        /\ verdict.result.confidence = WeightOf(Marked(sub) \ skip)
    BY <1>2, <2>1, MarkedScore
  <2>4. /\ Judged(marks, left).breakdown = marks
        /\ Judged(marks, left).score = Round(Weighted(marks), 10 * WeightOf(Marked(marks)))
        /\ Judged(marks, left).confidence = WeightOf(Marked(marks) \ left)
    BY <2>1, MarkedScore
  <2> QED
    BY <2>2, <2>3, <2>4
<1>6. sub[a] = {} /\ marks[a] # {}
  BY <1>4, <1>5, <1>2, <1>3 DEF Present
<1>7. f \in FieldsOf[a]
  BY <1>1, <1>3, <1>6 DEF IsBefore
<1>8. \A b \in Axes \ {a} : marks[b] = sub[b]
  BY <1>1, <1>3, <1>7, OneAxisReads DEF IsBefore
<1>9. \A b \in Axes : OneMark(sub[b]) /\ OneMark(marks[b])
  BY <1>1, <1>3, AxisHasOneMark DEF IsBefore, ScoreInv
<1>10. /\ Marked(marks) = Marked(sub) \cup {a} /\ a \notin Marked(sub)
       /\ Weighted(marks) = Weighted(sub) + Weights[a] * The(marks[a])
  BY <1>6, <1>8, <1>9, WeightedGains
<1>11. PICK whole \in Nat \ {0}, w \in Nat \ {0} : whole = WeightOf(Marked(sub)) /\ w = Weights[a]
  BY <1>5, WeightsAre
<1>12. WeightOf(Marked(marks)) = whole + w
  <2>1. Marked(marks) \in SUBSET Axes /\ Marked(marks) \ {a} = Marked(sub)
    BY <1>10 DEF Marked
  <2>2. WeightOf(Marked(marks)) = w + whole
    BY <1>10, <1>11, <2>1, WeightIsNat
  <2> QED
    BY <2>2
<1>13. PICK total \in Int, mark \in Int : total = Weighted(sub) /\ mark = The(marks[a])
  BY <1>9, <1>10, WeightedIsInt
<1>14. LET ends == {10 * verdict.result.score, The(marks[a])}
       IN 10 * verdict'.result.score \in (Min(ends) - 10)..(Max(ends) + 10)
  <2>1. 10 * whole \in Nat \ {0}
    OBVIOUS
  <2>2. PICK s \in Int : s = Round(total, 10 * whole)
    BY <2>1, RoundNear
  <2>3. PICK x \in Int : x = 10 * s
    OBVIOUS
  <2>4. PICK low \in Int, high \in Int :
           /\ low = Min({10 * s, mark}) /\ high = Max({10 * s, mark})
           /\ 10 * s \in low..high /\ mark \in low..high
    BY <2>3, EndsOfTwo
  <2>5. 10 * Round(total + w * mark, 10 * (whole + w)) \in (low - 10)..(high + 10)
    BY <2>2, <2>4, MeanBetween
  <2>6. /\ verdict.result.score = s
        /\ verdict'.result.score = Round(total + w * mark, 10 * (whole + w))
    BY <1>5, <1>10, <1>11, <1>12, <1>13, <2>2
  <2> QED
    BY <1>13, <2>4, <2>5, <2>6
<1>15. Marked(sub) \ skip \subseteq Marked(marks) \ left
  <2>1. CASE a = "news"
    <3>1. "news" \notin Marked(sub) /\ left \subseteq {"news"}
      BY <1>3, <1>10, <2>1 DEF Skip
    <3> QED
      BY <1>10, <3>1
  <2>2. CASE a # "news"
    <3>1. {"has_news", "sentiment_score"} \subseteq FieldsOf["news"] /\ "news" \in Axes
      BY DEF FieldsOf, Axes, Weights
    <3>2. f \notin {"has_news", "sentiment_score"}
      BY <1>7, <2>2, <3>1, OneAxisReads
    <3> QED
      BY <1>1, <1>3, <1>10, <3>2 DEF IsBefore
  <2> QED
    BY <2>1, <2>2
<1>16. verdict'.result.confidence >= verdict.result.confidence
  <2>1. /\ Marked(marks) \ left \in SUBSET Axes
        /\ Marked(sub) \ skip \in SUBSET (Marked(marks) \ left)
    BY <1>15 DEF Marked
  <2>2. /\ WeightOf(Marked(marks) \ left) \in Nat
        /\ WeightOf(Marked(sub) \ skip) <= WeightOf(Marked(marks) \ left)
    BY <2>1, WeightIsNat
  <2>3. WeightOf(Marked(sub) \ skip) \in Nat
    BY WeightIsNat DEF Marked
  <2> QED
    BY <1>5, <2>2, <2>3
<1>17. ASSUME verdict'.fields \ verdict.fields = {"market_sentiment"}
       PROVE  verdict'.result.confidence = verdict.result.confidence
  <2>1. f = "market_sentiment"
    BY <1>2, <1>17
  <2>2. "market_sentiment" \in FieldsOf["news"] /\ "news" \in Axes
    BY DEF FieldsOf, Axes, Weights
  <2>3. a = "news"
    BY <1>7, <2>1, <2>2, OneAxisReads
  <2>4. skip = {"news"} /\ left = skip
    BY <1>1, <1>3, <1>6, <2>1, <2>3 DEF IsBefore
  <2>5. Marked(marks) \ left = Marked(sub) \ skip
    BY <1>10, <2>3, <2>4
  <2> QED
    BY <1>5, <2>5
<1> QED
  BY <1>5, <1>14, <1>16, <1>17 DEF Nudged

LEMMA StepNudges ==
    ASSUME ScoreInv, [ScoreNext]_scoreVars
    PROVE  Nudges
<1>1. CASE \E f \in DOMAIN FieldReadings : MergeField(f)
  BY <1>1 DEF MergeField, Nudges
<1>2. CASE Analyse
  BY <1>2, AnalysisNudges DEF Nudges
<1>3. CASE UNCHANGED scoreVars
  <2>1. Present' = Present
    BY <1>3 DEF scoreVars, Present
  <2> QED
    BY <2>1 DEF Nudges
<1> QED
  BY <1>1, <1>2, <1>3 DEF ScoreNext
-----------------------------------------------------------------------------
(* The parts, each on its own *)

(* An event of collector-github says what was measured: of the same rows it *)
(* says the same whenever it is published, but for the age of the last      *)
(* push, which grows as the clock does; it calls a coin archived when every *)
(* repository read of it is, and compares repositories with a pace of their *)
(* own, whatever fails and whenever it restarts (aggregate.py, activity.py, *)
(* collector.py, _publish_all).                                             *)
THEOREM NothingIsMade == GithubSpec => MeasuredNotMade
<1>1. ActivityInv /\ [GithubNext]_githubVars => [Measured]_githubVars
  BY EventsAreMeasured
<1> QED
  BY <1>1, ActivityStarts, ActivityStep, PTL DEF GithubSpec, MeasuredNotMade, Measured

(* Evidence nudges the score: an axis that appears beside others moves it   *)
(* towards its own mark and, but for rounding, not past it, takes nothing   *)
(* from the confidence, and a read of the market alone adds nothing to it   *)
(* (scoring.py, score and _confidence).                                     *)
THEOREM AxesOnlyNudge == ScoreSpec => EvidenceNudges
<1>1. ScoreInv /\ [ScoreNext]_scoreVars => [Nudges]_scoreVars
  BY StepNudges
<1> QED
  BY <1>1, ScoreStarts, ScoreStep, PTL DEF ScoreSpec, EvidenceNudges, Nudges, Nudged

(* An event stored by ai-worker-haiku is not forgotten, however the         *)
(* consumers, the sweepers and the writes to the shared hash interleave:    *)
(* until an analysis covers it its symbol is pending or in hand, or is not  *)
(* ready for one.                                                           *)
THEOREM TriageForgetsNone == TriageSpec => []NothingForgotten
<1>1. TriageInv /\ [TriageNext]_triageVars => TriageInv'
  BY TriageStep DEF triageVars, triageOwn
<1> QED
  BY <1>1, TriageStarts, TriageForgetsNothing, PTL DEF TriageSpec

(* The journal of ai-worker-sonnet accounts for every analysis the group    *)
(* has passed, and calls validated only what became a decision.             *)
THEOREM JournalIsComplete == SeniorSpec => []JournalAccounts
<1>1. SeniorInv /\ [SeniorNext]_seniorVars => SeniorInv'
  BY SeniorStep DEF seniorVars, seniorOwn
<1> QED
  BY <1>1, SeniorStarts, SeniorAccounts, PTL DEF SeniorSpec

(* What the score makes of an unlock schedule was read in a document: no    *)
(* failed lookup, cache miss, field dropped by the merge or date gone by is *)
(* taken for "nothing is coming" or for an unlock.                          *)
THEOREM DilutionWasRead == UnlockSpec => []UnlockTermWasRead
<1>1. UnlockInv /\ [UnlockNext]_unlockVars => UnlockInv'
  BY UnlockStep DEF unlockVars, unlockOwn
<1> QED
  BY <1>1, UnlockStarts, UnlockTermTold, PTL DEF UnlockSpec

(* A proposed threshold keeps the rows within the target, a point less      *)
(* would not, and no later guard sees more rows than it lets through, for   *)
(* every journal the scan may read while it goes on being written.          *)
THEOREM ThresholdKeepsTarget == ScanSpec => []ProposalKeepsTarget
<1>1. ScanInv /\ [ScanNext]_scanVars => ScanInv'
  BY ScanStep DEF scanVars, scanOwn
<1> QED
  BY <1>1, ScanStarts, ScanKeepsTarget, PTL DEF ScanSpec

-----------------------------------------------------------------------------
(* The sum *)

(* Whichever part it is that runs, the triage and the senior analyst lose   *)
(* no account of what they took in.                                         *)
THEOREM AllIsAccountedFor == DecideSpec => []TakenIsAccountedFor
<1>1. DecideInit => TriageInv /\ SeniorInv
  BY TriageStarts, SeniorStarts DEF DecideInit
<1>2. [DecideNext]_decideVars => [TriageNext]_triageOwn
  BY DEF DecideNext, RiskPart, GithubPart, UnlockPart, TriagePart, SeniorPart, ScorePart,
         ScanPart, decideVars, triageOwn
<1>3. [DecideNext]_decideVars => [SeniorNext]_seniorOwn
  BY DEF DecideNext, RiskPart, GithubPart, UnlockPart, TriagePart, SeniorPart, ScorePart,
         ScanPart, decideVars, seniorOwn
<1>4. TriageInv /\ SeniorInv /\ [DecideNext]_decideVars => (TriageInv /\ SeniorInv)'
  BY <1>2, <1>3, TriageStep, SeniorStep
<1>5. TriageInv /\ SeniorInv => TakenIsAccountedFor
  BY TriageForgetsNothing, SeniorAccounts DEF TakenIsAccountedFor
<1> QED
  BY <1>1, <1>4, <1>5, PTL DEF DecideSpec
=============================================================================
