----------------------------- MODULE Fundamentals -----------------------------
(***************************************************************************)
(* Scheduled dilution, from DefiLlama to the score: a poll of              *)
(* collector-defillama (collector.py, llama_client.py, unlocks.py), the    *)
(* FundamentalsEvents it publishes, the merge of ai-worker-haiku's         *)
(* FeatureStore, which drops what is None, and the reading decision-engine *)
(* makes of the stored fields (features_map.py, scoring.py).               *)
(*                                                                         *)
(* Each of the three keeps "not known" apart from "nothing is coming": the *)
(* scorer leaves out the first and gives its best mark for the second.     *)
(* Time is in days.  An unlock is its date; its size goes with it.  The    *)
(* day a document was read rides along as a history value.                 *)
(***************************************************************************)
EXTENDS Faults, Sequences, SequencesExt, FiniteSets, FiniteSetsExt

(* The faults counted: polls and lookups that fail, restarts                *)
CONSTANTS
    Tokens,     \* tracked tokens, numbered in the order of their slugs
    Worlds,     \* what DefiLlama may publish: per token a document
    Horizon,    \* HORIZON_DAYS
    CacheDays,  \* UNLOCK_TTL_SECONDS, in days
    MaxFetches, \* max_unlock_fetches
    MaxDay,     \* bound: days that pass
    MaxQueue    \* bound: events published and not handled

ASSUME FundamentalsAssumption ==
    /\ Tokens \subseteq Nat /\ IsFiniteSet(Tokens)
    /\ \A w \in Worlds, c \in Tokens : w[c].days \subseteq Nat
    /\ Horizon \in Nat \ {0} /\ CacheDays \in Nat \ {0} /\ MaxFetches \in Nat \ {0}
    /\ MaxDay \in Nat /\ MaxQueue \in Nat \ {0}

VARIABLES
    day,
    document,      \* per token: listed (emissions list), days of unlocks, sized (maxSupply)
    cached,        \* defillama:unlock:<coin>: at most a reading and when it expires
    unlockPc,      \* collector: "idle", "cached", "fetch" or "publish"
    result,        \* collector: the readings of this poll
    misses,        \* collector: tokens not cached, in order
    attempts,      \* collector: lookups made in this poll
    backlogOffset, \* collector: _cursor
    dueEvents,     \* collector: tokens whose event is to be published
    topic,         \* market.fundamentals.events, not yet handled
    features       \* features:<symbol>: the unlock fields that are present

poll == <<unlockPc, result, misses, attempts, dueEvents>>
unlockVars == <<day, document, cached, poll, backlogOffset, topic, features, faults>>

Empty == [schedule |-> {}, at |-> {}, read |-> {}]

-----------------------------------------------------------------------------
(* next_unlock: the earliest unlock of the horizon, if any; it raises when  *)
(* there is one and the supply is not known                                 *)
Upcoming(c, now) == {u \in document[c].days : now < u /\ u <= now + Horizon}
NextUnlock(c, now) == IF Upcoming(c, now) = {} THEN {} ELSE {Min(Upcoming(c, now))}
Raises(c, now) == Upcoming(c, now) # {} /\ ~document[c].sized

(* _collect_unlocks: tokens of the emissions list *)
Eligible == {c \in Tokens : document[c].listed}
Cached(c) == {e \in cached[c] : day < e.expires}

(* protocols, fees and the emissions list are fetched *)
Poll ==
    /\ unlockPc = "idle"
    /\ unlockPc' = "cached"
    /\ UNCHANGED <<day, document, cached, result, misses, attempts, dueEvents,
                   backlogOffset, topic, features, faults>>

(* cached_unlock of every eligible token: a hit is reported, whatever it    *)
(* says, and a miss is no reading                                           *)
ReadCached ==
    /\ unlockPc = "cached"
    /\ LET hits == {c \in Eligible : Cached(c) # {}}
       IN /\ result' = [c \in hits |-> CHOOSE e \in Cached(c) : TRUE]
          /\ misses' = SetToSortSeq(Eligible \ hits, LAMBDA a, b : a < b)
    /\ attempts' = 0 /\ dueEvents' = Tokens
    /\ unlockPc' = "fetch"
    /\ UNCHANGED <<day, document, cached, backlogOffset, topic, features, faults>>

Fetches == Min({MaxFetches, Len(misses)})
Candidate == misses[((backlogOffset + attempts) % Len(misses)) + 1]

(* unlock: the document is read, reduced and cached for a day *)
FetchUnlock ==
    /\ unlockPc = "fetch" /\ attempts < Fetches
    /\ LET c == Candidate
           reading == [at |-> NextUnlock(c, day), read |-> day, expires |-> day + CacheDays]
       IN /\ ~Raises(c, day)
          /\ cached' = [cached EXCEPT ![c] = {reading}]
          /\ result' = [d \in DOMAIN result \cup {c} |-> IF d = c THEN reading ELSE result[d]]
    /\ attempts' = attempts + 1
    /\ UNCHANGED <<day, document, unlockPc, misses, dueEvents, backlogOffset, topic,
                   features, faults>>

(* Mutant of LookupFails: a failed lookup is returned as None *)
LookupReadsNone ==
    /\ unlockPc = "fetch" /\ attempts < Fetches
    /\ Raises(Candidate, day) \/ faults < MaxFaults
    /\ faults' = IF Raises(Candidate, day) THEN faults ELSE faults + 1
    /\ result' = [d \in DOMAIN result \cup {Candidate} |->
                     IF d = Candidate THEN [at |-> {}, read |-> day, expires |-> day]
                     ELSE result[d]]
    /\ attempts' = attempts + 1
    /\ UNCHANGED <<day, document, cached, unlockPc, misses, dueEvents, backlogOffset,
                   topic, features>>

(* The lookup raises (throttled, network, unsizable): the token is left out *)
LookupFails ==
    /\ unlockPc = "fetch" /\ attempts < Fetches
    /\ Raises(Candidate, day) \/ faults < MaxFaults
    /\ faults' = IF Raises(Candidate, day) THEN faults ELSE faults + 1
    /\ attempts' = attempts + 1
    /\ UNCHANGED <<day, document, cached, unlockPc, result, misses, dueEvents,
                   backlogOffset, topic, features>>

(* Mutant of Rotate: the backlog is always read from its start *)
RestartBacklog ==
    /\ unlockPc = "fetch" /\ attempts = Fetches
    /\ backlogOffset' = 0
    /\ unlockPc' = "publish"
    /\ UNCHANGED <<day, document, cached, result, misses, attempts, dueEvents, topic,
                   features, faults>>

(* The cursor rotates over the misses *)
Rotate ==
    /\ unlockPc = "fetch" /\ attempts = Fetches
    /\ backlogOffset' = IF misses = <<>> THEN backlogOffset
                        ELSE (backlogOffset + MaxFetches) % Len(misses)
    /\ unlockPc' = "publish"
    /\ UNCHANGED <<day, document, cached, result, misses, attempts, dueEvents, topic,
                   features, faults>>

(* to_fundamentals_events: membership is has_unlock_schedule *)
EventOf(c) ==
    [token |-> c, schedule |-> c \in DOMAIN result,
     at |-> IF c \in DOMAIN result THEN result[c].at ELSE {},
     read |-> IF c \in DOMAIN result THEN {result[c].read} ELSE {}]

PublishEvent ==
    /\ unlockPc = "publish" /\ dueEvents # {} /\ Len(topic) < MaxQueue
    /\ topic' = Append(topic, EventOf(Min(dueEvents)))
    /\ dueEvents' = dueEvents \ {Min(dueEvents)}
    /\ UNCHANGED <<day, document, cached, unlockPc, result, misses, attempts,
                   backlogOffset, features, faults>>

EndPoll ==
    /\ unlockPc = "publish" /\ dueEvents = {}
    /\ unlockPc' = "idle" /\ result' = <<>> /\ misses' = <<>> /\ attempts' = 0
    /\ UNCHANGED <<day, document, cached, dueEvents, backlogOffset, topic, features,
                   faults>>

(* Anything else that raises ends the poll; run_periodic starts the next    *)
PollFails ==
    /\ unlockPc # "idle" /\ Fault
    /\ unlockPc' = "idle" /\ result' = <<>> /\ misses' = <<>> /\ attempts' = 0 /\ dueEvents' = {}
    /\ UNCHANGED <<day, document, cached, backlogOffset, topic, features>>

UnlockRestart ==
    /\ Fault
    /\ unlockPc' = "idle" /\ result' = <<>> /\ misses' = <<>> /\ attempts' = 0 /\ dueEvents' = {}
    /\ backlogOffset' = 0
    /\ UNCHANGED <<day, document, cached, topic, features>>

-----------------------------------------------------------------------------
(* FeatureStore.update: what is None is dropped, what is False is not *)
MergeUnlock(f, e) ==
    [schedule |-> {e.schedule},
     at |-> IF e.at = {} THEN f.at ELSE e.at,
     read |-> IF e.read = {} THEN f.read ELSE e.read]

HandleEvent ==
    /\ topic # <<>>
    /\ LET e == Head(topic) IN features' = [features EXCEPT ![e.token] = MergeUnlock(@, e)]
    /\ topic' = Tail(topic)
    /\ UNCHANGED <<day, document, cached, poll, backlogOffset, faults>>

(* FEATURE_TTL passes without an event of the symbol, prices included *)
FeaturesExpire(c) ==
    /\ features[c] # Empty
    /\ features' = [features EXCEPT ![c] = Empty]
    /\ UNCHANGED <<day, document, cached, poll, backlogOffset, topic, faults>>

NextDay ==
    /\ day < MaxDay /\ day' = day + 1
    /\ UNCHANGED <<document, cached, poll, backlogOffset, topic, features, faults>>

-----------------------------------------------------------------------------
(* features_map._unlock_days and the unlock term of _norm_fundamentals      *)

(* Mutant of DaysToUnlock: a date in the past is due now *)
DaysToUnlockClamped(f) == {IF u < day THEN 0 ELSE u - day : u \in f.at}

(* Days until the unlock; a date in the past is no reading *)
DaysToUnlock(f) == {u - day : u \in {v \in f.at : v >= day}}

(* "absent", "clear" (read, nothing pending: the best mark) or "pending".   *)
(* Half a reading, a size without a date, is none                           *)
DilutionTerm(f) ==
    IF f.schedule # {TRUE} THEN "absent"
    ELSE IF f.at = {} THEN "clear"
    ELSE IF DaysToUnlock(f) = {} THEN "absent" ELSE "pending"

-----------------------------------------------------------------------------
UnlockInit ==
    /\ day = 0 /\ document \in Worlds
    /\ cached = [c \in Tokens |-> {}]
    /\ unlockPc = "idle" /\ result = <<>> /\ misses = <<>> /\ attempts = 0 /\ dueEvents = {}
    /\ backlogOffset = 0 /\ topic = <<>>
    /\ features = [c \in Tokens |-> Empty]
    /\ faults = 0

PollStep ==
    Poll \/ ReadCached \/ FetchUnlock \/ LookupFails \/ Rotate \/ PublishEvent \/ EndPoll

UnlockNext ==
    \/ PollStep \/ HandleEvent \/ PollFails \/ UnlockRestart \/ NextDay
    \/ \E c \in Tokens : FeaturesExpire(c)

UnlockSpec == UnlockInit /\ [][UnlockNext]_unlockVars

(* run_periodic polls, the consumer handles, and a lookup that need not     *)
(* fail succeeds                                                            *)
UnlockFairSpec == UnlockSpec /\ WF_unlockVars(PollStep) /\ WF_unlockVars(HandleEvent)

-----------------------------------------------------------------------------
(* Properties *)

(* What the score makes of the schedule was read in a document: "clear"     *)
(* when its horizon held no unlock, "pending" for an unlock that exists and *)
(* has not passed.  A failed lookup, a cache miss, a field dropped by the   *)
(* merge or a date gone by is never taken for either ("fabricated safety",  *)
(* "fabricated urgency").                                                   *)
UnlockTermWasRead ==
    \A c \in Tokens :
        LET f == features[c] IN
        /\ DilutionTerm(f) = "clear" => \E r \in f.read : Upcoming(c, r) = {}
        /\ DilutionTerm(f) = "pending" =>
               \E u \in f.at : u \in document[c].days /\ u >= day /\ document[c].sized

(* A token whose lookup always fails cannot starve the others: the schedule *)
(* of a token that can be read is in the cache again and again, although a  *)
(* poll reads few documents and the entries expire.                         *)
EveryScheduleRead ==
    \A c \in Tokens : document[c].listed /\ document[c].sized ~> Cached(c) # {}
=============================================================================
