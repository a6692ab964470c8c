------------------------ MODULE EventConsumerProofs ------------------------
(***************************************************************************)
(* The consumer group, for every number of replicas, partitions, messages, *)
(* crashes and rebalances: it implements AtLeastOnce once the group has    *)
(* committed an offset (FirstOffset = 0), and what it replays is bounded   *)
(* by a batch whatever it had committed before.                            *)
(***************************************************************************)
EXTENDS EventConsumer, SumTheorems

GroupType ==
    /\ length \in [Partitions -> Nat] /\ committed \in [Partitions -> Nat]
    /\ owner \in [Partitions -> Replicas] /\ pos \in [Partitions -> Nat]

BatchType ==
    /\ pc \in [Replicas -> {"join", "poll", "batch", "down", "dead"}]
    /\ next \in [Replicas -> [Partitions -> Nat]]
    /\ end \in [Replicas -> [Partitions -> Nat]]

Ordered ==
    /\ \A p \in Partitions : committed[p] <= pos[p] /\ pos[p] <= length[p]
    /\ \A r \in Replicas, p \in Partitions : end[r][p] <= length[p]

(* What was committed was handed over *)
CommittedHanded ==
    \A p \in Partitions : \A o \in Nat : o < committed[p] => <<p, o>> \in handed

(* A replica outside a batch has nothing in hand *)
NothingInHand == \A r \in Replicas : pc[r] # "batch" => BatchDone(r)

(* What the owner of a partition has read was handed over, or is in hand *)
ReadAccounted ==
    \A p \in Partitions : pc[owner[p]] \in {"poll", "batch"} =>
        \A o \in Nat : o < pos[p] =>
            \/ <<p, o>> \in handed
            \/ next[owner[p]][p] <= o /\ o < end[owner[p]][p]

DeliveryInv ==
    GroupType /\ BatchType /\ Ordered /\ CommittedHanded /\ NothingInHand /\ ReadAccounted

LEMMA InitDelivery ==
    ASSUME FirstOffset = 0, Init
    PROVE  DeliveryInv
<1>1. GroupType /\ BatchType
  BY DEF Init, GroupType, BatchType
<1>2. Ordered /\ CommittedHanded /\ NothingInHand
  BY DEF Init, Ordered, CommittedHanded, NothingInHand, BatchDone
<1>3. ReadAccounted
  BY DEF Init, ReadAccounted
<1> QED
  BY <1>1, <1>2, <1>3 DEF DeliveryInv

LEMMA PollKeeps ==
    ASSUME DeliveryInv, NEW r \in Replicas, Poll(r)
    PROVE  DeliveryInv'
<1> USE DEF DeliveryInv
<1>1. PICK upTo \in [Partitions -> 0..MaxLength] :
         /\ \A p \in Partitions : IF owner[p] = r THEN upTo[p] \in pos[p]..length[p]
                                                  ELSE upTo[p] = pos[p]
         /\ pos' = upTo
         /\ next' = [next EXCEPT ![r] = pos]
         /\ end' = [end EXCEPT ![r] = upTo]
  BY DEF Poll
<1>2. /\ pc[r] = "poll" /\ pc' = [pc EXCEPT ![r] = "batch"]
      /\ length' = length /\ committed' = committed /\ owner' = owner
      /\ handed' = handed
  BY DEF Poll, histVars
<1>3. /\ upTo \in [Partitions -> Nat]
      /\ \A p \in Partitions : pos[p] <= upTo[p] /\ upTo[p] <= length[p]
  BY <1>1, ConsumerAssumption DEF GroupType, Ordered
<1>4. GroupType'
  BY <1>1, <1>2, <1>3 DEF GroupType
<1>5. BatchType'
  BY <1>1, <1>2, <1>3 DEF GroupType, BatchType
<1>6. Ordered'
  BY <1>1, <1>2, <1>3 DEF GroupType, BatchType, Ordered
<1>7. CommittedHanded'
  BY <1>2 DEF CommittedHanded
<1>8. NothingInHand'
  BY <1>1, <1>2 DEF NothingInHand, BatchDone, BatchType
<1>9. ReadAccounted'
  <2> SUFFICES ASSUME NEW p \in Partitions, pc'[owner[p]] \in {"poll", "batch"},
                      NEW o \in Nat, o < upTo[p], <<p, o>> \notin handed
               PROVE  next'[owner[p]][p] <= o /\ o < end'[owner[p]][p]
    BY <1>1, <1>2 DEF ReadAccounted
  <2>1. CASE owner[p] = r
    <3>1. next[r][p] = end[r][p]
      BY <1>2 DEF NothingInHand, BatchDone
    <3>2. ~(o < pos[p])
      BY <1>2, <2>1, <3>1 DEF ReadAccounted, BatchType
    <3> QED
      BY <1>1, <2>1, <3>2 DEF GroupType, BatchType
  <2>2. CASE owner[p] # r
    <3>1. upTo[p] = pos[p] /\ owner[p] \in Replicas
      BY <1>1, <2>2 DEF GroupType
    <3>2. pc'[owner[p]] = pc[owner[p]]
      BY <1>2, <2>2, <3>1 DEF BatchType
    <3>3. next[owner[p]][p] <= o /\ o < end[owner[p]][p]
      BY <3>1, <3>2 DEF ReadAccounted
    <3> QED
      BY <1>1, <2>2, <3>1, <3>3 DEF BatchType
  <2> QED
    BY <2>1, <2>2
<1> QED
  BY <1>4, <1>5, <1>6, <1>7, <1>8, <1>9

LEMMA HandleKeeps ==
    ASSUME DeliveryInv, NEW r \in Replicas, NEW q \in Partitions, Handle(r, q)
    PROVE  DeliveryInv'
<1> USE DEF DeliveryInv
<1>1. /\ pc[r] = "batch" /\ pc' = pc
      /\ next[r][q] < end[r][q]
      /\ handed' = handed \cup {<<q, next[r][q]>>}
      /\ next' = [next EXCEPT ![r][q] = @ + 1]
      /\ end' = end
      /\ length' = length /\ committed' = committed /\ owner' = owner /\ pos' = pos
  BY DEF Handle, groupVars
<1>2. next[r][q] \in Nat /\ end[r][q] \in Nat /\ next[r][q] + 1 \in Nat
  BY DEF BatchType
<1>3. GroupType' /\ Ordered' /\ CommittedHanded'
  BY <1>1 DEF GroupType, Ordered, CommittedHanded
<1>4. BatchType'
  <2>1. ASSUME NEW n \in Nat PROVE [next EXCEPT ![r][q] = n] \in [Replicas -> [Partitions -> Nat]]
    BY DEF BatchType
  <2>2. next' = [next EXCEPT ![r][q] = next[r][q] + 1]
    BY <1>1 DEF BatchType
  <2> QED
    BY <1>1, <1>2, <2>1, <2>2 DEF BatchType
<1>5. NothingInHand'
  <2> SUFFICES ASSUME NEW s \in Replicas, pc[s] # "batch" PROVE BatchDone(s)'
    BY <1>1 DEF NothingInHand
  <2>1. s # r /\ BatchDone(s)
    BY <1>1 DEF NothingInHand
  <2> QED
    BY <1>1, <2>1 DEF BatchDone, BatchType
<1>6. ReadAccounted'
  <2> SUFFICES ASSUME NEW p \in Partitions, pc[owner[p]] \in {"poll", "batch"},
                      NEW o \in Nat, o < pos[p], <<p, o>> \notin handed'
               PROVE  next'[owner[p]][p] <= o /\ o < end[owner[p]][p]
    BY <1>1 DEF ReadAccounted
  <2>1. next[owner[p]][p] <= o /\ o < end[owner[p]][p] /\ owner[p] \in Replicas
    BY <1>1 DEF ReadAccounted, GroupType
  <2>2. CASE owner[p] = r /\ p = q
    <3>1. o # next[r][q]
      BY <1>1, <2>2
    <3>2. next'[r][q] = next[r][q] + 1
      BY <1>1 DEF BatchType
    <3> QED
      BY <1>2, <2>1, <2>2, <3>1, <3>2
  <2>3. CASE ~(owner[p] = r /\ p = q)
    <3>1. next'[owner[p]][p] = next[owner[p]][p]
      BY <1>1, <2>1, <2>3 DEF BatchType
    <3> QED
      BY <2>1, <3>1
  <2> QED
    BY <2>2, <2>3
<1> QED
  BY <1>3, <1>4, <1>5, <1>6

(* Facts about Commit: what it commits was handed over *)
LEMMA CommitFacts ==
    ASSUME DeliveryInv, NEW r \in Replicas, Commit(r)
    PROVE  /\ committed' \in [Partitions -> Nat]
           /\ \A p \in Partitions :
                 /\ committed[p] <= committed'[p] /\ committed'[p] <= pos[p]
                 /\ \A o \in Nat : o < committed'[p] => <<p, o>> \in handed
<1> USE DEF DeliveryInv
<1>1. committed' = [p \in Partitions |-> IF owner[p] = r THEN pos[p] ELSE committed[p]]
  BY DEF Commit
<1>2. pc[r] = "batch" /\ BatchDone(r)
  BY DEF Commit
<1>3. committed' \in [Partitions -> Nat]
  BY <1>1 DEF GroupType
<1>4. ASSUME NEW p \in Partitions
      PROVE  /\ committed[p] <= committed'[p] /\ committed'[p] <= pos[p]
             /\ \A o \in Nat : o < committed'[p] => <<p, o>> \in handed
  <2>1. CASE owner[p] = r
    <3>1. next[r][p] = end[r][p] /\ end[r][p] \in Nat
      BY <1>2 DEF BatchDone, BatchType
    <3> QED
      BY <1>1, <1>2, <2>1, <3>1 DEF ReadAccounted, Ordered, GroupType
  <2>2. CASE owner[p] # r
    BY <1>1, <2>2 DEF CommittedHanded, Ordered, GroupType
  <2> QED
    BY <2>1, <2>2
<1> QED
  BY <1>3, <1>4

LEMMA CommitKeeps ==
    ASSUME DeliveryInv, NEW r \in Replicas, Commit(r)
    PROVE  DeliveryInv'
<1> USE DEF DeliveryInv
<1>1. /\ pc[r] = "batch" /\ BatchDone(r) /\ pc' = [pc EXCEPT ![r] = "poll"]
      /\ length' = length /\ owner' = owner /\ pos' = pos
      /\ next' = next /\ end' = end /\ handed' = handed
  BY DEF Commit, groupVars, histVars
<1>2. GroupType' /\ BatchType'
  BY <1>1, CommitFacts DEF GroupType, BatchType
<1>3. Ordered'
  BY <1>1, CommitFacts DEF GroupType, Ordered
<1>4. CommittedHanded'
  BY <1>1, CommitFacts DEF CommittedHanded
<1>5. NothingInHand'
  BY <1>1 DEF NothingInHand, BatchDone, BatchType
<1>6. ReadAccounted'
  <2>1. \A p \in Partitions : pc'[owner[p]] \in {"poll", "batch"}
            => pc[owner[p]] \in {"poll", "batch"}
    BY <1>1 DEF BatchType, GroupType
  <2> QED
    BY <1>1, <2>1 DEF ReadAccounted
<1> QED
  BY <1>2, <1>3, <1>4, <1>5, <1>6

(* A replica that leaves its loop: its partitions wait for a rebalance *)
LEMMA LeaveKeeps ==
    ASSUME DeliveryInv, NEW r \in Replicas,
           NEW away \in {"join", "down", "dead"},
           pc' = [pc EXCEPT ![r] = away],
           next' \in {next, [next EXCEPT ![r] = end[r]]}, end' = end, BatchDone(r)',
           length' = length, committed' = committed, owner' = owner, pos' = pos,
           handed' = handed
    PROVE  DeliveryInv'
<1> USE DEF DeliveryInv
<1>1. GroupType' /\ Ordered' /\ CommittedHanded'
  BY DEF GroupType, Ordered, CommittedHanded
<1>2. BatchType'
  BY DEF BatchType
<1>3. ASSUME NEW s \in Replicas, s # r
      PROVE  pc'[s] = pc[s] /\ next'[s] = next[s]
  BY <1>3 DEF BatchType
<1>a. pc'[r] = away
  BY DEF BatchType
<1>4. NothingInHand'
  BY <1>3 DEF NothingInHand, BatchDone
<1>5. ReadAccounted'
  BY <1>3, <1>a DEF ReadAccounted, GroupType
<1> QED
  BY <1>1, <1>2, <1>4, <1>5

LEMMA AssignKeeps ==
    ASSUME DeliveryInv, Assign
    PROVE  DeliveryInv'
<1> USE DEF DeliveryInv
<1>1. /\ owner' \in [Partitions -> Replicas]
      /\ pc' = [r \in Replicas |->
                   IF r \in Members /\ pc[r] = "join" THEN "poll" ELSE pc[r]]
      /\ length' = length /\ committed' = committed /\ handed' = handed
      /\ next' = next /\ end' = end
  BY DEF Assign, Members, histVars
<1>2. pos' = committed
  BY DEF Assign, StartOf, GroupType, NoOffset
<1>3. GroupType' /\ BatchType'
  BY <1>1, <1>2 DEF GroupType, BatchType
<1>4. Ordered' /\ CommittedHanded'
  BY <1>1, <1>2 DEF Ordered, CommittedHanded, GroupType
<1>5. ReadAccounted'
  BY <1>1, <1>2 DEF ReadAccounted, CommittedHanded, GroupType
<1>6. NothingInHand'
  BY <1>1 DEF NothingInHand, BatchDone, BatchType
<1> QED
  BY <1>3, <1>4, <1>5, <1>6

LEMMA StepKeeps ==
    ASSUME DeliveryInv, [Next]_vars
    PROVE  DeliveryInv'
<1> USE DEF groupVars, loopVars, histVars
<1>1. ASSUME NEW p \in Partitions, Publish(p) PROVE DeliveryInv'
  <2>1. /\ length' = [length EXCEPT ![p] = length[p] + 1] /\ length[p] \in Nat
        /\ committed' = committed /\ owner' = owner /\ pos' = pos /\ pc' = pc
        /\ next' = next /\ end' = end /\ handed' = handed
    BY <1>1 DEF Publish, DeliveryInv, GroupType
  <2>2. length' \in [Partitions -> Nat] /\ \A q \in Partitions : length[q] <= length'[q]
    <3>1. ASSUME NEW n \in Nat PROVE [length EXCEPT ![p] = n] \in [Partitions -> Nat]
      BY DEF DeliveryInv, GroupType
    <3> QED
      BY <2>1, <3>1 DEF DeliveryInv, GroupType
  <2>3. GroupType' /\ BatchType'
    BY <2>1, <2>2 DEF DeliveryInv, GroupType, BatchType
  <2>4. Ordered'
    <3>1. \A q \in Partitions : pos[q] <= length'[q]
      BY <2>2 DEF DeliveryInv, GroupType, Ordered
    <3>2. \A r \in Replicas, q \in Partitions : end[r][q] <= length'[q]
      BY <2>2 DEF DeliveryInv, GroupType, BatchType, Ordered
    <3> QED
      BY <2>1, <3>1, <3>2 DEF DeliveryInv, Ordered
  <2>5. CommittedHanded' /\ NothingInHand' /\ ReadAccounted'
    BY <2>1 DEF DeliveryInv, CommittedHanded, NothingInHand, ReadAccounted, BatchDone
  <2> QED
    BY <2>3, <2>4, <2>5 DEF DeliveryInv
<1>2. ASSUME NEW r \in Replicas, Poll(r) PROVE DeliveryInv'
  BY <1>2, PollKeeps
<1>3. ASSUME NEW r \in Replicas, NEW p \in Partitions, Handle(r, p) PROVE DeliveryInv'
  BY <1>3, HandleKeeps
<1>4. ASSUME NEW r \in Replicas, Commit(r) PROVE DeliveryInv'
  BY <1>4, CommitKeeps
<1>5. ASSUME NEW r \in Replicas, Stopped(r) PROVE DeliveryInv'
  <2>1. BatchDone(r)
    BY <1>5 DEF Stopped, AtBroker, DeliveryInv, NothingInHand
  <2> QED
    BY <1>5, <2>1, LeaveKeeps DEF Stopped, BatchDone
<1>6. ASSUME NEW r \in Replicas, Start(r) PROVE DeliveryInv'
  <2>1. BatchDone(r)
    BY <1>6 DEF Start, DeliveryInv, NothingInHand
  <2> QED
    BY <1>6, <2>1, LeaveKeeps DEF Start, BatchDone
<1>7. ASSUME NEW r \in Replicas, Break(r) PROVE DeliveryInv'
  <2>1. BatchDone(r)
    BY <1>7 DEF Break, AtBroker, DeliveryInv, NothingInHand
  <2> QED
    BY <1>7, <2>1, LeaveKeeps DEF Break, BatchDone
<1>8. ASSUME NEW r \in Replicas, Stop(r) PROVE DeliveryInv'
  BY <1>8 DEF Stop, DeliveryInv, GroupType, BatchType, Ordered, CommittedHanded,
              NothingInHand, ReadAccounted, BatchDone
<1>9. ASSUME NEW r \in Replicas, Crash(r) PROVE DeliveryInv'
  <2>1. BatchDone(r)'
    BY <1>9 DEF Crash, BatchDone, DeliveryInv, BatchType
  <2> QED
    BY <1>9, <2>1, LeaveKeeps DEF Crash
<1>10. CASE Rebalance
  BY <1>10, AssignKeeps DEF Rebalance
<1>11. CASE UNCHANGED vars
  BY <1>11 DEF vars, DeliveryInv, GroupType, BatchType, Ordered, CommittedHanded,
               NothingInHand, ReadAccounted, BatchDone
<1> QED
  BY <1>1, <1>2, <1>3, <1>4, <1>5, <1>6, <1>7, <1>8, <1>9, <1>10, <1>11 DEF Next, Work

-----------------------------------------------------------------------------
Settled == [p \in Partitions |-> IF committed[p] = NoOffset THEN 0 ELSE committed[p]]

LEMMA SettledIsCommitted == GroupType => Settled = committed
BY DEF GroupType, Settled, NoOffset

LEMMA InitRefines ==
    ASSUME FirstOffset = 0, Init
    PROVE  Contract!Init
<1>1. Settled = [p \in Partitions |-> 0]
  BY DEF Init, Settled, NoOffset
<1> QED
  BY <1>1 DEF Init, Contract!Init, Settled

LEMMA StepRefines ==
    ASSUME DeliveryInv, DeliveryInv', [Next]_vars
    PROVE  [Contract!Next]_<<length, handed, Settled>>
<1> USE DEF groupVars, loopVars, histVars
<1>0. Settled = committed /\ Settled' = committed'
  BY SettledIsCommitted DEF DeliveryInv, GroupType, Settled, NoOffset
<1>1. ASSUME NEW p \in Partitions, Publish(p) PROVE Contract!Next
  <2>1. Contract!Publish(p)
    BY <1>0, <1>1 DEF Publish, Contract!Publish, Settled
  <2> QED
    BY <2>1 DEF Contract!Next
<1>2. ASSUME NEW r \in Replicas, NEW p \in Partitions, Handle(r, p) PROVE Contract!Next
  <2>1. next[r][p] \in 0..(length[p] - 1)
    BY <1>2 DEF Handle, DeliveryInv, BatchType, GroupType, Ordered
  <2>2. Contract!Hand(p, next[r][p])
    BY <1>0, <1>2, <2>1 DEF Handle, Contract!Hand, Settled
  <2> QED
    BY <2>1, <2>2 DEF Contract!Next
<1>3. ASSUME NEW r \in Replicas, Commit(r) PROVE Contract!Next
  <2>0. UNCHANGED <<length, handed>>
    BY <1>3 DEF Commit
  <2>a. ASSUME NEW p \in Partitions
        PROVE  /\ Settled[p] <= Settled'[p] /\ Settled'[p] <= length[p]
               /\ \A o \in 0..(Settled'[p] - 1) : <<p, o>> \in handed
    <3>1. committed[p] <= committed'[p] /\ committed'[p] <= pos[p] /\ committed'[p] \in Nat
      BY <1>3, CommitFacts
    <3>2. \A o \in Nat : o < committed'[p] => <<p, o>> \in handed
      BY <1>3, CommitFacts
    <3>3. pos[p] <= length[p] /\ pos[p] \in Nat /\ length[p] \in Nat
      BY DEF DeliveryInv, GroupType, Ordered
    <3> QED
      BY <1>0, <3>1, <3>2, <3>3
  <2>1. Contract!Settle
    BY <2>0, <2>a DEF Contract!Settle, Settled
  <2> QED
    BY <2>1 DEF Contract!Next
<1>4. ASSUME UNCHANGED <<length, handed, committed>>
      PROVE  UNCHANGED <<length, handed, Settled>>
  BY <1>0, <1>4
<1>5. ASSUME NEW r \in Replicas,
             Poll(r) \/ Stopped(r) \/ Start(r) \/ Break(r) \/ Stop(r) \/ Crash(r)
      PROVE  UNCHANGED <<length, handed, committed>>
  BY <1>5 DEF Poll, Stopped, Start, Break, Stop, Crash
<1>6. CASE Rebalance
  BY <1>4, <1>6 DEF Rebalance, Assign
<1>7. CASE UNCHANGED vars
  BY <1>4, <1>7 DEF vars
<1> QED
  BY <1>1, <1>2, <1>3, <1>4, <1>5, <1>6, <1>7 DEF Next, Work

(* A group that has committed an offset is at-least-once: no rebalance,     *)
(* crash, stop or broken loop has it commit past a message no handler saw   *)
(* (EventConsumer.run, getmany to commit).                                  *)
THEOREM GroupIsAtLeastOnce ==
    ASSUME FirstOffset = 0
    PROVE  Spec => IsAtLeastOnce
<1>1. Init => DeliveryInv
  BY InitDelivery
<1>2. DeliveryInv /\ [Next]_vars => DeliveryInv'
  BY StepKeeps
<1>3. Init => Contract!Init
  BY InitRefines
<1>4. DeliveryInv /\ DeliveryInv' /\ [Next]_vars
         => [Contract!Next]_<<length, handed, Settled>>
  BY StepRefines
<1> QED
  BY <1>1, <1>2, <1>3, <1>4, PTL DEF Spec, IsAtLeastOnce, Contract!Spec, Settled

-----------------------------------------------------------------------------
(* ReplayWindow, whatever the group had committed before                    *)

WindowType ==
    /\ length \in [Partitions -> Nat] /\ committed \in [Partitions -> Nat \cup {NoOffset}]
    /\ owner \in [Partitions -> Replicas] /\ pos \in [Partitions -> Nat]
    /\ \A p \in Partitions : committed[p] <= pos[p]
    /\ tries \in [Partitions -> [Offsets -> Nat]] /\ generation \in Nat

(* A replica that is about to read has committed all it has read *)
CommittedAll ==
    \A r \in Replicas : pc[r] = "poll" =>
        \A p \in Partitions : owner[p] = r => Unacknowledged[p] = 0

OneBatch == \A r \in Replicas : SumFunctionOnSet(Unacknowledged, Owned(r)) <= MaxBatch

(* The replicas that have a message in hand, and whether it is still to be  *)
(* read by the owner of its partition                                       *)
Holders(p, o) == {r \in Replicas : next[r][p] <= o /\ o < end[r][p]}
Unread(p, o) == IF o >= pos[p] THEN 1 ELSE 0

(* A message was handed over, is in hand, or is about to be read, at most   *)
(* as often as there were generations                                       *)
Within(p, o) ==
    /\ IsFiniteSet(Holders(p, o))
    /\ generation = 0 => tries[p][o] = 0 /\ Holders(p, o) = {}
    /\ generation > 0 => tries[p][o] + Cardinality(Holders(p, o)) + Unread(p, o) <= generation
HandedOnce ==
    /\ generation = 0 => \A r \in Replicas : pc[r] \notin {"poll", "batch"}
    /\ \A p \in Partitions : \A o \in Offsets : Within(p, o)

WindowInv ==
    WindowType /\ BatchType /\ NothingInHand /\ CommittedAll /\ OneBatch /\ HandedOnce

LEMMA PartitionsOwned ==
    ASSUME WindowType, NEW r
    PROVE  /\ Owned(r) \subseteq Partitions /\ IsFiniteSet(Partitions) /\ IsFiniteSet(Owned(r))
           /\ \A p \in Partitions : Unacknowledged[p] \in Nat
<1>1. Owned(r) \subseteq Partitions /\ IsFiniteSet(Partitions)
  BY ConsumerAssumption DEF Owned
<1>2. \A p \in Partitions : Unacknowledged[p] \in Nat
  BY DEF WindowType, Unacknowledged, NoOffset
<1> QED
  BY <1>1, <1>2, FS_Subset

LEMMA WindowGives == WindowInv => ReplayWindow
<1> SUFFICES ASSUME WindowInv PROVE ReplayWindow
  OBVIOUS
<1>1. ASSUME NEW p \in Partitions, NEW o \in Offsets PROVE tries[p][o] <= generation
  <2>1. Within(p, o) /\ tries[p][o] \in Nat /\ generation \in Nat
    BY DEF WindowInv, HandedOnce, WindowType
  <2>2. IsFiniteSet(Holders(p, o)) => Cardinality(Holders(p, o)) \in Nat
    BY FS_CardinalityType
  <2> QED
    BY <2>1, <2>2 DEF Within, Unread
<1> QED
  BY <1>1 DEF ReplayWindow, WindowInv, OneBatch

(* A step that reads, commits and hands over nothing, and after which no    *)
(* replica has more in hand                                                 *)
LEMMA RestKeeps ==
    ASSUME WindowInv, committed' = committed, owner' = owner, pos' = pos,
           tries' = tries, generation' = generation, end' = end,
           length' \in [Partitions -> Nat], BatchType', NothingInHand',
           \A r \in Replicas : next'[r] = next[r] \/ BatchDone(r)',
           \A r \in Replicas : pc'[r] \in {"poll", "batch"} => pc[r] = pc'[r]
    PROVE  WindowInv'
<1>1. WindowType'
  BY DEF WindowInv, WindowType
<1>2. Unacknowledged' = Unacknowledged /\ \A r : Owned(r)' = Owned(r)
  BY DEF Unacknowledged, Owned
<1>3. CommittedAll'
  BY <1>2 DEF WindowInv, CommittedAll
<1>4. OneBatch'
  BY <1>2 DEF WindowInv, OneBatch
<1>5. ASSUME NEW p \in Partitions, NEW o \in Offsets PROVE Within(p, o)'
  <2>1. Holders(p, o)' \subseteq Holders(p, o)
    <3> SUFFICES ASSUME NEW r \in Replicas, next'[r][p] <= o, o < end[r][p]
                 PROVE  next[r][p] <= o
      BY DEF Holders
    <3>1. BatchDone(r)' => next'[r][p] = end[r][p]
      BY DEF BatchDone
    <3>2. end[r][p] \in Nat /\ o \in Nat
      BY ConsumerAssumption DEF WindowInv, BatchType, Offsets
    <3> QED
      BY <3>1, <3>2
  <2>2. Within(p, o) /\ Unread(p, o)' = Unread(p, o)
    BY DEF WindowInv, HandedOnce, Unread
  <2>3. PICK had, has : had = Holders(p, o) /\ has = Holders(p, o)'
    OBVIOUS
  <2>4. /\ IsFiniteSet(had) /\ IsFiniteSet(has) /\ Cardinality(has) <= Cardinality(had)
        /\ Cardinality(has) \in Nat /\ Cardinality(had) \in Nat
    BY <2>1, <2>2, <2>3, FS_Subset, FS_CardinalityType DEF Within
  <2>5. tries[p][o] \in Nat /\ generation \in Nat /\ Unread(p, o) \in Nat
    BY DEF WindowInv, WindowType, Unread
  <2> QED
    BY <2>1, <2>2, <2>3, <2>4, <2>5 DEF Within
<1>6. HandedOnce'
  BY <1>5 DEF WindowInv, HandedOnce
<1> QED
  BY <1>1, <1>3, <1>4, <1>6 DEF WindowInv

(* getmany: a batch of what its reader had all committed before *)
LEMMA PollIsOneBatch ==
    ASSUME WindowInv, NEW r \in Replicas, Poll(r)
    PROVE  WindowType' /\ CommittedAll' /\ OneBatch'
<1>1. PICK upTo \in [Partitions -> 0..MaxLength] :
         /\ \A p \in Partitions : IF owner[p] = r THEN upTo[p] \in pos[p]..length[p]
                                                  ELSE upTo[p] = pos[p]
         /\ SumFunction([p \in Partitions |-> upTo[p] - pos[p]]) \in 1..MaxBatch
         /\ pos' = upTo
  BY DEF Poll
<1>2. /\ pc[r] = "poll" /\ pc' = [pc EXCEPT ![r] = "batch"]
      /\ length' = length /\ committed' = committed /\ owner' = owner
      /\ tries' = tries /\ generation' = generation
  BY DEF Poll, histVars
<1>3. \A p \in Partitions : /\ upTo[p] \in Nat /\ pos[p] \in Nat /\ pos[p] <= upTo[p]
                            /\ owner[p] # r => upTo[p] = pos[p]
  BY <1>1, ConsumerAssumption DEF WindowInv, WindowType
<1>4. WindowType'
  <2>1. upTo \in [Partitions -> Nat]
    BY <1>3
  <2>2. \A p \in Partitions : committed[p] <= upTo[p]
    BY <1>3 DEF WindowInv, WindowType, NoOffset
  <2> QED
    BY <1>1, <1>2, <2>1, <2>2 DEF WindowInv, WindowType
<1>5. \A p \in Partitions : owner[p] # r => Unacknowledged'[p] = Unacknowledged[p]
  BY <1>1, <1>2, <1>3 DEF Unacknowledged
<1>6. CommittedAll'
  <2>1. \A s \in Replicas : pc'[s] = "poll" => s # r /\ pc[s] = "poll"
    BY <1>2 DEF WindowInv, BatchType
  <2> QED
    BY <1>2, <1>5, <2>1 DEF WindowInv, CommittedAll
<1>7. OneBatch'
  <2> SUFFICES ASSUME NEW s \in Replicas
               PROVE  SumFunctionOnSet(Unacknowledged', Owned(s)) <= MaxBatch
    BY <1>2 DEF OneBatch, Owned
  <2>1. /\ Owned(s) \subseteq Partitions /\ IsFiniteSet(Partitions) /\ IsFiniteSet(Owned(s))
    BY PartitionsOwned DEF WindowInv
  <2>2. \A p \in Partitions : Unacknowledged'[p] \in Nat
    BY <1>4, PartitionsOwned DEF WindowType, Unacknowledged, NoOffset
  <2>3. CASE s = r
    <3> DEFINE read == [p \in Partitions |-> upTo[p] - pos[p]]
    <3>1. \A p \in Partitions : read[p] \in Nat
      BY <1>3
    <3>2. \A p \in Owned(r) : Unacknowledged'[p] <= read[p]
      <4> SUFFICES ASSUME NEW p \in Partitions, owner[p] = r
                   PROVE  Unacknowledged'[p] <= read[p]
        BY DEF Owned
      <4>1. Unacknowledged[p] = 0
        BY <1>2 DEF WindowInv, CommittedAll
      <4>2. committed[p] = NoOffset \/ pos[p] = committed[p]
        <5>1. committed[p] \in Int /\ pos[p] \in Int
          BY DEF WindowInv, WindowType, NoOffset
        <5>2. committed[p] = NoOffset \/ pos[p] - committed[p] = 0
          BY <4>1 DEF Unacknowledged
        <5> QED
          BY <5>1, <5>2
      <4> QED
        BY <1>1, <1>2, <1>3, <4>2 DEF Unacknowledged, WindowInv, WindowType, NoOffset
    <3>3. DOMAIN read = Partitions
      OBVIOUS
    <3> HIDE DEF read
    <3>4. SumFunctionOnSet(Unacknowledged', Owned(r)) <= SumFunctionOnSet(read, Owned(r))
      BY <2>1, <2>2, <2>3, <3>1, <3>2, SumGrows
    <3>5. SumFunctionOnSet(read, Owned(r)) <= SumFunctionOnSet(read, Partitions)
      BY <2>1, <2>3, <3>1, SumOfPart
    <3>6. SumFunctionOnSet(read, Partitions) \in 1..MaxBatch
      BY <1>1, <3>3 DEF SumFunction, read
    <3>7. /\ SumFunctionOnSet(Unacknowledged', Owned(r)) \in Nat
          /\ SumFunctionOnSet(read, Owned(r)) \in Nat
      BY <2>1, <2>2, <2>3, <3>1, SumIsNat
    <3> QED
      BY <2>3, <3>4, <3>5, <3>6, <3>7, ConsumerAssumption
  <2>4. CASE s # r
    <3>1. \A p \in Owned(s) : Unacknowledged'[p] = Unacknowledged[p]
      BY <1>5, <2>4 DEF Owned
    <3>2. SumFunctionOnSet(Unacknowledged', Owned(s)) = SumFunctionOnSet(Unacknowledged, Owned(s))
      BY <2>1, <3>1, SumEqual
    <3> QED
      BY <3>2 DEF WindowInv, OneBatch
  <2> QED
    BY <2>3, <2>4
<1> QED
  BY <1>4, <1>6, <1>7

(* getmany: what was unread is in the hands of its reader *)
LEMMA PollHandsOnce ==
    ASSUME WindowInv, NEW r \in Replicas, Poll(r)
    PROVE  HandedOnce' /\ BatchType' /\ NothingInHand'
<1>1. PICK upTo \in [Partitions -> 0..MaxLength] :
         /\ \A p \in Partitions : IF owner[p] = r THEN upTo[p] \in pos[p]..length[p]
                                                  ELSE upTo[p] = pos[p]
         /\ pos' = upTo
         /\ next' = [next EXCEPT ![r] = pos]
         /\ end' = [end EXCEPT ![r] = upTo]
  BY DEF Poll
<1>2. /\ pc[r] = "poll" /\ pc' = [pc EXCEPT ![r] = "batch"]
      /\ tries' = tries /\ generation' = generation
  BY DEF Poll, histVars
<1>3. /\ \A p \in Partitions : upTo[p] \in Nat /\ pos[p] \in Nat /\ pos[p] <= upTo[p]
      /\ upTo \in [Partitions -> Nat] /\ pos \in [Partitions -> Nat]
  BY <1>1, ConsumerAssumption DEF WindowInv, WindowType
<1>4. BatchType' /\ NothingInHand'
  <2>1. BatchType'
    BY <1>1, <1>2, <1>3 DEF WindowInv, BatchType
  <2>2. NothingInHand'
    BY <1>1, <1>2 DEF WindowInv, NothingInHand, BatchDone, BatchType
  <2> QED
    BY <2>1, <2>2
<1>5. generation # 0 /\ generation \in Nat
  BY <1>2 DEF WindowInv, HandedOnce, WindowType
<1>6. ASSUME NEW p \in Partitions, NEW o \in Offsets PROVE Within(p, o)'
  <2>1. /\ IsFiniteSet(Holders(p, o)) /\ tries[p][o] \in Nat /\ o \in Nat
        /\ tries[p][o] + Cardinality(Holders(p, o)) + Unread(p, o) <= generation
    BY <1>5, ConsumerAssumption DEF WindowInv, HandedOnce, Within, WindowType, Offsets
  <2>2. r \notin Holders(p, o)
    <3>1. next[r][p] = end[r][p] /\ end[r][p] \in Nat
      BY <1>2 DEF WindowInv, NothingInHand, BatchDone, BatchType
    <3> QED
      BY <2>1, <3>1 DEF Holders
  <2>3. /\ \A s \in Replicas : s # r => next'[s] = next[s] /\ end'[s] = end[s]
        /\ next'[r] = pos /\ end'[r] = upTo
    BY <1>1 DEF WindowInv, BatchType
  <2>4. CASE pos[p] <= o /\ o < upTo[p]
    <3>1. Holders(p, o)' = Holders(p, o) \cup {r}
      BY <2>3, <2>4 DEF Holders
    <3>2. Unread(p, o) = 1 /\ Unread(p, o)' = 0
      BY <1>1, <1>3, <2>1, <2>4 DEF Unread
    <3>3. PICK had, has : had = Holders(p, o) /\ has = Holders(p, o)'
      OBVIOUS
    <3>4. IsFiniteSet(has) /\ Cardinality(has) = Cardinality(had) + 1
      BY <2>1, <2>2, <3>1, <3>3, FS_AddElement
    <3>5. Cardinality(had) \in Nat
      BY <2>1, <3>3, FS_CardinalityType
    <3> QED
      BY <1>2, <1>5, <2>1, <3>2, <3>3, <3>4, <3>5 DEF Within
  <2>5. CASE ~(pos[p] <= o /\ o < upTo[p])
    <3>1. Holders(p, o)' = Holders(p, o)
      BY <2>2, <2>3, <2>5 DEF Holders
    <3>2. Unread(p, o)' <= Unread(p, o) /\ Unread(p, o)' \in Nat /\ Unread(p, o) \in Nat
      BY <1>1, <1>3, <2>1, <2>5 DEF Unread
    <3>3. Cardinality(Holders(p, o)) \in Nat
      BY <2>1, FS_CardinalityType
    <3> QED
      BY <1>2, <1>5, <2>1, <3>1, <3>2, <3>3 DEF Within
  <2> QED
    BY <2>4, <2>5
<1>7. HandedOnce'
  BY <1>2, <1>5, <1>6 DEF HandedOnce
<1> QED
  BY <1>4, <1>7

LEMMA HandleHandsOnce ==
    ASSUME WindowInv, NEW r \in Replicas, NEW q \in Partitions, Handle(r, q)
    PROVE  WindowInv'
<1>1. PICK n : n = next[r][q]
  OBVIOUS
<1>2. /\ pc[r] = "batch" /\ pc' = pc /\ n < end[r][q]
      /\ tries' = [tries EXCEPT ![q][n] = @ + 1]
      /\ next' = [next EXCEPT ![r][q] = n + 1]
      /\ end' = end /\ length' = length /\ committed' = committed /\ owner' = owner
      /\ pos' = pos /\ generation' = generation
  BY <1>1 DEF Handle, groupVars
<1>3. n \in Nat
  BY <1>1 DEF WindowInv, BatchType
<1>4. BatchType'
  <2>1. ASSUME NEW m \in Nat PROVE [next EXCEPT ![r][q] = m] \in [Replicas -> [Partitions -> Nat]]
    BY DEF WindowInv, BatchType
  <2> QED
    BY <1>2, <1>3, <2>1 DEF WindowInv, BatchType
<1>5. WindowType'
  <2>1. tries' \in [Partitions -> [Offsets -> Nat]]
    <3>1. tries \in [Partitions -> [Offsets -> Nat]] /\ tries[q] \in [Offsets -> Nat]
      BY DEF WindowInv, WindowType
    <3>2. [tries[q] EXCEPT ![n] = @ + 1] \in [Offsets -> Nat]
      <4> DEFINE t == tries[q]
      <4>1. t \in [Offsets -> Nat] /\ (n \in Offsets => t[n] + 1 \in Nat)
        BY <3>1
      <4> HIDE DEF t
      <4>2. [t EXCEPT ![n] = @ + 1] = [o \in Offsets |-> IF o = n THEN t[n] + 1 ELSE t[o]]
        BY <4>1
      <4>3. [t EXCEPT ![n] = @ + 1] \in [Offsets -> Nat]
        BY <4>1, <4>2
      <4> QED
        BY <4>3 DEF t
    <3>3. tries' = [tries EXCEPT ![q] = [tries[q] EXCEPT ![n] = @ + 1]]
      BY <1>2, <3>1
    <3> QED
      BY <3>1, <3>2, <3>3
  <2> QED
    BY <1>2, <2>1 DEF WindowInv, WindowType
<1>6. NothingInHand'
  <2> SUFFICES ASSUME NEW s \in Replicas, pc[s] # "batch" PROVE BatchDone(s)'
    BY <1>2 DEF NothingInHand
  <2>1. s # r /\ BatchDone(s)
    BY <1>2 DEF WindowInv, NothingInHand
  <2> QED
    BY <1>2, <2>1 DEF BatchDone, WindowInv, BatchType
<1>7. CommittedAll' /\ OneBatch'
  BY <1>2 DEF WindowInv, CommittedAll, OneBatch, Unacknowledged, Owned
<1>8. generation # 0 /\ generation \in Nat
  BY <1>2 DEF WindowInv, HandedOnce, WindowType
<1>9. ASSUME NEW p \in Partitions, NEW o \in Offsets PROVE Within(p, o)'
  <2>1. /\ IsFiniteSet(Holders(p, o)) /\ tries[p][o] \in Nat /\ o \in Nat
        /\ tries[p][o] + Cardinality(Holders(p, o)) + Unread(p, o) <= generation
    BY <1>8, ConsumerAssumption DEF WindowInv, HandedOnce, Within, WindowType, Offsets
  <2>2. Unread(p, o)' = Unread(p, o) /\ Unread(p, o) \in Nat
    BY <1>2 DEF Unread
  <2>3. Cardinality(Holders(p, o)) \in Nat
    BY <2>1, FS_CardinalityType
  <2>4. CASE p = q /\ o = n
    <3>1. tries'[p][o] = tries[p][o] + 1
      BY <1>2, <2>4 DEF WindowInv, WindowType
    <3>2. r \in Holders(p, o) /\ Holders(p, o)' = Holders(p, o) \ {r}
      <4>1. r \in Holders(p, o)
        BY <1>1, <1>2, <1>3, <2>4 DEF Holders
      <4>2. next'[r][q] = n + 1 /\ \A s \in Replicas : s # r => next'[s] = next[s]
        BY <1>2 DEF WindowInv, BatchType
      <4>3. Holders(p, o)' = Holders(p, o) \ {r}
        BY <1>2, <1>3, <2>4, <4>2 DEF Holders
      <4> QED
        BY <4>1, <4>3
    <3>3. PICK had, has : had = Holders(p, o) /\ has = Holders(p, o)'
      OBVIOUS
    <3>4. IsFiniteSet(has) /\ Cardinality(has) = Cardinality(had) - 1
      BY <2>1, <3>2, <3>3, FS_RemoveElement
    <3> QED
      BY <1>2, <1>8, <2>1, <2>2, <2>3, <3>1, <3>3, <3>4 DEF Within
  <2>5. CASE ~(p = q /\ o = n)
    <3>1. tries'[p][o] = tries[p][o]
      BY <1>2, <1>3, <2>5 DEF WindowInv, WindowType
    <3>2. \A s \in Replicas : next'[s][p] <= o <=> next[s][p] <= o
      <4> SUFFICES ASSUME NEW s \in Replicas PROVE next'[s][p] <= o <=> next[s][p] <= o
        OBVIOUS
      <4>1. CASE s = r /\ p = q
        <5>1. next'[s][p] = n + 1
          BY <1>2, <4>1 DEF WindowInv, BatchType
        <5> QED
          BY <1>1, <1>3, <2>1, <2>5, <4>1, <5>1
      <4>2. CASE ~(s = r /\ p = q)
        BY <1>2, <4>2 DEF WindowInv, BatchType
      <4> QED
        BY <4>1, <4>2
    <3>3. Holders(p, o)' = Holders(p, o)
      BY <1>2, <3>2 DEF Holders
    <3> QED
      BY <1>2, <1>8, <2>1, <2>2, <3>1, <3>3 DEF Within
  <2> QED
    BY <2>4, <2>5
<1>10. HandedOnce'
  BY <1>2, <1>8, <1>9 DEF HandedOnce
<1> QED
  BY <1>4, <1>5, <1>6, <1>7, <1>10 DEF WindowInv

LEMMA CommitKeepsWindow ==
    ASSUME WindowInv, NEW r \in Replicas, Commit(r)
    PROVE  WindowInv'
<1>1. /\ pc[r] = "batch" /\ BatchDone(r) /\ pc' = [pc EXCEPT ![r] = "poll"]
      /\ committed' = [p \in Partitions |-> IF owner[p] = r THEN pos[p] ELSE committed[p]]
      /\ length' = length /\ owner' = owner /\ pos' = pos /\ generation' = generation
      /\ next' = next /\ end' = end /\ tries' = tries
  BY DEF Commit, groupVars, histVars
<1>2. WindowType'
  <2>1. \A p \in Partitions : /\ committed'[p] \in Nat \cup {NoOffset}
                              /\ committed'[p] <= pos[p]
    BY <1>1 DEF WindowInv, WindowType
  <2> QED
    BY <1>1, <2>1 DEF WindowInv, WindowType
<1>3. BatchType' /\ NothingInHand'
  BY <1>1 DEF WindowInv, BatchType, NothingInHand, BatchDone
<1>4. \A p \in Partitions : IF owner[p] = r THEN Unacknowledged'[p] = 0
                                            ELSE Unacknowledged'[p] = Unacknowledged[p]
  BY <1>1 DEF Unacknowledged, WindowInv, WindowType
<1>5. CommittedAll'
  <2>1. \A s \in Replicas : pc'[s] = "poll" => s = r \/ pc[s] = "poll"
    BY <1>1 DEF WindowInv, BatchType
  <2> QED
    BY <1>1, <1>4, <2>1 DEF WindowInv, CommittedAll
<1>6. OneBatch'
  <2> SUFFICES ASSUME NEW s \in Replicas
               PROVE  SumFunctionOnSet(Unacknowledged', Owned(s)) <= MaxBatch
    BY <1>1 DEF OneBatch, Owned
  <2>1. Owned(s) \subseteq Partitions /\ IsFiniteSet(Owned(s))
    BY PartitionsOwned DEF WindowInv
  <2>2. CASE s = r
    <3>1. \A p \in Owned(s) : Unacknowledged'[p] = 0
      BY <1>4, <2>2 DEF Owned
    <3>2. SumFunctionOnSet(Unacknowledged', Owned(s)) = 0
      BY <2>1, <3>1, SumZero
    <3> QED
      BY <3>2, ConsumerAssumption
  <2>3. CASE s # r
    <3>1. \A p \in Owned(s) : Unacknowledged'[p] = Unacknowledged[p]
      BY <1>4, <2>3 DEF Owned
    <3>2. SumFunctionOnSet(Unacknowledged', Owned(s)) = SumFunctionOnSet(Unacknowledged, Owned(s))
      BY <2>1, <3>1, SumEqual
    <3> QED
      BY <3>2 DEF WindowInv, OneBatch
  <2> QED
    BY <2>2, <2>3
<1>7. HandedOnce'
  <2>1. \A p, o : Holders(p, o)' = Holders(p, o) /\ Unread(p, o)' = Unread(p, o)
    BY <1>1 DEF Holders, Unread
  <2>2. \A p, o : Within(p, o)' <=> Within(p, o)
    BY <1>1, <2>1 DEF Within
  <2>3. generation # 0
    BY <1>1 DEF WindowInv, HandedOnce
  <2> QED
    BY <1>1, <2>2, <2>3 DEF WindowInv, HandedOnce
<1> QED
  BY <1>2, <1>3, <1>5, <1>6, <1>7 DEF WindowInv

LEMMA AssignKeepsWindow ==
    ASSUME WindowInv, Assign
    PROVE  WindowInv'
<1>1. /\ owner' \in [Partitions -> Replicas]
      /\ pos' = [p \in Partitions |-> StartOf(p)]
      /\ pc' = [r \in Replicas |->
                   IF r \in Members /\ pc[r] = "join" THEN "poll" ELSE pc[r]]
      /\ length' = length /\ committed' = committed /\ generation' = generation + 1
      /\ next' = next /\ end' = end /\ tries' = tries
  BY DEF Assign, Members, histVars
<1>2. \A p \in Partitions : StartOf(p) \in Nat /\ committed[p] <= StartOf(p)
  BY DEF StartOf, WindowInv, WindowType, NoOffset
<1>3. WindowType'
  BY <1>1, <1>2 DEF WindowInv, WindowType
<1>4. BatchType' /\ NothingInHand'
  BY <1>1 DEF WindowInv, BatchType, NothingInHand, BatchDone
<1>5. \A p \in Partitions : Unacknowledged'[p] = 0
  BY <1>1 DEF Unacknowledged, StartOf, WindowInv, WindowType, NoOffset
<1>6. CommittedAll'
  BY <1>5 DEF CommittedAll
<1>7. OneBatch'
  <2> SUFFICES ASSUME NEW s \in Replicas
               PROVE  SumFunctionOnSet(Unacknowledged', Owned(s)') <= MaxBatch
    BY DEF OneBatch
  <2>1. Owned(s)' \subseteq Partitions /\ IsFiniteSet(Partitions)
    BY ConsumerAssumption DEF Owned
  <2>2. IsFiniteSet(Owned(s)') /\ \A p \in Owned(s)' : Unacknowledged'[p] = 0
    BY <1>5, <2>1, FS_Subset
  <2>3. SumFunctionOnSet(Unacknowledged', Owned(s)') = 0
    BY <2>2, SumZero
  <2> QED
    BY <2>3, ConsumerAssumption
<1>8. ASSUME NEW p \in Partitions, NEW o \in Offsets PROVE Within(p, o)'
  <2>1. Within(p, o) /\ tries[p][o] \in Nat /\ generation \in Nat
    BY DEF WindowInv, HandedOnce, WindowType
  <2>2. Holders(p, o)' = Holders(p, o) /\ Cardinality(Holders(p, o)) \in Nat
    BY <1>1, <2>1, FS_CardinalityType DEF Holders, Within
  <2>3. Unread(p, o) \in {0, 1} /\ Unread(p, o)' \in {0, 1}
    BY DEF Unread
  <2>4. CASE generation = 0
    BY <1>1, <2>1, <2>2, <2>3, <2>4, FS_EmptySet DEF Within
  <2>5. CASE generation > 0
    BY <1>1, <2>1, <2>2, <2>3, <2>5 DEF Within
  <2> QED
    BY <2>1, <2>4, <2>5
<1>9. HandedOnce'
  BY <1>1, <1>8 DEF HandedOnce, WindowInv, WindowType
<1> QED
  BY <1>3, <1>4, <1>6, <1>7, <1>9 DEF WindowInv

LEMMA WindowInitially == Init => WindowInv
<1> SUFFICES ASSUME Init PROVE WindowInv
  OBVIOUS
<1>1. WindowType /\ BatchType
  BY ConsumerAssumption DEF Init, WindowType, BatchType, NoOffset, Offsets
<1>2. NothingInHand /\ CommittedAll
  BY DEF Init, NothingInHand, BatchDone, CommittedAll
<1>3. OneBatch
  <2> SUFFICES ASSUME NEW s \in Replicas
               PROVE  SumFunctionOnSet(Unacknowledged, Owned(s)) <= MaxBatch
    BY DEF OneBatch
  <2>1. IsFiniteSet(Owned(s)) /\ Owned(s) \subseteq Partitions
    BY <1>1, PartitionsOwned
  <2>2. \A p \in Owned(s) : Unacknowledged[p] = 0
    BY <2>1, ConsumerAssumption DEF Unacknowledged, Init, NoOffset
  <2>3. SumFunctionOnSet(Unacknowledged, Owned(s)) = 0
    BY <2>1, <2>2, SumZero
  <2> QED
    BY <2>3, ConsumerAssumption
<1>4. HandedOnce
  <2>1. \A p \in Partitions : \A o \in Offsets : Holders(p, o) = {}
    BY ConsumerAssumption DEF Init, Holders, Offsets
  <2>2. generation = 0 /\ \A r \in Replicas : pc[r] = "join"
    BY DEF Init
  <2>3. \A p \in Partitions : \A o \in Offsets : tries[p][o] = 0
    BY DEF Init, Offsets
  <2>4. \A p \in Partitions : \A o \in Offsets : Within(p, o)
    BY <2>1, <2>2, <2>3, FS_EmptySet DEF Within
  <2> QED
    BY <2>2, <2>4 DEF HandedOnce
<1> QED
  BY <1>1, <1>2, <1>3, <1>4 DEF WindowInv

LEMMA WindowStep == WindowInv /\ [Next]_vars => WindowInv'
<1> SUFFICES ASSUME WindowInv, [Next]_vars PROVE WindowInv'
  OBVIOUS
<1> USE DEF groupVars, loopVars, histVars
<1>1. ASSUME NEW p \in Partitions, Publish(p) PROVE WindowInv'
  <2>1. length' \in [Partitions -> Nat]
    BY <1>1 DEF Publish, WindowInv, WindowType
  <2>2. BatchType' /\ NothingInHand'
    BY <1>1 DEF Publish, WindowInv, BatchType, NothingInHand, BatchDone
  <2> QED
    BY <1>1, <2>1, <2>2, RestKeeps DEF Publish
<1>2. ASSUME NEW r \in Replicas, Poll(r) PROVE WindowInv'
  BY <1>2, PollIsOneBatch, PollHandsOnce DEF WindowInv
<1>3. ASSUME NEW r \in Replicas, NEW p \in Partitions, Handle(r, p) PROVE WindowInv'
  BY <1>3, HandleHandsOnce
<1>4. ASSUME NEW r \in Replicas, Commit(r) PROVE WindowInv'
  BY <1>4, CommitKeepsWindow
<1>5. ASSUME NEW r \in Replicas, Stopped(r) \/ Start(r) \/ Break(r) \/ Stop(r) \/ Crash(r)
      PROVE  WindowInv'
  <2>1. /\ committed' = committed /\ owner' = owner /\ pos' = pos /\ length' = length
        /\ tries' = tries /\ generation' = generation /\ end' = end
    BY <1>5 DEF Stopped, Start, Break, Stop, Crash
  <2>2. length' \in [Partitions -> Nat]
    BY <2>1 DEF WindowInv, WindowType
  <2>3. BatchType' /\ \A s \in Replicas : pc'[s] \in {"poll", "batch"} => pc[s] = pc'[s]
    BY <1>5 DEF Stopped, Start, Break, Stop, Crash, WindowInv, BatchType
  <2>4. \A s \in Replicas : next'[s] = next[s] \/ BatchDone(s)'
    BY <1>5, <2>1 DEF Stopped, Start, Break, Stop, Crash, WindowInv, BatchType, BatchDone
  <2>5. NothingInHand'
    <3>1. \A s \in Replicas : s # r => pc'[s] = pc[s] /\ next'[s] = next[s]
      BY <1>5 DEF Stopped, Start, Break, Stop, Crash, WindowInv, BatchType
    <3>2. \A s \in Replicas : s # r /\ pc'[s] # "batch" => BatchDone(s)'
      BY <2>1, <3>1 DEF WindowInv, NothingInHand, BatchDone
    <3>3. pc'[r] # "batch" => BatchDone(r)'
      <4>1. CASE Stopped(r) \/ Start(r) \/ Break(r)
        BY <4>1, <2>1 DEF Stopped, Start, Break, AtBroker, BatchDone, WindowInv, NothingInHand
      <4>2. CASE Stop(r)
        BY <4>2, <2>1 DEF Stop, BatchDone, WindowInv, NothingInHand
      <4>3. CASE Crash(r)
        BY <4>3, <2>1 DEF Crash, BatchDone, WindowInv, BatchType
      <4> QED
        BY <1>5, <4>1, <4>2, <4>3
    <3> QED
      BY <3>2, <3>3 DEF NothingInHand
  <2> QED
    BY <2>1, <2>2, <2>3, <2>4, <2>5, RestKeeps
<1>6. CASE Rebalance
  BY <1>6, AssignKeepsWindow DEF Rebalance
<1>7. CASE UNCHANGED vars
  <2>1. /\ committed' = committed /\ owner' = owner /\ pos' = pos /\ length' = length
        /\ tries' = tries /\ generation' = generation /\ end' = end /\ next' = next /\ pc' = pc
    BY <1>7 DEF vars
  <2>2. length' \in [Partitions -> Nat] /\ BatchType' /\ NothingInHand'
    BY <2>1 DEF WindowInv, WindowType, BatchType, NothingInHand, BatchDone
  <2> QED
    BY <2>1, <2>2, RestKeeps
<1> QED
  BY <1>1, <1>2, <1>3, <1>4, <1>5, <1>6, <1>7 DEF Next, Work

(* What a restart has the group replay is at most one batch of each         *)
(* replica, and a message is handed over once per generation at most, for   *)
(* any number of replicas, partitions, messages and crashes                 *)
(* (BATCH_MAX_RECORDS; EventConsumer.run, getmany to commit).               *)
THEOREM BatchBoundsReplay == Spec => []ReplayWindow
<1>1. WindowInv => ReplayWindow
  BY WindowGives
<1> QED
  BY <1>1, WindowInitially, WindowStep, PTL DEF Spec
=============================================================================
