--------------------------- MODULE EventConsumer ---------------------------
(***************************************************************************)
(* EventConsumer (libs/cmi_common/cmi_common/kafka/consumer.py), the loop  *)
(* every service consumes Kafka with, run by the replicas of one group.    *)
(*                                                                         *)
(* A message is its partition and offset.  getmany moves the position of   *)
(* the partitions a replica owns; the messages it returned are handed to   *)
(* the handler in order, one partition after the other; then commit()      *)
(* commits the positions of the partitions the replica owns BY THEN.  A    *)
(* rebalance runs in the background, also while a batch is being handled:  *)
(* it gives every partition an owner and resets its position to the        *)
(* committed offset, and the batch in hand is handled to its end.          *)
(***************************************************************************)
EXTENDS Integers, FiniteSets, Functions

CONSTANTS
    Replicas, Partitions,
    Reset,           \* auto_offset_reset: "latest" or "earliest"
    FirstOffset,     \* committed offset of the group at the start, or NoOffset
    MaxBatch,        \* BATCH_MAX_RECORDS
    MaxLength,       \* bound: messages per partition
    MaxCrashes,      \* bound: crashes, stops and broken loops
    MaxRebalances,   \* bound: rebalances that no change of members called for
    MayBreak         \* whether getmany or commit may raise

NoOffset == -1

ASSUME ConsumerAssumption ==
    /\ Reset \in {"latest", "earliest"} /\ FirstOffset \in {0, NoOffset}
    /\ IsFiniteSet(Partitions) /\ MaxBatch \in Nat \ {0} /\ MaxLength \in Nat
    /\ MaxCrashes \in Nat /\ MaxRebalances \in Nat /\ MayBreak \in BOOLEAN

VARIABLES
    length,      \* messages published per partition
    committed,   \* the group's committed offset per partition
    owner, pos,  \* per partition: the replica it is assigned to, its position
    stable,      \* no member came or went since the last rebalance
    pc,          \* per replica: join, poll, batch, down or dead
    stopping,    \* replicas whose stop() was called
    next, end,   \* per replica and partition: the part of its batch in hand
    crashes, rebalances,
    \* history
    handed,      \* messages handed to a handler
    tries,       \* per message: how often
    generation   \* rebalances so far, those of members included

vars == <<length, committed, owner, pos, stable, pc, stopping, next, end, crashes,
          rebalances, handed, tries, generation>>
groupVars == <<owner, pos, stable, rebalances, generation>>
loopVars == <<pc, stopping, next, end, crashes>>
histVars == <<handed, tries>>

Members == {r \in Replicas : pc[r] \in {"join", "poll", "batch"}} \ stopping
Owned(r) == {p \in Partitions : owner[p] = r}
BatchDone(r) == \A p \in Partitions : next[r][p] = end[r][p]
AtBroker(r) == pc[r] = "poll" \/ (pc[r] = "batch" /\ BatchDone(r))

Publish(p) ==
    /\ length[p] < MaxLength
    /\ length' = [length EXCEPT ![p] = @ + 1]
    /\ UNCHANGED <<committed, groupVars, loopVars, histVars>>

(* getmany that returns records; an empty one changes nothing *)
Poll(r) ==
    /\ pc[r] = "poll" /\ r \notin stopping
    /\ \E upTo \in [Partitions -> 0..MaxLength] :
          /\ \A p \in Partitions : IF owner[p] = r THEN upTo[p] \in pos[p]..length[p]
                                                   ELSE upTo[p] = pos[p]
          /\ SumFunction([p \in Partitions |-> upTo[p] - pos[p]]) \in 1..MaxBatch
          /\ pos' = upTo
          /\ next' = [next EXCEPT ![r] = pos]
          /\ end' = [end EXCEPT ![r] = upTo]
    /\ pc' = [pc EXCEPT ![r] = "batch"]
    /\ UNCHANGED <<length, committed, owner, stable, rebalances, generation,
                   stopping, crashes, histVars>>

(* Mutant of Handle: the first message takes the rest of its batch with it *)
HandleDroppingBatch(r, p) ==
    LET o == next[r][p] IN
    /\ pc[r] = "batch" /\ o < end[r][p]
    /\ handed' = handed \cup {<<p, o>>}
    /\ tries' = [tries EXCEPT ![p][o] = @ + 1]
    /\ next' = [next EXCEPT ![r][p] = end[r][p]]
    /\ UNCHANGED <<length, committed, groupVars, pc, stopping, end, crashes>>

(* Mutant of Handle: a message whose handler raised is handed over again *)
HandleRetrying(r, p) ==
    LET o == next[r][p] IN
    /\ pc[r] = "batch" /\ o < end[r][p]
    /\ handed' = handed \cup {<<p, o>>}
    /\ tries' = [tries EXCEPT ![p][o] = @ + 1]
    /\ next' \in {next, [next EXCEPT ![r][p] = @ + 1]}
    /\ UNCHANGED <<length, committed, groupVars, pc, stopping, end, crashes>>

(* The handler returns, or raises and the message is logged and skipped:    *)
(* the loop goes on with the next one either way                            *)
Handle(r, p) ==
    LET o == next[r][p] IN
    /\ pc[r] = "batch" /\ o < end[r][p]
    /\ handed' = handed \cup {<<p, o>>}
    /\ tries' = [tries EXCEPT ![p][o] = @ + 1]
    /\ next' = [next EXCEPT ![r][p] = o + 1]
    /\ UNCHANGED <<length, committed, groupVars, pc, stopping, end, crashes>>

(* Mutant of Commit: nothing is committed when a batch ends *)
CommitNothing(r) ==
    /\ pc[r] = "batch" /\ BatchDone(r) /\ r \notin stopping
    /\ pc' = [pc EXCEPT ![r] = "poll"]
    /\ UNCHANGED <<length, committed, groupVars, stopping, next, end, crashes, histVars>>

(* Mutant of Commit: the offset after the next message is committed *)
CommitOneAhead(r) ==
    /\ pc[r] = "batch" /\ BatchDone(r) /\ r \notin stopping
    /\ committed' = [p \in Partitions |-> IF owner[p] = r THEN pos[p] + 1 ELSE committed[p]]
    /\ pc' = [pc EXCEPT ![r] = "poll"]
    /\ UNCHANGED <<length, groupVars, stopping, next, end, crashes, histVars>>

Commit(r) ==
    /\ pc[r] = "batch" /\ BatchDone(r) /\ r \notin stopping
    /\ committed' = [p \in Partitions |-> IF owner[p] = r THEN pos[p] ELSE committed[p]]
    /\ pc' = [pc EXCEPT ![r] = "poll"]
    /\ UNCHANGED <<length, groupVars, stopping, next, end, crashes, histVars>>

(* getmany or commit raises: nothing catches it, run() ends and stops the   *)
(* consumer, and the process lives on                                       *)
Break(r) ==
    /\ MayBreak /\ crashes < MaxCrashes
    /\ AtBroker(r)
    /\ pc' = [pc EXCEPT ![r] = "dead"]
    /\ crashes' = crashes + 1 /\ stable' = FALSE
    /\ UNCHANGED <<length, committed, owner, pos, rebalances, generation, stopping,
                   next, end, histVars>>

(* stop(): the consumer leaves the group at once, whatever run() is doing;  *)
(* the batch in hand is handled to its end and its commit fails             *)
Stop(r) ==
    /\ r \in Members /\ crashes < MaxCrashes
    /\ stopping' = stopping \cup {r}
    /\ crashes' = crashes + 1 /\ stable' = FALSE
    /\ UNCHANGED <<length, committed, owner, pos, rebalances, generation, pc, next,
                   end, histVars>>

Stopped(r) ==
    /\ r \in stopping
    /\ pc[r] = "join" \/ AtBroker(r)
    /\ pc' = [pc EXCEPT ![r] = "down"]
    /\ stopping' = stopping \ {r}
    /\ UNCHANGED <<length, committed, groupVars, next, end, crashes, histVars>>

Crash(r) ==
    /\ pc[r] # "down" /\ crashes < MaxCrashes
    /\ pc' = [pc EXCEPT ![r] = "down"]
    /\ stopping' = stopping \ {r}
    /\ next' = [next EXCEPT ![r] = end[r]]
    /\ crashes' = crashes + 1 /\ stable' = FALSE
    /\ UNCHANGED <<length, committed, owner, pos, rebalances, generation, end, histVars>>

Start(r) ==
    /\ pc[r] = "down"
    /\ pc' = [pc EXCEPT ![r] = "join"]
    /\ stable' = FALSE
    /\ UNCHANGED <<length, committed, owner, pos, rebalances, generation, stopping,
                   next, end, crashes, histVars>>

(* Mutant of StartOf: a partition resumes where its last owner had read to *)
StartAtPosition(p) == pos[p]

(* Where a new owner of p starts *)
StartOf(p) == IF committed[p] # NoOffset THEN committed[p]
              ELSE IF Reset = "latest" THEN length[p] ELSE 0

(* Every member came back to the coordinator and was told its partitions *)
Assign ==
    /\ Members # {}
    /\ owner' \in [Partitions -> Members]
    /\ pos' = [p \in Partitions |-> StartOf(p)]
    /\ pc' = [r \in Replicas |->
                 IF r \in Members /\ pc[r] = "join" THEN "poll" ELSE pc[r]]
    /\ stable' = TRUE
    /\ generation' = generation + 1
    /\ UNCHANGED <<length, committed, stopping, next, end, crashes, histVars>>

(* Members came or went; or a slow handler outlived max_poll_interval_ms *)
Rebalance ==
    /\ Assign
    /\ \/ ~stable /\ UNCHANGED rebalances
       \/ stable /\ rebalances < MaxRebalances /\ rebalances' = rebalances + 1

-----------------------------------------------------------------------------
Init ==
    /\ length = [p \in Partitions |-> 0]
    /\ committed = [p \in Partitions |-> FirstOffset]
    /\ owner \in [Partitions -> Replicas]
    /\ pos = [p \in Partitions |-> 0]
    /\ stable = FALSE
    /\ pc = [r \in Replicas |-> "join"] /\ stopping = {}
    /\ next = [r \in Replicas |-> [p \in Partitions |-> 0]]
    /\ end = [r \in Replicas |-> [p \in Partitions |-> 0]]
    /\ crashes = 0 /\ rebalances = 0 /\ generation = 0
    /\ handed = {}
    /\ tries = [p \in Partitions |-> [o \in 0..MaxLength |-> 0]]

Work(r) == Poll(r) \/ (\E p \in Partitions : Handle(r, p)) \/ Commit(r) \/ Stopped(r)

Next ==
    \/ \E p \in Partitions : Publish(p)
    \/ \E r \in Replicas : Work(r) \/ Start(r) \/ Break(r) \/ Stop(r) \/ Crash(r)
    \/ Rebalance

Spec == Init /\ [][Next]_vars

(* The loop of a live replica runs on, the container runtime restarts what  *)
(* went down, and the coordinator assigns the partitions after a change.    *)
FairSpec ==
    /\ Spec
    /\ \A r \in Replicas : WF_vars(Work(r)) /\ WF_vars(Start(r))
    /\ WF_vars(Rebalance /\ ~stable)

-----------------------------------------------------------------------------
(* Properties *)

Offsets == 0..MaxLength

(* Every variable has its type.                                             *)
TypeOK ==
    /\ length \in [Partitions -> Offsets]
    /\ committed \in [Partitions -> Offsets \cup {NoOffset}]
    /\ owner \in [Partitions -> Replicas] /\ pos \in [Partitions -> Offsets]
    /\ stable \in BOOLEAN
    /\ pc \in [Replicas -> {"join", "poll", "batch", "down", "dead"}]
    /\ stopping \subseteq Replicas
    /\ next \in [Replicas -> [Partitions -> Offsets]]
    /\ end \in [Replicas -> [Partitions -> Offsets]]
    /\ crashes \in 0..MaxCrashes /\ rebalances \in 0..MaxRebalances
    /\ handed \subseteq Partitions \X Offsets
    /\ tries \in [Partitions -> [Offsets -> Nat]] /\ generation \in Nat

(* The group is at-least-once: an offset is committed only when every       *)
(* message below it was handed to a handler, whatever rebalance, crash or   *)
(* stop falls into a batch, and commits never go back.                      *)
Contract == INSTANCE AtLeastOnce WITH
    settled <- [p \in Partitions |-> IF committed[p] = NoOffset THEN 0 ELSE committed[p]]
IsAtLeastOnce == Contract!Spec

(* What was read of a partition and is not committed *)
Unacknowledged ==
    [p \in Partitions |-> IF committed[p] = NoOffset THEN 0 ELSE pos[p] - committed[p]]

(* "The batch bounds one offset commit" (BATCH_MAX_RECORDS): what a restart *)
(* of a replica has the group replay is at most one batch, and without a    *)
(* rebalance nothing is handled twice: a message is handed over once per    *)
(* generation of the group at most.                                         *)
ReplayWindow ==
    /\ \A r \in Replicas : SumFunctionOnSet(Unacknowledged, Owned(r)) <= MaxBatch
    /\ \A p \in Partitions : \A o \in Offsets : tries[p][o] <= generation

(* The group catches up: again and again every message published has been   *)
(* handed to a handler, as long as the loop of some replica has not ended   *)
(* with an exception; crashes, stops and rebalances only delay it.          *)
EveryMessageHandled ==
    []<>(\/ \A p \in Partitions : \A o \in 0..(length[p] - 1) : <<p, o>> \in handed
         \/ \A r \in Replicas : pc[r] = "dead")

=============================================================================
