---------------------------- MODULE AtLeastOnce ----------------------------
(***************************************************************************)
(* What a consumer group promises the services ("at-least-once",           *)
(* kafka/consumer.py): a message may be handed to a handler any number of  *)
(* times, and the group gives up asking for it only after it was handed    *)
(* over once.                                                              *)
(***************************************************************************)
EXTENDS Integers

CONSTANT Partitions

VARIABLES
    length,   \* messages published per partition: offsets 0..length-1
    handed,   \* messages that were handed to a handler: <<partition, offset>>
    settled   \* per partition, the offset below which nothing is redelivered

Init ==
    /\ length = [p \in Partitions |-> 0]
    /\ handed = {}
    /\ settled = [p \in Partitions |-> 0]

Publish(p) ==
    /\ length' = [length EXCEPT ![p] = @ + 1]
    /\ UNCHANGED <<handed, settled>>

Hand(p, o) ==
    /\ o \in 0..(length[p] - 1)
    /\ handed' = handed \cup {<<p, o>>}
    /\ UNCHANGED <<length, settled>>

(* Several partitions at once; offsets never go back *)
Settle ==
    /\ \A p \in Partitions :
          /\ settled[p] <= settled'[p] /\ settled'[p] <= length[p]
          /\ \A o \in 0..(settled'[p] - 1) : <<p, o>> \in handed
    /\ UNCHANGED <<length, handed>>

Next ==
    \/ \E p \in Partitions : Publish(p) \/ \E o \in 0..(length[p] - 1) : Hand(p, o)
    \/ Settle

Spec == Init /\ [][Next]_<<length, handed, settled>>
=============================================================================
