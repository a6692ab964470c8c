------------------------------- MODULE Fanout -------------------------------
(***************************************************************************)
(* websocket-gateway: one task consumes the topics and broadcasts each     *)
(* message as a frame to every socket registered (consumer.py,             *)
(* manager.py), while each socket has a handler of its own that registers  *)
(* it, waits for it to close and takes it out again (main.py).             *)
(*                                                                         *)
(* Frames are numbered in the order the task consumes them.  A socket has  *)
(* one life: the terminal opens another one when it reconnects.  Whether a *)
(* token is valid, the encoding and the lock, which no holder keeps over   *)
(* an await of its own, are left out.                                      *)
(***************************************************************************)
EXTENDS Faults, FiniteSets, SequencesExt

(* The faults counted: frames that cannot be built, restarts *)
CONSTANTS
    Sockets,
    MaxFrames   \* bound: messages published

VARIABLES
    offered,        \* messages on the topics
    castPos,        \* position of the consumer
    castCommitted,  \* position committed (enable_auto_commit)
    casting,        \* the broadcast in hand: the frame, sockets still to send to, those
                    \* whose send raised, if there is one
    connections,    \* _connections
    socket,         \* per socket "new", "accepted", "open", "lost" or "closed"
    received,       \* per socket the frames it got
    casts,          \* history: frames that went out, in order
    joined          \* history: how many of them before the socket was registered

fanVars ==
    <<offered, castPos, castCommitted, casting, connections, socket, received, casts, joined,
      faults>>
-----------------------------------------------------------------------------
(* The consumer *)

Offer ==
    /\ offered < MaxFrames /\ offered' = offered + 1
    /\ UNCHANGED <<castPos, castCommitted, casting, connections, socket, received, casts,
                   joined, faults>>

(* broadcast sends to those registered at that moment *)
Broadcast ==
    /\ casting = {} /\ castPos < offered
    /\ castPos' = castPos + 1
    /\ casting' = IF connections = {} THEN {}
                  ELSE {[frame |-> castPos', pending |-> connections, dead |-> {}]}
    /\ casts' = Append(casts, castPos')
    /\ UNCHANGED <<offered, castCommitted, connections, socket, received, joined, faults>>

(* A value that is no JSON: the loop logs it and goes on *)
FrameFails ==
    /\ casting = {} /\ castPos < offered /\ Fault
    /\ castPos' = castPos + 1
    /\ UNCHANGED <<offered, castCommitted, casting, connections, socket, received, casts, joined>>

Casting(b) == casting' = {b}

(* The sends run concurrently; one to a socket that is gone raises *)
SendTo(c) ==
    /\ \E b \in casting :
          /\ c \in b.pending
          /\ IF socket[c] = "open"
             THEN /\ received' = [received EXCEPT ![c] = Append(@, b.frame)]
                  /\ Casting([b EXCEPT !.pending = @ \ {c}])
             ELSE /\ Casting([b EXCEPT !.pending = @ \ {c}, !.dead = @ \cup {c}])
                  /\ UNCHANGED received
    /\ UNCHANGED <<offered, castPos, castCommitted, connections, socket, casts, joined, faults>>

(* Mutant of EndBroadcast: the first send to raise ends the broadcast *)
EndAtFirst ==
    /\ \E b \in casting :
          /\ b.pending = {} \/ b.dead # {}
          /\ connections' = connections \ b.dead
    /\ casting' = {}
    /\ UNCHANGED <<offered, castPos, castCommitted, socket, received, casts, joined, faults>>

(* All have ended (gather), and the dead ones are pruned *)
EndBroadcast ==
    /\ \E b \in casting : b.pending = {} /\ connections' = connections \ b.dead
    /\ casting' = {}
    /\ UNCHANGED <<offered, castPos, castCommitted, socket, received, casts, joined, faults>>

AutoCommit ==
    /\ castCommitted < castPos /\ castCommitted' = castPos
    /\ UNCHANGED <<offered, castPos, casting, connections, socket, received, casts, joined,
                   faults>>

-----------------------------------------------------------------------------
(* The handler of a socket *)

Accept(c) ==
    /\ socket[c] = "new" /\ socket' = [socket EXCEPT ![c] = "accepted"]
    /\ UNCHANGED <<offered, castPos, castCommitted, casting, connections, received, casts,
                   joined, faults>>

Register(c) ==
    /\ socket[c] = "accepted" /\ socket' = [socket EXCEPT ![c] = "open"]
    /\ connections' = connections \cup {c}
    /\ joined' = [joined EXCEPT ![c] = Len(casts)]
    /\ UNCHANGED <<offered, castPos, castCommitted, casting, received, casts, faults>>

(* The terminal goes, which a send or the handler will find *)
GoAway(c) ==
    /\ socket[c] = "open" /\ socket' = [socket EXCEPT ![c] = "lost"]
    /\ UNCHANGED <<offered, castPos, castCommitted, casting, connections, received, casts,
                   joined, faults>>

Disconnect(c) ==
    /\ socket[c] = "lost" /\ socket' = [socket EXCEPT ![c] = "closed"]
    /\ connections' = connections \ {c}
    /\ UNCHANGED <<offered, castPos, castCommitted, casting, received, casts, joined, faults>>

(* The process restarts: all sockets close, and consuming resumes where the *)
(* position was last committed                                              *)
GatewayRestart ==
    /\ Fault
    /\ castPos' = castCommitted /\ casting' = {} /\ connections' = {}
    /\ socket' = [c \in Sockets |-> IF socket[c] = "new" THEN "new" ELSE "closed"]
    /\ UNCHANGED <<offered, castCommitted, received, casts, joined>>

-----------------------------------------------------------------------------
FanInit ==
    /\ offered = 0 /\ castPos = 0 /\ castCommitted = 0 /\ casting = {} /\ connections = {}
    /\ socket = [c \in Sockets |-> "new"] /\ received = [c \in Sockets |-> <<>>]
    /\ casts = <<>> /\ joined = [c \in Sockets |-> 0] /\ faults = 0

FanNext ==
    \/ Offer \/ Broadcast \/ FrameFails \/ EndBroadcast \/ AutoCommit \/ GatewayRestart
    \/ \E c \in Sockets : SendTo(c) \/ Accept(c) \/ Register(c) \/ GoAway(c) \/ Disconnect(c)

FanSpec == FanInit /\ [][FanNext]_fanVars

-----------------------------------------------------------------------------
(* Properties *)

(* A socket that is open has got every frame that went out since it was     *)
(* registered, once and in order, but for the one that is being sent,       *)
(* whichever other sockets come, go or fail meanwhile; and none that is     *)
(* open is taken out of the registry ("a dead client never blocks the       *)
(* fan-out", manager.py:6).                                                 *)
EveryFrameInOrder ==
    \A c \in Sockets : socket[c] = "open" =>
        /\ c \in connections
        /\ LET owed == SubSeq(casts, joined[c] + 1, Len(casts))
               sending == \E b \in casting : c \in b.pending
           IN received[c] = IF sending THEN Front(owed) ELSE owed
=============================================================================
