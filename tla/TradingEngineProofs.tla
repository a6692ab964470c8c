------------------------ MODULE TradingEngineProofs ------------------------
(***************************************************************************)
(* Proofs about TradingEngine, for every set of signals, pairs and         *)
(* commands, any number of restarts and any limit.                         *)
(***************************************************************************)
EXTENDS TradingEngine, TLAPS

USE DEF Tasks

(* The steps whose handler works on an event *)
EventPCs == {"dup", "equity", "queue", "enlist", "emit_pending", "mark", "entry",
             "emit_submitted", "stop", "target", "track", "record", "emit_filled",
             "reject", "fetch", "unqueue", "fetchpos", "close", "cancel_sl",
             "send_sl", "cancel_tp", "send_tp"}

(* The steps before an opening order that a manual order shares *)
SharedPCs == {"load", "guard", "expire"}

(* A handler at a step that needs an event has one; only a manual order     *)
(* goes without                                                             *)
HasEvent(t) ==
    /\ task[t].pc \in EventPCs => task[t].sig \in Signals
    /\ task[t].pc \in SharedPCs => task[t].sig \in Signals \/ Manual(t)
    /\ task[t].pc = "manual" => Manual(t)

HandlersHaveEvents ==
    /\ task["signals"].cmd = NoCommand
    /\ \A t \in Tasks : HasEvent(t)
    /\ rec.pc \in {"forget", "free", "untrack", "emit_closed"} => rec.sig \in Signals

TypeInv == TypeOK /\ HandlersHaveEvents

(* The bound on the frees that OnClosed counts is a natural number. *)
LEMMA FreedBound == MaxFreed \in Nat
BY ConstantsAssumption DEF MaxFreed

(* What a control command carries *)
LEMMA CommandFields ==
    ASSUME NEW c \in Command
    PROVE  /\ c.cmd = "set_mode" => c.mode \in Modes
           /\ c.cmd \in {"set_kill_switch", "set_auto_trading"} => c.enabled \in BOOLEAN
           /\ c.cmd = "set_caps" => c.limit \in 0..MaxLimit
           /\ c.cmd = "manual_order" => c.pair \in Pairs \cup {NoPair}
           /\ "sig" \in DOMAIN c => c.sig \in Signals
           /\ c.cmd \in {"approve_opportunity", "reject_opportunity", "close_position",
                         "adjust_sltp"} => "sig" \in DOMAIN c
           /\ c.cmd \notin Settings \cup {"approve_opportunity", "reject_opportunity",
                   "close_position", "adjust_sltp"} => c.cmd = "manual_order"
BY DEF Command, Settings

-----------------------------------------------------------------------------
(* How the steps move a task.  Moved(t, p): t is at p, its locals and the   *)
(* other task are as they were.                                             *)

Moved(t, p) ==
    /\ task' \in [Tasks -> TaskType]
    /\ task'[t].pc = p
    /\ task'[t].sig = task[t].sig /\ task'[t].cmd = task[t].cmd
    /\ task'[t].cfg = task[t].cfg /\ task'[t].cur = task[t].cur
    /\ \A u \in Tasks \ {t} : task'[u] = task[u]

Ended(t) ==
    /\ task' \in [Tasks -> TaskType]
    /\ task'[t] = IdleTask
    /\ \A u \in Tasks \ {t} : task'[u] = task[u]

LEMMA IdleTaskType == IdleTask \in TaskType
BY ConstantsAssumption DEF TaskType, IdleTask, PCs

LEMMA GotoMoves ==
    ASSUME task \in [Tasks -> TaskType], NEW t \in Tasks, NEW p \in PCs, Goto(t, p)
    PROVE  Moved(t, p)
<1>1. [task[t] EXCEPT !.pc = p] \in TaskType
  BY DEF TaskType
<1>2. task' = [task EXCEPT ![t] = [task[t] EXCEPT !.pc = p]]
  BY DEF Goto
<1>3. task'[t] = [task[t] EXCEPT !.pc = p]
  BY <1>2
<1> QED
  BY <1>1, <1>2, <1>3 DEF Moved, TaskType

LEMMA IdleEnds ==
    ASSUME task \in [Tasks -> TaskType], NEW t \in Tasks,
           task' = [task EXCEPT ![t] = IdleTask]
    PROVE  Ended(t)
BY IdleTaskType DEF Ended

LEMMA ReturnEnds ==
    ASSUME task \in [Tasks -> TaskType], NEW t \in Tasks, Return(t)
    PROVE  IF t = "control" THEN Moved(t, "refresh") ELSE Ended(t)
<1>1. "refresh" \in PCs
  BY DEF PCs
<1> QED
  BY <1>1, GotoMoves, IdleEnds DEF Return

LEMMA LoadMoves ==
    ASSUME TypeOK, NEW t \in Tasks, LoadConfig(t)
    PROVE  /\ task' \in [Tasks -> TaskType]
           /\ task'[t].pc = "guard" /\ task'[t].cfg = runtime
           /\ task'[t].sig = task[t].sig /\ task'[t].cmd = task[t].cmd
           /\ \A u \in Tasks \ {t} : task'[u] = task[u]
<1> DEFINE r == [task[t] EXCEPT !.cfg = runtime, !.pc = "guard"]
<1>1. task \in [Tasks -> TaskType] /\ runtime \in Config /\ "guard" \in PCs
  BY DEF TypeOK, ProcessOK, StoreOK, PCs
<1>2. r \in TaskType
  BY <1>1 DEF TaskType
<1>3. task' = [task EXCEPT ![t] = r]
  BY <1>1 DEF LoadConfig, TaskType
<1> QED
  BY <1>1, <1>2, <1>3 DEF TaskType

(* The three ways check_guards goes on: refused by the kill switch, first   *)
(* of its window, or judged by the limit                                    *)
LEMMA AfterTokenPC ==
    ASSUME NEW t \in Tasks, NEW n
    PROVE  /\ AfterToken(t, n) \in {"refresh", "reject", "manual", "equity"}
           /\ AfterToken(t, n) \in {"refresh", "manual"} <=> Manual(t)
           /\ AfterToken(t, n) \in {"manual", "equity"} => ~(n > task[t].cfg.limit)
BY DEF AfterToken, Refused

LEMMA GuardMoves ==
    ASSUME TypeOK, NEW t \in Tasks, Guard(t)
    PROVE  \/ /\ ~task[t].cfg.enabled /\ UNCHANGED rate
              /\ Moved(t, Refused(t))
           \/ /\ task[t].cfg.enabled /\ rate' = rate + 1
              /\ task' \in [Tasks -> TaskType]
              /\ task'[t].pc = IF rate = 0 THEN "expire" ELSE AfterToken(t, rate + 1)
              /\ task'[t].cur = rate + 1
              /\ task'[t].sig = task[t].sig /\ task'[t].cmd = task[t].cmd
              /\ task'[t].cfg = task[t].cfg
              /\ \A u \in Tasks \ {t} : task'[u] = task[u]
<1> DEFINE p == IF rate = 0 THEN "expire" ELSE AfterToken(t, rate + 1)
           r == [task[t] EXCEPT !.cur = rate + 1, !.pc = p]
<1>1. task \in [Tasks -> TaskType] /\ rate \in Nat
  BY DEF TypeOK, ProcessOK, StoreOK
<1>2. Refused(t) \in PCs /\ p \in PCs
  BY AfterTokenPC DEF Refused, PCs
<1> HIDE DEF p
<1>3. CASE ~task[t].cfg.enabled
  BY <1>1, <1>2, <1>3, GotoMoves DEF Guard
<1>4. CASE task[t].cfg.enabled
  <2>1. r \in TaskType
    <3>1. ASSUME NEW n \in Nat PROVE [task[t] EXCEPT !.cur = n, !.pc = p] \in TaskType
      BY <1>1, <1>2 DEF TaskType
    <3>2. rate + 1 \in Nat
      BY <1>1
    <3> QED
      BY <3>1, <3>2, Zenon
  <2>2. task' = [task EXCEPT ![t] = r] /\ rate' = rate + 1
    BY <1>1, <1>4 DEF Guard, TaskType, p
  <2>3. /\ r.pc = p /\ r.cur = rate + 1 /\ r.sig = task[t].sig
        /\ r.cmd = task[t].cmd /\ r.cfg = task[t].cfg
    BY <1>1 DEF TaskType
  <2> HIDE DEF r
  <2>4. task' \in [Tasks -> TaskType] /\ task'[t] = r
    BY <1>1, <2>1, <2>2
  <2> QED
    BY <1>4, <2>2, <2>3, <2>4 DEF p
<1> QED
  BY <1>3, <1>4

LEMMA ReceiveSignalMoves ==
    ASSUME TypeOK, ReceiveSignal
    PROVE  /\ task' \in [Tasks -> TaskType]
           /\ task'["signals"].pc = "dup"
           /\ task'["signals"].sig = sigLog[sigPos + 1] /\ sigLog[sigPos + 1] \in Signals
           /\ task'["signals"].cmd = NoCommand
           /\ task'["control"] = task["control"]
<1> DEFINE r == [IdleTask EXCEPT !.pc = "dup", !.sig = sigLog[sigPos + 1]]
<1>1. task \in [Tasks -> TaskType] /\ sigLog[sigPos + 1] \in Signals
  BY DEF TypeOK, ProcessOK, LogsOK, ReceiveSignal
<1>2. "dup" \in PCs
  BY DEF PCs
<1>3. r \in TaskType
  BY <1>1, <1>2, IdleTaskType DEF TaskType
<1>4. r.pc = "dup" /\ r.sig = sigLog[sigPos + 1] /\ r.cmd = NoCommand
  BY DEF IdleTask
<1> QED
  BY <1>1, <1>3, <1>4 DEF ReceiveSignal

LEMMA ReceiveCommandMoves ==
    ASSUME TypeOK, ReceiveCommand
    PROVE  LET c == ctlLog[ctlPos + 1] IN
           /\ c \in Commands
           /\ task' \in [Tasks -> TaskType]
           /\ task'["control"].pc = Dispatch(c) /\ task'["control"].cmd = c
           /\ task'["control"].sig = IF "sig" \in DOMAIN c THEN c.sig ELSE NoSignal
           /\ task'["signals"] = task["signals"]
<1> DEFINE c == ctlLog[ctlPos + 1]
           e == IF "sig" \in DOMAIN c THEN c.sig ELSE NoSignal
           r == [IdleTask EXCEPT !.pc = Dispatch(c), !.cmd = c, !.sig = e]
<1>1. task \in [Tasks -> TaskType] /\ c \in Commands
  BY DEF TypeOK, ProcessOK, LogsOK, ReceiveCommand
<1>2. Dispatch(c) \in PCs
  BY DEF PCs, Dispatch
<1>3. e \in Signals \cup {NoSignal}
  BY <1>1, CommandFields, ConstantsAssumption
<1>4. task' = [task EXCEPT !["control"] = r]
  BY DEF ReceiveCommand
<1> HIDE DEF c, e
<1>5. r \in TaskType
  BY <1>1, <1>2, <1>3, IdleTaskType DEF TaskType
<1>6. r.pc = Dispatch(c) /\ r.sig = e /\ r.cmd = c
  BY DEF IdleTask
<1> QED
  BY <1>1, <1>4, <1>5, <1>6 DEF c, e

-----------------------------------------------------------------------------
(* Types *)

(* A task that moved on, or ended, keeps its event *)
LEMMA MovedKeepsEvents ==
    ASSUME TypeInv, NEW t \in Tasks, NEW p \in PCs, Moved(t, p), rec' = rec,
           \/ p \in {"idle", "apply", "refresh"}
           \/ p \in EventPCs /\ task[t].sig \in Signals
           \/ p \in SharedPCs /\ (task[t].sig \in Signals \/ Manual(t))
           \/ p = "manual" /\ Manual(t)
    PROVE  HandlersHaveEvents' /\ (task \in [Tasks -> TaskType])'
BY DEF TypeInv, HandlersHaveEvents, HasEvent, Manual, Moved, EventPCs, SharedPCs

LEMMA EndedKeepsEvents ==
    ASSUME TypeInv, NEW t \in Tasks, Ended(t), rec' = rec
    PROVE  HandlersHaveEvents' /\ (task \in [Tasks -> TaskType])'
BY DEF TypeInv, HandlersHaveEvents, HasEvent, Manual, Ended, EventPCs, SharedPCs,
       IdleTask, NoCommand

(* The move of each step of a handler: from where, to where *)
LEMMA HandlerMoves ==
    ASSUME TypeInv, NEW t \in Tasks
    PROVE  /\ CheckDuplicate => Ended("signals") \/ Moved("signals", "load")
           /\ SetExpiry(t) => Moved(t, AfterToken(t, task[t].cur))
           /\ SizeOrder(t) => \/ Moved(t, "reject") \/ Moved(t, "mark")
                              \/ t = "signals" /\ Moved(t, "queue")
           /\ MarkSubmitted(t) => Moved(t, "entry")
           /\ SendEntry(t) => Moved(t, "emit_submitted")
           /\ EmitSubmitted(t) => Moved(t, "stop")
           /\ SendExits(t) => \/ At(t, "stop") /\ Moved(t, "target")
                              \/ At(t, "target") /\ Moved(t, "track")
           /\ TrackPosition(t) => \/ At(t, "track") /\ Moved(t, "record")
                                  \/ At(t, "record") /\ Moved(t, "emit_filled")
           /\ QueuePending => \/ At("signals", "queue") /\ Moved("signals", "enlist")
                              \/ At("signals", "enlist") /\ Moved("signals", "emit_pending")
                              \/ At("signals", "emit_pending") /\ Ended("signals")
           /\ Reject(t) \/ EmitFilled(t)
                 => IF t = "control" THEN Moved(t, "refresh") ELSE Ended(t)
           /\ Raise(t) => Ended(t)
<1>1. task \in [Tasks -> TaskType]
  BY DEF TypeInv, TypeOK, ProcessOK
<1>2. {"load", "reject", "mark", "queue", "entry", "emit_submitted", "stop", "target",
       "track", "record", "emit_filled", "enlist", "emit_pending"} \subseteq PCs
  BY DEF PCs
<1>3. AfterToken(t, task[t].cur) \in PCs
  BY AfterTokenPC DEF PCs
<1>4. CheckDuplicate => Ended("signals") \/ Moved("signals", "load")
  BY <1>1, <1>2, GotoMoves, ReturnEnds DEF CheckDuplicate
<1>5. SetExpiry(t) => Moved(t, AfterToken(t, task[t].cur))
  BY <1>1, <1>3, GotoMoves DEF SetExpiry
<1>6. SizeOrder(t) => \/ Moved(t, "reject") \/ Moved(t, "mark")
                      \/ t = "signals" /\ Moved(t, "queue")
  BY <1>1, <1>2, GotoMoves DEF SizeOrder
<1>7. MarkSubmitted(t) => Moved(t, "entry")
  BY <1>1, <1>2, GotoMoves DEF MarkSubmitted
<1>8. SendEntry(t) => Moved(t, "emit_submitted")
  BY <1>1, <1>2, GotoMoves DEF SendEntry
<1>9. EmitSubmitted(t) => Moved(t, "stop")
  BY <1>1, <1>2, GotoMoves DEF EmitSubmitted
<1>10. SendExits(t) => \/ At(t, "stop") /\ Moved(t, "target")
                       \/ At(t, "target") /\ Moved(t, "track")
  BY <1>1, <1>2, GotoMoves DEF SendExits
<1>11. TrackPosition(t) => \/ At(t, "track") /\ Moved(t, "record")
                           \/ At(t, "record") /\ Moved(t, "emit_filled")
  BY <1>1, <1>2, GotoMoves DEF TrackPosition
<1>12. QueuePending => \/ At("signals", "queue") /\ Moved("signals", "enlist")
                       \/ At("signals", "enlist") /\ Moved("signals", "emit_pending")
                       \/ At("signals", "emit_pending") /\ Ended("signals")
  BY <1>1, <1>2, GotoMoves, ReturnEnds DEF QueuePending
<1>13. Reject(t) \/ EmitFilled(t)
          => IF t = "control" THEN Moved(t, "refresh") ELSE Ended(t)
  BY <1>1, ReturnEnds DEF Reject, EmitFilled
<1>14. Raise(t) => Ended(t)
  BY <1>1, IdleEnds DEF Raise
<1> QED
  BY <1>4, <1>5, <1>6, <1>7, <1>8, <1>9, <1>10, <1>11, <1>12, <1>13, <1>14

(* The move of each step of a command *)
LEMMA CommandMoves ==
    ASSUME TypeInv
    PROVE  /\ FetchPending => \/ Moved("control", "unqueue") \/ Moved("control", "refresh")
           /\ Unqueue => \/ Moved("control", "reject")
                         \/ /\ task["control"].cmd.cmd = "approve_opportunity"
                            /\ Moved("control", "load")
           /\ FetchPosition => \/ Moved("control", "refresh") \/ Moved("control", "close")
                               \/ Moved("control", "cancel_sl")
                               \/ Moved("control", "cancel_tp")
           /\ ClosePosition \/ SendManual \/ ApplySettings => Moved("control", "refresh")
           /\ RefreshMode => Ended("control")
           /\ \A leg \in {"sl", "tp"} :
                 /\ CancelLeg(leg) => \/ Moved("control", "send_sl")
                                      \/ Moved("control", "send_tp")
                 /\ ResendLeg(leg) => \/ Moved("control", "cancel_tp")
                                      \/ Moved("control", "refresh")
<1>1. task \in [Tasks -> TaskType]
  BY DEF TypeInv, TypeOK, ProcessOK
<1>2. {"load", "reject", "unqueue", "refresh", "close", "cancel_sl", "cancel_tp",
       "send_sl", "send_tp"} \subseteq PCs
  BY DEF PCs
<1>3. FetchPending => \/ Moved("control", "unqueue") \/ Moved("control", "refresh")
  BY <1>1, <1>2, GotoMoves, ReturnEnds DEF FetchPending
<1>4. Unqueue => \/ Moved("control", "reject")
                 \/ /\ task["control"].cmd.cmd = "approve_opportunity"
                    /\ Moved("control", "load")
  BY <1>1, <1>2, GotoMoves DEF Unqueue
<1>5. FetchPosition => \/ Moved("control", "refresh") \/ Moved("control", "close")
                       \/ Moved("control", "cancel_sl") \/ Moved("control", "cancel_tp")
  BY <1>1, <1>2, GotoMoves DEF FetchPosition
<1>6. ClosePosition \/ SendManual \/ ApplySettings => Moved("control", "refresh")
  BY <1>1, <1>2, ReturnEnds DEF ClosePosition, SendManual, ApplySettings
<1>7. RefreshMode => Ended("control")
  BY <1>1, IdleEnds DEF RefreshMode
<1>8. ASSUME NEW leg \in {"sl", "tp"}
      PROVE  /\ CancelLeg(leg) => \/ Moved("control", "send_sl")
                                  \/ Moved("control", "send_tp")
             /\ ResendLeg(leg) => \/ Moved("control", "cancel_tp")
                                  \/ Moved("control", "refresh")
  BY <1>1, <1>2, GotoMoves DEF CancelLeg, ResendLeg
<1> QED
  BY <1>3, <1>4, <1>5, <1>6, <1>7, <1>8

(* A position changed at one pair of one venue is still a count *)
LEMMA HeldUpdate ==
    ASSUME held \in [Hosts -> [Pairs -> Nat]], NEW h, NEW p, NEW n,
           h \in Hosts /\ p \in Pairs => n \in Nat
    PROVE  [held EXCEPT ![h][p] = n] \in [Hosts -> [Pairs -> Nat]]
<1>1. h \in Hosts => [held[h] EXCEPT ![p] = n] \in [Pairs -> Nat]
  OBVIOUS
<1> QED
  BY <1>1

LEMMA ReduceType ==
    ASSUME held \in [Hosts -> [Pairs -> Nat]], NEW h, NEW p
    PROVE  Reduce(h, p) \in [Hosts -> [Pairs -> Nat]]
<1> DEFINE n == IF held[h][p] > 0 THEN held[h][p] - 1 ELSE 0
<1>1. h \in Hosts /\ p \in Pairs => n \in Nat
  OBVIOUS
<1>2. Reduce(h, p) = [held EXCEPT ![h][p] = n]
  BY DEF Reduce
<1> QED
  BY <1>1, <1>2, HeldUpdate

(* Every step preserves the types *)
LEMMA TypeStep ==
    ASSUME TypeInv, [Next]_vars
    PROVE  TypeInv'
<1> USE DEF redisVars, rateVars, sigVars, ctlVars, venueVars, procVars, histVars
<1>1. CASE ReceiveSignal
  <2>1. LogsOK'
    BY <1>1 DEF ReceiveSignal, TypeInv, TypeOK, LogsOK
  <2>2. HandlersHaveEvents' /\ (task \in [Tasks -> TaskType])'
    BY <1>1, ReceiveSignalMoves DEF ReceiveSignal, TypeInv, HandlersHaveEvents,
       HasEvent, EventPCs, SharedPCs, At, Event, Manual
  <2> QED
    BY <1>1, <2>1, <2>2 DEF ReceiveSignal, TypeInv, TypeOK, StoreOK, LogsOK,
       VenueOK, ProcessOK, HistoryOK, HandlersHaveEvents, HasEvent, Manual
<1>2. CASE CheckDuplicate
  <2>1. HandlersHaveEvents' /\ (task \in [Tasks -> TaskType])'
    BY <1>2, HandlerMoves, MovedKeepsEvents, EndedKeepsEvents DEF
       CheckDuplicate, PCs, EventPCs, SharedPCs, TypeInv, HandlersHaveEvents,
       HasEvent, At
  <2> QED
    BY <1>2, <2>1 DEF CheckDuplicate, TypeInv, TypeOK, StoreOK, LogsOK, VenueOK,
       ProcessOK, HistoryOK, HandlersHaveEvents, HasEvent, Manual
<1>3. CASE QueuePending
  <2>1. HandlersHaveEvents' /\ (task \in [Tasks -> TaskType])'
    BY <1>3, HandlerMoves, MovedKeepsEvents, EndedKeepsEvents DEF QueuePending,
       PCs, EventPCs, SharedPCs, TypeInv, HandlersHaveEvents, HasEvent, At
  <2>2. StoreOK'
    BY <1>3 DEF QueuePending, TypeInv, TypeOK, StoreOK, Emit, Kinds,
       HandlersHaveEvents, HasEvent, EventPCs, At, Event
  <2> QED
    BY <1>3, <2>1, <2>2 DEF QueuePending, TypeInv, TypeOK, StoreOK, LogsOK,
       VenueOK, ProcessOK, HistoryOK, HandlersHaveEvents, HasEvent, Manual
<1>4. ASSUME NEW t \in Tasks, LoadConfig(t) PROVE TypeInv'
  <2> HIDE DEF redisVars, rateVars, sigVars, ctlVars, venueVars, procVars, histVars
  <2>1. /\ task' \in [Tasks -> TaskType] /\ rec' = rec /\ task[t].pc = "load"
        /\ task'[t].pc = "guard"
        /\ task'[t].sig = task[t].sig /\ task'[t].cmd = task[t].cmd
        /\ \A u \in Tasks \ {t} : task'[u] = task[u]
    BY <1>4, LoadMoves DEF LoadConfig, At, TypeInv
  <2>2. HasEvent(t)'
    BY <2>1 DEF TypeInv, HandlersHaveEvents, HasEvent, EventPCs, SharedPCs, Manual
  <2>3. \A u \in Tasks \ {t} : HasEvent(u)'
    BY <2>1 DEF TypeInv, HandlersHaveEvents, HasEvent, Manual
  <2>4. task'["signals"].cmd = NoCommand
    BY <2>1 DEF TypeInv, HandlersHaveEvents, Tasks
  <2>5. HandlersHaveEvents' /\ (task \in [Tasks -> TaskType])'
    BY <2>1, <2>2, <2>3, <2>4 DEF TypeInv, HandlersHaveEvents
  <2> USE DEF redisVars, rateVars, sigVars, ctlVars, venueVars, procVars, histVars
  <2> QED
    BY <1>4, <2>5 DEF LoadConfig, TypeInv, TypeOK, StoreOK, LogsOK, VenueOK,
       ProcessOK, HistoryOK, HandlersHaveEvents, HasEvent, Manual
<1>5. ASSUME NEW t \in Tasks, Guard(t) PROVE TypeInv'
  <2>1. StoreOK'
    BY <1>5, GuardMoves DEF Guard, TypeInv, TypeOK, StoreOK
  <2>2. HandlersHaveEvents' /\ (task \in [Tasks -> TaskType])'
    BY <1>5, GuardMoves, AfterTokenPC DEF Guard, TypeInv, HandlersHaveEvents,
       HasEvent, EventPCs, SharedPCs, At, Event, Manual, Moved, Refused
  <2> QED
    BY <1>5, <2>1, <2>2 DEF Guard, TypeInv, TypeOK, StoreOK, LogsOK, VenueOK,
       ProcessOK, HistoryOK, HandlersHaveEvents, HasEvent, Manual
<1>6. ASSUME NEW t \in Tasks, SetExpiry(t) PROVE TypeInv'
  <2>1. StoreOK'
    BY <1>6 DEF SetExpiry, TypeInv, TypeOK, StoreOK
  <2>2. HandlersHaveEvents' /\ (task \in [Tasks -> TaskType])'
    BY <1>6, HandlerMoves, AfterTokenPC DEF SetExpiry, TypeInv,
       HandlersHaveEvents, HasEvent, EventPCs, SharedPCs, At, Event, Manual,
       Moved
  <2> QED
    BY <1>6, <2>1, <2>2 DEF SetExpiry, TypeInv, TypeOK, StoreOK, LogsOK,
       VenueOK, ProcessOK, HistoryOK, HandlersHaveEvents, HasEvent, Manual
<1>7. ASSUME NEW t \in Tasks, SizeOrder(t) PROVE TypeInv'
  <2>1. HandlersHaveEvents' /\ (task \in [Tasks -> TaskType])'
    BY <1>7, HandlerMoves, MovedKeepsEvents DEF SizeOrder, PCs, EventPCs,
       SharedPCs, TypeInv, HandlersHaveEvents, HasEvent, At
  <2> QED
    BY <1>7, <2>1 DEF SizeOrder, TypeInv, TypeOK, StoreOK, LogsOK, VenueOK,
       ProcessOK, HistoryOK, HandlersHaveEvents, HasEvent, Manual
<1>8. ASSUME NEW t \in Tasks, Reject(t) PROVE TypeInv'
  <2>1. HandlersHaveEvents' /\ (task \in [Tasks -> TaskType])'
    BY <1>8, HandlerMoves, MovedKeepsEvents, EndedKeepsEvents DEF Reject, PCs,
       EventPCs, SharedPCs, TypeInv, HandlersHaveEvents, HasEvent, At
  <2>2. StoreOK'
    BY <1>8 DEF Reject, TypeInv, TypeOK, StoreOK, Emit, Kinds,
       HandlersHaveEvents, HasEvent, EventPCs, At, Event
  <2> QED
    BY <1>8, <2>1, <2>2 DEF Reject, TypeInv, TypeOK, StoreOK, LogsOK, VenueOK,
       ProcessOK, HistoryOK, HandlersHaveEvents, HasEvent, Manual
<1>9. ASSUME NEW t \in Tasks, MarkSubmitted(t) PROVE TypeInv'
  <2>1. HandlersHaveEvents' /\ (task \in [Tasks -> TaskType])'
    BY <1>9, HandlerMoves, MovedKeepsEvents DEF MarkSubmitted, PCs, EventPCs,
       SharedPCs, TypeInv, HandlersHaveEvents, HasEvent, At
  <2>2. StoreOK'
    BY <1>9 DEF MarkSubmitted, TypeInv, TypeOK, StoreOK, HandlersHaveEvents,
       HasEvent, EventPCs, At, Event
  <2> QED
    BY <1>9, <2>1, <2>2 DEF MarkSubmitted, TypeInv, TypeOK, StoreOK, LogsOK,
       VenueOK, ProcessOK, HistoryOK, HandlersHaveEvents, HasEvent, Manual
<1>10. ASSUME NEW t \in Tasks, SendEntry(t) PROVE TypeInv'
  <2>1. HandlersHaveEvents' /\ (task \in [Tasks -> TaskType])'
    BY <1>10, HandlerMoves, MovedKeepsEvents DEF SendEntry, PCs, EventPCs,
       SharedPCs, TypeInv, HandlersHaveEvents, HasEvent, At
  <2>2. VenueOK'
    BY <1>10, ConstantsAssumption DEF SendEntry, TypeInv, TypeOK, VenueOK,
       ProcessOK, OrderType, Rest, Order, Legs, Hosts, Modes,
       HandlersHaveEvents, HasEvent, EventPCs, At, Event
  <2>3. HistoryOK'
    <3>1. Event(t) \in Signals => entrySends[Event(t)] + 1 \in Nat
      BY DEF TypeInv, TypeOK, HistoryOK
    <3>2. (entrySends \in [Signals -> Nat])'
      BY <1>10, <3>1 DEF SendEntry, TypeInv, TypeOK, HistoryOK
    <3>3. (sentKilled \in Nat /\ sentWindow \in Nat)'
      BY <1>10 DEF SendEntry, TypeInv, TypeOK, HistoryOK, RecordOpening
    <3> QED
      BY <1>10, <3>2, <3>3 DEF SendEntry, TypeInv, TypeOK, HistoryOK
  <2> QED
    BY <1>10, <2>1, <2>2, <2>3 DEF SendEntry, TypeInv, TypeOK, StoreOK, LogsOK,
       VenueOK, ProcessOK, HistoryOK, HandlersHaveEvents, HasEvent, Manual
<1>11. ASSUME NEW t \in Tasks, EmitSubmitted(t) PROVE TypeInv'
  <2>1. HandlersHaveEvents' /\ (task \in [Tasks -> TaskType])'
    BY <1>11, HandlerMoves, MovedKeepsEvents DEF EmitSubmitted, PCs, EventPCs,
       SharedPCs, TypeInv, HandlersHaveEvents, HasEvent, At
  <2>2. StoreOK'
    BY <1>11 DEF EmitSubmitted, TypeInv, TypeOK, StoreOK, Emit, Kinds,
       HandlersHaveEvents, HasEvent, EventPCs, At, Event
  <2> QED
    BY <1>11, <2>1, <2>2 DEF EmitSubmitted, TypeInv, TypeOK, StoreOK, LogsOK,
       VenueOK, ProcessOK, HistoryOK, HandlersHaveEvents, HasEvent, Manual
<1>12. ASSUME NEW t \in Tasks, SendExits(t) PROVE TypeInv'
  <2>1. HandlersHaveEvents' /\ (task \in [Tasks -> TaskType])'
    BY <1>12, HandlerMoves, MovedKeepsEvents DEF SendExits, PCs, EventPCs,
       SharedPCs, TypeInv, HandlersHaveEvents, HasEvent, At
  <2>2. VenueOK'
    BY <1>12, ConstantsAssumption DEF SendExits, TypeInv, TypeOK, VenueOK,
       ProcessOK, OrderType, Rest, Order, Legs, Hosts, Modes,
       HandlersHaveEvents, HasEvent, EventPCs, At, Event
  <2>3. HistoryOK'
    BY <1>12 DEF SendExits, TypeInv, TypeOK, HistoryOK
  <2> QED
    BY <1>12, <2>1, <2>2, <2>3 DEF SendExits, TypeInv, TypeOK, StoreOK, LogsOK,
       VenueOK, ProcessOK, HistoryOK, HandlersHaveEvents, HasEvent, Manual
<1>13. ASSUME NEW t \in Tasks, TrackPosition(t) PROVE TypeInv'
  <2>1. HandlersHaveEvents' /\ (task \in [Tasks -> TaskType])'
    BY <1>13, HandlerMoves, MovedKeepsEvents DEF TrackPosition, PCs, EventPCs,
       SharedPCs, TypeInv, HandlersHaveEvents, HasEvent, At
  <2>2. StoreOK'
    BY <1>13 DEF TrackPosition, TypeInv, TypeOK, StoreOK, HandlersHaveEvents,
       HasEvent, EventPCs, At, Event
  <2> QED
    BY <1>13, <2>1, <2>2 DEF TrackPosition, TypeInv, TypeOK, StoreOK, LogsOK,
       VenueOK, ProcessOK, HistoryOK, HandlersHaveEvents, HasEvent, Manual
<1>14. ASSUME NEW t \in Tasks, EmitFilled(t) PROVE TypeInv'
  <2>1. HandlersHaveEvents' /\ (task \in [Tasks -> TaskType])'
    BY <1>14, HandlerMoves, MovedKeepsEvents, EndedKeepsEvents DEF EmitFilled,
       PCs, EventPCs, SharedPCs, TypeInv, HandlersHaveEvents, HasEvent, At
  <2>2. StoreOK'
    BY <1>14 DEF EmitFilled, TypeInv, TypeOK, StoreOK, Emit, Kinds,
       HandlersHaveEvents, HasEvent, EventPCs, At, Event
  <2> QED
    BY <1>14, <2>1, <2>2 DEF EmitFilled, TypeInv, TypeOK, StoreOK, LogsOK,
       VenueOK, ProcessOK, HistoryOK, HandlersHaveEvents, HasEvent, Manual
<1>15. CASE ReceiveCommand
  <2>1. LogsOK'
    BY <1>15 DEF ReceiveCommand, TypeInv, TypeOK, LogsOK
  <2>2. HandlersHaveEvents' /\ (task \in [Tasks -> TaskType])'
    BY <1>15, ReceiveCommandMoves, CommandFields, ConstantsAssumption DEF
       ReceiveCommand, TypeInv, HandlersHaveEvents, HasEvent, EventPCs,
       SharedPCs, At, Event, Manual, Dispatch, Settings
  <2> QED
    BY <1>15, <2>1, <2>2 DEF ReceiveCommand, TypeInv, TypeOK, StoreOK, LogsOK,
       VenueOK, ProcessOK, HistoryOK, HandlersHaveEvents, HasEvent, Manual
<1>16. CASE FetchPending
  <2>1. HandlersHaveEvents' /\ (task \in [Tasks -> TaskType])'
    BY <1>16, CommandMoves, MovedKeepsEvents DEF FetchPending, PCs, EventPCs,
       SharedPCs, TypeInv, HandlersHaveEvents, HasEvent, At
  <2> QED
    BY <1>16, <2>1 DEF FetchPending, TypeInv, TypeOK, StoreOK, LogsOK, VenueOK,
       ProcessOK, HistoryOK, HandlersHaveEvents, HasEvent, Manual
<1>17. CASE Unqueue
  <2>1. HandlersHaveEvents' /\ (task \in [Tasks -> TaskType])'
    BY <1>17, CommandMoves, MovedKeepsEvents DEF Unqueue, PCs, EventPCs,
       SharedPCs, TypeInv, HandlersHaveEvents, HasEvent, At
  <2>2. StoreOK'
    BY <1>17 DEF Unqueue, TypeInv, TypeOK, StoreOK
  <2> QED
    BY <1>17, <2>1, <2>2 DEF Unqueue, TypeInv, TypeOK, StoreOK, LogsOK, VenueOK,
       ProcessOK, HistoryOK, HandlersHaveEvents, HasEvent, Manual
<1>18. CASE FetchPosition
  <2>1. HandlersHaveEvents' /\ (task \in [Tasks -> TaskType])'
    BY <1>18, CommandMoves, MovedKeepsEvents DEF FetchPosition, PCs, EventPCs,
       SharedPCs, TypeInv, HandlersHaveEvents, HasEvent, At
  <2> QED
    BY <1>18, <2>1 DEF FetchPosition, TypeInv, TypeOK, StoreOK, LogsOK, VenueOK,
       ProcessOK, HistoryOK, HandlersHaveEvents, HasEvent, Manual
<1>19. CASE ClosePosition
  <2>1. HandlersHaveEvents' /\ (task \in [Tasks -> TaskType])'
    BY <1>19, CommandMoves, MovedKeepsEvents DEF ClosePosition, PCs, EventPCs,
       SharedPCs, TypeInv, HandlersHaveEvents, HasEvent, At
  <2>2. VenueOK'
    BY <1>19, ReduceType DEF ClosePosition, TypeInv, TypeOK, VenueOK
  <2>3. HistoryOK'
    BY <1>19 DEF ClosePosition, TypeInv, TypeOK, HistoryOK
  <2> QED
    BY <1>19, <2>1, <2>2, <2>3 DEF ClosePosition, TypeInv, TypeOK, StoreOK,
       LogsOK, VenueOK, ProcessOK, HistoryOK, HandlersHaveEvents, HasEvent,
       Manual
<1>20. ASSUME NEW leg \in {"sl", "tp"}, CancelLeg(leg) PROVE TypeInv'
  <2>1. HandlersHaveEvents' /\ (task \in [Tasks -> TaskType])'
    BY <1>20, CommandMoves, MovedKeepsEvents DEF CancelLeg, PCs, EventPCs,
       SharedPCs, TypeInv, HandlersHaveEvents, HasEvent, At
  <2>2. VenueOK'
    BY <1>20 DEF CancelLeg, TypeInv, TypeOK, VenueOK
  <2> QED
    BY <1>20, <2>1, <2>2 DEF CancelLeg, TypeInv, TypeOK, StoreOK, LogsOK,
       VenueOK, ProcessOK, HistoryOK, HandlersHaveEvents, HasEvent, Manual
<1>21. ASSUME NEW leg \in {"sl", "tp"}, ResendLeg(leg) PROVE TypeInv'
  <2>1. HandlersHaveEvents' /\ (task \in [Tasks -> TaskType])'
    BY <1>21, CommandMoves, MovedKeepsEvents DEF ResendLeg, PCs, EventPCs,
       SharedPCs, TypeInv, HandlersHaveEvents, HasEvent, At
  <2>2. VenueOK'
    BY <1>21, ConstantsAssumption DEF ResendLeg, TypeInv, TypeOK, VenueOK,
       ProcessOK, OrderType, Rest, Order, Legs, Hosts, Modes,
       HandlersHaveEvents, HasEvent, EventPCs, At, Event
  <2>3. HistoryOK'
    BY <1>21 DEF ResendLeg, TypeInv, TypeOK, HistoryOK
  <2> QED
    BY <1>21, <2>1, <2>2, <2>3 DEF ResendLeg, TypeInv, TypeOK, StoreOK, LogsOK,
       VenueOK, ProcessOK, HistoryOK, HandlersHaveEvents, HasEvent, Manual
<1>22. CASE SendManual
  <2>1. HandlersHaveEvents' /\ (task \in [Tasks -> TaskType])'
    BY <1>22, CommandMoves, MovedKeepsEvents DEF SendManual, PCs, EventPCs,
       SharedPCs, TypeInv, HandlersHaveEvents, HasEvent, At
  <2>2. VenueOK'
    BY <1>22, CommandFields, ConstantsAssumption DEF SendManual, TypeInv,
       TypeOK, VenueOK, ProcessOK, TaskType, NoCommand, OrderType, Rest, Order,
       Legs, Hosts, Modes, Manual, HandlersHaveEvents, HasEvent, EventPCs, At,
       Event
  <2>3. HistoryOK'
    BY <1>22 DEF SendManual, TypeInv, TypeOK, HistoryOK, RecordOpening
  <2> QED
    BY <1>22, <2>1, <2>2, <2>3 DEF SendManual, TypeInv, TypeOK, StoreOK, LogsOK,
       VenueOK, ProcessOK, HistoryOK, HandlersHaveEvents, HasEvent, Manual
<1>23. CASE ApplySettings
  <2>1. HandlersHaveEvents' /\ (task \in [Tasks -> TaskType])'
    BY <1>23, CommandMoves, MovedKeepsEvents DEF ApplySettings, PCs, EventPCs,
       SharedPCs, TypeInv, HandlersHaveEvents, HasEvent, At
  <2>2. StoreOK'
    BY <1>23, CommandFields, ConstantsAssumption DEF ApplySettings, TypeInv,
       TypeOK, StoreOK, ProcessOK, TaskType, NoCommand, SettingsAfter, Config
  <2>3. HistoryOK'
    BY <1>23 DEF ApplySettings, TypeInv, TypeOK, HistoryOK
  <2> QED
    BY <1>23, <2>1, <2>2, <2>3 DEF ApplySettings, TypeInv, TypeOK, StoreOK,
       LogsOK, VenueOK, ProcessOK, HistoryOK, HandlersHaveEvents, HasEvent,
       Manual
<1>24. CASE RefreshMode
  <2>1. HandlersHaveEvents' /\ (task \in [Tasks -> TaskType])'
    BY <1>24, CommandMoves, MovedKeepsEvents, EndedKeepsEvents DEF RefreshMode,
       PCs, EventPCs, SharedPCs, TypeInv, HandlersHaveEvents, HasEvent, At
  <2>2. ProcessOK'
    BY <1>24, IdleTaskType DEF RefreshMode, TypeInv, TypeOK, ProcessOK, StoreOK,
       Config
  <2> QED
    BY <1>24, <2>1, <2>2 DEF RefreshMode, TypeInv, TypeOK, StoreOK, LogsOK,
       VenueOK, ProcessOK, HistoryOK, HandlersHaveEvents, HasEvent, Manual
<1>25. CASE SweepVenue
  <2>1. (rec \in SweepType)' /\ HandlersHaveEvents'
    BY <1>25 DEF SweepVenue, TypeInv, TypeOK, ProcessOK, SweepType,
       HandlersHaveEvents, HasEvent, Manual, OpenPairs
  <2> QED
    BY <1>25, <2>1 DEF SweepVenue, TypeInv, TypeOK, StoreOK, LogsOK, VenueOK,
       ProcessOK, HistoryOK, HandlersHaveEvents, HasEvent, Manual
<1>26. CASE SweepMembers
  <2>1. (rec \in SweepType)' /\ HandlersHaveEvents'
    BY <1>26 DEF SweepMembers, TypeInv, TypeOK, ProcessOK, SweepType,
       HandlersHaveEvents, StoreOK, HasEvent, Manual
  <2> QED
    BY <1>26, <2>1 DEF SweepMembers, TypeInv, TypeOK, StoreOK, LogsOK, VenueOK,
       ProcessOK, HistoryOK, HandlersHaveEvents, HasEvent, Manual
<1>27. CASE SweepForget
  <2>1. (rec \in SweepType)' /\ HandlersHaveEvents'
    BY <1>27 DEF SweepForget, TypeInv, TypeOK, ProcessOK, SweepType,
       HandlersHaveEvents, HasEvent, Manual
  <2>2. StoreOK'
    BY <1>27 DEF SweepForget, TypeInv, TypeOK, StoreOK
  <2> QED
    BY <1>27, <2>1, <2>2 DEF SweepForget, TypeInv, TypeOK, StoreOK, LogsOK,
       VenueOK, ProcessOK, HistoryOK, HandlersHaveEvents, HasEvent, Manual
<1>28. CASE OnClosed
  <2>1. (rec \in SweepType)' /\ HandlersHaveEvents'
    BY <1>28 DEF OnClosed, TypeInv, TypeOK, ProcessOK, SweepType,
       HandlersHaveEvents, HasEvent, Manual
  <2>2. StoreOK'
    BY <1>28 DEF OnClosed, TypeInv, TypeOK, StoreOK, Emit, Kinds,
       HandlersHaveEvents
  <2>3. HistoryOK'
    BY <1>28, FreedBound DEF OnClosed, TypeInv, TypeOK, HistoryOK
  <2> QED
    BY <1>28, <2>1, <2>2, <2>3 DEF OnClosed, TypeInv, TypeOK, StoreOK, LogsOK,
       VenueOK, ProcessOK, HistoryOK, HandlersHaveEvents, HasEvent, Manual
<1>29. CASE SweepEnd
  <2>1. (rec \in SweepType)' /\ HandlersHaveEvents'
    BY <1>29 DEF SweepEnd, TypeInv, TypeOK, ProcessOK, SweepType,
       HandlersHaveEvents, HasEvent, Manual, IdleSweep
  <2> QED
    BY <1>29, <2>1 DEF SweepEnd, TypeInv, TypeOK, StoreOK, LogsOK, VenueOK,
       ProcessOK, HistoryOK, HandlersHaveEvents, HasEvent, Manual
<1>30. ASSUME NEW s \in Signals, SweepEach(s) PROVE TypeInv'
  <2>1. (rec \in SweepType)' /\ HandlersHaveEvents'
    BY <1>30 DEF SweepEach, TypeInv, TypeOK, ProcessOK, SweepType,
       HandlersHaveEvents, HasEvent, Manual
  <2> QED
    BY <1>30, <2>1 DEF SweepEach, TypeInv, TypeOK, StoreOK, LogsOK, VenueOK,
       ProcessOK, HistoryOK, HandlersHaveEvents, HasEvent, Manual
<1>31. CASE CommitSignals
  <2>1. LogsOK'
    BY <1>31 DEF CommitSignals, TypeInv, TypeOK, LogsOK
  <2> QED
    BY <1>31, <2>1 DEF CommitSignals, TypeInv, TypeOK, StoreOK, LogsOK, VenueOK,
       ProcessOK, HistoryOK, HandlersHaveEvents, HasEvent, Manual
<1>32. CASE CommitCommands
  <2>1. LogsOK'
    BY <1>32 DEF CommitCommands, TypeInv, TypeOK, LogsOK
  <2> QED
    BY <1>32, <2>1 DEF CommitCommands, TypeInv, TypeOK, StoreOK, LogsOK,
       VenueOK, ProcessOK, HistoryOK, HandlersHaveEvents, HasEvent, Manual
<1>33. ASSUME NEW s \in Signals, PublishSignal(s) PROVE TypeInv'
  <2>1. LogsOK'
    BY <1>33 DEF PublishSignal, TypeInv, TypeOK, LogsOK
  <2> QED
    BY <1>33, <2>1 DEF PublishSignal, TypeInv, TypeOK, StoreOK, LogsOK, VenueOK,
       ProcessOK, HistoryOK, HandlersHaveEvents, HasEvent, Manual
<1>34. ASSUME NEW s \in Signals, ExpirePending(s) PROVE TypeInv'
  <2>1. StoreOK'
    BY <1>34 DEF ExpirePending, TypeInv, TypeOK, StoreOK
  <2> QED
    BY <1>34, <2>1 DEF ExpirePending, TypeInv, TypeOK, StoreOK, LogsOK, VenueOK,
       ProcessOK, HistoryOK, HandlersHaveEvents, HasEvent, Manual
<1>35. ASSUME NEW s \in Signals, ExpireSubmitted(s) PROVE TypeInv'
  <2>1. StoreOK'
    BY <1>35 DEF ExpireSubmitted, TypeInv, TypeOK, StoreOK
  <2> QED
    BY <1>35, <2>1 DEF ExpireSubmitted, TypeInv, TypeOK, StoreOK, LogsOK,
       VenueOK, ProcessOK, HistoryOK, HandlersHaveEvents, HasEvent, Manual
<1>36. ASSUME NEW c \in Commands, PublishCommand(c) PROVE TypeInv'
  <2>1. LogsOK'
    BY <1>36 DEF PublishCommand, TypeInv, TypeOK, LogsOK
  <2> QED
    BY <1>36, <2>1 DEF PublishCommand, TypeInv, TypeOK, StoreOK, LogsOK,
       VenueOK, ProcessOK, HistoryOK, HandlersHaveEvents, HasEvent, Manual
<1>37. ASSUME NEW o \in book, Fill(o) PROVE TypeInv'
  <2>1. VenueOK'
    <3>1. o.host \in Hosts /\ o.pair \in Pairs => held[o.host][o.pair] + 1 \in Nat
      BY DEF TypeInv, TypeOK, VenueOK
    <3>2. held' = [held EXCEPT ![o.host][o.pair] = held[o.host][o.pair] + 1]
      BY <1>37 DEF Fill
    <3>3. (held \in [Hosts -> [Pairs -> Nat]])'
      BY <3>1, <3>2, HeldUpdate DEF TypeInv, TypeOK, VenueOK
    <3> QED
      BY <1>37, <3>3 DEF Fill, TypeInv, TypeOK, VenueOK
  <2> QED
    BY <1>37, <2>1 DEF Fill, TypeInv, TypeOK, StoreOK, LogsOK, VenueOK,
       ProcessOK, HistoryOK, HandlersHaveEvents, HasEvent, Manual
<1>38. ASSUME NEW o \in book, Trigger(o) PROVE TypeInv'
  <2>1. VenueOK'
    BY <1>38, ReduceType DEF Trigger, TypeInv, TypeOK, VenueOK
  <2> QED
    BY <1>38, <2>1 DEF Trigger, TypeInv, TypeOK, StoreOK, LogsOK, VenueOK,
       ProcessOK, HistoryOK, HandlersHaveEvents, HasEvent, Manual
<1>39. CASE WindowExpires
  <2>1. StoreOK'
    BY <1>39 DEF WindowExpires, TypeInv, TypeOK, StoreOK
  <2>2. HistoryOK'
    BY <1>39 DEF WindowExpires, TypeInv, TypeOK, HistoryOK
  <2> QED
    BY <1>39, <2>1, <2>2 DEF WindowExpires, TypeInv, TypeOK, StoreOK, LogsOK,
       VenueOK, ProcessOK, HistoryOK, HandlersHaveEvents, HasEvent, Manual
<1>40. CASE SweepRaise
  <2>1. (rec \in SweepType)' /\ HandlersHaveEvents'
    BY <1>40 DEF SweepRaise, TypeInv, TypeOK, ProcessOK, SweepType,
       HandlersHaveEvents, HasEvent, Manual, IdleSweep
  <2> QED
    BY <1>40, <2>1 DEF SweepRaise, TypeInv, TypeOK, StoreOK, LogsOK, VenueOK,
       ProcessOK, HistoryOK, HandlersHaveEvents, HasEvent, Manual
<1>41. CASE Crash
  <2>1. LogsOK'
    BY <1>41 DEF Crash, TypeInv, TypeOK, LogsOK
  <2>2. ProcessOK' /\ HandlersHaveEvents'
    BY <1>41, IdleTaskType, ConstantsAssumption DEF Crash, TypeInv, TypeOK,
       ProcessOK, StoreOK, Config, SweepType, IdleSweep, IdleTask,
       HandlersHaveEvents, HasEvent, Manual, EventPCs, SharedPCs
  <2> QED
    BY <1>41, <2>1, <2>2 DEF Crash, TypeInv, TypeOK, StoreOK, LogsOK, VenueOK,
       ProcessOK, HistoryOK, HandlersHaveEvents, HasEvent, Manual
<1>42. ASSUME NEW t \in Tasks, Raise(t) PROVE TypeInv'
  <2>1. HandlersHaveEvents' /\ (task \in [Tasks -> TaskType])'
    BY <1>42, HandlerMoves, MovedKeepsEvents, EndedKeepsEvents DEF Raise, PCs,
       EventPCs, SharedPCs, TypeInv, HandlersHaveEvents, HasEvent, At
  <2>2. HistoryOK'
    BY <1>42 DEF Raise, TypeInv, TypeOK, HistoryOK,
       HandlersHaveEvents, HasEvent, EventPCs, At, Event
  <2> QED
    BY <1>42, <2>1, <2>2 DEF Raise, TypeInv, TypeOK, StoreOK, LogsOK, VenueOK,
       ProcessOK, HistoryOK, HandlersHaveEvents, HasEvent, Manual
<1>43. CASE UNCHANGED vars
  BY <1>43 DEF vars, TypeInv, TypeOK, StoreOK, LogsOK, VenueOK, ProcessOK,
     HistoryOK, HandlersHaveEvents, HasEvent, Manual
<1> QED
  BY <1>1, <1>2, <1>3, <1>4, <1>5, <1>6, <1>7, <1>8, <1>9, <1>10, <1>11, <1>12,
     <1>13, <1>14, <1>15, <1>16, <1>17, <1>18, <1>19, <1>20, <1>21, <1>22,
     <1>23, <1>24, <1>25, <1>26, <1>27, <1>28, <1>29, <1>30, <1>31, <1>32,
     <1>33, <1>34, <1>35, <1>36, <1>37, <1>38, <1>39, <1>40, <1>41, <1>42, <1>43
     DEF Next, SignalStep, ControlStep, TaskStep, Sweep, Environment

LEMMA TypeInit == Init => TypeInv
<1> SUFFICES ASSUME Init PROVE TypeInv
  OBVIOUS
<1>1. StoreOK
  BY ConstantsAssumption DEF Init, StoreOK
<1>2. LogsOK
  BY DEF Init, LogsOK
<1>3. VenueOK
  BY DEF Init, VenueOK
<1>4. ProcessOK
  BY ConstantsAssumption, IdleTaskType DEF Init, ProcessOK, SweepType, IdleSweep, Config
<1>5. HistoryOK
  BY FreedBound DEF Init, HistoryOK
<1>6. HandlersHaveEvents
  BY DEF Init, HandlersHaveEvents, HasEvent, Manual, EventPCs, SharedPCs, IdleTask,
         IdleSweep, NoCommand
<1> QED
  BY <1>1, <1>2, <1>3, <1>4, <1>5, <1>6 DEF TypeInv, TypeOK

LEMMA TypeInvariant == Spec => []TypeInv
<1>1. TypeInv /\ [Next]_vars => TypeInv'
  BY TypeStep
<1> QED
  BY TypeInit, <1>1, PTL DEF Spec

(* Every variable keeps its type, however the handlers, the sweeps, the     *)
(* venue and the restarts interleave.                                       *)
THEOREM TypeCorrect == Spec => []TypeOK
BY TypeInvariant, PTL DEF TypeInv

-----------------------------------------------------------------------------
(* The steps on the way to an opening order, and all the others *)

OpeningPCs == {"expire", "equity", "mark", "entry", "manual"}
OpeningPath == {"load", "guard"} \cup OpeningPCs

(* A step that neither starts nor advances an opening order *)
Quiet ==
    /\ \A t \in Tasks :
          \/ task'[t] = task[t]
          \/ task'[t] = IdleTask
          \/ /\ task[t].pc # "idle" /\ task'[t].pc \notin OpeningPath
             /\ task'[t].sig = task[t].sig /\ task'[t].cmd = task[t].cmd
    /\ UNCHANGED <<runtime, rate, submitted, sigVars, entrySends, sentKilled, sentWindow>>

Advancing ==
    \/ ReceiveSignal \/ ReceiveCommand \/ CheckDuplicate \/ Unqueue
    \/ SendManual \/ ApplySettings \/ WindowExpires \/ CommitSignals \/ Crash
    \/ \E s \in Signals : ExpireSubmitted(s) \/ PublishSignal(s)
    \/ \E t \in Tasks : LoadConfig(t) \/ Guard(t) \/ SetExpiry(t) \/ SizeOrder(t)
                           \/ MarkSubmitted(t) \/ SendEntry(t)

(* Every step is one of those, or quiet *)
LEMMA QuietOrAdvancing ==
    ASSUME TypeInv, [Next]_vars
    PROVE  Quiet \/ Advancing
<1> USE DEF redisVars, rateVars, sigVars, ctlVars, venueVars, procVars, histVars
<1>1. ASSUME QueuePending PROVE Quiet
  BY <1>1, HandlerMoves DEF QueuePending, Quiet, At, Moved, Ended, OpeningPath,
     OpeningPCs
<1>2. ASSUME NEW t \in Tasks, Reject(t) PROVE Quiet
  BY <1>2, HandlerMoves DEF Reject, Quiet, At, Moved, Ended, OpeningPath,
     OpeningPCs
<1>3. ASSUME NEW t \in Tasks, EmitSubmitted(t) PROVE Quiet
  BY <1>3, HandlerMoves DEF EmitSubmitted, Quiet, At, Moved, Ended, OpeningPath,
     OpeningPCs
<1>4. ASSUME NEW t \in Tasks, SendExits(t) PROVE Quiet
  BY <1>4, HandlerMoves DEF SendExits, Quiet, At, Moved, Ended, OpeningPath,
     OpeningPCs
<1>5. ASSUME NEW t \in Tasks, TrackPosition(t) PROVE Quiet
  BY <1>5, HandlerMoves DEF TrackPosition, Quiet, At, Moved, Ended, OpeningPath,
     OpeningPCs
<1>6. ASSUME NEW t \in Tasks, EmitFilled(t) PROVE Quiet
  BY <1>6, HandlerMoves DEF EmitFilled, Quiet, At, Moved, Ended, OpeningPath,
     OpeningPCs
<1>7. ASSUME NEW t \in Tasks, Raise(t) PROVE Quiet
  BY <1>7, HandlerMoves DEF Raise, Quiet, At, Moved, Ended, OpeningPath,
     OpeningPCs
<1>8. ASSUME FetchPending PROVE Quiet
  BY <1>8, CommandMoves DEF FetchPending, Quiet, At, Moved, Ended, OpeningPath,
     OpeningPCs
<1>9. ASSUME FetchPosition PROVE Quiet
  BY <1>9, CommandMoves DEF FetchPosition, Quiet, At, Moved, Ended, OpeningPath,
     OpeningPCs
<1>10. ASSUME ClosePosition PROVE Quiet
  BY <1>10, CommandMoves DEF ClosePosition, Quiet, At, Moved, Ended,
     OpeningPath, OpeningPCs
<1>11. ASSUME NEW leg \in {"sl", "tp"}, CancelLeg(leg) PROVE Quiet
  BY <1>11, CommandMoves DEF CancelLeg, Quiet, At, Moved, Ended, OpeningPath,
     OpeningPCs
<1>12. ASSUME NEW leg \in {"sl", "tp"}, ResendLeg(leg) PROVE Quiet
  BY <1>12, CommandMoves DEF ResendLeg, Quiet, At, Moved, Ended, OpeningPath,
     OpeningPCs
<1>13. ASSUME RefreshMode PROVE Quiet
  BY <1>13, CommandMoves DEF RefreshMode, Quiet, At, Moved, Ended, OpeningPath,
     OpeningPCs
<1>14. ASSUME SweepVenue PROVE Quiet
  BY <1>14 DEF SweepVenue, Quiet
<1>15. ASSUME SweepMembers PROVE Quiet
  BY <1>15 DEF SweepMembers, Quiet
<1>16. ASSUME SweepForget PROVE Quiet
  BY <1>16 DEF SweepForget, Quiet
<1>17. ASSUME OnClosed PROVE Quiet
  BY <1>17 DEF OnClosed, Quiet
<1>18. ASSUME SweepEnd PROVE Quiet
  BY <1>18 DEF SweepEnd, Quiet
<1>19. ASSUME NEW s \in Signals, SweepEach(s) PROVE Quiet
  BY <1>19 DEF SweepEach, Quiet
<1>20. ASSUME CommitCommands PROVE Quiet
  BY <1>20 DEF CommitCommands, Quiet
<1>21. ASSUME NEW s \in Signals, ExpirePending(s) PROVE Quiet
  BY <1>21 DEF ExpirePending, Quiet
<1>22. ASSUME NEW c \in Commands, PublishCommand(c) PROVE Quiet
  BY <1>22 DEF PublishCommand, Quiet
<1>23. ASSUME NEW o \in book, Fill(o) PROVE Quiet
  BY <1>23 DEF Fill, Quiet
<1>24. ASSUME NEW o \in book, Trigger(o) PROVE Quiet
  BY <1>24 DEF Trigger, Quiet
<1>25. ASSUME SweepRaise PROVE Quiet
  BY <1>25 DEF SweepRaise, Quiet
<1>26. CASE UNCHANGED vars
  BY <1>26 DEF vars, Quiet
<1> QED
  BY <1>1, <1>2, <1>3, <1>4, <1>5, <1>6, <1>7, <1>8, <1>9, <1>10, <1>11, <1>12,
     <1>13, <1>14, <1>15, <1>16, <1>17, <1>18, <1>19, <1>20, <1>21, <1>22,
     <1>23, <1>24, <1>25, <1>26 DEF Next, SignalStep, ControlStep, TaskStep,
     Sweep, Environment, Advancing

-----------------------------------------------------------------------------
(* The kill switch.  A handler is armed from the moment it loaded a         *)
(* configuration with trading enabled until it sends its opening order.     *)

Armed(t) ==
    \/ task[t].pc \in OpeningPCs
    \/ task[t].pc = "guard" /\ task[t].cfg.enabled

(* While the switch is thrown the command task is never armed, and the      *)
(* signal task is no longer armed once an order has left                    *)
KillInv ==
    /\ sentKilled \in {0, 1}
    /\ runtime.enabled => sentKilled = 0
    /\ ~runtime.enabled => ~Armed("control")
    /\ sentKilled = 1 => ~Armed("signals")

LEMMA KillFrame ==
    ASSUME KillInv, UNCHANGED <<runtime, sentKilled>>,
           \A t \in Tasks : Armed(t)' => Armed(t)
    PROVE  KillInv'
BY DEF KillInv

LEMMA KillStep ==
    ASSUME TypeInv, KillInv, [Next]_vars
    PROVE  KillInv'
<1> USE DEF redisVars, rateVars, sigVars, ctlVars, venueVars, procVars, histVars
<1>1. CASE Quiet
  BY <1>1, KillFrame DEF Quiet, Armed, OpeningPath, OpeningPCs, IdleTask
<1>2. CASE ReceiveSignal
  BY <1>2, KillFrame, ReceiveSignalMoves
     DEF ReceiveSignal, Armed, OpeningPCs, TypeInv
<1>3. CASE ReceiveCommand
  BY <1>3, KillFrame, ReceiveCommandMoves
     DEF ReceiveCommand, Armed, OpeningPCs, Dispatch, TypeInv
<1>4. CASE CheckDuplicate
  BY <1>4, KillFrame, HandlerMoves
     DEF CheckDuplicate, Armed, OpeningPCs, Moved, Ended, IdleTask
<1>5. CASE Unqueue
  BY <1>5, KillFrame, CommandMoves DEF Unqueue, Armed, OpeningPCs, Moved
<1>6. CASE SendManual
  BY <1>6, CommandMoves
     DEF SendManual, KillInv, Armed, OpeningPCs, Moved, RecordOpening, At
<1>7. CASE ApplySettings
  BY <1>7, CommandMoves
     DEF ApplySettings, KillInv, Armed, OpeningPCs, Moved, At
<1>8. CASE WindowExpires
  BY <1>8, KillFrame DEF WindowExpires, Armed
<1>9. CASE CommitSignals
  BY <1>9, KillFrame DEF CommitSignals, Armed
<1>10. CASE Crash
  BY <1>10, KillFrame DEF Crash, Armed, OpeningPCs, IdleTask
<1>11. ASSUME NEW s \in Signals, ExpireSubmitted(s) \/ PublishSignal(s) PROVE KillInv'
  BY <1>11, KillFrame DEF ExpireSubmitted, PublishSignal, Armed
<1>12. ASSUME NEW t \in Tasks, LoadConfig(t) PROVE KillInv'
  <2>1. /\ task'[t].pc = "guard" /\ task'[t].cfg = runtime
        /\ \A u \in Tasks \ {t} : task'[u] = task[u]
    BY <1>12, LoadMoves DEF TypeInv
  <2>2. UNCHANGED <<runtime, sentKilled>>
    BY <1>12 DEF LoadConfig
  <2>3. Armed(t)' => runtime.enabled
    BY <2>1 DEF Armed, OpeningPCs
  <2>4. \A u \in Tasks \ {t} : Armed(u)' <=> Armed(u)
    BY <2>1 DEF Armed
  <2> QED
    BY <2>2, <2>3, <2>4 DEF KillInv
<1>13. ASSUME NEW t \in Tasks, Guard(t) PROVE KillInv'
  BY <1>13, KillFrame, GuardMoves
     DEF Guard, Armed, OpeningPCs, Moved, Refused, At, TypeInv
<1>14. ASSUME NEW t \in Tasks, SetExpiry(t) PROVE KillInv'
  BY <1>14, KillFrame, HandlerMoves DEF SetExpiry, Armed, OpeningPCs, Moved, At
<1>15. ASSUME NEW t \in Tasks, SizeOrder(t) PROVE KillInv'
  BY <1>15, KillFrame, HandlerMoves DEF SizeOrder, Armed, OpeningPCs, Moved, At
<1>16. ASSUME NEW t \in Tasks, MarkSubmitted(t) PROVE KillInv'
  BY <1>16, KillFrame, HandlerMoves DEF MarkSubmitted, Armed, OpeningPCs, Moved, At
<1>17. ASSUME NEW t \in Tasks, SendEntry(t) PROVE KillInv'
  <2>1. Armed(t) /\ ~Armed(t)' /\ \A u \in Tasks \ {t} : Armed(u)' <=> Armed(u)
    BY <1>17, HandlerMoves DEF SendEntry, Armed, OpeningPCs, Moved, At
  <2>2. /\ UNCHANGED runtime
        /\ sentKilled' = IF runtime.enabled THEN 0 ELSE sentKilled + 1
    BY <1>17 DEF SendEntry, RecordOpening
  <2>3. CASE t = "signals"
    BY <2>1, <2>2, <2>3 DEF KillInv
  <2>4. CASE t = "control"
    BY <2>1, <2>2, <2>4 DEF KillInv
  <2> QED
    BY <2>3, <2>4
<1> QED
  BY <1>1, <1>2, <1>3, <1>4, <1>5, <1>6, <1>7, <1>8, <1>9, <1>10, <1>11, <1>12, <1>13,
     <1>14, <1>15, <1>16, <1>17, QuietOrAdvancing DEF Advancing

(* After SET_KILL_SWITCH is applied at most one opening order leaves,       *)
(* whatever approvals and manual orders are queued behind it, for any       *)
(* number of signals, commands and restarts.                                *)
THEOREM KillSwitch == Spec => []KillSwitchBound
<1>1. Init => KillInv
  BY DEF Init, KillInv, Armed, OpeningPCs, IdleTask
<1>2. TypeInv /\ KillInv /\ [Next]_vars => KillInv'
  BY KillStep
<1>3. KillInv => KillSwitchBound
  BY DEF KillInv, KillSwitchBound
<1> QED
  BY <1>1, <1>2, <1>3, TypeInvariant, PTL DEF Spec

-----------------------------------------------------------------------------
(* The rate limit.  A task holds a token from the INCR that granted it      *)
(* until it sends its order.                                                *)

HoldsToken(t) ==
    \/ task[t].pc \in OpeningPCs \ {"expire"}
    \/ task[t].pc = "expire" /\ task[t].cur <= task[t].cfg.limit

InFlight(t) == IF HoldsToken(t) THEN 1 ELSE 0

(* The tokens the window's counter has granted *)
Granted == IF rate < MaxLimit THEN rate ELSE MaxLimit

(* Orders of this window and tokens still held were granted in this window, *)
(* but for one token per task that was carried over the roll                *)
RateInv == sentWindow + InFlight("signals") + InFlight("control") <= Granted + 2

LEMMA RateFrame ==
    ASSUME TypeInv, RateInv, UNCHANGED <<rate, sentWindow>>,
           \A t \in Tasks : HoldsToken(t)' => HoldsToken(t)
    PROVE  RateInv'
BY ConstantsAssumption DEF RateInv, InFlight, Granted, TypeInv, TypeOK, StoreOK, HistoryOK

(* One order sent, one token given up *)
LEMMA RateSend ==
    ASSUME TypeInv, RateInv, UNCHANGED rate, sentWindow' = sentWindow + 1,
           NEW t \in Tasks, HoldsToken(t), ~HoldsToken(t)',
           \A u \in Tasks \ {t} : HoldsToken(u)' => HoldsToken(u)
    PROVE  RateInv'
BY ConstantsAssumption DEF RateInv, InFlight, Granted, TypeInv, TypeOK, StoreOK, HistoryOK

LEMMA RateStep ==
    ASSUME TypeInv, RateInv, [Next]_vars
    PROVE  RateInv'
<1> USE DEF redisVars, rateVars, sigVars, ctlVars, venueVars, procVars, histVars
<1>1. CASE Quiet
  BY <1>1, RateFrame DEF Quiet, HoldsToken, OpeningPath, OpeningPCs, IdleTask
<1>2. CASE ReceiveSignal
  BY <1>2, RateFrame, ReceiveSignalMoves
     DEF ReceiveSignal, HoldsToken, OpeningPCs, TypeInv
<1>3. CASE ReceiveCommand
  BY <1>3, RateFrame, ReceiveCommandMoves
     DEF ReceiveCommand, HoldsToken, OpeningPCs, Dispatch, TypeInv
<1>4. CASE CheckDuplicate
  BY <1>4, RateFrame, HandlerMoves
     DEF CheckDuplicate, HoldsToken, OpeningPCs, Moved, Ended, IdleTask
<1>5. CASE Unqueue
  BY <1>5, RateFrame, CommandMoves DEF Unqueue, HoldsToken, OpeningPCs, Moved
<1>6. CASE SendManual
  BY <1>6, RateSend, CommandMoves
     DEF SendManual, HoldsToken, OpeningPCs, Moved, RecordOpening, At
<1>7. CASE ApplySettings
  BY <1>7, RateFrame, CommandMoves
     DEF ApplySettings, HoldsToken, OpeningPCs, Moved, At
<1>8. CASE WindowExpires
  BY <1>8, ConstantsAssumption DEF WindowExpires, RateInv, InFlight, Granted
<1>9. CASE CommitSignals
  BY <1>9, RateFrame DEF CommitSignals, HoldsToken
<1>10. CASE Crash
  BY <1>10, RateFrame DEF Crash, HoldsToken, OpeningPCs, IdleTask
<1>11. ASSUME NEW s \in Signals, ExpireSubmitted(s) \/ PublishSignal(s) PROVE RateInv'
  BY <1>11, RateFrame DEF ExpireSubmitted, PublishSignal, HoldsToken
<1>12. ASSUME NEW t \in Tasks, LoadConfig(t) PROVE RateInv'
  BY <1>12, RateFrame, LoadMoves DEF LoadConfig, HoldsToken, OpeningPCs, TypeInv
<1>13. ASSUME NEW t \in Tasks, Guard(t) PROVE RateInv'
  <2>1. CASE ~task[t].cfg.enabled
    BY <1>13, <2>1, RateFrame, GuardMoves
       DEF Guard, HoldsToken, OpeningPCs, Moved, Refused, TypeInv
  <2>2. CASE task[t].cfg.enabled
    <3>1. /\ rate \in Nat /\ sentWindow \in Nat /\ MaxLimit \in Nat
          /\ task[t].cfg.limit \in 0..MaxLimit
      BY ConstantsAssumption
         DEF TypeInv, TypeOK, StoreOK, HistoryOK, ProcessOK, TaskType, Config
    <3>2. rate' = rate + 1 /\ UNCHANGED sentWindow
      BY <1>13, <2>2, GuardMoves DEF Guard, TypeInv
    <3>3. ~HoldsToken(t)
      BY <1>13 DEF Guard, At, HoldsToken, OpeningPCs
    <3>4. HoldsToken(t)' => rate + 1 <= task[t].cfg.limit
      BY <1>13, <2>2, <3>1, GuardMoves, AfterTokenPC
         DEF HoldsToken, OpeningPCs, TypeInv
    <3>5. \A u \in Tasks \ {t} : HoldsToken(u)' <=> HoldsToken(u)
      BY <1>13, <2>2, GuardMoves DEF HoldsToken, TypeInv
    <3> QED
      BY <3>1, <3>2, <3>3, <3>4, <3>5 DEF RateInv, InFlight, Granted
  <2> QED
    BY <2>1, <2>2
<1>14. ASSUME NEW t \in Tasks, SetExpiry(t) PROVE RateInv'
  <2>1. task[t].cur \in Nat /\ task[t].cfg.limit \in Nat
    BY ConstantsAssumption DEF TypeInv, TypeOK, ProcessOK, TaskType, Config
  <2> QED
    BY <1>14, <2>1, RateFrame, HandlerMoves, AfterTokenPC
       DEF SetExpiry, HoldsToken, OpeningPCs, Moved, At
<1>15. ASSUME NEW t \in Tasks, SizeOrder(t) PROVE RateInv'
  BY <1>15, RateFrame, HandlerMoves DEF SizeOrder, HoldsToken, OpeningPCs, Moved, At
<1>16. ASSUME NEW t \in Tasks, MarkSubmitted(t) PROVE RateInv'
  BY <1>16, RateFrame, HandlerMoves DEF MarkSubmitted, HoldsToken, OpeningPCs, Moved, At
<1>17. ASSUME NEW t \in Tasks, SendEntry(t) PROVE RateInv'
  BY <1>17, RateSend, HandlerMoves
     DEF SendEntry, HoldsToken, OpeningPCs, Moved, RecordOpening, At
<1> QED
  BY <1>1, <1>2, <1>3, <1>4, <1>5, <1>6, <1>7, <1>8, <1>9, <1>10, <1>11, <1>12, <1>13,
     <1>14, <1>15, <1>16, <1>17, QuietOrAdvancing DEF Advancing

(* No more opening orders leave in a window than max_orders_per_hour ever   *)
(* allowed, plus one per task, for any limit and any number of signals,     *)
(* commands, changes of the limit and restarts.                             *)
THEOREM RateLimit == Spec => []RateBound
<1>1. Init => RateInv
  BY ConstantsAssumption
     DEF Init, RateInv, InFlight, HoldsToken, Granted, OpeningPCs, IdleTask
<1>2. TypeInv /\ RateInv /\ [Next]_vars => RateInv'
  BY RateStep
<1>3. TypeInv /\ RateInv => RateBound
  BY ConstantsAssumption
     DEF RateInv, RateBound, InFlight, Granted, TypeInv, TypeOK, StoreOK, HistoryOK
<1> QED
  BY <1>1, <1>2, <1>3, TypeInvariant, PTL DEF Spec

-----------------------------------------------------------------------------
(* One entry per signal, when no command approves a queued opportunity.     *)

NoApprovals == \A c \in Commands : c.cmd # "approve_opportunity"

(* What precedes the entry order in the signal handler *)
BeforeEntry == {"load", "guard", "expire", "equity", "mark", "entry"}

(* The command task opens manual orders only *)
ControlOpensManually ==
    /\ task["control"].pc \notin {"equity", "mark", "entry"}
    /\ task["control"].pc \in SharedPCs => Manual("control")

(* The log never repeats an event, and the handler works on the last one    *)
(* delivered, which is not committed                                        *)
SignalInHand ==
    /\ \A i, j \in 1..Len(sigLog) : sigLog[i] = sigLog[j] => i = j
    /\ task["signals"].pc # "idle"
          => /\ sigCommitted < sigPos
             /\ task["signals"].sig = sigLog[sigPos]

(* A signal whose entry was sent has its key, or will not come back; a      *)
(* handler on its way to the entry works on a signal that has none yet      *)
EntryInv ==
    /\ ControlOpensManually
    /\ SignalInHand
    /\ \A s \in Signals : entrySends[s] \in {0, 1}
    /\ \A s \in Signals : entrySends[s] = 1 => s \in submitted \/ Committed(s)
    /\ task["signals"].pc \in BeforeEntry => entrySends[task["signals"].sig] = 0
    /\ task["signals"].pc = "entry" => task["signals"].sig \in submitted

(* The signal in hand cannot have been committed *)
LEMMA InHandUncommitted ==
    ASSUME TypeInv, EntryInv, task["signals"].pc # "idle"
    PROVE  ~Committed(task["signals"].sig)
BY DEF TypeInv, TypeOK, LogsOK, EntryInv, SignalInHand, Committed

(* A step that leaves the log, the keys and the counts alone, and takes the *)
(* tasks no further towards an entry                                        *)
LEMMA EntryFrame ==
    ASSUME TypeInv, EntryInv, UNCHANGED <<sigVars, submitted, entrySends>>,
           \/ task'["signals"] = task["signals"]
           \/ task'["signals"] = IdleTask
           \/ /\ task["signals"].pc # "idle"
              /\ task'["signals"].sig = task["signals"].sig
              /\ task'["signals"].pc # "entry"
              /\ task'["signals"].pc \in BeforeEntry => task["signals"].pc \in BeforeEntry,
           ControlOpensManually'
    PROVE  EntryInv'
<1>1. SignalInHand'
  BY DEF EntryInv, SignalInHand, sigVars, IdleTask
<1>2. \A s \in Signals : Committed(s)' <=> Committed(s)
  BY DEF Committed, sigVars
<1>3. (task["signals"].pc \in BeforeEntry => entrySends[task["signals"].sig] = 0)'
  BY DEF EntryInv, BeforeEntry, IdleTask
<1>4. (task["signals"].pc = "entry" => task["signals"].sig \in submitted)'
  BY DEF EntryInv, IdleTask
<1> QED
  BY <1>1, <1>2, <1>3, <1>4 DEF EntryInv

LEMMA EntryStep ==
    ASSUME NoApprovals, TypeInv, EntryInv, [Next]_vars
    PROVE  EntryInv'
<1> USE DEF redisVars, rateVars, sigVars, ctlVars, venueVars, procVars, histVars
<1> DEFINE me == task["signals"].sig
<1>0. /\ task["control"].cmd.cmd # "approve_opportunity"
      /\ task["signals"].cmd = NoCommand
  BY DEF NoApprovals, TypeInv, TypeOK, HandlersHaveEvents, ProcessOK, TaskType, NoCommand
<1>1. CASE Quiet
  <2>1. ControlOpensManually'
    BY <1>1 DEF Quiet, EntryInv, ControlOpensManually, OpeningPath, OpeningPCs,
                SharedPCs, Manual, IdleTask
  <2> QED
    BY <1>1, <2>1, EntryFrame DEF Quiet, OpeningPath, OpeningPCs, BeforeEntry
<1>2. CASE ReceiveSignal
  <2>1. /\ task'["signals"].pc = "dup" /\ task'["signals"].sig = sigLog[sigPos + 1]
        /\ task'["control"] = task["control"]
    BY <1>2, ReceiveSignalMoves DEF TypeInv
  <2>2. SignalInHand'
    BY <1>2, <2>1
       DEF ReceiveSignal, EntryInv, SignalInHand, TypeInv, TypeOK, LogsOK
  <2>3. ControlOpensManually'
    BY <2>1 DEF EntryInv, ControlOpensManually, Manual
  <2>4. \A s \in Signals : Committed(s)' <=> Committed(s)
    BY <1>2 DEF ReceiveSignal, Committed
  <2> QED
    BY <1>2, <2>1, <2>2, <2>3, <2>4 DEF ReceiveSignal, EntryInv, BeforeEntry
<1>3. CASE ReceiveCommand
  <2>1. ctlLog[ctlPos + 1].cmd # "approve_opportunity"
    BY <1>3, ReceiveCommandMoves DEF NoApprovals, TypeInv
  <2>2. ControlOpensManually'
    BY <1>3, <2>1, ReceiveCommandMoves, CommandFields, ConstantsAssumption
       DEF ControlOpensManually, Dispatch, Settings, SharedPCs, Manual, TypeInv
  <2>3. task'["signals"] = task["signals"]
    BY <1>3, ReceiveCommandMoves DEF TypeInv
  <2> QED
    BY <1>3, <2>2, <2>3, EntryFrame DEF ReceiveCommand
<1>4. CASE CheckDuplicate
  <2>1. ControlOpensManually'
    BY <1>4, HandlerMoves
       DEF EntryInv, ControlOpensManually, Manual, Moved, Ended
  <2>2. CASE Ended("signals")
    BY <1>4, <2>1, <2>2, EntryFrame DEF CheckDuplicate, Ended
  <2>3. CASE Moved("signals", "load")
    <3>1. me \in Signals /\ me \notin submitted
      BY <1>4, <2>3 DEF CheckDuplicate, At, Event, Return, Moved, IdleTask, TypeInv,
                         HandlersHaveEvents, HasEvent, EventPCs
    <3>2. entrySends[me] = 0
      BY <1>4, <3>1, InHandUncommitted DEF CheckDuplicate, At, EntryInv
    <3>3. SignalInHand'
      BY <1>4, <2>3 DEF CheckDuplicate, At, EntryInv, SignalInHand, Moved
    <3>4. \A s \in Signals : Committed(s)' <=> Committed(s)
      BY <1>4 DEF CheckDuplicate, Committed
    <3> QED
      BY <1>4, <2>1, <2>3, <3>2, <3>3, <3>4 DEF CheckDuplicate, EntryInv, Moved
  <2> QED
    BY <1>4, <2>2, <2>3, HandlerMoves
<1>5. CASE Unqueue
  BY <1>0, <1>5, CommandMoves, EntryFrame
     DEF Unqueue, ControlOpensManually, Moved, SharedPCs
<1>6. CASE SendManual \/ ApplySettings
  BY <1>6, CommandMoves, EntryFrame
     DEF SendManual, ApplySettings, ControlOpensManually, Moved, SharedPCs
<1>7. CASE WindowExpires
  BY <1>7, EntryFrame DEF WindowExpires, EntryInv, ControlOpensManually, Manual
<1>8. CASE CommitSignals
  <2>1. SignalInHand'
    BY <1>8 DEF CommitSignals, At, EntryInv, SignalInHand
  <2>2. \A s \in Signals : Committed(s) => Committed(s)'
    BY <1>8 DEF CommitSignals, Committed, TypeInv, TypeOK, LogsOK
  <2> QED
    BY <1>8, <2>1, <2>2 DEF CommitSignals, EntryInv, ControlOpensManually, Manual
<1>9. CASE Crash
  <2>1. \A s \in Signals : Committed(s)' <=> Committed(s)
    BY <1>9 DEF Crash, Committed
  <2> QED
    BY <1>9, <2>1 DEF Crash, EntryInv, SignalInHand, ControlOpensManually, Manual,
                      BeforeEntry, SharedPCs, IdleTask
<1>10. ASSUME NEW s \in Signals, ExpireSubmitted(s) PROVE EntryInv'
  <2>1. task["signals"].pc # "idle" => me # s
    BY <1>10, InHandUncommitted DEF ExpireSubmitted
  <2>2. \A u \in Signals : Committed(u)' <=> Committed(u)
    BY <1>10 DEF ExpireSubmitted, Committed
  <2> QED
    BY <1>10, <2>1, <2>2
       DEF ExpireSubmitted, EntryInv, SignalInHand, ControlOpensManually, Manual
<1>11. ASSUME NEW s \in Signals, PublishSignal(s) PROVE EntryInv'
  <2>1. /\ Len(sigLog') = Len(sigLog) + 1 /\ sigLog'[Len(sigLog) + 1] = s
        /\ \A i \in 1..Len(sigLog) : sigLog'[i] = sigLog[i] /\ sigLog[i] # s
    BY <1>11 DEF PublishSignal, TypeInv, TypeOK, LogsOK
  <2>2. SignalInHand'
    BY <1>11, <2>1 DEF PublishSignal, EntryInv, SignalInHand, TypeInv, TypeOK, LogsOK
  <2>3. \A u \in Signals : Committed(u)' <=> Committed(u)
    BY <1>11, <2>1 DEF PublishSignal, Committed, TypeInv, TypeOK, LogsOK
  <2> QED
    BY <1>11, <2>2, <2>3 DEF PublishSignal, EntryInv, ControlOpensManually, Manual
<1>12. ASSUME NEW t \in Tasks, LoadConfig(t) PROVE EntryInv'
  <2>1. ControlOpensManually'
    BY <1>12, LoadMoves
       DEF LoadConfig, At, EntryInv, ControlOpensManually, SharedPCs, Manual, TypeInv
  <2> QED
    BY <1>12, <2>1, LoadMoves, EntryFrame DEF LoadConfig, At, BeforeEntry, TypeInv
<1>13. ASSUME NEW t \in Tasks, Guard(t) PROVE EntryInv'
  <2>1. ControlOpensManually'
    BY <1>13, GuardMoves, AfterTokenPC
       DEF Guard, At, EntryInv, ControlOpensManually, SharedPCs, Manual, Moved, Refused,
           TypeInv
  <2>2. CASE t = "signals"
    BY <1>13, <2>1, <2>2, GuardMoves, AfterTokenPC, EntryFrame
       DEF Guard, At, BeforeEntry, Moved, Refused, TypeInv
  <2>3. CASE t = "control"
    BY <1>13, <2>1, <2>3, GuardMoves, EntryFrame DEF Guard, Moved, TypeInv
  <2> QED
    BY <2>2, <2>3
<1>14. ASSUME NEW t \in Tasks, SetExpiry(t) PROVE EntryInv'
  <2>1. ControlOpensManually'
    BY <1>14, HandlerMoves, AfterTokenPC
       DEF SetExpiry, At, EntryInv, ControlOpensManually, SharedPCs, Manual, Moved
  <2> QED
    BY <1>14, <2>1, HandlerMoves, AfterTokenPC, EntryFrame
       DEF SetExpiry, At, BeforeEntry, Moved
<1>15. ASSUME NEW t \in Tasks, SizeOrder(t) PROVE EntryInv'
  <2>1. t = "signals"
    BY <1>15 DEF SizeOrder, At, EntryInv, ControlOpensManually
  <2>2. ControlOpensManually'
    BY <1>15, <2>1, HandlerMoves DEF EntryInv, ControlOpensManually, Manual, Moved
  <2> QED
    BY <1>15, <2>1, <2>2, HandlerMoves, EntryFrame DEF SizeOrder, At, BeforeEntry, Moved
<1>16. ASSUME NEW t \in Tasks, MarkSubmitted(t) PROVE EntryInv'
  <2>1. t = "signals"
    BY <1>16 DEF MarkSubmitted, At, EntryInv, ControlOpensManually
  <2>2. Moved("signals", "entry") /\ submitted' = submitted \cup {me}
    BY <1>16, <2>1, HandlerMoves DEF MarkSubmitted, Event
  <2>3. ControlOpensManually' /\ SignalInHand'
    BY <1>16, <2>1, <2>2
       DEF MarkSubmitted, At, EntryInv, ControlOpensManually, SignalInHand, Manual, Moved
  <2>4. \A s \in Signals : Committed(s)' <=> Committed(s)
    BY <1>16 DEF MarkSubmitted, Committed
  <2> QED
    BY <1>16, <2>1, <2>2, <2>3, <2>4
       DEF MarkSubmitted, At, EntryInv, BeforeEntry, Moved
<1>17. ASSUME NEW t \in Tasks, SendEntry(t) PROVE EntryInv'
  <2>1. t = "signals" /\ task["signals"].pc = "entry"
    BY <1>17 DEF SendEntry, At, EntryInv, ControlOpensManually
  <2>2. Moved("signals", "emit_submitted")
    BY <1>17, <2>1, HandlerMoves
  <2>3. ControlOpensManually' /\ SignalInHand'
    BY <1>17, <2>1, <2>2
       DEF SendEntry, EntryInv, ControlOpensManually, SignalInHand, Manual, Moved
  <2>4. me \in Signals /\ me \in submitted /\ entrySends[me] = 0
    BY <2>1 DEF EntryInv, BeforeEntry, TypeInv, HandlersHaveEvents, HasEvent, EventPCs
  <2>5. entrySends' = [entrySends EXCEPT ![me] = 1]
    BY <1>17, <2>1, <2>4 DEF SendEntry, Event
  <2>6. \A s \in Signals : Committed(s)' <=> Committed(s)
    BY <1>17 DEF SendEntry, Committed
  <2> QED
    BY <1>17, <2>2, <2>3, <2>4, <2>5, <2>6
       DEF SendEntry, EntryInv, BeforeEntry, Moved, TypeInv, TypeOK, HistoryOK
<1> QED
  BY <1>1, <1>2, <1>3, <1>4, <1>5, <1>6, <1>7, <1>8, <1>9, <1>10, <1>11, <1>12, <1>13,
     <1>14, <1>15, <1>16, <1>17, QuietOrAdvancing DEF Advancing

(* Where the operator approves nothing, no signal has its entry order sent  *)
(* twice, whatever is redelivered and wherever a handler raised.            *)
THEOREM EntryOnce ==
    ASSUME NoApprovals
    PROVE  Spec => []AtMostOneEntry
<1>1. Init => EntryInv
  BY DEF Init, EntryInv, ControlOpensManually, SignalInHand, SharedPCs, BeforeEntry,
         IdleTask
<1>2. TypeInv /\ EntryInv /\ [Next]_vars => EntryInv'
  BY EntryStep
<1>3. EntryInv => AtMostOneEntry
  BY DEF EntryInv, AtMostOneEntry
<1> QED
  BY <1>1, <1>2, <1>3, TypeInvariant, PTL DEF Spec
=============================================================================
