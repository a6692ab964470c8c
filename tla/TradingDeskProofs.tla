------------------------- MODULE TradingDeskProofs -------------------------
(***************************************************************************)
(* Proofs about the positions and the settings of TradingEngine: what is   *)
(* reported filled or closed, what the reconciler gives back, and what the *)
(* operator's commands leave in trading:runtime.                           *)
(***************************************************************************)
EXTENDS TradingEngineProofs

USE DEF Tasks

-----------------------------------------------------------------------------
(* The steps that advance a bracket, or are the reconciler's, and all the   *)
(* others.  A bracket is open from the moment its entry order left until    *)
(* FILLED is published.                                                     *)

BracketPCs == {"emit_submitted", "stop", "target", "track", "record", "emit_filled"}

(* A step that leaves the brackets, the positions and the sweep alone *)
Elsewhere ==
    /\ \A t \in Tasks : task'[t] = task[t] \/ task'[t].pc \notin BracketPCs
    /\ UNCHANGED <<posKey, posSet, rec, freed, entrySends, crashes>>
    /\ sent \subseteq sent'
    /\ \A s \in Signals : \A k \in {"filled", "closed"} :
          <<s, k>> \in emitted' => <<s, k>> \in emitted

Bracketing ==
    \/ \E t \in Tasks : SendEntry(t) \/ EmitSubmitted(t) \/ SendExits(t)
                           \/ TrackPosition(t) \/ EmitFilled(t)
    \/ Sweep \/ SweepRaise \/ Crash

(* Every step is one of those, or elsewhere *)
LEMMA ElsewhereOrBracketing ==
    ASSUME TypeInv, [Next]_vars
    PROVE  Elsewhere \/ Bracketing
<1> USE DEF redisVars, rateVars, sigVars, ctlVars, venueVars, procVars, histVars
<1>1. CASE ReceiveSignal
  BY <1>1, ReceiveSignalMoves
     DEF ReceiveSignal, TypeInv, Elsewhere, BracketPCs, Moved, Ended, IdleTask
<1>2. CASE ReceiveCommand
  BY <1>2, ReceiveCommandMoves
     DEF ReceiveCommand, Dispatch, TypeInv, Elsewhere, BracketPCs, Moved, Ended, IdleTask
<1>3. CASE CheckDuplicate
  BY <1>3, HandlerMoves
     DEF CheckDuplicate, Elsewhere, BracketPCs, Moved, Ended, IdleTask
<1>4. CASE QueuePending
  BY <1>4, HandlerMoves
     DEF QueuePending, Emit, Elsewhere, BracketPCs, Moved, Ended, IdleTask
<1>5. ASSUME NEW t \in Tasks, LoadConfig(t) PROVE Elsewhere
  BY <1>5, LoadMoves
     DEF LoadConfig, TypeInv, Elsewhere, BracketPCs, Moved, Ended, IdleTask
<1>6. ASSUME NEW t \in Tasks, Guard(t) PROVE Elsewhere
  BY <1>6, GuardMoves, AfterTokenPC
     DEF Guard, Refused, TypeInv, Elsewhere, BracketPCs, Moved, Ended, IdleTask
<1>7. ASSUME NEW t \in Tasks, SetExpiry(t) PROVE Elsewhere
  BY <1>7, HandlerMoves, AfterTokenPC
     DEF SetExpiry, Elsewhere, BracketPCs, Moved, Ended, IdleTask
<1>8. ASSUME NEW t \in Tasks, SizeOrder(t) PROVE Elsewhere
  BY <1>8, HandlerMoves
     DEF SizeOrder, Elsewhere, BracketPCs, Moved, Ended, IdleTask
<1>9. ASSUME NEW t \in Tasks, Reject(t) PROVE Elsewhere
  BY <1>9, HandlerMoves
     DEF Reject, Emit, Elsewhere, BracketPCs, Moved, Ended, IdleTask
<1>10. ASSUME NEW t \in Tasks, MarkSubmitted(t) PROVE Elsewhere
  BY <1>10, HandlerMoves
     DEF MarkSubmitted, Elsewhere, BracketPCs, Moved, Ended, IdleTask
<1>11. ASSUME NEW t \in Tasks, Raise(t) PROVE Elsewhere
  BY <1>11, HandlerMoves
     DEF Raise, Elsewhere, BracketPCs, Moved, Ended, IdleTask
<1>12. CASE FetchPending
  BY <1>12, CommandMoves
     DEF FetchPending, Elsewhere, BracketPCs, Moved, Ended, IdleTask
<1>13. CASE Unqueue
  BY <1>13, CommandMoves
     DEF Unqueue, Elsewhere, BracketPCs, Moved, Ended, IdleTask
<1>14. CASE FetchPosition
  BY <1>14, CommandMoves
     DEF FetchPosition, Elsewhere, BracketPCs, Moved, Ended, IdleTask
<1>15. CASE ClosePosition
  BY <1>15, CommandMoves
     DEF ClosePosition, RecordSend, Elsewhere, BracketPCs, Moved, Ended, IdleTask
<1>16. ASSUME NEW leg \in {"sl", "tp"}, CancelLeg(leg) PROVE Elsewhere
  BY <1>16, CommandMoves
     DEF CancelLeg, Elsewhere, BracketPCs, Moved, Ended, IdleTask
<1>17. ASSUME NEW leg \in {"sl", "tp"}, ResendLeg(leg) PROVE Elsewhere
  BY <1>17, CommandMoves
     DEF ResendLeg, RecordSend, Elsewhere, BracketPCs, Moved, Ended, IdleTask
<1>18. CASE SendManual
  BY <1>18, CommandMoves
     DEF SendManual, RecordSend, Elsewhere, BracketPCs, Moved, Ended, IdleTask
<1>19. CASE ApplySettings
  BY <1>19, CommandMoves
     DEF ApplySettings, Elsewhere, BracketPCs, Moved, Ended, IdleTask
<1>20. CASE RefreshMode
  BY <1>20, CommandMoves
     DEF RefreshMode, Elsewhere, BracketPCs, Moved, Ended, IdleTask
<1>21. CASE CommitSignals \/ CommitCommands \/ WindowExpires
  BY <1>21
     DEF CommitSignals, CommitCommands, WindowExpires, Elsewhere, BracketPCs
<1>22. ASSUME NEW s \in Signals,
             PublishSignal(s) \/ ExpirePending(s) \/ ExpireSubmitted(s)
      PROVE  Elsewhere
  BY <1>22
     DEF PublishSignal, ExpirePending, ExpireSubmitted, Elsewhere, BracketPCs
<1>23. ASSUME NEW c \in Commands, PublishCommand(c) PROVE Elsewhere
  BY <1>23
     DEF PublishCommand, Elsewhere, BracketPCs
<1>24. ASSUME NEW o \in book, Fill(o) \/ Trigger(o) PROVE Elsewhere
  BY <1>24
     DEF Fill, Trigger, Elsewhere, BracketPCs
<1>25. CASE UNCHANGED vars
  BY <1>25
     DEF vars, Elsewhere, BracketPCs
<1> QED
  BY <1>1, <1>2, <1>3, <1>4, <1>5, <1>6, <1>7, <1>8, <1>9, <1>10, <1>11, <1>12,
     <1>13, <1>14, <1>15, <1>16, <1>17, <1>18, <1>19, <1>20, <1>21, <1>22, <1>23,
     <1>24, <1>25
     DEF Next, SignalStep, ControlStep, TaskStep, Environment, Bracketing

-----------------------------------------------------------------------------
(* What is reported was protected. *)

(* The orders that have left when a handler stands at p *)
LegsBy(p) ==
    CASE p \in {"emit_submitted", "stop"} -> {"entry"}
      [] p = "target" -> {"entry", "sl"}
      [] p \in {"track", "record", "emit_filled"} -> {"entry", "sl", "tp"}
      [] OTHER -> {}

(* The legs of an event among the orders S *)
LegsIn(S, s) == {leg \in Legs : \E m \in Modes : <<s, leg, m>> \in S}

Protected(S, s) == {"entry", "sl", "tp"} \subseteq LegsIn(S, s)

(* Each handler has sent what its place implies, and whatever is tracked,   *)
(* recorded, or in the hands of the reconciler was protected                *)
ReportInv ==
    /\ \A t \in Tasks : LegsBy(task[t].pc) \subseteq LegsIn(sent, task[t].sig)
    /\ \A s \in posSet \cup posKey \cup rec.todo : Protected(sent, s)
    /\ rec.pc \in {"free", "untrack", "emit_closed"} => Protected(sent, rec.sig)
    /\ ReportedIsProtected

(* An order sent stays sent, so what was protected stays so *)
LEMMA SentStays ==
    ASSUME sent \subseteq sent'
    PROVE  /\ \A s : LegsIn(sent, s) \subseteq LegsIn(sent', s)
           /\ \A s : Protected(sent, s) => Protected(sent', s)
BY DEF LegsIn, Protected

(* The leg that a send adds *)
LEMMA SendAdds ==
    ASSUME TypeInv, NEW s, NEW leg \in Legs, RecordSend(s, leg)
    PROVE  sent \subseteq sent' /\ leg \in LegsIn(sent', s)
BY DEF RecordSend, LegsIn, TypeInv, TypeOK, ProcessOK

(* A handler moves on, and nothing it does not own changes *)
LEMMA ReportFrame ==
    ASSUME ReportInv, sent \subseteq sent', UNCHANGED <<posSet, posKey, rec>>,
           \A t \in Tasks : \/ task'[t] = task[t]
                            \/ LegsBy(task'[t].pc) \subseteq LegsIn(sent', task'[t].sig),
           \A s \in Signals : \A k \in {"filled", "closed"} :
              <<s, k>> \in emitted' => <<s, k>> \in emitted \/ Protected(sent, s)
    PROVE  ReportInv'
<1>1. \A t \in Tasks : LegsBy(task'[t].pc) \subseteq LegsIn(sent', task'[t].sig)
  BY SentStays DEF ReportInv
<1>2. ReportedIsProtected'
  <2> SUFFICES ASSUME NEW s \in Signals, {<<s, "filled">>, <<s, "closed">>} \cap emitted' # {}
               PROVE  Protected(sent', s)
    BY DEF ReportedIsProtected, SentLegs, Protected, LegsIn
  <2>1. Protected(sent, s) \/ {<<s, "filled">>, <<s, "closed">>} \cap emitted # {}
    OBVIOUS
  <2> QED
    BY <2>1, SentStays DEF ReportInv, ReportedIsProtected, SentLegs, Protected, LegsIn
<1>3. /\ \A s \in posSet \cup posKey \cup rec.todo : Protected(sent', s)
      /\ rec.pc \in {"free", "untrack", "emit_closed"} => Protected(sent', rec.sig)
  BY SentStays DEF ReportInv
<1> QED
  BY <1>1, <1>2, <1>3 DEF ReportInv

(* The reconciler moves on *)
LEMMA SweepFrame ==
    ASSUME ReportInv, UNCHANGED <<sent, task, posKey>>, posSet' \subseteq posSet,
           \A s \in rec'.todo : Protected(sent, s),
           rec'.pc \in {"free", "untrack", "emit_closed"} => Protected(sent, rec'.sig),
           \A s \in Signals : \A k \in {"filled", "closed"} :
              <<s, k>> \in emitted' => <<s, k>> \in emitted \/ Protected(sent, s)
    PROVE  ReportInv'
<1>1. \A s : /\ LegsIn(sent', s) = LegsIn(sent, s)
            /\ Protected(sent', s) <=> Protected(sent, s)
  BY DEF LegsIn, Protected
<1>2. \A t \in Tasks : LegsBy(task'[t].pc) \subseteq LegsIn(sent', task'[t].sig)
  BY <1>1 DEF ReportInv
<1>3. ReportedIsProtected'
  <2> SUFFICES ASSUME NEW s \in Signals, {<<s, "filled">>, <<s, "closed">>} \cap emitted' # {}
               PROVE  Protected(sent', s)
    BY DEF ReportedIsProtected, SentLegs, Protected, LegsIn
  <2>1. Protected(sent, s) \/ {<<s, "filled">>, <<s, "closed">>} \cap emitted # {}
    OBVIOUS
  <2> QED
    BY <1>1, <2>1 DEF ReportInv, ReportedIsProtected, SentLegs, Protected, LegsIn
<1> QED
  BY <1>1, <1>2, <1>3 DEF ReportInv

LEMMA ReportStep ==
    ASSUME TypeInv, ReportInv, [Next]_vars
    PROVE  ReportInv'
<1> USE DEF redisVars, rateVars, sigVars, ctlVars, venueVars, procVars, histVars
<1>1. CASE Elsewhere
  <2>1. \A t \in Tasks : \/ task'[t] = task[t]
                         \/ LegsBy(task'[t].pc) \subseteq LegsIn(sent', task'[t].sig)
    BY <1>1 DEF Elsewhere, BracketPCs, LegsBy
  <2> QED
    BY <1>1, <2>1, ReportFrame DEF Elsewhere
<1>2. ASSUME NEW t \in Tasks, SendEntry(t) PROVE ReportInv'
  <2>1. /\ Moved(t, "emit_submitted")
        /\ sent \subseteq sent' /\ "entry" \in LegsIn(sent', task[t].sig)
    BY <1>2, HandlerMoves, SendAdds DEF SendEntry, Event, Legs
  <2> QED
    BY <1>2, <2>1, ReportFrame DEF SendEntry, Moved, LegsBy
<1>3. ASSUME NEW t \in Tasks, EmitSubmitted(t) PROVE ReportInv'
  <2>1. Moved(t, "stop") /\ "entry" \in LegsIn(sent', task[t].sig)
    BY <1>3, HandlerMoves DEF EmitSubmitted, At, ReportInv, LegsBy, LegsIn
  <2> QED
    BY <1>3, <2>1, ReportFrame DEF EmitSubmitted, Moved, LegsBy, Emit
<1>4. ASSUME NEW t \in Tasks, SendExits(t) PROVE ReportInv'
  <2>1. CASE At(t, "stop")
    <3>1. /\ Moved(t, "target") /\ sent \subseteq sent'
          /\ "entry" \in LegsIn(sent, task[t].sig) /\ "sl" \in LegsIn(sent', task[t].sig)
      BY <1>4, <2>1, HandlerMoves, SendAdds
         DEF SendExits, At, Event, Legs, ReportInv, LegsBy
    <3> QED
      BY <1>4, <3>1, SentStays, ReportFrame DEF SendExits, Moved, LegsBy
  <2>2. CASE At(t, "target")
    <3>1. /\ Moved(t, "track") /\ sent \subseteq sent'
          /\ {"entry", "sl"} \subseteq LegsIn(sent, task[t].sig)
          /\ "tp" \in LegsIn(sent', task[t].sig)
      BY <1>4, <2>2, HandlerMoves, SendAdds
         DEF SendExits, At, Event, Legs, ReportInv, LegsBy
    <3> QED
      BY <1>4, <3>1, SentStays, ReportFrame DEF SendExits, Moved, LegsBy
  <2> QED
    BY <1>4, <2>1, <2>2 DEF SendExits
<1>5. ASSUME NEW t \in Tasks, TrackPosition(t) PROVE ReportInv'
  <2>1. Protected(sent, task[t].sig)
    BY <1>5 DEF TrackPosition, At, ReportInv, LegsBy, Protected
  <2>2. \E p \in {"record", "emit_filled"} : Moved(t, p)
    BY <1>5, HandlerMoves
  <2>3. \A s : /\ LegsIn(sent', s) = LegsIn(sent, s)
            /\ Protected(sent', s) <=> Protected(sent, s)
    BY <1>5 DEF TrackPosition, LegsIn, Protected
  <2>4. \A u \in Tasks : LegsBy(task'[u].pc) \subseteq LegsIn(sent', task'[u].sig)
    <3>1. LegsBy(task'[t].pc) \subseteq LegsIn(sent', task'[t].sig)
      BY <2>1, <2>2, <2>3 DEF Moved, LegsBy, Protected
    <3>2. \A u \in Tasks \ {t} : task'[u] = task[u]
      BY <2>2 DEF Moved
    <3>3. ASSUME NEW u \in Tasks \ {t}
          PROVE  LegsBy(task'[u].pc) \subseteq LegsIn(sent', task'[u].sig)
      <4>1. LegsBy(task[u].pc) \subseteq LegsIn(sent, task[u].sig)
        BY DEF ReportInv
      <4> QED
        BY <1>5, <3>2, <4>1 DEF TrackPosition
    <3> QED
      BY <3>1, <3>3
  <2>5. \A s \in posSet' \cup posKey' \cup rec'.todo : Protected(sent', s)
    BY <1>5, <2>1, <2>3 DEF TrackPosition, Event, ReportInv
  <2>6. ReportedIsProtected'
    BY <1>5, <2>3 DEF TrackPosition, ReportInv, ReportedIsProtected, SentLegs, LegsIn
  <2> QED
    BY <1>5, <2>3, <2>4, <2>5, <2>6 DEF TrackPosition, ReportInv
<1>6. ASSUME NEW t \in Tasks, EmitFilled(t) PROVE ReportInv'
  <2>1. Protected(sent, task[t].sig)
    BY <1>6 DEF EmitFilled, At, ReportInv, LegsBy, Protected
  <2>2. \A u \in Tasks : task'[u] = task[u] \/ LegsBy(task'[u].pc) = {}
    BY <1>6, HandlerMoves DEF Moved, Ended, IdleTask, LegsBy
  <2> QED
    BY <1>6, <2>1, <2>2, ReportFrame DEF EmitFilled, Event, Emit
<1>7. CASE SweepVenue
  BY <1>7, SweepFrame DEF SweepVenue, ReportInv, TypeInv, TypeOK, ProcessOK, SweepType
<1>8. CASE SweepMembers
  BY <1>8, SweepFrame DEF SweepMembers, ReportInv, TypeInv, TypeOK, ProcessOK, SweepType
<1>9. ASSUME NEW s \in Signals, SweepEach(s) PROVE ReportInv'
  BY <1>9, SweepFrame DEF SweepEach, ReportInv, TypeInv, TypeOK, ProcessOK, SweepType
<1>10. CASE SweepForget
  BY <1>10, SweepFrame DEF SweepForget, ReportInv, TypeInv, TypeOK, ProcessOK, SweepType
<1>11. CASE OnClosed
  <2>1. Protected(sent, rec.sig) /\ \A s \in rec.todo : Protected(sent, s)
    BY <1>11 DEF OnClosed, ReportInv
  <2>2. /\ rec'.todo = rec.todo /\ posSet' \subseteq posSet
        /\ rec'.pc \in {"free", "untrack", "emit_closed"} => rec'.sig = rec.sig
    BY <1>11 DEF OnClosed, TypeInv, TypeOK, ProcessOK, SweepType
  <2>3. emitted' \subseteq emitted \cup {<<rec.sig, "closed">>}
    BY <1>11 DEF OnClosed, Emit
  <2> QED
    BY <1>11, <2>1, <2>2, <2>3, SweepFrame DEF OnClosed
<1>12. CASE SweepEnd \/ SweepRaise
  BY <1>12, SweepFrame DEF SweepEnd, SweepRaise, IdleSweep
<1>13. CASE Crash
  BY <1>13 DEF Crash, ReportInv, ReportedIsProtected, SentLegs, Protected, LegsIn, LegsBy,
               IdleTask, IdleSweep
<1> QED
  BY <1>1, <1>2, <1>3, <1>4, <1>5, <1>6, <1>7, <1>8, <1>9, <1>10, <1>11, <1>12, <1>13,
     ElsewhereOrBracketing DEF Bracketing, Sweep

(* FILLED and CLOSED are published only for signals whose entry, stop-loss  *)
(* and take-profit orders all left, wherever a handler raised, however the  *)
(* sweeps interleave and however often the container restarted.             *)
THEOREM OnlyProtectedReported == Spec => []ReportedIsProtected
<1>1. Init => ReportInv
  BY DEF Init, ReportInv, ReportedIsProtected, LegsBy, IdleTask, IdleSweep
<1>2. TypeInv /\ ReportInv /\ [Next]_vars => ReportInv'
  BY ReportStep
<1>3. ReportInv => ReportedIsProtected
  BY DEF ReportInv
<1> QED
  BY <1>1, <1>2, <1>3, TypeInvariant, PTL DEF Spec

-----------------------------------------------------------------------------
(* What the reconciler gives back, when no command approves a queued        *)
(* opportunity and no await raises: a sweep that is cut short by an         *)
(* exception frees a position again, as a restart does.                     *)

(* What the sweep still looks at is tracked, and so is what it is closing   *)
SweepHoldsTracked ==
    /\ rec.todo \subseteq posSet
    /\ rec.pc \in {"forget", "free", "untrack"} => rec.sig \in posSet \ rec.todo

(* Freed, and about to leave trading:positions *)
Closing(s) == rec.pc = "untrack" /\ rec.sig = s

(* On its way to be tracked *)
Untracked == {"emit_submitted", "stop", "target", "track"}

(* A signal not yet tracked was never freed; one that is tracked was freed  *)
(* once per restart at most, and once more while it is leaving the set      *)
FreedInv ==
    /\ task["control"].pc \notin BracketPCs
    /\ SweepHoldsTracked
    /\ \A s \in Signals : entrySends[s] = 0 => s \notin posSet /\ freed[s] = 0
    /\ task["signals"].pc \in Untracked
          => LET s == task["signals"].sig IN
             s \notin posSet /\ freed[s] = 0 /\ entrySends[s] # 0
    /\ \A s \in Signals : s \in posSet /\ ~Closing(s) => freed[s] <= crashes
    /\ FreedOnce

(* A step of the sweep that gives nothing back *)
LEMMA FreedSweepFrame ==
    ASSUME FreedInv, UNCHANGED <<task, entrySends, freed, crashes>>,
           posSet' \subseteq posSet, SweepHoldsTracked',
           \A s \in Signals : s \in posSet' /\ Closing(s) => Closing(s)'
    PROVE  FreedInv'
BY DEF FreedInv, FreedOnce

LEMMA FreedStep ==
    ASSUME NoApprovals, ~MayRaise, TypeInv, EntryInv, FreedInv, [Next]_vars
    PROVE  FreedInv'
<1> USE DEF redisVars, rateVars, sigVars, ctlVars, venueVars, procVars, histVars
<1> DEFINE me == task["signals"].sig
<1>0. /\ rec.todo \subseteq Signals /\ posSet \subseteq Signals
      /\ rec.pc \in {"free", "untrack"} => rec.sig \in Signals
      /\ freed \in [Signals -> Nat] /\ crashes \in Nat
  BY FreedBound, ConstantsAssumption
     DEF TypeInv, TypeOK, StoreOK, ProcessOK, HistoryOK, SweepType, HandlersHaveEvents
<1>1. CASE Elsewhere
  <2>1. /\ task'["control"].pc \notin BracketPCs
        /\ task'["signals"].pc \in Untracked => task'["signals"] = task["signals"]
    BY <1>1 DEF Elsewhere, FreedInv, BracketPCs, Untracked
  <2>2. UNCHANGED <<posSet, rec, freed, entrySends, crashes>>
    BY <1>1 DEF Elsewhere
  <2> QED
    BY <2>1, <2>2 DEF FreedInv, SweepHoldsTracked, Closing, FreedOnce
<1>2. ASSUME NEW t \in Tasks, SendEntry(t) PROVE FreedInv'
  <2>1. t = "signals" /\ task["signals"].pc = "entry"
    BY <1>2 DEF SendEntry, At, EntryInv, ControlOpensManually
  <2>2. Moved("signals", "emit_submitted")
    BY <1>2, <2>1, HandlerMoves
  <2>3. me \in Signals /\ entrySends[me] = 0
    BY <2>1 DEF EntryInv, BeforeEntry, TypeInv, HandlersHaveEvents, HasEvent, EventPCs
  <2>4. me \notin posSet /\ freed[me] = 0
    BY <2>3 DEF FreedInv
  <2>5. /\ entrySends'[me] = 1
        /\ \A s \in Signals : entrySends'[s] = 0 => entrySends[s] = 0
    BY <1>2, <2>1, <2>3 DEF SendEntry, Event, TypeInv, TypeOK, HistoryOK
  <2> QED
    BY <1>2, <2>2, <2>4, <2>5
       DEF SendEntry, Moved, FreedInv, SweepHoldsTracked, Closing, FreedOnce
<1>3. ASSUME NEW t \in Tasks, EmitSubmitted(t) \/ SendExits(t) PROVE FreedInv'
  <2>1. t = "signals" /\ task["signals"].pc \in Untracked
    BY <1>3 DEF EmitSubmitted, SendExits, At, FreedInv, BracketPCs, Untracked
  <2>2. \E p \in PCs : Moved("signals", p)
    BY <1>3, <2>1, HandlerMoves DEF PCs
  <2>3. UNCHANGED <<posSet, rec, freed, entrySends, crashes>>
    BY <1>3 DEF EmitSubmitted, SendExits
  <2> QED
    BY <2>1, <2>2, <2>3 DEF Moved, FreedInv, SweepHoldsTracked, Closing, FreedOnce
<1>4. ASSUME NEW t \in Tasks, TrackPosition(t) PROVE FreedInv'
  <2>1. t = "signals" /\ me \in Signals
    BY <1>4 DEF TrackPosition, At, FreedInv, BracketPCs, TypeInv, HandlersHaveEvents,
                HasEvent, EventPCs
  <2>2. UNCHANGED <<rec, freed, entrySends, crashes>>
    BY <1>4 DEF TrackPosition
  <2>3. CASE At("signals", "track")
    <3>1. Moved("signals", "record") /\ posSet' = posSet \cup {me}
      BY <1>4, <2>1, <2>3, HandlerMoves DEF TrackPosition, At, Event
    <3>2. freed[me] = 0 /\ me \notin posSet /\ entrySends[me] # 0
      BY <2>3 DEF At, FreedInv, Untracked
    <3> QED
      BY <1>0, <2>1, <2>2, <3>1, <3>2
         DEF Moved, FreedInv, SweepHoldsTracked, Closing, FreedOnce, Untracked
  <2>4. CASE At("signals", "record")
    <3>1. Moved("signals", "emit_filled") /\ posSet' = posSet
      BY <1>4, <2>1, <2>4, HandlerMoves DEF TrackPosition, At
    <3> QED
      BY <2>2, <3>1
         DEF Moved, FreedInv, SweepHoldsTracked, Closing, FreedOnce, Untracked, BracketPCs
  <2> QED
    BY <1>4, <2>1, <2>3, <2>4 DEF TrackPosition
<1>5. ASSUME NEW t \in Tasks, EmitFilled(t) PROVE FreedInv'
  <2>1. t = "signals"
    BY <1>5 DEF EmitFilled, At, FreedInv, BracketPCs
  <2>2. Ended("signals") /\ UNCHANGED <<posSet, rec, freed, entrySends, crashes>>
    BY <1>5, <2>1, HandlerMoves DEF EmitFilled
  <2> QED
    BY <2>2 DEF Ended, IdleTask, FreedInv, SweepHoldsTracked, Closing, FreedOnce, Untracked
<1>6. CASE SweepVenue
  BY <1>6, FreedSweepFrame
     DEF SweepVenue, FreedInv, SweepHoldsTracked, Closing, TypeInv, TypeOK, ProcessOK, SweepType
<1>7. CASE SweepMembers
  BY <1>7, FreedSweepFrame
     DEF SweepMembers, FreedInv, SweepHoldsTracked, Closing, TypeInv, TypeOK, ProcessOK, SweepType
<1>8. ASSUME NEW s \in Signals, SweepEach(s) PROVE FreedInv'
  BY <1>8, FreedSweepFrame
     DEF SweepEach, FreedInv, SweepHoldsTracked, Closing, TypeInv, TypeOK, ProcessOK, SweepType
<1>9. CASE SweepForget
  BY <1>9, FreedSweepFrame
     DEF SweepForget, FreedInv, SweepHoldsTracked, Closing, TypeInv, TypeOK, ProcessOK, SweepType
<1>10. CASE OnClosed
  <2>1. CASE rec.pc = "free"
    <3>1. /\ rec'.pc = "untrack" /\ rec'.sig = rec.sig /\ rec'.todo = rec.todo
          /\ UNCHANGED <<posSet, task, entrySends, crashes>>
      BY <1>10, <2>1 DEF OnClosed, TypeInv, TypeOK, ProcessOK, SweepType
    <3>2. rec.sig \in posSet \ rec.todo /\ rec.sig \in Signals
      BY <1>0, <2>1 DEF FreedInv, SweepHoldsTracked
    <3>3. /\ freed'[rec.sig] \in {freed[rec.sig], freed[rec.sig] + 1}
          /\ \A s \in Signals \ {rec.sig} : freed'[s] = freed[s]
      BY <1>0, <1>10, <2>1, <3>2 DEF OnClosed
    <3>4. freed[rec.sig] <= crashes
      BY <2>1, <3>2 DEF FreedInv, Closing
    <3>5. FreedOnce'
      BY <1>0, <3>1, <3>2, <3>3, <3>4 DEF FreedInv, FreedOnce
    <3>6. \A s \in Signals : s \in posSet' /\ ~Closing(s)' => freed'[s] <= crashes'
      BY <2>1, <3>1, <3>3 DEF FreedInv, Closing
    <3>7. \A s \in Signals : s \notin posSet => freed'[s] = freed[s]
      BY <3>2, <3>3
    <3>8. task'["signals"].pc \in Untracked
             => me \notin posSet' /\ freed'[me] = 0 /\ entrySends'[me] # 0
      <4>1. task["signals"].pc \in Untracked => me \in Signals
        BY DEF TypeInv, HandlersHaveEvents, HasEvent, EventPCs, Untracked
      <4> QED
        BY <3>1, <3>7, <4>1 DEF FreedInv
    <3> QED
      BY <3>1, <3>2, <3>5, <3>6, <3>7, <3>8 DEF FreedInv, SweepHoldsTracked
  <2>2. CASE rec.pc = "untrack"
    BY <1>10, <2>2, FreedSweepFrame
       DEF OnClosed, FreedInv, SweepHoldsTracked, Closing, TypeInv, TypeOK, ProcessOK, SweepType
  <2>3. CASE rec.pc = "emit_closed"
    BY <1>10, <2>3, FreedSweepFrame
       DEF OnClosed, FreedInv, SweepHoldsTracked, Closing, TypeInv, TypeOK, ProcessOK, SweepType
  <2> QED
    BY <1>10, <2>1, <2>2, <2>3 DEF OnClosed
<1>11. CASE SweepEnd
  BY <1>11, FreedSweepFrame DEF SweepEnd, IdleSweep, FreedInv, SweepHoldsTracked, Closing
<1>12. CASE Crash
  <2>1. \A s \in Signals : freed[s] <= crashes'
    BY <1>0, <1>12 DEF Crash, FreedInv, FreedOnce
  <2> QED
    BY <1>0, <1>12, <2>1
       DEF Crash, FreedInv, SweepHoldsTracked, Closing, FreedOnce, Untracked, BracketPCs,
           IdleTask, IdleSweep
<1> QED
  BY <1>1, <1>2, <1>3, <1>4, <1>5, <1>6, <1>7, <1>8, <1>9, <1>10, <1>11, <1>12,
     ElsewhereOrBracketing DEF Bracketing, Sweep, SweepRaise

(* Where the operator approves nothing and no await raises, the exposure of *)
(* a position is given back once, however the sweeps interleave with the    *)
(* handler that opens positions, and once more at most per restart that cut *)
(* a close short between its two writes.                                    *)
THEOREM FreedAtMostOnce ==
    ASSUME NoApprovals, ~MayRaise
    PROVE  Spec => []FreedOnce
<1>1. Init => EntryInv /\ FreedInv
  BY DEF Init, EntryInv, ControlOpensManually, SignalInHand, SharedPCs, BeforeEntry,
         IdleTask, FreedInv, SweepHoldsTracked, FreedOnce, Untracked, BracketPCs, IdleSweep
<1>2. TypeInv /\ EntryInv /\ FreedInv /\ [Next]_vars => EntryInv' /\ FreedInv'
  BY EntryStep, FreedStep
<1>3. FreedInv => FreedOnce
  BY DEF FreedInv
<1> QED
  BY <1>1, <1>2, <1>3, TypeInvariant, PTL DEF Spec

-----------------------------------------------------------------------------
(* What the operator's commands leave, when no await raises: a command that *)
(* is abandoned applies nothing, or leaves the cached mode unrefreshed.     *)

(* A step that neither applies a command nor ends its handler *)
Unsettling ==
    /\ \/ task'["control"] = task["control"]
       \/ /\ task["control"].pc \notin {"idle", "apply", "refresh"}
          /\ task'["control"].pc \notin {"idle", "apply"}
    /\ UNCHANGED <<runtime, appMode, ctlLog, ctlPos, crashes>>

Settling ==
    \/ ReceiveCommand \/ ApplySettings \/ RefreshMode \/ Crash
    \/ \E c \in Commands : PublishCommand(c)
    \/ \E t \in Tasks : Raise(t)

(* Every step is one of those, or changes no setting *)
LEMMA SettlingOrNot ==
    ASSUME TypeInv, [Next]_vars
    PROVE  Unsettling \/ Settling
<1> USE DEF redisVars, rateVars, sigVars, ctlVars, venueVars, procVars, histVars
<1>1. CASE ReceiveSignal
  BY <1>1, ReceiveSignalMoves
     DEF ReceiveSignal, TypeInv, Unsettling, At, Moved, Ended
<1>2. CASE CheckDuplicate
  BY <1>2, HandlerMoves
     DEF CheckDuplicate, Unsettling, At, Moved, Ended
<1>3. CASE QueuePending
  BY <1>3, HandlerMoves
     DEF QueuePending, Emit, Unsettling, At, Moved, Ended
<1>4. ASSUME NEW t \in Tasks, LoadConfig(t) PROVE Unsettling
  BY <1>4, LoadMoves
     DEF LoadConfig, TypeInv, Unsettling, At, Moved, Ended
<1>5. ASSUME NEW t \in Tasks, Guard(t) PROVE Unsettling
  BY <1>5, GuardMoves, AfterTokenPC
     DEF Guard, Refused, TypeInv, Unsettling, At, Moved, Ended
<1>6. ASSUME NEW t \in Tasks, SetExpiry(t) PROVE Unsettling
  BY <1>6, HandlerMoves, AfterTokenPC
     DEF SetExpiry, Unsettling, At, Moved, Ended
<1>7. ASSUME NEW t \in Tasks, SizeOrder(t) PROVE Unsettling
  BY <1>7, HandlerMoves
     DEF SizeOrder, Unsettling, At, Moved, Ended
<1>8. ASSUME NEW t \in Tasks, Reject(t) PROVE Unsettling
  BY <1>8, HandlerMoves
     DEF Reject, Emit, Unsettling, At, Moved, Ended
<1>9. ASSUME NEW t \in Tasks, MarkSubmitted(t) PROVE Unsettling
  BY <1>9, HandlerMoves
     DEF MarkSubmitted, Unsettling, At, Moved, Ended
<1>10. CASE FetchPending
  BY <1>10, CommandMoves
     DEF FetchPending, Unsettling, At, Moved, Ended
<1>11. CASE Unqueue
  BY <1>11, CommandMoves
     DEF Unqueue, Unsettling, At, Moved, Ended
<1>12. CASE FetchPosition
  BY <1>12, CommandMoves
     DEF FetchPosition, Unsettling, At, Moved, Ended
<1>13. CASE ClosePosition
  BY <1>13, CommandMoves
     DEF ClosePosition, RecordSend, Unsettling, At, Moved, Ended
<1>14. ASSUME NEW leg \in {"sl", "tp"}, CancelLeg(leg) PROVE Unsettling
  BY <1>14, CommandMoves
     DEF CancelLeg, Unsettling, At, Moved, Ended
<1>15. ASSUME NEW leg \in {"sl", "tp"}, ResendLeg(leg) PROVE Unsettling
  BY <1>15, CommandMoves
     DEF ResendLeg, RecordSend, Unsettling, At, Moved, Ended
<1>16. CASE SendManual
  BY <1>16, CommandMoves
     DEF SendManual, RecordSend, Unsettling, At, Moved, Ended
<1>17. CASE CommitSignals \/ CommitCommands \/ WindowExpires
  BY <1>17
     DEF CommitSignals, CommitCommands, WindowExpires, Unsettling, At
<1>18. ASSUME NEW s \in Signals,
             PublishSignal(s) \/ ExpirePending(s) \/ ExpireSubmitted(s)
      PROVE  Unsettling
  BY <1>18
     DEF PublishSignal, ExpirePending, ExpireSubmitted, Unsettling, At
<1>19. ASSUME NEW o \in book, Fill(o) \/ Trigger(o) PROVE Unsettling
  BY <1>19
     DEF Fill, Trigger, Unsettling, At
<1>20. CASE UNCHANGED vars
  BY <1>20
     DEF vars, Unsettling, At
<1>21. ASSUME NEW t \in Tasks, SendEntry(t) PROVE Unsettling
  BY <1>21, HandlerMoves
     DEF SendEntry, Unsettling, At, Moved, Ended
<1>22. ASSUME NEW t \in Tasks, EmitSubmitted(t) PROVE Unsettling
  BY <1>22, HandlerMoves
     DEF EmitSubmitted, Unsettling, At, Moved, Ended
<1>23. ASSUME NEW t \in Tasks, SendExits(t) PROVE Unsettling
  BY <1>23, HandlerMoves
     DEF SendExits, Unsettling, At, Moved, Ended
<1>24. ASSUME NEW t \in Tasks, TrackPosition(t) PROVE Unsettling
  BY <1>24, HandlerMoves
     DEF TrackPosition, Unsettling, At, Moved, Ended
<1>25. ASSUME NEW t \in Tasks, EmitFilled(t) PROVE Unsettling
  BY <1>25, HandlerMoves
     DEF EmitFilled, Unsettling, At, Moved, Ended
<1>26. CASE Sweep \/ SweepRaise
  BY <1>26
     DEF Sweep, SweepVenue, SweepMembers, SweepEach, SweepForget, OnClosed, SweepEnd, SweepRaise,
         Unsettling
<1> QED
  BY <1>1, <1>2, <1>3, <1>4, <1>5, <1>6, <1>7, <1>8, <1>9, <1>10, <1>11, <1>12,
     <1>13, <1>14, <1>15, <1>16, <1>17, <1>18, <1>19, <1>20, <1>21, <1>22, <1>23,
     <1>24, <1>25, <1>26
     DEF Next, SignalStep, ControlStep, TaskStep, Environment, Settling

(* The cached mode is stale only where it is about to be refreshed *)
ModeInv == ~At("control", "refresh") => appMode = runtime.mode

LEMMA ModeStep ==
    ASSUME ~MayRaise, TypeInv, ModeInv, [Next]_vars
    PROVE  ModeInv'
<1> USE DEF redisVars, rateVars, sigVars, ctlVars, venueVars, procVars, histVars
<1>1. CASE Unsettling
  BY <1>1 DEF Unsettling, ModeInv, At
<1>2. CASE ReceiveCommand
  BY <1>2 DEF ReceiveCommand, ModeInv, At
<1>3. CASE ApplySettings
  BY <1>3, CommandMoves DEF ModeInv, At, Moved
<1>4. CASE RefreshMode \/ Crash
  BY <1>4 DEF RefreshMode, Crash, ModeInv
<1>5. ASSUME NEW c \in Commands, PublishCommand(c) PROVE ModeInv'
  BY <1>5 DEF PublishCommand, ModeInv, At
<1> QED
  BY <1>1, <1>2, <1>3, <1>4, <1>5, SettlingOrNot DEF Settling, Raise

(* Where no await raises, the mode that the Kraken client routes by is the  *)
(* operator's between two commands, by whichever path the handler of the    *)
(* last one returned and however often the container restarted.             *)
THEOREM ModeIsFresh ==
    ASSUME ~MayRaise
    PROVE  Spec => []ModeFresh
<1>1. Init => ModeInv
  BY DEF Init, ModeInv
<1>2. TypeInv /\ ModeInv /\ [Next]_vars => ModeInv'
  BY ModeStep
<1>3. ModeInv => ModeFresh
  BY DEF ModeInv, ModeFresh, At
<1> QED
  BY <1>1, <1>2, <1>3, TypeInvariant, PTL DEF Spec

(* The last of the first n commands of that name, if there is one *)
LastBy(n, name) ==
    {i \in 1..n : ctlLog[i].cmd = name /\ \A j \in (i + 1)..n : ctlLog[j].cmd # name}

(* The settings r follow the first n commands *)
Follows(r, n) ==
    /\ \A i \in LastBy(n, "set_mode") : r.mode = ctlLog[i].mode
    /\ \A i \in LastBy(n, "set_kill_switch") : r.enabled = ctlLog[i].enabled
    /\ \A i \in LastBy(n, "set_auto_trading") : r.auto = ctlLog[i].enabled
    /\ \A i \in LastBy(n, "set_caps") : r.limit = ctlLog[i].limit

(* The command in hand is the last one consumed; unless it is still to be   *)
(* applied the settings follow it too                                       *)
SettingsInv ==
    crashes = 0 =>
        IF At("control", "apply")
        THEN /\ ctlPos > 0 /\ task["control"].cmd = ctlLog[ctlPos]
             /\ Follows(runtime, ctlPos - 1)
        ELSE Follows(runtime, ctlPos)

(* One more command is the last of its name, and no other name's last one   *)
(* changes                                                                  *)
LEMMA LastNext ==
    ASSUME NEW n \in Nat, NEW name
    PROVE  LastBy(n + 1, name) = IF ctlLog[n + 1].cmd = name THEN {n + 1} ELSE LastBy(n, name)
<1>1. CASE ctlLog[n + 1].cmd = name
  <2>1. \A i \in 1..(n + 1) : i = n + 1 \/ n + 1 \in (i + 1)..(n + 1)
    OBVIOUS
  <2>2. (n + 1 + 1)..(n + 1) = {} /\ n + 1 \in 1..(n + 1)
    OBVIOUS
  <2> QED
    BY <1>1, <2>1, <2>2 DEF LastBy
<1>2. CASE ctlLog[n + 1].cmd # name
  <2>1. ASSUME NEW i \in 1..n
        PROVE  (i + 1)..(n + 1) = ((i + 1)..n) \cup {n + 1}
    OBVIOUS
  <2>2. 1..(n + 1) = (1..n) \cup {n + 1}
    OBVIOUS
  <2> QED
    BY <1>2, <2>1, <2>2 DEF LastBy
<1> QED
  BY <1>1, <1>2

(* A command that is no setting is followed already *)
LEMMA FollowsOther ==
    ASSUME NEW r, NEW n \in Nat, Follows(r, n), ctlLog[n + 1].cmd \notin Settings
    PROVE  Follows(r, n + 1)
BY LastNext DEF Follows, Settings

(* A setting overlays its own field, and that of no other command *)
LEMMA FollowsApplied ==
    ASSUME NEW r \in Config, NEW n \in Nat, Follows(r, n), ctlLog[n + 1] \in Command
    PROVE  Follows(SettingsAfter(r, ctlLog[n + 1]), n + 1)
<1> DEFINE c == ctlLog[n + 1]
           a == SettingsAfter(r, c)
<1>1. CASE c.cmd = "set_mode"
  <2>1. a.mode = c.mode /\ a.enabled = r.enabled /\ a.auto = r.auto /\ a.limit = r.limit
    BY <1>1 DEF SettingsAfter, Config
  <2> QED
    BY <1>1, <2>1, LastNext DEF Follows
<1>2. CASE c.cmd = "set_kill_switch"
  <2>1. a.mode = r.mode /\ a.enabled = c.enabled /\ a.auto = r.auto /\ a.limit = r.limit
    BY <1>2 DEF SettingsAfter, Config
  <2> QED
    BY <1>2, <2>1, LastNext DEF Follows
<1>3. CASE c.cmd = "set_auto_trading"
  <2>1. a.mode = r.mode /\ a.enabled = r.enabled /\ a.auto = c.enabled /\ a.limit = r.limit
    BY <1>3 DEF SettingsAfter, Config
  <2> QED
    BY <1>3, <2>1, LastNext DEF Follows
<1>4. CASE c.cmd = "set_caps"
  <2>1. a.mode = r.mode /\ a.enabled = r.enabled /\ a.auto = r.auto /\ a.limit = c.limit
    BY <1>4 DEF SettingsAfter, Config
  <2> QED
    BY <1>4, <2>1, LastNext DEF Follows
<1>5. CASE c.cmd \notin Settings
  <2>1. a = r
    BY <1>5 DEF SettingsAfter, Settings
  <2> QED
    BY <1>5, <2>1, FollowsOther
<1> QED
  BY <1>1, <1>2, <1>3, <1>4, <1>5 DEF Settings

LEMMA SettingsStep ==
    ASSUME ~MayRaise, TypeInv, SettingsInv, [Next]_vars
    PROVE  SettingsInv'
<1> USE DEF redisVars, rateVars, sigVars, ctlVars, venueVars, procVars, histVars
<1>0. /\ ctlLog \in Seq(Commands) /\ ctlPos \in 0..Len(ctlLog) /\ runtime \in Config
      /\ crashes \in Nat /\ Commands \subseteq Command
  BY ConstantsAssumption DEF TypeInv, TypeOK, StoreOK, LogsOK, ProcessOK
<1>1. CASE Unsettling
  <2>1. At("control", "apply")' <=> At("control", "apply")
    BY <1>1 DEF Unsettling, At
  <2>2. At("control", "apply") => task'["control"] = task["control"]
    BY <1>1 DEF Unsettling, At
  <2> QED
    BY <1>1, <2>1, <2>2 DEF Unsettling, SettingsInv, Follows, LastBy
<1>2. CASE ReceiveCommand
  <2> DEFINE c == ctlLog[ctlPos + 1]
  <2>1. /\ task'["control"].pc = Dispatch(c) /\ task'["control"].cmd = c
        /\ ctlPos' = ctlPos + 1 /\ UNCHANGED <<runtime, ctlLog, crashes>>
    BY <1>2, ReceiveCommandMoves DEF ReceiveCommand, TypeInv
  <2>2. crashes = 0 => Follows(runtime, ctlPos)
    BY <1>2 DEF ReceiveCommand, At, SettingsInv
  <2>3. \A r, n : Follows(r, n)' <=> Follows(r, n)
    BY <2>1 DEF Follows, LastBy
  <2>4. CASE c.cmd \in Settings
    <3>1. At("control", "apply")'
      BY <2>1, <2>4 DEF Dispatch, Settings, At
    <3>2. ctlPos' > 0 /\ ctlPos' - 1 = ctlPos
      BY <1>0, <2>1
    <3>3. crashes = 0 => Follows(runtime, ctlPos - 1)'
      BY <2>1, <2>2, <2>3, <3>2
    <3> QED
      BY <2>1, <3>1, <3>2, <3>3 DEF SettingsInv
  <2>5. CASE c.cmd \notin Settings
    <3>1. ~At("control", "apply")'
      BY <2>1, <2>5 DEF Dispatch, At
    <3>2. crashes = 0 => Follows(runtime, ctlPos + 1)
      BY <1>0, <2>2, <2>5, FollowsOther
    <3> QED
      BY <2>1, <2>3, <3>1, <3>2 DEF SettingsInv
  <2> QED
    BY <2>4, <2>5
<1>3. CASE ApplySettings
  <2>1. /\ At("control", "apply") /\ ~At("control", "apply")'
        /\ UNCHANGED <<ctlLog, ctlPos, crashes>>
        /\ runtime' = SettingsAfter(runtime, task["control"].cmd)
    BY <1>3, CommandMoves DEF ApplySettings, At, Moved
  <2>2. \A r, n : Follows(r, n)' <=> Follows(r, n)
    BY <2>1 DEF Follows, LastBy
  <2>3. ASSUME crashes = 0 PROVE Follows(runtime', ctlPos)
    <3>1. ctlPos \in Nat \ {0} /\ ctlPos - 1 \in Nat /\ ctlPos - 1 + 1 = ctlPos
      BY <1>0, <2>1, <2>3 DEF SettingsInv
    <3>2. ctlLog[ctlPos] \in Command
      BY <1>0, <3>1
    <3>3. /\ runtime' = SettingsAfter(runtime, ctlLog[ctlPos])
          /\ Follows(runtime, ctlPos - 1)
      BY <2>1, <2>3 DEF SettingsInv
    <3> QED
      BY <1>0, <3>1, <3>2, <3>3, FollowsApplied
  <2> QED
    BY <2>1, <2>2, <2>3 DEF SettingsInv
<1>4. CASE RefreshMode
  <2>1. ~At("control", "apply") /\ ~At("control", "apply")'
    BY <1>4, CommandMoves DEF RefreshMode, At, Ended, IdleTask
  <2> QED
    BY <1>4, <2>1 DEF RefreshMode, SettingsInv, Follows, LastBy
<1>5. CASE Crash
  BY <1>0, <1>5 DEF Crash, SettingsInv
<1>6. ASSUME NEW c \in Commands, PublishCommand(c) PROVE SettingsInv'
  <2>1. /\ \A i \in 1..ctlPos : ctlLog'[i] = ctlLog[i]
        /\ UNCHANGED <<runtime, ctlPos, crashes, task>>
    BY <1>0, <1>6 DEF PublishCommand
  <2>2. ASSUME NEW n \in 0..ctlPos PROVE Follows(runtime, n)' <=> Follows(runtime, n)
    <3>1. ASSUME NEW name PROVE LastBy(n, name)' = LastBy(n, name)
      BY <1>0, <2>1 DEF LastBy
    <3>2. \A name : LastBy(n, name) \subseteq 1..ctlPos
      BY <1>0 DEF LastBy
    <3> QED
      BY <2>1, <3>1, <3>2 DEF Follows
  <2> QED
    BY <1>0, <2>1, <2>2 DEF SettingsInv, At
<1> QED
  BY <1>1, <1>2, <1>3, <1>4, <1>5, <1>6, SettlingOrNot DEF Settling, Raise

(* Where no await raises and until the container restarts, every field of   *)
(* trading:runtime has the value of the last command that set it, for any   *)
(* sequence of commands.                                                    *)
THEOREM SettingsAreLast ==
    ASSUME ~MayRaise
    PROVE  Spec => []SettingsFollowLog
<1>1. Init => SettingsInv
  BY DEF Init, SettingsInv, Follows, LastBy, At, IdleTask
<1>2. TypeInv /\ SettingsInv /\ [Next]_vars => SettingsInv'
  BY SettingsStep
<1>3. SettingsInv => SettingsFollowLog
  BY DEF SettingsInv, SettingsFollowLog, Follows, LastBy, Last
<1> QED
  BY <1>1, <1>2, <1>3, TypeInvariant, PTL DEF Spec
=============================================================================
