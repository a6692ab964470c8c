--------------------------- MODULE TradingEngine ---------------------------
(***************************************************************************)
(* The trading-engine service (services/trading-engine/app).               *)
(*                                                                         *)
(* One process runs three asyncio tasks: the consumer of                   *)
(* risk.approved.events, the consumer of control.commands and the          *)
(* reconciler.  A coroutine gives up control only where it awaits Redis,   *)
(* Kafka or the venue, so every step below is one await together with the  *)
(* code up to the next one, and the tasks interleave between steps.        *)
(*                                                                         *)
(* Raise(t) is an await that raises: the handler is abandoned, the         *)
(* exception is logged and the message is skipped                          *)
(* (kafka/consumer.py, run).  An answer lost after the request took effect *)
(* is the step followed by Raise.  Crash is the death and restart of the   *)
(* container: the tasks lose their locals, the consumers resume from the   *)
(* committed offset, Redis, Kafka and the venue keep what they have.       *)
(*                                                                         *)
(* Abstractions: an event is its event_id; a price or a size is left out   *)
(* (the verdict of compute_size is a free choice, because the equity it    *)
(* depends on is the venue's); set_fields is one step, since the command   *)
(* task is the only writer of trading:runtime.                             *)
(***************************************************************************)
EXTENDS Naturals, Sequences, FiniteSets

CONSTANTS
    Signals,      \* event_ids of the RiskApprovedEvents that may be published
    Pairs,        \* Kraken product ids of the whitelist
    NoPair,       \* a symbol the whitelist does not hold
    PairOf,       \* symbols.to_kraken_pair: Signals -> Pairs \cup {NoPair}
    NoSignal,     \* "no event": an idle task, a manual order
    Commands,     \* the control commands the operator may publish
    Defaults,     \* TradingConfig.from_env: mode, enabled, auto, limit
    MaxCommands,  \* bound: commands published
    MaxCrashes,   \* bound: restarts of the container
    MaxLimit,     \* bound: largest max_orders_per_hour
    MayRaise      \* whether an await may raise

Modes == {"dry_run", "demo", "live"}
Hosts == {"demo", "live"}
Config == [mode : Modes, enabled : BOOLEAN, auto : BOOLEAN, limit : 0..MaxLimit]

(* ControlCommand with the payload fields that decide what the handler does *)
Command ==
    [cmd : {"set_mode"}, mode : Modes]
        \cup [cmd : {"set_kill_switch", "set_auto_trading"}, enabled : BOOLEAN]
        \cup [cmd : {"set_caps"}, limit : 0..MaxLimit]
        \cup [cmd : {"approve_opportunity", "reject_opportunity",
                     "close_position"}, sig : Signals]
        \cup [cmd : {"adjust_sltp"}, sig : Signals, legs : SUBSET {"sl", "tp"}]
        \cup [cmd : {"manual_order"}, pair : Pairs \cup {NoPair},
              overCap : BOOLEAN]

Settings == {"set_mode", "set_kill_switch", "set_auto_trading", "set_caps"}

Kinds == {"submitted", "pending", "filled", "closed", "rejected"}

ASSUME ConstantsAssumption ==
    /\ PairOf \in [Signals -> Pairs \cup {NoPair}]
    /\ NoPair \notin Pairs
    /\ NoSignal \notin Signals
    /\ Commands \subseteq Command
    /\ Defaults \in Config
    /\ MaxCommands \in Nat /\ MaxCrashes \in Nat /\ MaxLimit \in Nat
    /\ MayRaise \in BOOLEAN

VARIABLES
    runtime,      \* trading:runtime, the operator's settings
    submitted,    \* events with a key trading:submitted:{id}
    pendingKey,   \* events with a payload trading:pending:{id}
    pendingSet,   \* the set trading:pending
    posKey,       \* events with a record trading:position:{id}
    posSet,       \* the set trading:positions
    rate,         \* the counter rl:trading:orders (0: no key)
    rateTtl,      \* whether that counter has an expiry
    sigLog, sigPos, sigCommitted,    \* risk.approved.events and its consumer
    ctlLog, ctlPos, ctlCommitted,    \* control.commands and its consumer
    emitted,      \* what execution.events holds: <<event, kind>>
    book,         \* orders resting at a venue: [host, pair, leg, sig]
    held,         \* net position per venue and pair
    task,         \* the two consumer tasks: where their handler is suspended
    rec,          \* the reconciler's sweep
    appMode,      \* app.state.mode, what the Kraken client routes by
    crashes,      \* restarts so far
    \* history, read by the properties only
    entrySends,   \* per event: entry orders sent
    sent,         \* orders sent: <<event, leg, mode>>
    freed,        \* per event: times its exposure was given back, to MaxFreed
    sentKilled,   \* opening orders sent since the kill switch was thrown
    sentWindow    \* opening orders sent in the current rate-limit window

redisVars == <<runtime, submitted, pendingKey, pendingSet, posKey, posSet>>
rateVars == <<rate, rateTtl>>
sigVars == <<sigLog, sigPos, sigCommitted>>
ctlVars == <<ctlLog, ctlPos, ctlCommitted>>
venueVars == <<book, held>>
procVars == <<task, rec, appMode, crashes>>
histVars == <<entrySends, sent, freed, sentKilled, sentWindow>>
vars == <<redisVars, rateVars, sigVars, ctlVars, emitted, venueVars, procVars,
          histVars>>

-----------------------------------------------------------------------------
(* Tasks.  cfg is the TradingConfig the handler loaded, cur the value INCR  *)
(* returned, cmd the command being applied.                                 *)

Tasks == {"signals", "control"}
NoCommand == [cmd |-> "none"]
IdleTask == [pc |-> "idle", sig |-> NoSignal, cmd |-> NoCommand,
             cfg |-> Defaults, cur |-> 0]
IdleSweep == [pc |-> "idle", open |-> {}, todo |-> {}, sig |-> NoSignal]

PCs == {"idle", "dup", "load", "guard", "expire", "equity", "queue", "enlist",
        "emit_pending", "mark", "entry", "emit_submitted", "stop", "target",
        "track", "record", "emit_filled", "reject", "fetch", "unqueue",
        "fetchpos", "close", "cancel_sl", "send_sl", "cancel_tp", "send_tp",
        "manual", "apply", "refresh"}

At(t, p) == task[t].pc = p
Goto(t, p) == task' = [task EXCEPT ![t].pc = p]
Event(t) == task[t].sig

(* Mutant of Return: the command task forgets to refresh the cached mode *)
ReturnStale(t) == task' = [task EXCEPT ![t] = IdleTask]

(* A handler that returns: the command task then refreshes the cached mode  *)
(* (main.py, _control_handle); the signal task is ready for a message.      *)
Return(t) == IF t = "control"
             THEN Goto(t, "refresh")
             ELSE task' = [task EXCEPT ![t] = IdleTask]

Emit(s, kind) == emitted' = emitted \cup {<<s, kind>>}

-----------------------------------------------------------------------------
(* The venue.  send_order in dry_run performs no network I/O.               *)

Order(host, pair, leg, s) == [host |-> host, pair |-> pair, leg |-> leg, sig |-> s]
OpeningLegs == {"entry", "manual"}
Legs == {"entry", "sl", "tp", "manual"}

Rest(pair, leg, s) ==
    /\ book' = IF appMode = "dry_run" THEN book
               ELSE book \cup {Order(appMode, pair, leg, s)}
    /\ UNCHANGED held

(* A reduce-only market order takes back what is held, never more *)
Reduce(host, pair) == [held EXCEPT ![host][pair] = IF @ > 0 THEN @ - 1 ELSE 0]

RecordSend(s, leg) == sent' = sent \cup {<<s, leg, appMode>>}

RecordOpening ==
    /\ sentKilled' = IF runtime.enabled THEN 0 ELSE sentKilled + 1
    /\ sentWindow' = sentWindow + 1

(* A resting limit order, entry or manual, executes *)
Fill(o) ==
    /\ o \in book /\ o.leg \in OpeningLegs
    /\ book' = book \ {o}
    /\ held' = [held EXCEPT ![o.host][o.pair] = @ + 1]
    /\ UNCHANGED <<redisVars, rateVars, sigVars, ctlVars, emitted, procVars, histVars>>

(* A reduce-only stop or target triggers; its sibling keeps resting *)
Trigger(o) ==
    /\ o \in book /\ o.leg \in {"sl", "tp"}
    /\ book' = book \ {o}
    /\ held' = Reduce(o.host, o.pair)
    /\ UNCHANGED <<redisVars, rateVars, sigVars, ctlVars, emitted, procVars, histVars>>

-----------------------------------------------------------------------------
(* Producers and consumers *)

(* risk-engine publishes an approved signal: a fresh event_id each *)
PublishSignal(s) ==
    /\ \A i \in DOMAIN sigLog : sigLog[i] # s
    /\ sigLog' = Append(sigLog, s)
    /\ UNCHANGED <<redisVars, rateVars, sigPos, sigCommitted, ctlVars, emitted,
                   venueVars, procVars, histVars>>

(* control-api publishes a command *)
PublishCommand(c) ==
    /\ Len(ctlLog) < MaxCommands
    /\ ctlLog' = Append(ctlLog, c)
    /\ UNCHANGED <<redisVars, rateVars, sigVars, ctlPos, ctlCommitted, emitted,
                   venueVars, procVars, histVars>>

ReceiveSignal ==
    /\ At("signals", "idle") /\ sigPos < Len(sigLog)
    /\ sigPos' = sigPos + 1
    /\ task' = [task EXCEPT !["signals"] =
                   [IdleTask EXCEPT !.pc = "dup", !.sig = sigLog[sigPos + 1]]]
    /\ UNCHANGED <<redisVars, rateVars, sigLog, sigCommitted, ctlVars, emitted,
                   venueVars, rec, appMode, crashes, histVars>>

(* ControlHandler.handle: where each command's handler starts *)
Dispatch(c) ==
    CASE c.cmd \in Settings -> "apply"
      [] c.cmd \in {"approve_opportunity", "reject_opportunity"} -> "fetch"
      [] c.cmd \in {"close_position", "adjust_sltp"} -> "fetchpos"
      [] OTHER -> "load"

ReceiveCommand ==
    /\ At("control", "idle") /\ ctlPos < Len(ctlLog)
    /\ ctlPos' = ctlPos + 1
    /\ LET c == ctlLog[ctlPos + 1] IN
       task' = [task EXCEPT !["control"] =
                   [IdleTask EXCEPT !.pc = Dispatch(c), !.cmd = c,
                                    !.sig = IF "sig" \in DOMAIN c THEN c.sig
                                            ELSE NoSignal]]
    /\ UNCHANGED <<redisVars, rateVars, sigVars, ctlLog, ctlCommitted, emitted,
                   venueVars, rec, appMode, crashes, histVars>>

(* Mutant of CommitSignals: the offset is committed one message ahead *)
CommitSignalsAhead ==
    /\ At("signals", "idle") /\ sigCommitted < sigPos
    /\ sigCommitted' = sigPos + 1
    /\ UNCHANGED <<redisVars, rateVars, sigLog, sigPos, ctlVars, emitted,
                   venueVars, procVars, histVars>>

(* The offset is committed after a batch; a batch may end at any message *)
CommitSignals ==
    /\ At("signals", "idle") /\ sigCommitted < sigPos
    /\ sigCommitted' = sigPos
    /\ UNCHANGED <<redisVars, rateVars, sigLog, sigPos, ctlVars, emitted,
                   venueVars, procVars, histVars>>

CommitCommands ==
    /\ At("control", "idle") /\ ctlCommitted < ctlPos
    /\ ctlCommitted' = ctlPos
    /\ UNCHANGED <<redisVars, rateVars, sigVars, ctlLog, ctlPos, emitted,
                   venueVars, procVars, histVars>>

-----------------------------------------------------------------------------
(* TradingEngine.handle, approve_opportunity and manual_order share the     *)
(* load of the configuration, the guards and the execution.                 *)

(* Idempotency check of the signal handler *)
CheckDuplicate ==
    /\ At("signals", "dup")
    /\ IF Event("signals") \in submitted THEN Return("signals")
                                         ELSE Goto("signals", "load")
    /\ UNCHANGED <<redisVars, rateVars, sigVars, ctlVars, emitted, venueVars,
                   rec, appMode, crashes, histVars>>

LoadConfig(t) ==
    /\ At(t, "load")
    /\ task' = [task EXCEPT ![t].cfg = runtime, ![t].pc = "guard"]
    /\ UNCHANGED <<redisVars, rateVars, sigVars, ctlVars, emitted, venueVars,
                   rec, appMode, crashes, histVars>>

Manual(t) == task[t].cmd.cmd = "manual_order"

(* A refused manual order is only logged; a refused signal emits REJECTED *)
Refused(t) == IF Manual(t) THEN "refresh" ELSE "reject"

(* Mutant of AfterToken: the limit is compared off by one *)
AfterTokenOffByOne(t, n) ==
    IF \/ n > task[t].cfg.limit + 1
       \/ t = "signals" /\ PairOf[Event(t)] = NoPair
       \/ Manual(t) /\ (task[t].cmd.pair = NoPair \/ task[t].cmd.overCap)
    THEN Refused(t)
    ELSE IF Manual(t) THEN "manual" ELSE "equity"

(* What follows the n-th token of the window: the verdict of Cache.allow,   *)
(* then the whitelist (an approval was whitelisted when it was queued) and, *)
(* for a manual order, the notional cap                                     *)
AfterToken(t, n) ==
    IF \/ n > task[t].cfg.limit
       \/ t = "signals" /\ PairOf[Event(t)] = NoPair
       \/ Manual(t) /\ (task[t].cmd.pair = NoPair \/ task[t].cmd.overCap)
    THEN Refused(t)
    ELSE IF Manual(t) THEN "manual" ELSE "equity"

(* Mutant of Guard: only the rate limit is checked *)
GuardIgnoringKill(t) ==
    /\ At(t, "guard")
    /\ rate' = rate + 1
    /\ task' = [task EXCEPT
                   ![t].cur = rate + 1,
                   ![t].pc = IF rate = 0 THEN "expire" ELSE AfterToken(t, rate + 1)]
    /\ UNCHANGED <<redisVars, rateTtl, sigVars, ctlVars, emitted, venueVars,
                   rec, appMode, crashes, histVars>>

(* check_guards: the kill switch, then INCR of the window's counter *)
Guard(t) ==
    /\ At(t, "guard")
    /\ \/ /\ ~task[t].cfg.enabled
          /\ Goto(t, Refused(t))
          /\ UNCHANGED rate
       \/ /\ task[t].cfg.enabled
          /\ rate' = rate + 1
          /\ task' = [task EXCEPT
                         ![t].cur = rate + 1,
                         ![t].pc = IF rate = 0 THEN "expire"
                                   ELSE AfterToken(t, rate + 1)]
    /\ UNCHANGED <<redisVars, rateTtl, sigVars, ctlVars, emitted, venueVars,
                   rec, appMode, crashes, histVars>>

(* Cache.allow: the caller that created the counter gives it its expiry *)
SetExpiry(t) ==
    /\ At(t, "expire")
    /\ rateTtl' = TRUE
    /\ Goto(t, AfterToken(t, task[t].cur))
    /\ UNCHANGED <<redisVars, rate, sigVars, ctlVars, emitted, venueVars,
                   rec, appMode, crashes, histVars>>

(* get_accounts and compute_size; then the auto-trading gate, which an      *)
(* approval does not pass through                                           *)
SizeOrder(t) ==
    /\ At(t, "equity")
    /\ \E size \in {0, 1} :
          Goto(t, IF size = 0 THEN "reject"
                  ELSE IF t = "signals" /\ ~task[t].cfg.auto THEN "queue"
                  ELSE "mark")
    /\ UNCHANGED <<redisVars, rateVars, sigVars, ctlVars, emitted, venueVars,
                   rec, appMode, crashes, histVars>>

(* Mutant of Reject: the refusal is logged and no event is published *)
RejectSilently(t) ==
    /\ At(t, "reject")
    /\ Return(t)
    /\ UNCHANGED <<redisVars, rateVars, sigVars, ctlVars, emitted, venueVars,
                   rec, appMode, crashes, histVars>>

(* _reject, and the event of reject_opportunity *)
Reject(t) ==
    /\ At(t, "reject")
    /\ Emit(Event(t), "rejected")
    /\ Return(t)
    /\ UNCHANGED <<redisVars, rateVars, sigVars, ctlVars, venueVars,
                   rec, appMode, crashes, histVars>>

(* _queue_pending, three awaits; only the signal handler queues *)
QueuePending ==
    /\ \/ /\ At("signals", "queue")
          /\ pendingKey' = pendingKey \cup {Event("signals")}
          /\ Goto("signals", "enlist")
          /\ UNCHANGED <<pendingSet, emitted>>
       \/ /\ At("signals", "enlist")
          /\ pendingSet' = pendingSet \cup {Event("signals")}
          /\ Goto("signals", "emit_pending")
          /\ UNCHANGED <<pendingKey, emitted>>
       \/ /\ At("signals", "emit_pending")
          /\ Emit(Event("signals"), "pending")
          /\ Return("signals")
          /\ UNCHANGED <<pendingKey, pendingSet>>
    /\ UNCHANGED <<runtime, submitted, posKey, posSet, rateVars, sigVars, ctlVars,
                   venueVars, rec, appMode, crashes, histVars>>

(* Mutant of MarkSubmitted: the idempotency key is not written *)
SubmitUnmarked(t) ==
    /\ At(t, "mark")
    /\ Goto(t, "entry")
    /\ UNCHANGED <<redisVars, rateVars, sigVars, ctlVars, emitted, venueVars, rec,
                   appMode, crashes, histVars>>

(* _execute: the idempotency key is written before the entry order is sent *)
MarkSubmitted(t) ==
    /\ At(t, "mark")
    /\ submitted' = submitted \cup {Event(t)}
    /\ Goto(t, "entry")
    /\ UNCHANGED <<runtime, pendingKey, pendingSet, posKey, posSet, rateVars,
                   sigVars, ctlVars, emitted, venueVars, rec, appMode, crashes,
                   histVars>>

SendEntry(t) ==
    /\ At(t, "entry")
    /\ Rest(PairOf[Event(t)], "entry", Event(t))
    /\ entrySends' = [entrySends EXCEPT ![Event(t)] = @ + 1]
    /\ RecordSend(Event(t), "entry")
    /\ RecordOpening
    /\ Goto(t, "emit_submitted")
    /\ UNCHANGED <<redisVars, rateVars, sigVars, ctlVars, emitted, rec, appMode,
                   crashes, freed>>

EmitSubmitted(t) ==
    /\ At(t, "emit_submitted")
    /\ Emit(Event(t), "submitted")
    /\ Goto(t, "stop")
    /\ UNCHANGED <<redisVars, rateVars, sigVars, ctlVars, venueVars, rec, appMode,
                   crashes, histVars>>

(* Mutant of SendExits: the position is tracked without a take-profit *)
SendStopOnly(t) ==
    /\ At(t, "stop")
    /\ Rest(PairOf[Event(t)], "sl", Event(t))
    /\ RecordSend(Event(t), "sl")
    /\ Goto(t, "track")
    /\ UNCHANGED <<redisVars, rateVars, sigVars, ctlVars, emitted, rec, appMode,
                   crashes, entrySends, freed, sentKilled, sentWindow>>

(* The reduce-only legs of the bracket, stop-loss then take-profit *)
SendExits(t) ==
    /\ \/ /\ At(t, "stop")
          /\ Rest(PairOf[Event(t)], "sl", Event(t))
          /\ RecordSend(Event(t), "sl")
          /\ Goto(t, "target")
       \/ /\ At(t, "target")
          /\ Rest(PairOf[Event(t)], "tp", Event(t))
          /\ RecordSend(Event(t), "tp")
          /\ Goto(t, "track")
    /\ UNCHANGED <<redisVars, rateVars, sigVars, ctlVars, emitted, rec, appMode,
                   crashes, entrySends, freed, sentKilled, sentWindow>>

(* The event enters trading:positions before its record is written *)
TrackPosition(t) ==
    /\ \/ /\ At(t, "track")
          /\ posSet' = posSet \cup {Event(t)}
          /\ Goto(t, "record")
          /\ UNCHANGED posKey
       \/ /\ At(t, "record")
          /\ posKey' = posKey \cup {Event(t)}
          /\ Goto(t, "emit_filled")
          /\ UNCHANGED posSet
    /\ UNCHANGED <<runtime, submitted, pendingKey, pendingSet, rateVars, sigVars,
                   ctlVars, emitted, venueVars, rec, appMode, crashes, histVars>>

EmitFilled(t) ==
    /\ At(t, "emit_filled")
    /\ Emit(Event(t), "filled")
    /\ Return(t)
    /\ UNCHANGED <<redisVars, rateVars, sigVars, ctlVars, venueVars, rec, appMode,
                   crashes, histVars>>

-----------------------------------------------------------------------------
(* Control commands *)

(* approve_opportunity and reject_opportunity read the payload, which no    *)
(* one deletes, and take the event out of the set                           *)
FetchPending ==
    /\ At("control", "fetch")
    /\ IF Event("control") \in pendingKey THEN Goto("control", "unqueue")
                                          ELSE Return("control")
    /\ UNCHANGED <<redisVars, rateVars, sigVars, ctlVars, emitted, venueVars,
                   rec, appMode, crashes, histVars>>

Unqueue ==
    /\ At("control", "unqueue")
    /\ pendingSet' = pendingSet \ {Event("control")}
    /\ Goto("control", IF task["control"].cmd.cmd = "approve_opportunity"
                       THEN "load" ELSE "reject")
    /\ UNCHANGED <<runtime, submitted, pendingKey, posKey, posSet, rateVars,
                   sigVars, ctlVars, emitted, venueVars, rec, appMode, crashes,
                   histVars>>

(* Mutant of FetchPosition: an unknown position is waited for *)
AwaitPosition ==
    LET c == task["control"].cmd IN
    /\ At("control", "fetchpos")
    /\ Event("control") \in posKey
    /\ Goto("control", IF c.cmd = "close_position" THEN "close" ELSE "cancel_sl")
    /\ UNCHANGED <<redisVars, rateVars, sigVars, ctlVars, emitted, venueVars,
                   rec, appMode, crashes, histVars>>

(* close_position and adjust_sltp act on a recorded position only *)
FetchPosition ==
    LET c == task["control"].cmd IN
    /\ At("control", "fetchpos")
    /\ Goto("control",
            IF Event("control") \notin posKey THEN "refresh"
            ELSE IF c.cmd = "close_position" THEN "close"
            ELSE IF "sl" \in c.legs THEN "cancel_sl"
            ELSE IF "tp" \in c.legs THEN "cancel_tp"
            ELSE "refresh")
    /\ UNCHANGED <<redisVars, rateVars, sigVars, ctlVars, emitted, venueVars,
                   rec, appMode, crashes, histVars>>

ClosePosition ==
    /\ At("control", "close")
    /\ held' = IF appMode = "dry_run" THEN held
               ELSE Reduce(appMode, PairOf[Event("control")])
    /\ RecordSend(Event("control"), "close")
    /\ Return("control")
    /\ UNCHANGED <<redisVars, rateVars, sigVars, ctlVars, emitted, book, rec,
                   appMode, crashes, entrySends, freed, sentKilled, sentWindow>>

(* adjust_sltp: each leg is cancelled, then sent again under the same id *)
CancelLeg(leg) ==
    /\ At("control", IF leg = "sl" THEN "cancel_sl" ELSE "cancel_tp")
    /\ book' = {o \in book : ~(/\ appMode = o.host
                               /\ o.leg = leg /\ o.sig = Event("control"))}
    /\ Goto("control", IF leg = "sl" THEN "send_sl" ELSE "send_tp")
    /\ UNCHANGED <<redisVars, rateVars, sigVars, ctlVars, emitted, held, rec,
                   appMode, crashes, histVars>>

ResendLeg(leg) ==
    /\ At("control", IF leg = "sl" THEN "send_sl" ELSE "send_tp")
    /\ Rest(PairOf[Event("control")], leg, Event("control"))
    /\ RecordSend(Event("control"), leg)
    /\ Goto("control", IF leg = "sl" /\ "tp" \in task["control"].cmd.legs
                       THEN "cancel_tp" ELSE "refresh")
    /\ UNCHANGED <<redisVars, rateVars, sigVars, ctlVars, emitted, rec, appMode,
                   crashes, entrySends, freed, sentKilled, sentWindow>>

SendManual ==
    /\ At("control", "manual")
    /\ Rest(task["control"].cmd.pair, "manual", NoSignal)
    /\ RecordSend(NoSignal, "manual")
    /\ RecordOpening
    /\ Return("control")
    /\ UNCHANGED <<redisVars, rateVars, sigVars, ctlVars, emitted, rec, appMode,
                   crashes, entrySends, freed>>

(* Mutant of SettingsAfter: the changed field overlays the defaults, not    *)
(* what the key holds                                                       *)
SettingsOverDefaults(r, c) ==
    CASE c.cmd = "set_mode"         -> [Defaults EXCEPT !.mode = c.mode]
      [] c.cmd = "set_kill_switch"  -> [Defaults EXCEPT !.enabled = c.enabled]
      [] c.cmd = "set_auto_trading" -> [Defaults EXCEPT !.auto = c.enabled]
      [] c.cmd = "set_caps"         -> [Defaults EXCEPT !.limit = c.limit]
      [] OTHER                      -> r

(* set_mode, set_kill_switch, set_auto_trading, set_caps *)
SettingsAfter(r, c) ==
    CASE c.cmd = "set_mode"         -> [r EXCEPT !.mode = c.mode]
      [] c.cmd = "set_kill_switch"  -> [r EXCEPT !.enabled = c.enabled]
      [] c.cmd = "set_auto_trading" -> [r EXCEPT !.auto = c.enabled]
      [] c.cmd = "set_caps"         -> [r EXCEPT !.limit = c.limit]
      [] OTHER                      -> r

ApplySettings ==
    /\ At("control", "apply")
    /\ runtime' = SettingsAfter(runtime, task["control"].cmd)
    /\ sentKilled' = IF runtime'.enabled \/ runtime.enabled THEN 0 ELSE sentKilled
    /\ Return("control")
    /\ UNCHANGED <<submitted, pendingKey, pendingSet, posKey, posSet, rateVars,
                   sigVars, ctlVars, emitted, venueVars, rec, appMode, crashes,
                   entrySends, sent, freed, sentWindow>>

(* _current_mode, after every command that did not raise *)
RefreshMode ==
    /\ At("control", "refresh")
    /\ appMode' = runtime.mode
    /\ task' = [task EXCEPT !["control"] = IdleTask]
    /\ UNCHANGED <<redisVars, rateVars, sigVars, ctlVars, emitted, venueVars,
                   rec, crashes, histVars>>

-----------------------------------------------------------------------------
(* Reconciler.sweep *)

(* get_open_positions: nothing in dry_run, else what the venue holds now *)
OpenPairs == IF appMode = "dry_run" THEN {}
             ELSE {p \in Pairs : held[appMode][p] > 0}

SweepVenue ==
    /\ rec.pc = "idle"
    /\ rec' = [rec EXCEPT !.pc = "members", !.open = OpenPairs]
    /\ UNCHANGED <<redisVars, rateVars, sigVars, ctlVars, emitted, venueVars,
                   task, appMode, crashes, histVars>>

SweepMembers ==
    /\ rec.pc = "members"
    /\ rec' = [rec EXCEPT !.pc = "each", !.todo = posSet]
    /\ UNCHANGED <<redisVars, rateVars, sigVars, ctlVars, emitted, venueVars,
                   task, appMode, crashes, histVars>>

(* Mutant of SweepEach: the comparison with the open pairs is inverted *)
SweepEachInverted(s) ==
    /\ rec.pc = "each" /\ s \in rec.todo
    /\ rec' = [rec EXCEPT
                  !.todo = @ \ {s},
                  !.sig = IF s \in posKey /\ PairOf[s] \notin rec.open THEN @ ELSE s,
                  !.pc = IF s \notin posKey THEN "forget"
                         ELSE IF PairOf[s] \notin rec.open THEN "each" ELSE "free"]
    /\ UNCHANGED <<redisVars, rateVars, sigVars, ctlVars, emitted, venueVars,
                   task, appMode, crashes, histVars>>

(* The record of one tracked event: absent, still open, or closed *)
SweepEach(s) ==
    /\ rec.pc = "each" /\ s \in rec.todo
    /\ rec' = [rec EXCEPT
                  !.todo = @ \ {s},
                  !.sig = IF s \in posKey /\ PairOf[s] \in rec.open THEN @ ELSE s,
                  !.pc = IF s \notin posKey THEN "forget"
                         ELSE IF PairOf[s] \in rec.open THEN "each" ELSE "free"]
    /\ UNCHANGED <<redisVars, rateVars, sigVars, ctlVars, emitted, venueVars,
                   task, appMode, crashes, histVars>>

SweepForget ==
    /\ rec.pc = "forget"
    /\ posSet' = posSet \ {rec.sig}
    /\ rec' = [rec EXCEPT !.pc = "each", !.sig = NoSignal]
    /\ UNCHANGED <<runtime, submitted, pendingKey, pendingSet, posKey, rateVars,
                   sigVars, ctlVars, emitted, venueVars, task, appMode, crashes,
                   histVars>>

MaxFreed == MaxCrashes + 2    \* bound: frees counted, one more than there should be

(* Mutant of OnClosed: the event stays in trading:positions *)
OnClosedStillTracked ==
    /\ \/ /\ rec.pc = "free"
          /\ freed' = [freed EXCEPT ![rec.sig] = IF @ < MaxFreed THEN @ + 1 ELSE @]
          /\ rec' = [rec EXCEPT !.pc = "emit_closed"]
          /\ UNCHANGED emitted
       \/ /\ rec.pc = "emit_closed"
          /\ Emit(rec.sig, "closed")
          /\ rec' = [rec EXCEPT !.pc = "each", !.sig = NoSignal]
          /\ UNCHANGED freed
    /\ UNCHANGED <<redisVars, rateVars, sigVars, ctlVars, venueVars, task, appMode,
                   crashes, entrySends, sent, sentKilled, sentWindow>>

(* _on_closed: exposure is given back, the event leaves the set, CLOSED *)
OnClosed ==
    /\ \/ /\ rec.pc = "free"
          /\ freed' = [freed EXCEPT ![rec.sig] = IF @ < MaxFreed THEN @ + 1 ELSE @]
          /\ rec' = [rec EXCEPT !.pc = "untrack"]
          /\ UNCHANGED <<posSet, emitted>>
       \/ /\ rec.pc = "untrack"
          /\ posSet' = posSet \ {rec.sig}
          /\ rec' = [rec EXCEPT !.pc = "emit_closed"]
          /\ UNCHANGED <<freed, emitted>>
       \/ /\ rec.pc = "emit_closed"
          /\ Emit(rec.sig, "closed")
          /\ rec' = [rec EXCEPT !.pc = "each", !.sig = NoSignal]
          /\ UNCHANGED <<freed, posSet>>
    /\ UNCHANGED <<runtime, submitted, pendingKey, pendingSet, posKey, rateVars,
                   sigVars, ctlVars, venueVars, task, appMode, crashes,
                   entrySends, sent, sentKilled, sentWindow>>

SweepEnd ==
    /\ rec.pc = "each" /\ rec.todo = {}
    /\ rec' = IdleSweep
    /\ UNCHANGED <<redisVars, rateVars, sigVars, ctlVars, emitted, venueVars,
                   task, appMode, crashes, histVars>>

-----------------------------------------------------------------------------
(* Failures and expiries *)

Raise(t) ==
    /\ MayRaise /\ ~At(t, "idle")
    /\ task' = [task EXCEPT ![t] = IdleTask]
    /\ UNCHANGED <<redisVars, rateVars, sigVars, ctlVars, emitted, venueVars,
                   rec, appMode, crashes, histVars>>

SweepRaise ==
    /\ MayRaise /\ rec.pc # "idle"
    /\ rec' = IdleSweep
    /\ UNCHANGED <<redisVars, rateVars, sigVars, ctlVars, emitted, venueVars,
                   task, appMode, crashes, histVars>>

(* The container restarts.  The command group is named after HOSTNAME: the  *)
(* same container resumes at its committed offset, a recreated one has no   *)
(* offset and starts at the end of the log (auto_offset_reset=latest).      *)
Crash ==
    /\ crashes < MaxCrashes
    /\ crashes' = crashes + 1
    /\ task' = [t \in Tasks |-> IdleTask]
    /\ rec' = IdleSweep
    /\ appMode' = runtime.mode
    /\ sigPos' = sigCommitted
    /\ ctlPos' \in {ctlCommitted, Len(ctlLog)}
    /\ ctlCommitted' = ctlPos'
    /\ UNCHANGED <<redisVars, rateVars, sigLog, sigCommitted, ctlLog, emitted,
                   venueVars, histVars>>

(* The hour is over: Redis drops the counter *)
WindowExpires ==
    /\ rateTtl
    /\ rate' = 0 /\ rateTtl' = FALSE /\ sentWindow' = 0
    /\ UNCHANGED <<redisVars, sigVars, ctlVars, emitted, venueVars, procVars,
                   entrySends, sent, freed, sentKilled>>

(* A pending payload lives 24 h and the set entry does not *)
ExpirePending(s) ==
    /\ s \in pendingKey
    /\ pendingKey' = pendingKey \ {s}
    /\ UNCHANGED <<runtime, submitted, pendingSet, posKey, posSet, rateVars,
                   sigVars, ctlVars, emitted, venueVars, procVars, histVars>>

Committed(s) == \E i \in 1..sigCommitted : sigLog[i] = s

(* The idempotency key lives 24 h too.  Assumption SubmittedOutlivesBatch:  *)
(* it does not expire while its message can still be redelivered.           *)
ExpireSubmitted(s) ==
    /\ s \in submitted /\ Committed(s)
    /\ submitted' = submitted \ {s}
    /\ UNCHANGED <<runtime, pendingKey, pendingSet, posKey, posSet, rateVars,
                   sigVars, ctlVars, emitted, venueVars, procVars, histVars>>

-----------------------------------------------------------------------------
Init ==
    /\ runtime = Defaults
    /\ submitted = {} /\ pendingKey = {} /\ pendingSet = {}
    /\ posKey = {} /\ posSet = {}
    /\ rate = 0 /\ rateTtl = FALSE
    /\ sigLog = <<>> /\ sigPos = 0 /\ sigCommitted = 0
    /\ ctlLog = <<>> /\ ctlPos = 0 /\ ctlCommitted = 0
    /\ emitted = {}
    /\ book = {} /\ held = [h \in Hosts |-> [p \in Pairs |-> 0]]
    /\ task = [t \in Tasks |-> IdleTask]
    /\ rec = IdleSweep
    /\ appMode = Defaults.mode
    /\ crashes = 0
    /\ entrySends = [s \in Signals |-> 0] /\ sent = {}
    /\ freed = [s \in Signals |-> 0]
    /\ sentKilled = 0 /\ sentWindow = 0

(* One await of a handler *)
TaskStep(t) ==
    \/ LoadConfig(t) \/ Guard(t) \/ SetExpiry(t) \/ SizeOrder(t) \/ Reject(t)
    \/ MarkSubmitted(t) \/ SendEntry(t) \/ EmitSubmitted(t)
    \/ SendExits(t) \/ TrackPosition(t) \/ EmitFilled(t)

SignalStep == ReceiveSignal \/ CheckDuplicate \/ QueuePending \/ TaskStep("signals")

ControlStep ==
    \/ ReceiveCommand \/ FetchPending \/ Unqueue \/ FetchPosition \/ ClosePosition
    \/ \E leg \in {"sl", "tp"} : CancelLeg(leg) \/ ResendLeg(leg)
    \/ SendManual \/ ApplySettings \/ RefreshMode \/ TaskStep("control")

Sweep ==
    \/ SweepVenue \/ SweepMembers \/ SweepForget \/ OnClosed \/ SweepEnd
    \/ \E s \in Signals : SweepEach(s)

Environment ==
    \/ \E s \in Signals : PublishSignal(s) \/ ExpirePending(s) \/ ExpireSubmitted(s)
    \/ \E c \in Commands : PublishCommand(c)
    \/ \E o \in book : Fill(o) \/ Trigger(o)
    \/ WindowExpires \/ SweepRaise \/ Crash
    \/ \E t \in Tasks : Raise(t)

Next == SignalStep \/ ControlStep \/ Sweep \/ CommitSignals \/ CommitCommands
        \/ Environment

Spec == Init /\ [][Next]_vars

(* asyncio resumes every task whose await completed, and the three tasks    *)
(* loop until the service stops.  Nothing is assumed of the operator, the   *)
(* venue's fills, the expiry of keys, or commits.                           *)
FairSpec == Spec /\ WF_vars(SignalStep) /\ WF_vars(ControlStep) /\ WF_vars(Sweep)

-----------------------------------------------------------------------------
(* Properties *)

TaskType ==
    [pc : PCs, sig : Signals \cup {NoSignal}, cmd : Commands \cup {NoCommand},
     cfg : Config, cur : Nat]

SweepType ==
    [pc : {"idle", "members", "each", "forget", "free", "untrack", "emit_closed"},
     open : SUBSET Pairs, todo : SUBSET Signals, sig : Signals \cup {NoSignal}]

OrderType ==
    [host : Hosts, pair : Pairs \cup {NoPair}, leg : Legs, sig : Signals \cup {NoSignal}]

StoreOK ==
    /\ runtime \in Config
    /\ submitted \subseteq Signals
    /\ pendingKey \subseteq Signals /\ pendingSet \subseteq Signals
    /\ posKey \subseteq Signals /\ posSet \subseteq Signals
    /\ rate \in Nat /\ rateTtl \in BOOLEAN
    /\ emitted \subseteq Signals \X Kinds

LogsOK ==
    /\ sigLog \in Seq(Signals) /\ ctlLog \in Seq(Commands)
    /\ sigPos \in 0..Len(sigLog) /\ sigCommitted \in 0..sigPos
    /\ ctlPos \in 0..Len(ctlLog) /\ ctlCommitted \in 0..ctlPos

VenueOK == book \subseteq OrderType /\ held \in [Hosts -> [Pairs -> Nat]]

ProcessOK ==
    /\ task \in [Tasks -> TaskType] /\ rec \in SweepType
    /\ appMode \in Modes /\ crashes \in 0..MaxCrashes

HistoryOK ==
    /\ entrySends \in [Signals -> Nat] /\ freed \in [Signals -> 0..MaxFreed]
    /\ sentKilled \in Nat /\ sentWindow \in Nat

(* Every variable has its type, and the offsets of both consumers are       *)
(* ordered: committed, delivered, published.                                *)
TypeOK == StoreOK /\ LogsOK /\ VenueOK /\ ProcessOK /\ HistoryOK

(* Whatever is redelivered after a restart, and wherever a handler was cut  *)
(* short, no signal has its entry order sent twice: the trading:submitted   *)
(* key of TradingEngine.handle makes the signal path idempotent.            *)
AtMostOneEntry == \A s \in Signals : entrySends[s] <= 1

(* Once SET_KILL_SWITCH is applied, at most one more opening order leaves:  *)
(* that of the signal handler which loaded the configuration before the     *)
(* switch.  Manual orders and approvals, handled by the task that applies   *)
(* the switch, add none.                                                    *)
KillSwitchBound == sentKilled <= 1

(* Between two expiries of the counter no more opening orders leave than    *)
(* max_orders_per_hour allows, plus one per task whose token was granted    *)
(* just before the window rolled over.                                      *)
RateBound == sentWindow <= MaxLimit + 2

SentLegs(s) == {leg \in Legs : \E m \in Modes : <<s, leg, m>> \in sent}

(* FILLED and CLOSED are published only for signals whose entry, stop-loss  *)
(* and take-profit orders all went out, although each of the three sends    *)
(* may raise and a restart may come between any two.                        *)
ReportedIsProtected ==
    \A s \in Signals :
        {<<s, "filled">>, <<s, "closed">>} \cap emitted # {}
            => {"entry", "sl", "tp"} \subseteq SentLegs(s)

(* Between two commands the mode the Kraken client routes by is the mode    *)
(* the operator set (main.py, _control_handle), whichever path the last     *)
(* command's handler returned by and whenever the service restarted.        *)
ModeFresh == At("control", "idle") => appMode = runtime.mode

(* The last consumed command of that name, if there is one *)
Last(name) ==
    {i \in 1..ctlPos : /\ ctlLog[i].cmd = name
                       /\ \A j \in (i + 1)..ctlPos : ctlLog[j].cmd # name}

(* Until the container restarts, which may replay or skip commands, every   *)
(* field of trading:runtime has the value of the last consumed command that *)
(* set it, whatever other commands were applied since: set_fields writes    *)
(* the whole key back and loses no field.                                   *)
SettingsFollowLog ==
    crashes = 0 /\ ~At("control", "apply") =>
        /\ \A i \in Last("set_mode") : runtime.mode = ctlLog[i].mode
        /\ \A i \in Last("set_kill_switch") : runtime.enabled = ctlLog[i].enabled
        /\ \A i \in Last("set_auto_trading") : runtime.auto = ctlLog[i].enabled
        /\ \A i \in Last("set_caps") : runtime.limit = ctlLog[i].limit

(* The reconciler gives the exposure of a position back once, however its   *)
(* sweeps interleave with the handlers that open positions, and at most     *)
(* once more per restart that cut a close short between its two writes.     *)
FreedOnce == \A s \in Signals : freed[s] <= 1 + crashes

(* Every signal published is answered by an execution event.                *)
SignalAnswered ==
    \A s \in Signals :
        (\E i \in DOMAIN sigLog : sigLog[i] = s)
            ~> (\E k \in Kinds : <<s, k>> \in emitted)

(* Every command published is handled: the command task always catches up.  *)
CommandsHandled == []<>(ctlPos = Len(ctlLog) /\ At("control", "idle"))

Flat(s) == appMode # "dry_run" => held[appMode][PairOf[s]] = 0

(* A tracked position that the venue stops reporting does not stay tracked: *)
(* the reconciler reports it closed, unless the venue reports it again.     *)
FlatIsClosed ==
    \A s \in Signals : []<>~(s \in posSet /\ s \in posKey /\ Flat(s))

-----------------------------------------------------------------------------
(* What comments in the source say and the code does not keep *)

(* A filled position is tracked until it is reported closed                 *)
(* (engine.py, "Track position + emit filled").                             *)
FilledIsTracked ==
    \A s \in Signals : <<s, "filled">> \in emitted =>
        (s \in posSet /\ s \in posKey) \/ <<s, "closed">> \in emitted

(* CLOSED means "position closed (SL/TP hit or manual)"                     *)
(* (events/execution.py): its entry order is not still waiting to open it.  *)
ClosedIsOver ==
    \A s \in Signals : <<s, "closed">> \in emitted =>
        \A o \in book : ~(o.sig = s /\ o.leg = "entry")
=============================================================================
