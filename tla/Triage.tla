-------------------------------- MODULE Triage --------------------------------
(***************************************************************************)
(* ai-worker-haiku (worker.py, features.py): the replicas of the triage    *)
(* worker fold events into a symbol's feature hash in Redis, remember the  *)
(* symbol as pending, and a sweeper publishes one analysis per symbol once *)
(* its window has gone quiet.                                              *)
(*                                                                         *)
(* In a replica the consumer task (handle) and the sweeper (flush_settled) *)
(* interleave at every await; the hash is read and written back by each    *)
(* replica on its own.  The fields of a symbol arrive on different topics, *)
(* so different replicas may hold them.  A field is modelled by whether    *)
(* the value stored is that of its newest event; a window by how long it   *)
(* has been open and quiet, both up to the constant they are compared to.  *)
(***************************************************************************)
EXTENDS Faults, FiniteSets

(* The faults counted: awaits that raise, crashes, hashes that expire       *)
CONSTANTS
    TriageSymbols,
    Market, Signal, \* fields of which one each makes a symbol ready
    TriageReplicas,
    Owner,          \* per field the replica its topic is assigned to
    Settle,         \* SETTLE_S
    MaxDelay        \* MAX_DELAY_S

Fields == Market \cup Signal

ASSUME TriageAssumption ==
    /\ Owner \in [Fields -> TriageReplicas]
    /\ Settle \in Nat \ {0} /\ MaxDelay \in Nat /\ MaxDelay >= Settle

VARIABLES
    store,     \* features:<symbol>: per field "none", "old" or "new"
    pending,   \* per replica and symbol its window, if open
    hand,      \* consumer task: the event in hand, if any
    triageDue, \* sweeper: symbols due that are still to be taken
    taken,     \* sweeper: the symbol taken, if any, and what was read of it
    owed       \* history: events stored that an analysis is owed on: not those a
               \* failure gave up or another replica's write undid

triageVars == <<store, pending, hand, triageDue, taken, owed, faults>>

Ready(f) == (\E m \in Market : f[m] # "none") /\ (\E g \in Signal : f[g] # "none")
Nothing == [f \in Fields |-> "none"]

-----------------------------------------------------------------------------
(* handle: FeatureStore.update reads the hash and writes it back, then the  *)
(* symbol becomes pending.  There may always be a further event.            *)

GetFeatures(s, f) ==
    LET r == Owner[f] IN
    /\ hand[r] = {}
    /\ hand' = [hand EXCEPT ![r] = {[symbol |-> s, field |-> f, base |-> store[s],
                                     stored |-> FALSE]}]
    /\ UNCHANGED <<store, pending, triageDue, taken, owed, faults>>

(* What was read of a field is no longer the newest once it is written *)
Aged(f, g) == IF f[g] = "new" THEN [f EXCEPT ![g] = "old"] ELSE f
AgedHand(h, s, g) ==
    {IF e.symbol = s THEN [e EXCEPT !.base = Aged(@, g)] ELSE e : e \in h}
AgedReads(ts, s, g) ==
    {IF t.symbol = s THEN [t EXCEPT !.read = {Aged(f, g) : f \in @}] ELSE t : t \in ts}

SetFeatures(r) ==
    \E e \in hand[r] :
        LET s == e.symbol
            undone == {g \in Fields \ {e.field} : e.base[g] # "new"}
        IN /\ ~e.stored
           /\ store' = [store EXCEPT ![s] = [e.base EXCEPT ![e.field] = "new"]]
           /\ hand' = [q \in TriageReplicas |->
                          IF q = r THEN {[e EXCEPT !.stored = TRUE]}
                          ELSE AgedHand(hand[q], s, e.field)]
           /\ taken' = [q \in TriageReplicas |-> AgedReads(taken[q], s, e.field)]
           /\ owed' = (owed \ ({s} \X undone)) \cup {<<s, e.field>>}
    /\ UNCHANGED <<pending, triageDue, faults>>

(* Mutant of NotePending: every event opens the window anew *)
NotePendingAnew(r) ==
    \E e \in hand[r] :
        /\ e.stored
        /\ pending' = [pending EXCEPT ![r][e.symbol] = {[quiet |-> 0, open |-> 0]}]
    /\ hand' = [hand EXCEPT ![r] = {}]
    /\ UNCHANGED <<store, triageDue, taken, owed, faults>>

NotePending(r) ==
    \E e \in hand[r] :
        /\ e.stored
        /\ pending' = [pending EXCEPT ![r][e.symbol] =
                          {[quiet |-> 0, open |-> IF @ = {} THEN 0
                                                  ELSE (CHOOSE w \in @ : TRUE).open]}]
        /\ hand' = [hand EXCEPT ![r] = {}]
        /\ UNCHANGED <<store, triageDue, taken, owed, faults>>

(* Redis raises: the consumer logs it and goes on to the next event *)
HandleFails(r) ==
    /\ hand[r] # {} /\ \A e \in hand[r] : ~e.stored
    /\ Fault
    /\ hand' = [hand EXCEPT ![r] = {}]
    /\ UNCHANGED <<store, pending, triageDue, taken, owed>>

-----------------------------------------------------------------------------
(* flush_settled *)

IsDue(w) == w.quiet >= Settle \/ w.open >= MaxDelay

SweepStart(r) ==
    /\ triageDue[r] = {} /\ taken[r] = {}
    /\ triageDue' = [triageDue EXCEPT
                        ![r] = {s \in TriageSymbols : \E w \in pending[r][s] : IsDue(w)}]
    /\ triageDue'[r] # {}
    /\ UNCHANGED <<store, pending, hand, taken, owed, faults>>

(* del self._pending[symbol], before the hash is read *)
TakeDue(r, s) ==
    /\ taken[r] = {} /\ s \in triageDue[r]
    /\ triageDue' = [triageDue EXCEPT ![r] = @ \ {s}]
    /\ pending' = [pending EXCEPT ![r][s] = {}]
    /\ taken' = [taken EXCEPT ![r] = {[symbol |-> s, read |-> {}]}]
    /\ UNCHANGED <<store, hand, owed, faults>>

ReadFeatures(r) ==
    \E t \in taken[r] :
        /\ t.read = {}
        /\ taken' = [taken EXCEPT ![r] =
                        IF Ready(store[t.symbol]) THEN {[t EXCEPT !.read = {store[t.symbol]}]}
                        ELSE {}]
    /\ UNCHANGED <<store, pending, hand, triageDue, owed, faults>>

(* Mutant of PublishAnalysis: the symbol stops being pending only now *)
PublishThenDrop(r) ==
    \E t \in taken[r] : \E f \in t.read :
        /\ owed' = owed \ {<<t.symbol, g>> : g \in {h \in Fields : f[h] = "new"}}
        /\ taken' = [taken EXCEPT ![r] = {}]
        /\ pending' = [pending EXCEPT ![r][t.symbol] = {}]
    /\ UNCHANGED <<store, hand, triageDue, faults>>

(* An event stored since the read is not part of the analysis *)
PublishAnalysis(r) ==
    \E t \in taken[r] : \E f \in t.read :
        /\ owed' = owed \ {<<t.symbol, g>> : g \in {h \in Fields : f[h] = "new"}}
        /\ taken' = [taken EXCEPT ![r] = {}]
    /\ UNCHANGED <<store, pending, hand, triageDue, faults>>

(* An await raises: run() logs it, the symbol in hand is lost and the       *)
(* others stay pending for the next sweep                                   *)
SweepFails(r) ==
    /\ taken[r] # {} /\ Fault
    /\ owed' = {e \in owed : \A t \in taken[r] : e[1] # t.symbol}
    /\ taken' = [taken EXCEPT ![r] = {}]
    /\ triageDue' = [triageDue EXCEPT ![r] = {}]
    /\ UNCHANGED <<store, pending, hand>>

(* The event in hand is delivered again; what was pending is forgotten *)
Crash(r) ==
    /\ Fault
    /\ owed' = {e \in owed : /\ pending[r][e[1]] = {}
                            /\ \A x \in taken[r] \cup hand[r] : x.symbol # e[1]}
    /\ pending' = [pending EXCEPT ![r] = [s \in TriageSymbols |-> {}]]
    /\ hand' = [hand EXCEPT ![r] = {}]
    /\ triageDue' = [triageDue EXCEPT ![r] = {}] /\ taken' = [taken EXCEPT ![r] = {}]
    /\ UNCHANGED <<store>>

(* FEATURE_TTL without an update *)
ExpireFeatures(s) ==
    /\ store[s] # Nothing /\ Fault
    /\ store' = [store EXCEPT ![s] = Nothing]
    /\ owed' = {e \in owed : e[1] # s}
    /\ UNCHANGED <<pending, hand, triageDue, taken>>

Older(n, max) == IF n < max THEN n + 1 ELSE n

TriageTick ==
    /\ pending' = [r \in TriageReplicas |-> [s \in TriageSymbols |->
          {[quiet |-> Older(w.quiet, Settle), open |-> Older(w.open, MaxDelay)]
           : w \in pending[r][s]}]]
    /\ UNCHANGED <<store, hand, triageDue, taken, owed, faults>>

-----------------------------------------------------------------------------
TriageInit ==
    /\ store = [s \in TriageSymbols |-> Nothing]
    /\ pending = [r \in TriageReplicas |-> [s \in TriageSymbols |-> {}]]
    /\ hand = [r \in TriageReplicas |-> {}]
    /\ triageDue = [r \in TriageReplicas |-> {}] /\ taken = [r \in TriageReplicas |-> {}]
    /\ owed = {} /\ faults = 0

TriageHandle(r) ==
    \/ \E s \in TriageSymbols, f \in Fields : Owner[f] = r /\ GetFeatures(s, f)
    \/ SetFeatures(r) \/ NotePending(r)
Sweep(r) ==
    \/ SweepStart(r) \/ (\E s \in TriageSymbols : TakeDue(r, s))
    \/ ReadFeatures(r) \/ PublishAnalysis(r)

TriageNext ==
    \/ \E r \in TriageReplicas :
          TriageHandle(r) \/ Sweep(r) \/ HandleFails(r) \/ SweepFails(r) \/ Crash(r)
    \/ \E s \in TriageSymbols : ExpireFeatures(s)
    \/ TriageTick

TriageSpec == TriageInit /\ [][TriageNext]_triageVars
TriageFairSpec ==
    /\ TriageSpec /\ WF_triageVars(TriageTick)
    /\ \A r \in TriageReplicas : WF_triageVars(TriageHandle(r)) /\ WF_triageVars(Sweep(r))

-----------------------------------------------------------------------------
(* Properties *)

(* Nothing stored is forgotten: while no analysis was computed on an event, *)
(* its symbol is pending or in hand somewhere, or is not ready - although   *)
(* the window is closed and the hash read while further events are stored.  *)
NothingForgotten ==
    \A e \in owed :
        LET s == e[1] IN
        \/ ~Ready(store[s])
        \/ \E r \in TriageReplicas :
              \/ pending[r][s] # {}
              \/ \E h \in hand[r] : h.symbol = s
              \/ \E t \in taken[r] : t.symbol = s

(* A symbol that always receives something is analysed all the same: a      *)
(* window is closed in the end.                                             *)
WindowCloses ==
    \A r \in TriageReplicas, s \in TriageSymbols : pending[r][s] # {} ~> pending[r][s] = {}
=============================================================================
