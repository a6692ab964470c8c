---------------------------- MODULE RiskExposure ----------------------------
(***************************************************************************)
(* The portfolio exposure that risk-engine and trading-engine share in     *)
(* Redis (risk:exposure).                                                  *)
(*                                                                         *)
(* RiskEngine.handle reads the exposure, evaluates the decision, writes    *)
(* the exposure plus the size of the position and publishes the approval.  *)
(* Reconciler._on_closed, in another process, reads the exposure and       *)
(* writes it less the size of the position that closed.  Each await is a   *)
(* step; neither service holds a lock.                                     *)
(*                                                                         *)
(* Sizes and exposures are in ten-thousandths of the portfolio, the        *)
(* precision both services round to; Cap is 1.0.  The other rules of       *)
(* rules.evaluate pass or fail freely here.                                *)
(***************************************************************************)
EXTENDS Integers, Sequences

CONSTANTS
    Decisions,     \* event_ids of the DecisionEvents
    Size,          \* position_size_pct of each decision
    Cap,           \* the whole portfolio
    MaxCrashes,    \* bound: restarts of either service
    MayRaise,      \* whether an await of risk-engine may raise
    NoDecision

ASSUME ExposureAssumption ==
    /\ Cap \in Nat
    /\ Size \in [Decisions -> Nat]
    /\ MaxCrashes \in Nat /\ MayRaise \in BOOLEAN
    /\ NoDecision \notin Decisions

(* An approval: the decision and which of its approvals this is.  Every     *)
(* RiskApprovedEvent has an event_id of its own, and a decision is          *)
(* delivered once more per restart.                                         *)
Approvals == Decisions \X (1..(MaxCrashes + 1))

VARIABLES
    exposure,     \* the key risk:exposure
    log,          \* decision.events
    pos, committed,    \* what risk-engine was delivered, and committed
    approved,     \* per decision: approvals published
    status,       \* per approval: what became of it in trading-engine
    risk,         \* the risk-engine handler: pc, decision, exposure read
    rec,          \* the reconciler: pc, approval, exposure read
    crashes,
    \* history, read by the properties only
    outstanding,  \* sizes of the approvals that are published or tracked
    overlapped,   \* a read-modify-write began inside the other service's
    refreed       \* a position stayed tracked after its size was given back

vars == <<exposure, log, pos, committed, approved, status, risk, rec, crashes,
          outstanding, overlapped, refreed>>
logVars == <<log, pos, committed>>
histVars == <<outstanding, overlapped, refreed>>

Statuses == {"none", "published", "tracked", "refused", "closed"}
NoApproval == <<NoDecision, 0>>
RiskIdle == [pc |-> "idle", d |-> NoDecision, seen |-> 0]
RecIdle == [pc |-> "idle", a |-> NoApproval, seen |-> 0]

-----------------------------------------------------------------------------
(* risk-engine *)

(* decision-engine publishes a decision *)
PublishDecision(d) ==
    /\ \A i \in DOMAIN log : log[i] # d
    /\ log' = Append(log, d)
    /\ UNCHANGED <<exposure, pos, committed, approved, status, risk, rec, crashes,
                   histVars>>

(* The price and the blacklist are read, then the exposure *)
ReadExposure ==
    /\ risk.pc = "idle" /\ pos < Len(log)
    /\ pos' = pos + 1
    /\ risk' = [pc |-> "evaluate", d |-> log[pos + 1], seen |-> exposure]
    /\ overlapped' = (overlapped \/ rec.pc = "write")
    /\ UNCHANGED <<exposure, log, committed, approved, status, rec, crashes,
                   outstanding, refreed>>

(* Mutant of Evaluate: the cap is compared with the exposure alone *)
EvaluateExposureOnly ==
    /\ risk.pc = "evaluate"
    /\ \E rulesPass \in BOOLEAN :
          risk' = IF rulesPass /\ risk.seen <= Cap
                  THEN [risk EXCEPT !.pc = "write"] ELSE RiskIdle
    /\ UNCHANGED <<exposure, logVars, approved, status, rec, crashes, histVars>>

(* rules.evaluate; a rejection is published on decision.events as a         *)
(* RiskRejectedEvent, which changes no state here                           *)
Evaluate ==
    /\ risk.pc = "evaluate"
    /\ \E rulesPass \in BOOLEAN :
          risk' = IF rulesPass /\ risk.seen + Size[risk.d] <= Cap
                  THEN [risk EXCEPT !.pc = "write"] ELSE RiskIdle
    /\ UNCHANGED <<exposure, logVars, approved, status, rec, crashes, histVars>>

(* Mutant of WriteExposure: the size is not added *)
WriteStaleExposure ==
    /\ risk.pc = "write"
    /\ exposure' = risk.seen
    /\ risk' = [risk EXCEPT !.pc = "publish"]
    /\ UNCHANGED <<logVars, approved, status, rec, crashes, histVars>>

WriteExposure ==
    /\ risk.pc = "write"
    /\ exposure' = risk.seen + Size[risk.d]
    /\ risk' = [risk EXCEPT !.pc = "publish"]
    /\ UNCHANGED <<logVars, approved, status, rec, crashes, histVars>>

PublishApproval ==
    LET n == approved[risk.d] + 1 IN
    /\ risk.pc = "publish"
    /\ approved' = [approved EXCEPT ![risk.d] = n]
    /\ status' = [status EXCEPT ![<<risk.d, n>>] = "published"]
    /\ outstanding' = outstanding + Size[risk.d]
    /\ risk' = RiskIdle
    /\ UNCHANGED <<exposure, logVars, rec, crashes, overlapped, refreed>>

(* Mutant of CommitDecisions: the offset is committed one message ahead *)
CommitDecisionsAhead ==
    /\ risk.pc = "idle" /\ committed < pos
    /\ committed' = pos + 1
    /\ UNCHANGED <<exposure, log, pos, approved, status, risk, rec, crashes, histVars>>

CommitDecisions ==
    /\ risk.pc = "idle" /\ committed < pos
    /\ committed' = pos
    /\ UNCHANGED <<exposure, log, pos, approved, status, risk, rec, crashes, histVars>>

(* An await raises: the decision is skipped *)
RiskRaise ==
    /\ MayRaise /\ risk.pc # "idle"
    /\ risk' = RiskIdle
    /\ UNCHANGED <<exposure, logVars, approved, status, rec, crashes, histVars>>

RiskCrash ==
    /\ crashes < MaxCrashes
    /\ crashes' = crashes + 1
    /\ risk' = RiskIdle
    /\ pos' = committed
    /\ UNCHANGED <<exposure, log, committed, approved, status, rec, histVars>>

-----------------------------------------------------------------------------
SizeOf(a) == Size[a[1]]

(* trading-engine: see TradingEngine for how an approval becomes tracked,   *)
(* or is refused by a guard, by sizing or by the operator                   *)

Execute(a) ==
    /\ status[a] = "published"
    /\ status' = [status EXCEPT ![a] = "tracked"]
    /\ UNCHANGED <<exposure, logVars, approved, risk, rec, crashes, histVars>>

Refuse(a) ==
    /\ status[a] = "published"
    /\ status' = [status EXCEPT ![a] = "refused"]
    /\ outstanding' = outstanding - SizeOf(a)
    /\ UNCHANGED <<exposure, logVars, approved, risk, rec, crashes, overlapped, refreed>>

(* _on_closed, three awaits that matter here: read, write, untrack *)
CloseRead(a) ==
    /\ rec.pc = "idle" /\ status[a] = "tracked"
    /\ rec' = [pc |-> "write", a |-> a, seen |-> exposure]
    /\ overlapped' = (overlapped \/ risk.pc \in {"evaluate", "write"})
    /\ UNCHANGED <<exposure, logVars, approved, status, risk, crashes,
                   outstanding, refreed>>

CloseWrite ==
    /\ rec.pc = "write"
    /\ exposure' = IF rec.seen > SizeOf(rec.a) THEN rec.seen - SizeOf(rec.a) ELSE 0
    /\ outstanding' = outstanding - SizeOf(rec.a)
    /\ rec' = [rec EXCEPT !.pc = "untrack"]
    /\ UNCHANGED <<logVars, approved, status, risk, crashes, overlapped, refreed>>

CloseUntrack ==
    /\ rec.pc = "untrack"
    /\ status' = [status EXCEPT ![rec.a] = "closed"]
    /\ rec' = RecIdle
    /\ UNCHANGED <<exposure, logVars, approved, risk, crashes, histVars>>

(* The sweep raises or the container restarts: the next sweep starts over *)
RecFail ==
    /\ rec.pc # "idle" /\ crashes < MaxCrashes
    /\ crashes' = crashes + 1
    /\ refreed' = (refreed \/ rec.pc = "untrack")
    /\ rec' = RecIdle
    /\ UNCHANGED <<exposure, logVars, approved, status, risk, outstanding, overlapped>>

-----------------------------------------------------------------------------
Init ==
    /\ exposure = 0
    /\ log = <<>> /\ pos = 0 /\ committed = 0
    /\ approved = [d \in Decisions |-> 0]
    /\ status = [a \in Approvals |-> "none"]
    /\ risk = RiskIdle /\ rec = RecIdle
    /\ crashes = 0
    /\ outstanding = 0 /\ overlapped = FALSE /\ refreed = FALSE

Next ==
    \/ \E d \in Decisions : PublishDecision(d)
    \/ ReadExposure \/ Evaluate \/ WriteExposure \/ PublishApproval
    \/ CommitDecisions \/ RiskRaise \/ RiskCrash
    \/ \E a \in Approvals : Execute(a) \/ Refuse(a) \/ CloseRead(a)
    \/ CloseWrite \/ CloseUntrack \/ RecFail

Spec == Init /\ [][Next]_vars

-----------------------------------------------------------------------------
(* Properties *)

RiskType == [pc : {"idle", "evaluate", "write", "publish"},
             d : Decisions \cup {NoDecision}, seen : Int]
RecType == [pc : {"idle", "write", "untrack"},
            a : Approvals \cup {NoApproval}, seen : Int]

(* Every variable has its type, and the offsets are ordered: committed,      *)
(* delivered, published.                                                    *)
TypeOK ==
    /\ exposure \in Int
    /\ log \in Seq(Decisions)
    /\ pos \in 0..Len(log) /\ committed \in 0..pos
    /\ approved \in [Decisions -> Nat]
    /\ status \in [Approvals -> Statuses]
    /\ risk \in RiskType /\ rec \in RecType
    /\ crashes \in 0..MaxCrashes
    /\ outstanding \in Int /\ overlapped \in BOOLEAN /\ refreed \in BOOLEAN

(* The exposure stays between nothing and the whole portfolio ("0..1",      *)
(* risk-engine/app/engine.py), whatever stale value either service writes   *)
(* back.                                                                    *)
ExposureInRange == 0 <= exposure /\ exposure <= Cap

(* Unless the two services' read-modify-writes overlapped, or a sweep       *)
(* failed between giving a size back and untracking the position, the       *)
(* exposure covers the positions that hold a share of it, so rules.evaluate *)
(* keeps them within the portfolio: no crash, redelivery, rejection or      *)
(* skipped decision of risk-engine makes it too small.                      *)
ExposureCovers == ~overlapped /\ ~refreed => outstanding <= exposure

-----------------------------------------------------------------------------
(* What comments in the source say and the code does not keep *)

(* risk:exposure is the "current aggregate portfolio exposure"              *)
(* (risk-engine/app/engine.py): what the approvals hold is within the       *)
(* portfolio.                                                               *)
OutstandingWithinCap == outstanding <= Cap
=============================================================================
