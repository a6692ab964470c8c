------------------------------ MODULE PollLoop ------------------------------
(***************************************************************************)
(* AdaptivePollLoop (cmi_common/sources/loop.py) driving the Telegram      *)
(* provider of collector-social, the one provider with a cursor.           *)
(*                                                                         *)
(* A cycle reads the operator's toggle, takes a token of the budget, reads *)
(* the channel list, walks the channels and publishes the source's health; *)
(* only then are the items stored, and only after that does the loop call  *)
(* commit(), which moves the cursors.  An action is one await of that      *)
(* cycle with the code up to the next.  An await may raise: the cycle is   *)
(* given up and the loop sleeps.  What happens above the try blocks ends   *)
(* run(), and run_forever() brings it back.                                *)
(*                                                                         *)
(* Messages of a channel have ids 1, 2, ...; what the normalizer drops     *)
(* (and media-only posts) is OffTopic.  The list of channels is walked in  *)
(* any order.                                                              *)
(***************************************************************************)
EXTENDS Faults, FiniteSets, FiniteSetsExt

(* The faults counted: awaits that raise, sessions revoked, restarts        *)
CONSTANTS
    Channels,    \* handles the operator may configure
    OffTopic,    \* <<channel, id>> of messages that are not stored
    Backfill,    \* newest messages read without a cursor (BACKFILL)
    MaxPerCycle, \* newest messages read with one (MAX_PER_CYCLE)
    MaxCalls,    \* calls per window of the budget
    ExpireLost,  \* whether EXPIRE may raise, or a restart come, after INCR
    MaxPosts,    \* bound: per channel its messages
    MaxEdits     \* bound: changes by the operator

ASSUME PollAssumption ==
    /\ Backfill \in Nat \ {0} /\ MaxPerCycle \in Nat \ {0}
    /\ MaxCalls \in Nat \ {0} /\ ExpireLost \in BOOLEAN
    /\ MaxPosts \in [Channels -> Nat] /\ MaxEdits \in Nat
    /\ \A m \in OffTopic : m[1] \in Channels /\ m[2] \in 1..MaxPosts[m[1]]

VARIABLES
    posts,      \* per channel: messages posted so far
    listed,     \* collectors:runtime: the channels
    enabled,    \* collectors:runtime: social and telegram both on
    authorized, \* whether Telegram still accepts the session
    calls,      \* rl:telegram: calls counted in this window
    expires,    \* rl:telegram: whether it has an expiry
    table,      \* raw_content: the messages stored
    status,     \* collectors:status:telegram: "none", "ok" or "fault"
    pollPc,     \* the await the loop is at
    cursor,     \* provider: per channel the last committed id, or None
    pending,    \* provider: advances of the last completed cycle
    dead,       \* provider: channels written off
    connected,  \* provider: whether a client is kept
    todo,       \* cycle: channels still to walk
    advanced,   \* cycle: advances so far
    batch,      \* cycle: items read
    verdict,    \* cycle: what it publishes on its way out
    edits,
    gaps        \* history: messages beyond the limits when cursors passed them

external == <<posts, listed, enabled, authorized>>
budget == <<calls, expires>>
memory == <<cursor, pending, dead, connected>>
cycle == <<todo, advanced, batch, verdict>>
bounds == <<faults, edits>>
pollVars == <<external, budget, table, status, pollPc, memory, cycle, bounds, gaps>>

None == -1
NoAdvance == [c \in {} |-> None]

Goto(at) == pollPc' = at
-----------------------------------------------------------------------------
(* Telegram, the operator, Redis *)

Post(c) ==
    /\ posts[c] < MaxPosts[c]
    /\ posts' = [posts EXCEPT ![c] = @ + 1]
    /\ UNCHANGED <<listed, enabled, authorized, budget, table, status, pollPc, memory,
                   cycle, bounds, gaps>>

(* set_runtime from the terminal: the list is replaced, a toggle flipped *)
Edit ==
    /\ edits < MaxEdits /\ edits' = edits + 1
    /\ \/ \E l \in SUBSET Channels : listed' = l /\ UNCHANGED enabled
       \/ enabled' = ~enabled /\ UNCHANGED listed
    /\ UNCHANGED <<posts, authorized, budget, table, status, pollPc, memory, cycle,
                   faults, gaps>>

Revoke ==
    /\ authorized /\ Fault /\ authorized' = FALSE
    /\ UNCHANGED <<posts, listed, enabled, budget, table, status, pollPc, memory, cycle,
                   edits, gaps>>

(* A new TELEGRAM_SESSION is deployed: the process is restarted with it *)
Renew ==
    /\ ~authorized /\ authorized' = TRUE
    /\ pollPc = "expire" => ExpireLost
    /\ cursor' = [c \in Channels |-> None] /\ pending' = NoAdvance
    /\ dead' = {} /\ connected' = FALSE
    /\ todo' = {} /\ advanced' = NoAdvance /\ batch' = {} /\ verdict' = "none"
    /\ Goto("toggle")
    /\ UNCHANGED <<posts, listed, enabled, budget, table, status, bounds, gaps>>

WindowExpires ==
    /\ expires
    /\ calls' = 0 /\ expires' = FALSE
    /\ UNCHANGED <<external, table, status, pollPc, memory, cycle, bounds, gaps>>

-----------------------------------------------------------------------------
(* AdaptivePollLoop.run, before the cycle *)

(* is_enabled: fail-open, so a raise reads as enabled *)
Toggle ==
    /\ pollPc = "toggle"
    /\ \/ enabled /\ Goto("quota") /\ UNCHANGED faults
       \/ ~enabled /\ Goto("sleep") /\ UNCHANGED faults
       \/ ~enabled /\ Fault /\ Goto("quota")
    /\ UNCHANGED <<external, budget, table, status, memory, cycle, edits, gaps>>

(* Cache.allow: INCR; the first of a window also gives it an expiry.        *)
(* Refused, or unknown because Redis raised: fail closed and wait.          *)
Quota ==
    /\ pollPc = "quota"
    /\ calls' = IF calls <= MaxCalls THEN calls + 1 ELSE calls
    /\ Goto(IF calls = 0 THEN "expire"
            ELSE IF calls + 1 <= MaxCalls THEN "list" ELSE "sleep")
    /\ UNCHANGED <<external, expires, table, status, memory, cycle, bounds, gaps>>

(* Mutant of SetExpiry: the window is counted and never ends *)
SetNoExpiry ==
    /\ pollPc = "expire"
    /\ expires' = FALSE
    /\ Goto("list")
    /\ UNCHANGED <<external, calls, table, status, memory, cycle, bounds, gaps>>

SetExpiry ==
    /\ pollPc = "expire"
    /\ expires' = TRUE
    /\ Goto("list")
    /\ UNCHANGED <<external, calls, table, status, memory, cycle, bounds, gaps>>

QuotaFails ==
    /\ pollPc \in {"quota"} \cup (IF ExpireLost THEN {"expire"} ELSE {})
    /\ Fault
    /\ Goto("sleep")
    /\ UNCHANGED <<external, budget, table, status, memory, cycle, edits, gaps>>

(* An unforeseen failure above the try blocks: run_forever sleeps, and the  *)
(* provider keeps its memory                                                *)
Die ==
    /\ pollPc = "toggle" /\ Fault
    /\ Goto("sleep")
    /\ UNCHANGED <<external, budget, table, status, memory, cycle, edits, gaps>>

-----------------------------------------------------------------------------
(* TelegramProvider.fetch *)

(* How the cycle leaves fetch: the status it still has to publish *)
Leave(with) == verdict' = with /\ Goto("publish")

(* Mutant of ReadList: the stage of a cycle that was not stored is kept *)
ReadListOverStage ==
    /\ pollPc = "list"
    /\ dead' = dead \cap listed
    /\ todo' = listed \ dead' /\ batch' = {} /\ advanced' = NoAdvance
    /\ IF listed = {} THEN Leave("empty") ELSE Goto("client") /\ verdict' = "none"
    /\ UNCHANGED <<external, budget, table, status, cursor, pending, connected, bounds,
                   gaps>>

(* _poll_cycle: the stage is void; the list as the operator last saved it;  *)
(* write-offs of handles no longer on it are forgotten                      *)
ReadList ==
    /\ pollPc = "list"
    /\ pending' = NoAdvance
    /\ dead' = dead \cap listed
    /\ todo' = listed \ dead' /\ batch' = {} /\ advanced' = NoAdvance
    /\ IF listed = {} THEN Leave("empty") ELSE Goto("client") /\ verdict' = "none"
    /\ UNCHANGED <<external, budget, table, status, cursor, connected, bounds, gaps>>

ListFails ==
    /\ pollPc = "list" /\ Fault
    /\ pending' = NoAdvance
    /\ todo' = {} /\ batch' = {} /\ advanced' = NoAdvance
    /\ Leave("fault")
    /\ UNCHANGED <<external, budget, table, status, cursor, dead, connected, edits, gaps>>

(* _ensure_client: a cached client is not checked again *)
EnsureClient ==
    /\ pollPc = "client"
    /\ connected' = (connected \/ authorized)
    /\ IF connected' THEN Goto("walk") /\ UNCHANGED verdict ELSE Leave("fault")
    /\ UNCHANGED <<external, budget, table, status, cursor, pending, dead, todo, advanced,
                   batch, bounds, gaps>>

(* The newest messages above the cursor, at most the limit of them *)
Window(c) ==
    LET from == IF cursor[c] = None THEN 0 ELSE cursor[c]
        limit == IF cursor[c] = None THEN Backfill ELSE MaxPerCycle
    IN {i \in 1..posts[c] : i > from /\ i > posts[c] - limit}

(* max(message ids, cursor) *)
Highest(c) == Max({0, cursor[c]} \cup Window(c))

(* _fetch_channel: the advance is staged beside the items *)
FetchChannel(c) ==
    /\ pollPc = "walk" /\ c \in todo /\ authorized
    /\ todo' = todo \ {c}
    /\ batch' = batch \cup ({<<c, i>> : i \in Window(c)} \ OffTopic)
    /\ advanced' = [d \in DOMAIN advanced \cup {c} |->
                       IF d = c
                       THEN [to |-> Highest(c),
                             read |-> IF cursor[c] = None THEN Window(c)
                                      ELSE Window(c) \cup 1..cursor[c]]
                       ELSE advanced[d]]
    /\ UNCHANGED <<external, budget, table, status, pollPc, memory, verdict, bounds, gaps>>

(* A handle that does not resolve, or a channel gone private *)
WriteOff(c) ==
    /\ pollPc = "walk" /\ c \in todo /\ authorized /\ Fault
    /\ todo' = todo \ {c} /\ dead' = dead \cup {c}
    /\ UNCHANGED <<external, budget, table, status, pollPc, cursor, pending, connected,
                   advanced, batch, verdict, edits, gaps>>

(* UnauthorizedError: the client is dropped and the cycle fails *)
SessionDies ==
    /\ pollPc = "walk" /\ todo # {} /\ ~authorized
    /\ connected' = FALSE
    /\ Leave("fault")
    /\ UNCHANGED <<external, budget, table, status, cursor, pending, dead, todo, advanced,
                   batch, bounds, gaps>>

(* FloodWaitError becomes RateLimitedError, reported as healthy; any other  *)
(* exception of a walk or of connecting is a fault                          *)
WalkFails ==
    /\ pollPc \in {"client", "walk"} /\ Fault
    /\ \E how \in {"flood", "fault"} : Leave(how)
    /\ UNCHANGED <<external, budget, table, status, memory, todo, advanced, batch, edits,
                   gaps>>

(* _verdict: every channel written off is a source fault *)
EndWalk ==
    /\ pollPc = "walk" /\ todo = {}
    /\ Leave(IF listed # {} /\ listed \subseteq dead THEN "unreadable" ELSE "done")
    /\ UNCHANGED <<external, budget, table, status, memory, todo, advanced, batch, bounds,
                   gaps>>

Healthy == {"done", "empty", "flood"}
Returns == {"done", "empty", "unreadable"}

(* _publish_status, and the advances of a completed walk *)
PublishStatus ==
    /\ pollPc = "publish"
    /\ status' = IF verdict \in Healthy THEN "ok" ELSE "fault"
    /\ pending' = IF verdict \in {"done", "unreadable"} THEN advanced ELSE pending
    /\ Goto(IF verdict \in Returns THEN "insert" ELSE "sleep")
    /\ UNCHANGED <<external, budget, table, cursor, dead, connected, cycle, bounds, gaps>>

(* Redis refuses the status.  On the way out of a failed cycle that is      *)
(* logged; at the end of a completed walk it is what fails the cycle, and   *)
(* fetch tries to publish that                                              *)
PublishFails ==
    /\ pollPc = "publish" /\ Fault
    /\ IF verdict \in Returns THEN Leave("fault") ELSE Goto("sleep") /\ UNCHANGED verdict
    /\ UNCHANGED <<external, budget, table, status, memory, todo, advanced, batch, edits,
                   gaps>>

-----------------------------------------------------------------------------
(* AdaptivePollLoop.run, after fetch *)

(* insert_items: ON CONFLICT (source, external_id) DO NOTHING *)
Insert ==
    /\ pollPc = "insert"
    /\ table' = table \cup batch
    /\ Goto("commit")
    /\ UNCHANGED <<external, budget, status, memory, cycle, bounds, gaps>>

InsertFails ==
    /\ pollPc = "insert" /\ Fault
    /\ Goto("sleep")
    /\ UNCHANGED <<external, budget, table, status, memory, cycle, edits, gaps>>

(* TelegramProvider.commit *)
CommitCursor ==
    /\ pollPc = "commit"
    /\ cursor' = [c \in Channels |->
                     IF c \in DOMAIN pending THEN pending[c].to ELSE cursor[c]]
    /\ gaps' = gaps \cup UNION {{<<c, i>> : i \in (1..pending[c].to) \ pending[c].read}
                                : c \in DOMAIN pending}
    /\ pending' = NoAdvance
    /\ Goto("sleep")
    /\ UNCHANGED <<external, budget, table, status, dead, connected, cycle, bounds>>

Wake ==
    /\ pollPc = "sleep"
    /\ Goto("toggle")
    /\ UNCHANGED <<external, budget, table, status, memory, cycle, bounds, gaps>>

(* The container restarts: resolved entities, cursors and write-offs are    *)
(* per process                                                              *)
PollRestart ==
    /\ Fault
    /\ pollPc = "expire" => ExpireLost
    /\ cursor' = [c \in Channels |-> None] /\ pending' = NoAdvance
    /\ dead' = {} /\ connected' = FALSE
    /\ todo' = {} /\ advanced' = NoAdvance /\ batch' = {} /\ verdict' = "none"
    /\ Goto("toggle")
    /\ UNCHANGED <<external, budget, table, status, edits, gaps>>

-----------------------------------------------------------------------------
PollInit ==
    /\ posts = [c \in Channels |-> 0]
    /\ listed = Channels /\ enabled = TRUE /\ authorized = TRUE
    /\ calls = 0 /\ expires = FALSE
    /\ table = {} /\ status = "none" /\ pollPc = "toggle"
    /\ cursor = [c \in Channels |-> None] /\ pending = NoAdvance
    /\ dead = {} /\ connected = FALSE
    /\ todo = {} /\ advanced = NoAdvance /\ batch = {} /\ verdict = "none"
    /\ faults = 0 /\ edits = 0
    /\ gaps = {}

LoopStep ==
    \/ Toggle \/ Quota \/ SetExpiry \/ ReadList \/ EnsureClient
    \/ (\E c \in Channels : FetchChannel(c)) \/ SessionDies \/ EndWalk
    \/ PublishStatus \/ Insert \/ CommitCursor \/ Wake

LoopFails ==
    \/ QuotaFails \/ Die \/ ListFails \/ WalkFails \/ PublishFails
    \/ InsertFails \/ \E c \in Channels : WriteOff(c)

Environment ==
    \/ (\E c \in Channels : Post(c)) \/ Edit \/ Revoke \/ Renew \/ WindowExpires
    \/ PollRestart

PollNext == LoopStep \/ LoopFails \/ Environment

PollSpec == PollInit /\ [][PollNext]_pollVars

(* The event loop runs the task and ends its sleeps, a window that has an   *)
(* expiry expires, and a dead session is replaced in the end.               *)
PollFairSpec ==
    PollSpec /\ WF_pollVars(LoopStep) /\ WF_pollVars(WindowExpires) /\ SF_pollVars(Renew)

-----------------------------------------------------------------------------
(* Properties *)

(* A cursor is a claim that everything up to it is stored: a message it has *)
(* passed is in raw_content, or was dropped by the normalizer, or was       *)
(* beyond the limit of the read that passed it - although items are stored  *)
(* after fetch, by the loop, which may fail at any point in between.        *)
CursorClaimsStored ==
    \A c \in Channels : \A i \in 1..cursor[c] :
        <<c, i>> \in table \cup OffTopic \cup gaps

Settled(c, i) ==
    \/ <<c, i>> \in table \cup OffTopic \cup gaps
    \/ c \notin listed \/ c \in dead \/ ~enabled

(* A source comes back from whatever failed and catches up: again and again *)
(* all that was posted is stored, unless it was off topic or beyond a       *)
(* limit, or the operator took the channel off, or it was written off.      *)
EveryPostSettled == []<>(\A c \in Channels : \A i \in 1..posts[c] : Settled(c, i))

(* A dead source must be loud and must come back, never silent and never    *)
(* gone (run_forever): an enabled source starts cycle after cycle.          *)
SourceComesBack == []<>(pollPc = "list" \/ ~enabled)
=============================================================================
