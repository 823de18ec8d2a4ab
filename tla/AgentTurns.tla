----------------------------- MODULE AgentTurns -----------------------------
(***************************************************************************)
(* The turns of one chat session of the agents service.  A turn is a       *)
(* detached task: it reads where the transcript ends, loads its context,   *)
(* talks to the model, saves its messages and closes its event buffer.     *)
(* Clients watch through NDJSON streams that replay the buffer and then    *)
(* follow it.  The session is free for the next turn when the buffer is    *)
(* closed, or dropped because nobody watched it.                           *)
(*                                                                         *)
(*   turn[t]    the task of runner.py and its TurnHandle                   *)
(*   buffer[t]  the TurnBuffer of session_manager.py                       *)
(*   active, recent   its _active and _recent, for this session            *)
(*   log, watermark   the rows agent_message / agent_session    *)
(*   reader[r]  a stream of session_turn_manager.subscribe                 *)
(*                                                                         *)
(* A step is what a task does between two awaits.  A message is <<t, i>>:  *)
(* the i-th message of turn t, the user's prompt first, then answers and   *)
(* tool returns in turn.                                                   *)
(***************************************************************************)
EXTENDS Naturals, Sequences, FiniteSets

CONSTANTS
    MaxTurns,       \* bound: turns of the session
    Readers,        \* client streams
    KeepRecent,     \* _KEEP_RECENT_MIN of history.py
    MaxMessages,    \* bound: messages of one turn
    Asking,         \* bound: the turns whose tool calls may meet the approval gate
    Past,           \* messages an earlier process left in the transcript
    MaxRestarts     \* bound: restarts of the process

ASSUME BoundsAssumption ==
    /\ MaxTurns \in Nat /\ MaxMessages \in Nat \ {0} /\ Past \in 0..MaxMessages
    /\ KeepRecent \in Nat \ {0} /\ MaxRestarts \in Nat

VARIABLES turn, buffer, active, recent, log, watermark, reader, restarts

vars == <<turn, buffer, active, recent, log, watermark, reader, restarts>>
rows == <<log, watermark>>

\* Turns in the order of their posts; their real names are random.
Turns == 1..MaxTurns
NoTurn == 0
PastTurn == MaxTurns + 1

Messages == (Turns \cup {PastTurn}) \X (1..MaxMessages)
Covered(items) == UNION {items[i] : i \in 1..Len(items)}

\* A row: the messages it stands for, one if it is verbatim, many if a summary.
Row(t, kind, holds) == [turn |-> t, kind |-> kind, holds |-> holds]

Unborn == [pc |-> "none", start |-> 0, seqd |-> FALSE, mark |-> 0, context |-> << >>,
           made |-> 0, digest |-> {}]
Gone == [Unborn EXCEPT !.pc = "over"]
NoBuffer == [live |-> FALSE, events |-> << >>, finished |-> FALSE]
Away == [pc |-> "away", at |-> NoTurn, cursor |-> 0, last |-> "none", finished |-> FALSE]

Init ==
    /\ turn = [t \in Turns |-> Unborn]
    /\ buffer = [t \in Turns |-> NoBuffer]
    /\ active = NoTurn /\ recent = NoTurn
    /\ log = [i \in 1..Past |-> Row(PastTurn, "message", {<<PastTurn, i>>})]
    /\ watermark = 0
    /\ reader = [r \in Readers |-> Away]
    /\ restarts = 0

-----------------------------------------------------------------------------
(***************************************************************************)
(* SessionTurnManager.                                                     *)
(***************************************************************************)
Watching(t) == {r \in Readers : reader[r].at = t /\ reader[r].pc \in {"open", "fetched"}}

\* publish, onto a buffer that may have been dropped.
Emitted(t, events) ==
    IF buffer[t].live THEN [buffer EXCEPT ![t].events = @ \o events] ELSE buffer

\* Give up a name that is this turn's.
Cleared(name, t) == IF name = t THEN NoTurn ELSE name

(***************************************************************************)
(* The last publish and finish: close the buffer, and free the session if  *)
(* it is still this turn's.  One step: the buffer's condition is never     *)
(* held across a suspension, so neither call gives way.                    *)
(***************************************************************************)
Close(t, events) ==
    IF buffer[t].live
    THEN /\ buffer' = [Emitted(t, events) EXCEPT ![t].finished = TRUE]
         /\ active' = Cleared(active, t)
    ELSE UNCHANGED <<buffer, active>>

\* The expiry timer: nobody watches, and the buffer is 90 s old (or closed for 90 s).
Expire(t) ==
    /\ buffer[t].live /\ Watching(t) = {}
    /\ buffer' = [buffer EXCEPT ![t] = NoBuffer]
    /\ active' = Cleared(active, t) /\ recent' = Cleared(recent, t)
    /\ UNCHANGED <<turn, rows, reader, restarts>>

-----------------------------------------------------------------------------
(***************************************************************************)
(* The routes: post a message (409 while a turn is active), and reattach   *)
(* to the most recent turn that is still buffered.                         *)
(***************************************************************************)
Follow(r, t) == reader' = [reader EXCEPT ![r] = [Away EXCEPT !.pc = "opening", !.at = t]]

Busy == active # NoTurn /\ buffer[active].live

Post(t) ==
    /\ turn[t].pc = "none" /\ \A u \in Turns : u < t => turn[u].pc # "none"
    /\ ~Busy
    /\ turn' = [turn EXCEPT ![t].pc = "starting"]
    /\ buffer' = [buffer EXCEPT ![t].live = TRUE]
    /\ active' = t /\ recent' = t
    /\ \/ UNCHANGED reader      \* the client is gone before the answer starts
       \/ \E r \in Readers : reader[r].pc = "away" /\ Follow(r, t)
    /\ UNCHANGED <<rows, restarts>>

Reattach(r) ==
    /\ reader[r].pc = "away" /\ recent # NoTurn /\ Follow(r, recent)
    /\ UNCHANGED <<turn, buffer, active, recent, rows, restarts>>

\* subscribe: an unknown turn is told in one error line.
Subscribe(r) ==
    /\ reader[r].pc = "opening"
    /\ reader' = [reader EXCEPT ![r].pc = IF buffer[reader[r].at].live THEN "open" ELSE "unknown"]
    /\ UNCHANGED <<turn, buffer, active, recent, rows, restarts>>

Pending(r) == reader[r].cursor < Len(buffer[reader[r].at].events)

\* Under the condition: what is new, and whether the turn is over.
Fetch(r) ==
    LET b == buffer[reader[r].at] IN
    /\ reader[r].pc = "open" /\ (Pending(r) \/ b.finished)
    /\ reader' = [reader EXCEPT ![r] = [@ EXCEPT
            !.pc = "fetched", !.cursor = Len(b.events), !.finished = b.finished,
            !.last = IF Pending(r) THEN b.events[Len(b.events)] ELSE reader[r].last]]
    /\ UNCHANGED <<turn, buffer, active, recent, rows, restarts>>

\* Mutant: the end of the turn is looked up again instead of what the batch saw.
DrainedNow(r) == buffer[reader[r].at].finished

\* After the last line of the batch is written: end, or wait for more.
Drained(r) == reader[r].finished /\ ~Pending(r)

Deliver(r) ==
    /\ reader[r].pc = "fetched"
    /\ reader' = [reader EXCEPT ![r].pc = IF Drained(r) THEN "ended" ELSE "open"]
    /\ UNCHANGED <<turn, buffer, active, recent, rows, restarts>>

\* The client disconnects, or comes back after its stream ended.
Leave(r) ==
    /\ reader[r].pc # "away"
    /\ reader' = [reader EXCEPT ![r] = Away]
    /\ UNCHANGED <<turn, buffer, active, recent, rows, restarts>>

-----------------------------------------------------------------------------
(***************************************************************************)
(* TurnRunner._execute, up to the model.                                   *)
(***************************************************************************)
Goto(t, pc) == turn' = [turn EXCEPT ![t].pc = pc]

\* The task ends and its handle is dropped, with all it knew.
Over(t) == turn' = [turn EXCEPT ![t] = Gone]

Begin(t) ==
    /\ turn[t].pc = "starting" /\ Goto(t, "begun")
    /\ buffer' = Emitted(t, <<"start">>)
    /\ UNCHANGED <<active, recent, rows, reader, restarts>>

\* next_seq: rows are numbered from 1 without gaps.
ReadSeq(t) ==
    /\ turn[t].pc = "begun"
    /\ turn' = [turn EXCEPT ![t] = [@ EXCEPT !.pc = "seqd", !.start = Len(log), !.seqd = TRUE]]
    /\ UNCHANGED <<buffer, active, recent, rows, reader, restarts>>

ReadWatermark(t) ==
    /\ turn[t].pc = "seqd"
    /\ turn' = [turn EXCEPT ![t] = [@ EXCEPT !.pc = "marked", !.mark = watermark]]
    /\ UNCHANGED <<buffer, active, recent, rows, reader, restarts>>

\* load_context_messages: the newest summary, then every message after the watermark.
HoldsOf(found) ==
    LET kept[n \in 0..Len(found)] ==
            CASE n = 0 -> << >>
              [] n > 0 /\ found[n].kind = "message" -> Append(kept[n - 1], found[n].holds)
              [] OTHER -> kept[n - 1]
    IN  kept[Len(found)]

Verbatim(from) == HoldsOf(SubSeq(log, from + 1, Len(log)))

NewestSummary ==
    LET S == {i \in 1..Len(log) : log[i].kind = "summary"} IN
    IF S = {} THEN << >> ELSE <<log[CHOOSE i \in S : \A j \in S : j <= i].holds>>

Context(mark) == (IF mark > 0 THEN NewestSummary ELSE << >>) \o Verbatim(mark)

LoadContext(t) ==
    /\ turn[t].pc = "marked"
    /\ turn' = [turn EXCEPT ![t] = [@ EXCEPT !.pc = "running", !.made = 1,
                                             !.context = Context(turn[t].mark)]]
    /\ UNCHANGED <<buffer, active, recent, rows, reader, restarts>>

-----------------------------------------------------------------------------
(***************************************************************************)
(* The model loop.  Messages alternate: a request (the prompt or tool      *)
(* returns) has an odd number, an answer an even one.                      *)
(***************************************************************************)
Odd(n) == n % 2 = 1

Answer(t) ==
    /\ turn[t].pc = "running" /\ Odd(turn[t].made) /\ turn[t].made < MaxMessages
    /\ turn' = [turn EXCEPT ![t].made = @ + 1]
    /\ buffer' = Emitted(t, <<"delta">>)
    /\ UNCHANGED <<active, recent, rows, reader, restarts>>

CallTools(t) ==
    /\ turn[t].pc = "running" /\ ~Odd(turn[t].made) /\ turn[t].made < MaxMessages - 1
    /\ turn' = [turn EXCEPT ![t].made = @ + 1]
    /\ buffer' = Emitted(t, <<"tool">>)
    /\ UNCHANGED <<active, recent, rows, reader, restarts>>

(***************************************************************************)
(* A tool call meets the approval gate: the turn is parked with its clock  *)
(* stopped, for as long as its human takes.  A decision or a cancel wakes  *)
(* it, and the call returns, done or not.                                  *)
(***************************************************************************)
Parked(t) == turn[t].pc = "parked"

AskHuman(t) ==
    /\ t \in Asking
    /\ turn[t].pc = "running" /\ ~Odd(turn[t].made) /\ turn[t].made < MaxMessages - 1
    /\ Goto(t, "parked")
    /\ buffer' = Emitted(t, <<"approval">>)
    /\ UNCHANGED <<active, recent, rows, reader, restarts>>

HumanAnswers(t) ==
    /\ Parked(t)
    /\ turn' = [turn EXCEPT ![t] = [@ EXCEPT !.pc = "running", !.made = turn[t].made + 1]]
    /\ buffer' = Emitted(t, <<"tool">>)
    /\ UNCHANGED <<active, recent, rows, reader, restarts>>

(***************************************************************************)
(* The history processor, before a request that is not the first (usage is *)
(* still zero then): the older part becomes a digest, the KeepRecent last  *)
(* messages stay, more of them if the tail would start with tool returns.  *)
(***************************************************************************)
InRun(t) == turn[t].context \o [i \in 1..turn[t].made |-> {<<t, i>>}]

ToolReturns(item) == \E m \in item : item = {m} /\ m[2] > 1 /\ Odd(m[2])

Splits(items) == {s \in 1..Len(items) : s + KeepRecent <= Len(items) /\ ~ToolReturns(items[s + 1])}

Summarise(t) ==
    /\ turn[t].pc = "running" /\ Odd(turn[t].made) /\ turn[t].made > 1 /\ turn[t].digest = {}
    /\ \E s \in Splits(InRun(t)) :
        /\ \A other \in Splits(InRun(t)) : other <= s
        /\ turn' = [turn EXCEPT ![t].digest = Covered(SubSeq(InRun(t), 1, s))]
    /\ buffer' = Emitted(t, <<"summary">>)
    /\ UNCHANGED <<active, recent, rows, reader, restarts>>

Succeed(t) ==
    /\ turn[t].pc = "running" /\ ~Odd(turn[t].made) /\ Goto(t, "saving")
    /\ UNCHANGED <<buffer, active, recent, rows, reader, restarts>>

-----------------------------------------------------------------------------
(***************************************************************************)
(* After the model: save, advance the watermark, tell the *)
(* watchers, close.  A row's key is session:seq, so a block whose first    *)
(* number is taken is refused as a whole.                                  *)
(***************************************************************************)
Block(t) ==
    (IF turn[t].digest = {} THEN << >> ELSE <<Row(t, "summary", turn[t].digest)>>)
        \o [i \in 1..turn[t].made |-> Row(t, "message", {<<t, i>>})]

\* Mutant: the key does not refuse a number that is taken.
SavedOver(t, block) == SubSeq(log, 1, turn[t].start) \o block

\* The transcript after turn t writes these rows behind the row it started at.
Saved(t, block) == IF Len(log) = turn[t].start THEN log \o block ELSE log

PersistTurn(t) ==
    /\ turn[t].pc = "saving"
    /\ log' = Saved(t, Block(t))
    /\ Goto(t, IF Len(log) = turn[t].start THEN "saved" ELSE "failing")
    /\ UNCHANGED <<buffer, active, recent, watermark, reader, restarts>>

\* Mutant: the watermark moves behind the turn instead of before it.
WatermarkAtEnd(t) == Len(log)

NewWatermark(t) == turn[t].start

AdvanceWatermark(t) ==
    /\ turn[t].pc = "saved" /\ Goto(t, "advanced")
    /\ watermark' = IF turn[t].digest = {} THEN watermark ELSE NewWatermark(t)
    /\ UNCHANGED <<buffer, active, recent, log, reader, restarts>>

Complete(t) ==
    /\ turn[t].pc = "advanced" /\ Goto(t, "completed")
    /\ Close(t, <<"usage", "complete">>)
    /\ UNCHANGED <<recent, rows, reader, restarts>>

\* The job's end is published last (JobsPipeline); then the task is over.
Announce(t) ==
    /\ turn[t].pc = "completed" /\ Over(t)
    /\ UNCHANGED <<buffer, active, recent, rows, reader, restarts>>

-----------------------------------------------------------------------------
(***************************************************************************)
(* A turn fails: cancelled or out of time at a checkpoint of the loop, or  *)
(* on an exception anywhere (the model, the database, a shutdown, which is *)
(* all that fails a parked turn).  The stream is told and closed, then the *)
(* user's message is saved if the turn got its number.                     *)
(***************************************************************************)
Trying == {"starting", "begun", "seqd", "marked", "running", "parked", "saving", "saved",
           "advanced", "completed"}

Fail(t) ==
    /\ turn[t].pc \in Trying
    /\ Goto(t, "failing")
    /\ UNCHANGED <<buffer, active, recent, rows, reader, restarts>>

CloseFailed(t) ==
    /\ turn[t].pc = "failing" /\ Goto(t, "closed")
    /\ Close(t, <<"error">>)
    /\ UNCHANGED <<recent, rows, reader, restarts>>

\* persist_failed_user_message: best effort, a refused row is swallowed.
KeepMessage(t) ==
    /\ turn[t].pc = "closed" /\ Over(t)
    /\ log' = IF turn[t].seqd THEN Saved(t, <<Row(t, "message", {<<t, 1>>})>>) ELSE log
    /\ UNCHANGED <<buffer, active, recent, watermark, reader, restarts>>

-----------------------------------------------------------------------------
\* The process dies: tasks, buffers and streams are gone, the rows stay.
Restart ==
    /\ restarts < MaxRestarts /\ restarts' = restarts + 1
    /\ turn' = [t \in Turns |-> IF turn[t].pc = "none" THEN turn[t]
                                ELSE Gone]
    /\ buffer' = [t \in Turns |-> NoBuffer]
    /\ active' = NoTurn /\ recent' = NoTurn
    /\ reader' = [r \in Readers |-> Away]
    /\ UNCHANGED rows

TaskStep(t) ==
    \/ Begin(t) \/ ReadSeq(t) \/ ReadWatermark(t) \/ LoadContext(t)
    \/ Answer(t) \/ CallTools(t) \/ AskHuman(t) \/ HumanAnswers(t)
    \/ Summarise(t) \/ Succeed(t)
    \/ PersistTurn(t) \/ AdvanceWatermark(t) \/ Complete(t) \/ Announce(t)
    \/ Fail(t) \/ CloseFailed(t) \/ KeepMessage(t)

StreamStep(r) == Subscribe(r) \/ Fetch(r) \/ Deliver(r)

Next ==
    \/ \E t \in Turns : Post(t) \/ TaskStep(t) \/ Expire(t)
    \/ \E r \in Readers : Reattach(r) \/ StreamStep(r) \/ Leave(r)
    \/ Restart

Spec == Init /\ [][Next]_vars

(***************************************************************************)
(* The event loop runs every task and every stream, and a turn out of time *)
(* fails.  A parked turn has no time to run out of: nothing makes its      *)
(* human decide or cancel.                                                 *)
(***************************************************************************)
FairSpec ==
    /\ Spec
    /\ \A t \in Turns : WF_vars(~Parked(t) /\ TaskStep(t))
    /\ \A r \in Readers : WF_vars(StreamStep(r))
-----------------------------------------------------------------------------
Lines == {"start", "delta", "tool", "approval", "summary", "usage", "complete", "error"}

TurnStates ==
    [pc : Trying \cup {"none", "failing", "closed", "over"}, start : Nat, seqd : BOOLEAN,
     mark : Nat, context : Seq(SUBSET Messages), made : 0..MaxMessages, digest : SUBSET Messages]

BufferStates == [live : BOOLEAN, finished : BOOLEAN, events : Seq(Lines)]

RowStates == [turn : Turns \cup {PastTurn}, kind : {"message", "summary"}, holds : SUBSET Messages]

StreamStates ==
    [pc : {"away", "opening", "open", "fetched", "ended", "unknown"}, at : Turns \cup {NoTurn},
     cursor : Nat, finished : BOOLEAN, last : Lines \cup {"none"}]

TypeOK ==
    /\ turn \in [Turns -> TurnStates]
    /\ buffer \in [Turns -> BufferStates]
    /\ active \in Turns \cup {NoTurn} /\ recent \in Turns \cup {NoTurn}
    /\ log \in Seq(RowStates)
    /\ watermark \in Nat /\ watermark <= Len(log)
    /\ reader \in [Readers -> StreamStates]
    /\ restarts \in 0..MaxRestarts

(***************************************************************************)
(* A buffer that is still open is the session's active turn: whatever      *)
(* expires, finishes late or starts over it, no open buffer is left that   *)
(* the one-turn-at-a-time guard does not see.                              *)
(***************************************************************************)
OpenBufferIsActive ==
    \A t \in Turns : buffer[t].live /\ ~buffer[t].finished => active = t

(***************************************************************************)
(* A stream that ends by itself has delivered the turn's last line, the    *)
(* completion or the error, also when the turn closes between a batch and  *)
(* the look at whether there is more.                                      *)
(***************************************************************************)
StreamEndsWithTheTurn ==
    \A r \in Readers : reader[r].pc = "ended" => reader[r].last \in {"complete", "error"}

(***************************************************************************)
(* The context a turn loads misses no message that was in the transcript   *)
(* when the turn took its number, except behind a summary: not after a     *)
(* crash between saving a summary and moving the watermark, and not when   *)
(* another turn moves it meanwhile.                                        *)
(***************************************************************************)
Summarised(i) == \E s \in 1..Len(log) : s > i /\ log[s].kind = "summary"

ContextMissesNothingRecent ==
    \A t \in Turns : turn[t].made > 0 =>
        \A i \in 1..turn[t].start :
            \/ Summarised(i) \/ log[i].kind = "summary"
            \/ log[i].holds \subseteq Covered(turn[t].context)

(***************************************************************************)
(* A summary stands for everything before its turn, as the comment on the  *)
(* watermark says: the context a turn loads covers the whole transcript.   *)
(***************************************************************************)
ContextCoversTheChat ==
    \A t \in Turns : turn[t].made > 0 =>
        \A i \in 1..turn[t].start : log[i].holds \subseteq Covered(turn[t].context)

(***************************************************************************)
(* The transcript is append-only, one block per turn, although a turn may  *)
(* try to save twice and two turns may have read the same end.             *)
(***************************************************************************)
History == INSTANCE ChatHistory WITH Turns <- Turns, log <- log
HistorySpec == History!Spec

(***************************************************************************)
(* A client is not left at an open stream: again and again the stream has  *)
(* ended or the client has gone, unless the turn it watches stays parked   *)
(* for good, waiting for a human who neither decides nor cancels.          *)
(***************************************************************************)
WatcherIsReleased ==
    \A r \in Readers :
        \/ []<>(reader[r].pc \in {"ended", "away", "unknown"})
        \/ <>[](reader[r].at # NoTurn /\ Parked(reader[r].at))

\* The manager, the turns and the streams agree: no open turn is hidden from the
\* guard, and no stream ends before its turn.
StreamsFollowTheirTurn == TypeOK /\ OpenBufferIsActive /\ StreamEndsWithTheTurn
=============================================================================
