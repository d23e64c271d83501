--------------------------- MODULE ResponsesRuntime ---------------------------
(***************************************************************************)
(* The runtime of a streamed response (httpapi/openai/responses): message  *)
(* and function items are announced, filled and closed, and the completed  *)
(* response repeats them.                                                  *)
(*                                                                         *)
(* A runtime is a record: acc, sieve, called, error and sent as in         *)
(* ChatRuntime; batch the delta being put together; message the one        *)
(* message item [added, part, index, text]; functions the items of the     *)
(* calls of the block at hand, by place in the block; nextIndex and nextId *)
(* the next output index and identifier; object the response that was      *)
(* persisted, [status, items].  The item of the message has identifier 0.  *)
(***************************************************************************)
EXTENDS ToolSieve, Turn

NoMessage == [added |-> FALSE, part |-> FALSE, index |-> -1, text |-> << >>]
NoObject == [status |-> "none", items |-> {}]
-----------------------------------------------------------------------------
(* The frames of the stream (internal/format/openai): what each carries of *)
(* the item and of the text it is about.                                   *)

Created == [ev |-> "created"]
ItemAdded(item) == [ev |-> "item added", id |-> item.id, index |-> item.index]
ItemDone(item) == [ev |-> "item done", id |-> item.id, index |-> item.index]
PartAddedFrame == [ev |-> "part added"]
PartDone == [ev |-> "part done"]
TextDelta(s) == [ev |-> "text", text |-> s]
TextDone == [ev |-> "text done"]
ReasoningDelta(s) == [ev |-> "reasoning", text |-> s]
CallDone(call, item) == [ev |-> "call", call |-> call, id |-> item.id]
Failed(error) == [ev |-> "failed", error |-> error]
Completed(reason) == [ev |-> "completed", reason |-> reason]
DoneMark == [ev |-> "done"]
MessageItem(rt) == [id |-> 0, index |-> rt.message.index]

-----------------------------------------------------------------------------
NewResponse == [acc |-> NewAcc, sieve |-> NewSieve, batch |-> [kind |-> "text", text |-> << >>],
                called |-> FALSE, error |-> "none", sent |-> << >>,
                message |-> NoMessage, functions |-> << >>, nextIndex |-> 0, nextId |-> 1,
                object |-> NoObject]

RespSend(rt, event) == [rt EXCEPT !.sent = Append(@, event)]

-----------------------------------------------------------------------------
(* The message item. *)

\* ensureMessageOutputIndex
WithMessageIndex(rt) ==
    IF rt.message.index >= 0 THEN rt
    ELSE [rt EXCEPT !.message.index = rt.nextIndex, !.nextIndex = @ + 1]

\* ensureMessageItemAdded, ensureMessageContentPartAdded
MessageAdded(rt) ==
    LET r == WithMessageIndex(rt)
    IN IF rt.message.added THEN rt
       ELSE [RespSend(r, ItemAdded(MessageItem(r)))
             EXCEPT !.message.added = TRUE]
PartAdded(rt) ==
    IF rt.message.part THEN rt
    ELSE [RespSend(MessageAdded(rt), PartAddedFrame) EXCEPT !.message.part = TRUE]

EmitText(rt, s) ==
    IF s = << >> THEN rt
    ELSE [RespSend(PartAdded(rt), TextDelta(s)) EXCEPT !.message.text = @ \o s]

CloseMessage(rt) ==
    LET part == IF rt.message.part
                THEN [RespSend(RespSend(rt, TextDone), PartDone)
                      EXCEPT !.message.part = FALSE]
                ELSE rt
    IN IF rt.message.added THEN RespSend(part, ItemDone(MessageItem(rt)))
       ELSE rt

-----------------------------------------------------------------------------
(* Function items: the i-th call of the block at hand. *)

\* The maps of a runtime by place in the block, with one more entry.
Entered(functions, i, f) == [j \in DOMAIN functions \union {i} |-> IF j = i THEN f ELSE functions[j]]

\* ensureFunctionOutputIndex, ensureFunctionItemID, ensureToolCallID
WithFunctionByPlace(rt, i) ==  \* mutant: the place in the block is the output index
    IF i \in DOMAIN rt.functions THEN rt
    ELSE [rt EXCEPT !.functions = Entered(@, i, [id |-> rt.nextId, index |-> i - 1, done |-> FALSE]),
                    !.nextId = @ + 1]
WithFunction(rt, i) ==
    IF i \in DOMAIN rt.functions THEN rt
    ELSE [rt EXCEPT !.functions = Entered(@, i, [id |-> rt.nextId, index |-> rt.nextIndex, done |-> FALSE]),
                    !.nextId = @ + 1, !.nextIndex = @ + 1]

\* ensureFunctionItemAdded and the rest of one round of emitFunctionCallDoneEvents
EmitCall(rt, i, call) ==
    LET r == WithFunction(rt, i)
        item == [id |-> r.functions[i].id, index |-> r.functions[i].index]
        added == IF i \in DOMAIN rt.functions THEN r
                 ELSE RespSend(r, ItemAdded(item))
        done == RespSend(RespSend(added, CallDone(call, item)), ItemDone(item))
    IN IF r.functions[i].done THEN added
       ELSE [done EXCEPT !.functions[i].done = TRUE, !.called = TRUE]
EmitCalls(rt, calls) ==
    LET after[i \in 0..Len(calls)] == IF i = 0 THEN rt ELSE EmitCall(after[i - 1], i, calls[i])
    IN after[Len(calls)]

\* processToolStreamEvents: the text first, then calls, whose items are then forgotten.
RespEvent(rt, e) ==
    LET shown == EmitText(rt, Clean(e.content))
    IN IF e.calls = << >> THEN shown
       ELSE [EmitCalls(shown, e.calls) EXCEPT !.functions = << >>]
RespEvents(rt, events) ==
    LET after[i \in 0..Len(events)] == IF i = 0 THEN rt ELSE RespEvent(after[i - 1], events[i])
    IN after[Len(events)]

-----------------------------------------------------------------------------
(* A line of the reply. *)

RespFlushBatch(rt) ==
    LET cleared == [rt EXCEPT !.batch = [kind |-> "text", text |-> << >>]]
    IN IF rt.batch.text = << >> THEN rt
       ELSE IF rt.batch.kind = "text" THEN EmitText(cleared, rt.batch.text)
       ELSE RespSend(cleared, ReasoningDelta(rt.batch.text))
RespBatch(rt, kind, s) ==
    LET ready == IF rt.batch.kind = kind THEN rt ELSE RespFlushBatch(rt)
    IN IF s = << >> THEN rt
       ELSE [ready EXCEPT !.batch = [kind |-> kind, text |-> ready.batch.text \o s]]

RespThinking(rt, s) == RespBatch([rt EXCEPT !.acc = ApplyThinking(@, s)], "reasoning", Clean(s))
RespSieved(rt, d) == RespEvents([rt EXCEPT !.sieve = d.st], d.out)
RespTextUnflushed(rt, s, offered) ==  \* mutant: the batch is not sent before what the sieve hands out
    IF offered # {} THEN RespSieved(rt, ProcessChunk(rt.sieve, s, offered))
    ELSE RespBatch(rt, "text", Clean(s))
RespTextApplied(rt, s, offered) ==
    IF offered # {} THEN RespSieved(RespFlushBatch(rt), ProcessChunk(rt.sieve, s, offered))
    ELSE RespBatch(rt, "text", Clean(s))
RespText(rt, s, offered) ==
    IF s = << >> THEN rt ELSE RespTextApplied([rt EXCEPT !.acc = ApplyText(@, s)], s, offered)

RespLine(rt, thinking, text, offered) ==
    RespFlushBatch(RespText(RespThinking(rt, thinking), text, offered))

RespReason(ending) == IF ending \in {"error", "filter"} THEN "content_filter" ELSE "stop"

-----------------------------------------------------------------------------
(* The end. *)

\* failResponse
RespFail(rt, error) ==
    [rt EXCEPT !.error = error, !.object = [status |-> "failed", items |-> {}],
               !.sent = @ \o <<Failed(error), DoneMark>>]

WithFunctions(rt, n) ==
    LET after[i \in 0..n] == IF i = 0 THEN rt ELSE WithFunction(after[i - 1], i)
    IN after[n]

\* buildCompletedResponseObject: the message, or what there is instead of one, and the
\* calls of the reply under the items known by now.
CompletedItems(rt, turn) ==
    LET bare == ~rt.message.added /\ turn.calls = << >> /\ (turn.thinking # << >> \/ turn.text # << >>)
        withMessage == IF bare THEN WithMessageIndex(rt) ELSE rt
        r == WithFunctions(withMessage, Len(turn.calls))
        messages == IF rt.message.added \/ bare THEN {MessageItem(r)} ELSE {}
    IN messages \union {[id |-> r.functions[i].id, index |-> r.functions[i].index] : i \in 1..Len(turn.calls)}

RespFinish(rt, turn, reason) ==
    [rt EXCEPT !.object = [status |-> "completed", items |-> CompletedItems(rt, turn)],
               !.sent = @ \o <<Completed(reason), DoneMark>>]

RespConclude(rt, turn, outcome, defer) ==
    IF outcome.fails /\ defer THEN [rt |-> [rt EXCEPT !.error = turn.error], over |-> FALSE]
    ELSE IF outcome.fails THEN [rt |-> RespFail(rt, turn.error), over |-> TRUE]
    ELSE [rt |-> RespFinish(rt, turn, outcome.reason), over |-> TRUE]
RespJudge(rt, turn, defer) ==
    LET called == IF rt.called THEN rt ELSE EmitCalls(rt, turn.calls)
    IN RespConclude(CloseMessage(called), turn, Outcome(turn, called.called), defer)
RespFlush(rt, offered) == IF offered = {} THEN rt ELSE RespSieved(rt, Flush(rt.sieve, offered))
RespTurnJudged(rt, reason, defer, offered, required) ==
    RespJudge(rt, StreamTurn(rt.acc, reason = "content_filter", rt.called, offered, required), defer)
RespFinalize(rt, reason, defer, offered, required) ==
    RespTurnJudged(RespFlush([rt EXCEPT !.error = "none"], offered), reason, defer, offered, required)
=================================================================================
