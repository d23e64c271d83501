------------------------------ MODULE ChatRuntime ------------------------------
(***************************************************************************)
(* The runtime of a streamed chat completion (httpapi/openai/chat): what   *)
(* it sends the client for every part of a line, at the end of an attempt, *)
(* and when the request fails.                                             *)
(*                                                                         *)
(* A runtime is a record: acc accumulates the reply, sieve holds text      *)
(* back, batch the delta being put together, called that tool calls were   *)
(* sent, error the error of the last finalize, sent what the client got.   *)
(* Frames are records [ev, ...]; the role of the first delta, ids, usage   *)
(* and keep-alive frames are left out.  The sieve hands out whole calls    *)
(* only, never the deltas of one.                                          *)
(***************************************************************************)
EXTENDS ToolSieve, Turn

NoBatch == [field |-> "content", text |-> << >>]
NewChat == [acc |-> NewAcc, sieve |-> NewSieve, batch |-> NoBatch, called |-> FALSE,
            error |-> "none", sent |-> << >>]

ChatSend(rt, frame) == [rt EXCEPT !.sent = Append(@, frame)]
Delta(field, s) == [ev |-> field, text |-> s]
CallsDelta(calls) == [ev |-> "tool_calls", calls |-> calls]
FinishChunk(reason) == [ev |-> "finish", reason |-> reason]
FailedChunk(error) == [ev |-> "error", error |-> error]
DoneChunk == [ev |-> "done"]

\* chatDeltaBatch: one delta for the neighbours of one kind.
FlushBatch(rt) ==
    IF rt.batch.text = << >> THEN rt
    ELSE [ChatSend(rt, Delta(rt.batch.field, rt.batch.text)) EXCEPT !.batch = NoBatch]
AddToBatch(rt, field, s) ==
    LET ready == IF rt.batch.field = field THEN rt ELSE FlushBatch(rt)
    IN IF s = << >> THEN rt
       ELSE [ready EXCEPT !.batch = [field |-> field, text |-> ready.batch.text \o s]]

ChatCalls(rt, calls) == [ChatSend(FlushBatch(rt), CallsDelta(calls)) EXCEPT !.called = TRUE]

\* What one event of the sieve becomes.
ChatEvent(rt, e) == IF e.calls # << >> THEN ChatCalls(rt, e.calls)
                    ELSE AddToBatch(rt, "content", Clean(e.content))
ChatEvents(rt, events) ==
    LET after[i \in 0..Len(events)] == IF i = 0 THEN rt ELSE ChatEvent(after[i - 1], events[i])
    IN after[Len(events)]

ChatThinking(rt, s) ==
    AddToBatch([rt EXCEPT !.acc = ApplyThinking(@, s)], "reasoning", Clean(s))

\* A part of text: through the sieve when the request has tools.
ChatSieved(rt, d) == ChatEvents([rt EXCEPT !.sieve = d.st], d.out)
ChatTextApplied(rt, s, offered) ==
    IF offered # {} THEN ChatSieved(rt, ProcessChunk(rt.sieve, s, offered))
    ELSE AddToBatch(rt, "content", Clean(s))
ChatText(rt, s, offered) ==
    IF s = << >> THEN rt ELSE ChatTextApplied([rt EXCEPT !.acc = ApplyText(@, s)], s, offered)

\* onParsed for a line with a part of thinking, then one of text.
ChatLine(rt, thinking, text, offered) == FlushBatch(ChatText(ChatThinking(rt, thinking), text, offered))

\* The reason finalize is given for the line that ends an attempt.
ChatReason(rt, ending) ==
    IF ending = "error" \/ (ending = "filter" /\ IsBlank(rt.acc.text)) THEN "content_filter" ELSE "stop"

\* sendFailedChunk
ChatFail(rt, error) ==
    [rt EXCEPT !.error = error, !.sent = @ \o <<FailedChunk(error), DoneChunk>>]

ChatFinish(rt, reason) ==
    [rt EXCEPT !.sent = @ \o <<FinishChunk(reason), DoneChunk>>]

\* finalize: what is left goes out, then the outcome; an attempt that fails may be put off.
ChatFlushOffered(rt, turn, offered) ==  \* mutant: calls of a client without tools are not sent
    IF turn.calls # << >> /\ ~rt.called /\ offered # {} THEN ChatCalls(rt, turn.calls) ELSE rt
ChatFlush(rt, turn, offered) ==
    IF turn.calls # << >> /\ ~rt.called THEN ChatCalls(rt, turn.calls)
    ELSE IF offered # {} THEN FlushBatch(ChatSieved(rt, Flush(rt.sieve, offered)))
    ELSE rt

ChatConcludeEager(rt, turn, outcome, defer) ==  \* mutant: a failure is told, then put off
    IF outcome.fails THEN [rt |-> ChatFail(rt, turn.error), over |-> ~defer]
    ELSE [rt |-> ChatFinish(rt, outcome.reason), over |-> TRUE]
ChatConclude(rt, turn, outcome, defer) ==
    IF outcome.fails /\ defer THEN [rt |-> [rt EXCEPT !.error = turn.error], over |-> FALSE]
    ELSE IF outcome.fails THEN [rt |-> ChatFail(rt, turn.error), over |-> TRUE]
    ELSE [rt |-> ChatFinish(rt, outcome.reason), over |-> TRUE]
ChatJudge(flushed, turn, defer) == ChatConclude(flushed, turn, Outcome(turn, flushed.called), defer)
ChatTurnJudgedStale(rt, turn, defer, offered) ==  \* mutant: the error of the attempt before stays
    ChatJudge(ChatFlush(rt, turn, offered), turn, defer)
ChatTurnJudged(rt, turn, defer, offered) ==
    ChatJudge(ChatFlush([rt EXCEPT !.error = "none"], turn, offered), turn, defer)
ChatFinalize(rt, reason, defer, offered, required) ==
    ChatTurnJudged(rt, StreamTurn(rt.acc, reason = "content_filter", rt.called, offered, required), defer, offered)
=================================================================================
