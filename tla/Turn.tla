---------------------------------- MODULE Turn ----------------------------------
(***************************************************************************)
(* What a reply amounts to (internal/assistantturn, and the accumulator    *)
(* and tool detection of httpapi/openai/shared): its text, its calls, the  *)
(* error it is refused with, and the reason it ends for.                   *)
(*                                                                         *)
(* Thinking is requested; the hidden copy kept for detection then equals   *)
(* it.  No two parts overlap (overlaps are modelled in SSEParser).         *)
(***************************************************************************)
EXTENDS ToolMarkup

\* sanitizeLeakedOutput: whole blocks of tool calls are taken out of a piece of text.
WithoutBlocks(s, blocks) ==
    LET leaked(i) == \E k \in 1..Len(blocks) : blocks[k].open <= i /\ i <= blocks[k].close
    IN Picked(s, {i \in 1..Len(s) : ~leaked(i)})
Unwrapped(s) == WithoutBlocks(s, Wrappers(s))
Clean(s) == Unwrapped(WithoutBlocks(s, MinimaxBlocks(s)))

\* DetectAssistantToolCalls: calls in the thinking count only when no text is visible.
TextFirst(inText, visible, inThinking) ==
    IF inText # << >> \/ ~IsBlank(visible) THEN inText ELSE inThinking
Detect(rawText, visible, thinking, offered) ==
    TextFirst(ParseStandalone(rawText, offered).calls, visible, ParseStandalone(thinking, offered).calls)

EmptyError(filtered) == IF filtered THEN "content_filter" ELSE "upstream_empty_output"

\* ValidateTurn
ValidateCalls(calls, text, filtered, required) ==  \* mutant: text alone is no output
    IF calls # << >> THEN "none" ELSE EmptyError(filtered)
Validate(calls, text, filtered, required) ==
    IF calls # << >> THEN "none"
    ELSE IF required THEN "tool_choice_violation"
    ELSE IF ~IsBlank(text) THEN "none"
    ELSE EmptyError(filtered)

StopReason(calls, emitted, filtered) ==
    IF calls # << >> \/ emitted THEN "tool_calls" ELSE IF filtered THEN "content_filter" ELSE "stop"

\* BuildTurnFromStreamSnapshot; emitted: calls were already sent.
StreamTurnOf(text, thinking, calls, filtered, emitted, required) ==
    LET error == IF emitted THEN "none" ELSE Validate(calls, text, filtered, required)
    IN [text |-> text, thinking |-> thinking, calls |-> calls, filtered |-> filtered, error |-> error,
        stop |-> IF error # "none" /\ calls = << >> THEN "error" ELSE StopReason(calls, emitted, filtered)]
StreamTurnOn(text, acc, filtered, emitted, offered, required) ==
    StreamTurnOf(text, Clean(acc.thinking), Detect(acc.rawText, text, acc.rawThinking, offered),
                 filtered, emitted, required)
StreamTurn(acc, filtered, emitted, offered, required) ==
    StreamTurnOn(Clean(acc.text), acc, filtered, emitted, offered, required)

\* BuildTurnFromCollected
CollectedTurnOf(text, thinking, calls, filtered, required) ==
    LET error == Validate(calls, text, filtered, required)
    IN [text |-> text, thinking |-> thinking, calls |-> calls, filtered |-> filtered, error |-> error,
        stop |-> IF error # "none" THEN "error" ELSE StopReason(calls, FALSE, filtered)]
CollectedTurnOn(text, rawText, rawThinking, filtered, offered, required) ==
    CollectedTurnOf(text, Clean(rawThinking), Detect(rawText, text, rawThinking, offered), filtered, required)
CollectedTurn(rawText, rawThinking, filtered, offered, required) ==
    CollectedTurnOn(Clean(rawText), rawText, rawThinking, filtered, offered, required)

\* FinishReason, FinalizeTurn
FinishReason(turn) == IF turn.stop \in {"tool_calls", "content_filter"} THEN turn.stop ELSE "stop"
Outcome(turn, emitted) ==
    LET has == turn.calls # << >> \/ emitted
    IN [fails |-> ~has /\ turn.error # "none",
        reason |-> IF has THEN "tool_calls" ELSE FinishReason(turn)]

\* ShouldRetryEmptyOutput
RetryEmpty(turn, attempts, maxAttempts) ==
    attempts < maxAttempts /\ ~turn.filtered /\ turn.calls = << >> /\ IsBlank(turn.text)

\* StreamAccumulator
NewAcc == [rawThinking |-> << >>, thinking |-> << >>, rawText |-> << >>, text |-> << >>]
ApplyThinking(acc, s) == [acc EXCEPT !.rawThinking = @ \o s, !.thinking = @ \o Clean(s)]
ApplyText(acc, s) == [acc EXCEPT !.rawText = @ \o s, !.text = @ \o Clean(s)]
=================================================================================
