------------------------------ MODULE StreamEngine ------------------------------
(* ConsumeSSE (internal/stream/engine.go) over the line pump: one handler reads *)
(* results, a ticker counts silence, and the stream ends in exactly one way.    *)
(* The handler is what the chat and responses runtimes have in common: it adds  *)
(* the parts to a StreamAccumulator (httpapi/openai/shared/stream_accumulator)  *)
(* and stops at a result that stops.                                            *)
EXTENDS LinePump

CONSTANTS MaxKeepAlive,   \* MaxKeepAliveNoInput: silent ticks before any content
          IdleTicks       \* IdleTimeout, in ticks after the last content

ASSUME EngineAssumption == MaxKeepAlive \in Nat \ {0} /\ IdleTicks \in Nat

VARIABLES
    engine,     \* the loop: its result taken from the channel, content, silence, end
    acc,        \* the accumulator of the handler
    collected   \* what CollectStream makes of the same lines

engineVars == <<engine, acc, collected>>
vars == <<pumpVars, engineVars>>

NoLine == [Nothing("text") EXCEPT !.next = ""]

Init ==
    /\ PumpInit
    /\ engine = [taken |-> NoLine, content |-> FALSE, silent |-> 0, end |-> "", err |-> ""]
    /\ acc = [thinking |-> <<>>, text |-> <<>>, detect |-> <<>>, all |-> <<>>]
    /\ collected = Collected0(ThinkingEnabled)

Running == engine.end = "" /\ engine.taken = NoLine

(* ---- the accumulator ---- *)
Apply(a, r) ==
    [FoldLeft(AddPart, a, r.parts) EXCEPT
        !.detect = FoldLeft(LAMBDA d, p : d \o TrimOverlap(d, p.text), @, r.detect)]

(* ---- the loop ---- *)
Ended(how, err) == engine' = [engine EXCEPT !.end = how, !.err = err, !.taken = NoLine]

\* Before each round, and after a tick or a result was taken, the context has
\* the first word.
ContextDone ==
    /\ engine.end = "" /\ ctx
    /\ Ended("context_cancelled", "")
    /\ UNCHANGED <<pumpVars, acc, collected>>

TickUnlimited ==
    /\ Running /\ ~ctx /\ engine.silent < MaxKeepAlive
    /\ engine' = [engine EXCEPT !.silent = @ + 1]
    /\ UNCHANGED <<pumpVars, acc, collected>>
Tick ==
    /\ Running /\ ~ctx
    /\ LET silent == engine.silent + 1
       IN  IF ~engine.content /\ silent >= MaxKeepAlive THEN Ended("no_content_timeout", "")
           ELSE IF engine.content /\ silent > IdleTicks THEN Ended("idle_timeout", "")
           ELSE engine' = [engine EXCEPT !.silent = silent]
    /\ UNCHANGED <<pumpVars, acc, collected>>

TakeParsed ==
    /\ Running /\ out # <<>>
    /\ engine' = [engine EXCEPT !.taken = Head(out)]
    /\ out' = Tail(out)
    /\ UNCHANGED <<sent, scanCh, scanned, pump, ctx, acc, collected>>

OnParsed ==
    /\ engine.end = "" /\ engine.taken # NoLine /\ ~ctx
    /\ acc' = IF engine.taken.stop THEN acc ELSE Apply(acc, engine.taken)
    /\ engine' = IF engine.taken.stop
                   THEN [engine EXCEPT !.end = "handler_requested", !.taken = NoLine]
                 ELSE IF acc' # acc
                   THEN [engine EXCEPT !.content = TRUE, !.silent = 0, !.taken = NoLine]
                 ELSE [engine EXCEPT !.taken = NoLine]
    /\ UNCHANGED <<pumpVars, collected>>

UpstreamCompleted ==
    /\ Running /\ ~ctx /\ out = <<>> /\ pump.at = "closed"
    /\ Ended("upstream_completed", pump.err)
    /\ UNCHANGED <<pumpVars, acc, collected>>

(* ---- around the loop ---- *)
\* The client goes away, or the handler has returned: net/http ends the context.
Cancel ==
    /\ ~ctx /\ ctx' = TRUE
    /\ UNCHANGED <<sent, scanCh, scanned, pump, out, engineVars>>
HandlerReturned == engine.end # "" /\ Cancel

Upstream ==
    /\ sent < MaxLines
    /\ \E line \in Script[sent + 1] :
          Scan(line) /\ collected' = Collect(collected, line, ThinkingEnabled)
    /\ UNCHANGED <<engine, acc>>

Consume == ContextDone \/ TakeParsed \/ OnParsed \/ UpstreamCompleted
Next == \/ Upstream
        \/ ScannerStep /\ UNCHANGED engineVars
        \/ PumpStep /\ UNCHANGED engineVars
        \/ Consume \/ Tick
        \/ Cancel

\* The loop, its ticker, the pump and the server around them run on; the upstream
\* may fall silent for ever, and the client may stay or go.
Progress == \/ Tick \/ HandlerReturned \/ Consume
            \/ PumpStep /\ UNCHANGED engineVars
            \/ ScanEnds("cancelled") /\ UNCHANGED engineVars

Spec == Init /\ [][Next]_vars /\ WF_vars(Progress)

--------------------------------------------------------------------------------
(* Types; and the buffers hold something only while a timer will flush them.     *)
TypeOK ==
    /\ Len(scanCh) <= BufferSize /\ Len(out) <= BufferSize /\ sent <= MaxLines
    /\ scanned \in {"", "eof", "broken", "cancelled"}
    /\ pump.at \in {"select", "drain", "closing", "closed"}
    /\ pump.cur \in Kinds
    /\ Idle /\ pump.at = "select" /\ Buffered(pump.buf) => pump.timer
    /\ engine.end \in {"", "context_cancelled", "no_content_timeout", "idle_timeout",
                       "upstream_completed", "handler_requested"}

Normal == \/ engine.end = "handler_requested"
          \/ engine.end = "upstream_completed" /\ engine.err = ""

(* A stream that ends normally has given the handler exactly the text, and the   *)
(* thinking for tool detection, that a handler that does not stream collects    *)
(* from the same body: gathering, channels and timer lose and repeat nothing.   *)
TextMatchesCollect ==
    Normal => /\ acc.text = collected.text
              /\ acc.detect = collected.detect
              /\ IsPrefix(acc.thinking, collected.thinking)

(* At every moment, and however the stream ends, what the handler has seen is   *)
(* the beginning of what the upstream sent, thinking and text in their order.   *)
SeenInOrder == IsPrefix(acc.all, collected.all)

(* However silent the upstream, and whether or not the client stays, the loop   *)
(* comes to an end.                                                             *)
StreamEnds == <>(engine.end # "")

(* The two goroutines of the pump do not outlive the request, even when nobody  *)
(* takes their results any more.                                                *)
PumpEnds == <>(pump.at = "closed" /\ scanned # "")
================================================================================
