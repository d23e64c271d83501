-------------------------------- MODULE LinePump --------------------------------
(* From the body of an upstream response to the lines a handler consumes        *)
(* (internal/sse/stream.go).  A scanner reads lines into a bounded channel; the *)
(* pump parses them, gathers small parts until there is enough text, a line    *)
(* ends or a timer fires, and sends the results on a second bounded channel.   *)
(* Both stop when the context of the request is done.                          *)
EXTENDS SSEParser

CONSTANTS
    Script,          \* the lines the upstream may send next, by those it has sent
    MaxLines,        \* bound: lines of one response
    ThinkingEnabled,
    MinChars,        \* productionAccumulate.MinChars
    BufferSize       \* parsedLineBufferSize

ASSUME PumpAssumption == /\ MaxLines \in Nat
                         /\ ThinkingEnabled \in BOOLEAN
                         /\ MinChars \in Nat \ {0}
                         /\ BufferSize \in Nat \ {0}

VARIABLES
    sent,      \* how many lines were read from the body
    scanCh,    \* lines read and not parsed
    scanned,   \* how the scanner ended: "" while it runs
    pump,      \* the pump's buffers, timer and place
    out,       \* results sent and not consumed
    ctx        \* the context of the request is done

pumpVars == <<sent, scanCh, scanned, pump, out, ctx>>

NoBuffer == [text |-> <<>>, think |-> <<>>, detect |-> <<>>]

PumpInit ==
    /\ sent = 0 /\ scanCh = <<>> /\ scanned = "" /\ out = <<>> /\ ctx = FALSE
    /\ pump = [at |-> "select", cur |-> IF ThinkingEnabled THEN "thinking" ELSE "text",
               buf |-> NoBuffer, timer |-> FALSE, outbox |-> <<>>, err |-> ""]

(* ---- the scanner ---- *)
Scan(line) ==
    /\ scanned = "" /\ Len(scanCh) < BufferSize
    /\ sent' = sent + 1
    /\ scanCh' = Append(scanCh, line)
    /\ UNCHANGED <<scanned, pump, out, ctx>>

\* The end of the body, a broken connection, or the end of the context, which
\* also closes the body that a read may be waiting for.
ScanEnds(how) ==
    /\ scanned = ""
    /\ how = "cancelled" => ctx
    /\ scanned' = how
    /\ UNCHANGED <<sent, scanCh, pump, out, ctx>>

(* ---- gathering ---- *)
Buffered(buf) == buf # NoBuffer
Result(parts, detect, cur) ==
    [Nothing(cur) EXCEPT !.parsed = TRUE, !.parts = parts, !.detect = detect]

\* Every call of flushBuffer passes its own test: it is forced, or the text has
\* reached MinChars.  Thinking goes out before the text that followed it.
Flushed(p) ==
    LET parts == Part(p.buf.think, "thinking") \o Part(p.buf.text, "text")
    IN  [p EXCEPT !.buf = NoBuffer, !.timer = FALSE,
                  !.outbox = IF parts = <<>> /\ p.buf.detect = <<>> THEN @
                             ELSE Append(@, Result(parts, Part(p.buf.detect, "thinking"), p.cur))]

GatheredTogether(p, part) ==
    IF part.type = "thinking" THEN [p EXCEPT !.buf.think = @ \o part.text]
                              ELSE [p EXCEPT !.buf.text = @ \o part.text]
Gathered(p, part) ==
    IF part.type = "thinking"
      THEN LET q == IF p.buf.text # <<>> THEN Flushed(p) ELSE p
           IN  [q EXCEPT !.buf.think = @ \o part.text]
      ELSE LET q == [p EXCEPT !.buf.text = @ \o part.text]
           IN  IF Holds(NewLine, part.text) THEN Flushed(q) ELSE q

Detected(p, r) == [p EXCEPT !.cur = r.next,
                            !.buf.detect = FoldLeft(LAMBDA d, x : d \o x.text, @, r.detect)]

\* A line that stops the stream flushes what is buffered and is passed on, as it
\* is when it reports an error or a filter.
StoppedUnflushed(p, r) ==
    [p EXCEPT !.outbox = Append(@, IF r.failed \/ r.filtered THEN r ELSE Ends(p.cur))]
Stopped(p, r) ==
    LET q == IF p.buf.text # <<>> \/ p.buf.detect # <<>> THEN Flushed(p) ELSE p
    IN  [q EXCEPT !.outbox = Append(@, IF r.failed \/ r.filtered THEN r ELSE Ends(p.cur))]

ProcessedUntimed(p, r) ==
    IF r.stop THEN Stopped(Detected(p, r), r) ELSE FoldLeft(Gathered, Detected(p, r), r.parts)
Processed(p, r) ==
    LET q == FoldLeft(Gathered, Detected(p, r), r.parts)
        f == IF Len(q.buf.text) >= MinChars THEN Flushed(q) ELSE q
    IN  IF r.stop THEN Stopped(Detected(p, r), r)
        ELSE IF r.parsed THEN [f EXCEPT !.timer = @ \/ Buffered(f.buf)]
        ELSE [p EXCEPT !.cur = r.next]

(* ---- the pump ---- *)
Idle == pump.at \in {"select", "drain"} /\ pump.outbox = <<>>

\* A line from the channel, in the loop or in the loop that drains what the
\* scanner left.
TakeLine ==
    /\ Idle /\ scanCh # <<>>
    /\ \E r \in {ParseLine(Head(scanCh), ThinkingEnabled, pump.cur)} : pump' = Processed(pump, r)
    /\ scanCh' = Tail(scanCh)
    /\ UNCHANGED <<sent, scanned, out, ctx>>

Outcome == IF scanned = "eof" THEN pump.err ELSE scanned
Finishing(p) == [Flushed(p) EXCEPT !.at = "closing"]

\* The scanner's end, seen on its own channel before its last lines are taken.
SeeScanDone ==
    /\ Idle /\ pump.at = "select" /\ scanned # "" /\ scanCh # <<>>
    /\ pump' = [pump EXCEPT !.at = "drain", !.err = Outcome]
    /\ UNCHANGED <<sent, scanCh, scanned, out, ctx>>

ScanExhausted ==
    /\ Idle /\ scanned # "" /\ scanCh = <<>>
    /\ pump' = Finishing([pump EXCEPT !.err = Outcome])
    /\ UNCHANGED <<sent, scanCh, scanned, out, ctx>>

TimerFires ==
    /\ Idle /\ pump.at = "select" /\ pump.timer
    /\ pump' = Flushed(pump)
    /\ UNCHANGED <<sent, scanCh, scanned, out, ctx>>

SeeCancelled ==
    /\ Idle /\ pump.at = "select" /\ ctx
    /\ pump' = Finishing([pump EXCEPT !.err = "cancelled"])
    /\ UNCHANGED <<sent, scanCh, scanned, out, ctx>>

Send ==
    /\ pump.outbox # <<>> /\ Len(out) < BufferSize
    /\ out' = Append(out, Head(pump.outbox))
    /\ pump' = [pump EXCEPT !.outbox = Tail(@)]
    /\ UNCHANGED <<sent, scanCh, scanned, ctx>>

\* The send gives way to the end of the context.  After a flush the pump goes
\* on; a result that stops the stream ends it.
SendStuck == FALSE /\ UNCHANGED pumpVars
SendCancelled ==
    /\ pump.outbox # <<>> /\ ctx
    /\ LET p == [pump EXCEPT !.outbox = Tail(@), !.err = "cancelled"]
       IN  pump' = IF Head(pump.outbox).stop /\ pump.at # "closing" THEN Finishing(p) ELSE p
    /\ UNCHANGED <<sent, scanCh, scanned, out, ctx>>

ClosePump ==
    /\ pump.at = "closing" /\ pump.outbox = <<>>
    /\ pump' = [pump EXCEPT !.at = "closed"]
    /\ UNCHANGED <<sent, scanCh, scanned, out, ctx>>

PumpStep == \/ Send \/ SendCancelled \/ ClosePump \/ SeeCancelled \/ TimerFires
            \/ SeeScanDone \/ ScanExhausted \/ TakeLine
ScannerStep == \E how \in {"eof", "broken", "cancelled"} : ScanEnds(how)
================================================================================
