------------------------------- MODULE ToolSieve -------------------------------
(***************************************************************************)
(* The sieve of internal/toolstream: it takes the text of a reply chunk by *)
(* chunk, lets plain text through at once, holds back what may become a    *)
(* block of tool calls, and hands out the calls of a block when it closes. *)
(*                                                                         *)
(* A sieve is a record: pending and capture are the two buffers, capturing *)
(* tells which one is in use, ready the calls to hand out with the next    *)
(* chunk; fenced, ticks and lineStart follow the code fences of the text   *)
(* let through (fences of three ticks: the stack holds at most one).       *)
(***************************************************************************)
EXTENDS ToolMarkup

NewSieve == [pending |-> << >>, capture |-> << >>, capturing |-> FALSE, ready |-> << >>,
             fenced |-> FALSE, ticks |-> FALSE, lineStart |-> TRUE]

Content(s) == [content |-> s, calls |-> << >>]
CallEvent(calls) == [content |-> << >>, calls |-> calls]
Text(s) == IF s = << >> THEN << >> ELSE <<Content(s)>>

-----------------------------------------------------------------------------
(* Code fences. *)

\* One token of simulateCodeFenceState: ticks count only once something follows them.
FenceToken(f, tok) ==
    LET marked == IF f.ticks THEN [fenced |-> (f.fenced # f.lineStart), ticks |-> FALSE, lineStart |-> FALSE]
                  ELSE f
    IN CASE tok.t = "fence" -> [f EXCEPT !.ticks = TRUE]
         [] tok.t = "shell fence" ->
              [fenced |-> (marked.fenced # marked.lineStart), ticks |-> FALSE, lineStart |-> FALSE]
         [] tok.t = "\n" -> [marked EXCEPT !.lineStart = TRUE]
         [] tok.t = " " -> marked
         [] OTHER -> [marked EXCEPT !.lineStart = FALSE]

Fences(st) == [fenced |-> st.fenced, ticks |-> st.ticks, lineStart |-> st.lineStart]
Simulate(st, s) == FoldLeft(FenceToken, Fences(st), s)
InsideFence(st, s) == Simulate(st, s).fenced

\* noteText: a blank piece leaves the fence state alone.
NoteText(st, s) ==
    LET f == Simulate(st, s)
    IN IF IsBlank(s) THEN st
       ELSE [st EXCEPT !.fenced = f.fenced, !.ticks = f.ticks, !.lineStart = f.lineStart]

-----------------------------------------------------------------------------
(* Where a block starts, and what must be held back. *)

FindMinimaxMarker(st, s) ==
    FirstOf({i \in MinimaxStarts(s) : ~InsideFence(st, SubSeq(s, 1, i - 1))})

FindShellFence(st, s) ==
    LET starts == {LineStart(s, i) : i \in {j \in 1..Len(s) : s[j].t = "shell fence"}} \ {0}
    IN FirstOf({i \in starts : ~InsideFence(st, SubSeq(s, 1, i - 1))})

FindTagOutsideFence(st, s) ==
    FirstOf({tag.first : tag \in {t \in ToSet(Tags(s)) : ~InsideFence(st, SubSeq(s, 1, t.first - 1))}})

FirstFound(marker, fence, tag) == IF marker # 0 THEN marker ELSE IF fence # 0 THEN fence ELSE tag
FindToolSegmentStart(st, s) ==
    FirstFound(FindMinimaxMarker(st, s), FindShellFence(st, s), FindTagOutsideFence(st, s))

\* splitSafeContentForToolDetection: how many tokens at the end are held: an opening tag
\* without its end, half a marker that starts its line, or a fence that may yet name a shell.
HeldNothing(st, s) == 0  \* mutant: no partial tag is held back
Held(st, s) ==
    LET n == Len(s)
        line == IF s = << >> THEN << >> ELSE TrimLeft(Last(Lines(s)))
        partial == \/ Kind(s, n) = "<tool_calls"
                   \/ Kind(s, n) = "minimax" /\ LineStart(s, n) # 0
                   \/ Len(line) = 1 /\ line[1].t \in FenceOpens
    IN IF partial /\ ~InsideFence(st, SubSeq(s, 1, n - 1)) THEN 1 ELSE 0

-----------------------------------------------------------------------------
(* What a capture has become. *)

\* trimWrappingJSONFence: takes the fence away that wraps a block.
FenceCount(s) == Len(SelectSeq(s, LAMBDA tok : tok.t \in FenceOpens))
TrimWrappingFence(prefix, suffix) ==
    LET p == TrimRight(prefix)
        q == TrimLeft(suffix)
        wraps == Kind(p, Len(p)) = "fence" /\ FenceCount(p) % 2 = 1 /\ Kind(q, 1) \in FenceOpens
        rest == IF Kind(q, 1) = "fence" THEN Tail(q) ELSE <<[q[1] EXCEPT !.t = "word"]>> \o Tail(q)
    IN IF wraps THEN [prefix |-> Front(p), suffix |-> rest] ELSE [prefix |-> prefix, suffix |-> suffix]

NotReady == [ready |-> FALSE, prefix |-> << >>, calls |-> << >>, suffix |-> << >>]
AsText(prefix, suffix) == [ready |-> TRUE, prefix |-> prefix, calls |-> << >>, suffix |-> suffix]
AsCalls(prefix, calls, suffix) ==
    LET cut == TrimWrappingFence(prefix, suffix)
    IN [ready |-> TRUE, prefix |-> cut.prefix, calls |-> calls, suffix |-> cut.suffix]

\* The block of s from position p to its close e, once parsed: refused as a whole when it
\* holds no call; text without tool syntax is given back.
BlockOf(s, p, e, parsed) ==
    LET prefix == SubSeq(s, 1, p - 1)
        suffix == TextFrom(s, e + 1)
    IN IF parsed.calls # << >> THEN AsCalls(prefix, parsed.calls, suffix)
       ELSE IF parsed.saw THEN AsText(prefix, suffix)
       ELSE AsText(SubSeq(s, 1, e), suffix)

WrapperTags(tags) == {k \in 1..Len(tags) : tags[k].t = "<tool_calls"}
CloseOf(tags, k) == MatchClose(tags, k, {"<tool_calls"}, "</tool_calls>")
HasOpenWrapper(tags) == \E k \in WrapperTags(tags) : CloseOf(tags, k) = 0

BlockAt(s, p, e, opening, offered) ==
    BlockOf(s, p, e, ParseStandalone(opening \o SubSeq(s, p, e), offered))

\* The loop of consumeXMLToolCapture over the opening wrappers that have a close.
ClosedBlocks(s, tags, offered) ==
    [k \in {w \in WrapperTags(tags) : CloseOf(tags, w) # 0} |->
        BlockAt(s, tags[k].first, tags[CloseOf(tags, k)].last, << >>, offered)]

\* An invoke whose wrapper was never opened, but is closed.
BareInvoke(s, tags, offered) ==
    LET inv == FindTagOf(tags, 1, Invokes)
        wrapper == FindTagOf(tags, 1, {"<tool_calls"})
        close == FindTagOf(tags, inv + 1, {"</tool_calls>"})
        opening == <<Inserted("<tool_calls"), Inserted(">")>>
    IN IF inv = 0 \/ close = 0 \/ (wrapper # 0 /\ wrapper <= inv) THEN NotReady
       ELSE BlockAt(s, tags[inv].first, tags[close].last, opening, offered)

\* The first block that holds calls wins; else a wrapper without its close keeps all
\* waiting; else the first block is given up.
ConsumeWrapped(blocks, open, bare) ==
    LET parsed == {k \in DOMAIN blocks : blocks[k].calls # << >>}
    IN IF parsed # {} THEN blocks[Min(parsed)]
       ELSE IF open THEN NotReady
       ELSE IF DOMAIN blocks # {} THEN blocks[Min(DOMAIN blocks)]
       ELSE bare
ConsumeTags(s, tags, offered) ==
    ConsumeWrapped(ClosedBlocks(s, tags, offered), HasOpenWrapper(tags), BareInvoke(s, tags, offered))
ConsumeXML(s, offered) == ConsumeTags(s, Tags(s), offered)

HasOpenShellFence(s) ==
    FoldLeft(LAMBDA in, line : IF in THEN ~ClosesFence(line)
                               ELSE Kind(TrimLeft(line), 1) = "shell fence",
             FALSE, Lines(s))

KeepBareInvoke(s, tags) ==
    LET inv == FindTagOf(tags, 1, Invokes)
        wrapper == FindTagOf(tags, 1, {"<tool_calls"})
        close == FindTagOf(tags, inv + 1, {"</invoke>"})
    IN /\ inv # 0 /\ ~(wrapper # 0 /\ wrapper <= inv)
       /\ \/ FindTagOf(tags, inv + 1, {"</tool_calls>"}) # 0
          \/ close = 0
          \/ IsBlank(TextFrom(s, tags[close].first + 1))

HasMalformedMarker(s) ==
    \/ HasKind(s, {"</minimaxtool_call>"}) \/ \E i \in 1..Len(s) : IsMarker(s, i)
    \/ Len(SelectSeq(s, LAMBDA tok : tok.t \in Invokes)) > 1

Waits(s, tags) ==
    HasOpenShellFence(s) \/ HasOpenWrapper(tags) \/ KeepBareInvoke(s, tags) \/ HasMalformedMarker(s)
Consumed(s, xml, calls) ==
    IF s = << >> THEN NotReady
    ELSE IF xml.ready THEN xml
    ELSE IF calls # << >> THEN [ready |-> TRUE, prefix |-> << >>, calls |-> calls, suffix |-> << >>]
    ELSE IF Waits(s, Tags(s)) THEN NotReady
    ELSE AsText(s, << >>)
ConsumeCapture(s, offered) == Consumed(s, ConsumeXML(s, offered), ParseStandalone(s, offered).calls)

-----------------------------------------------------------------------------
(* ProcessChunk and Flush: the sieve after, and the events handed out. *)

\* One round of the loop while capturing, and one while not; more: there is another round.
AfterCapture(st, captured, r) ==
    LET noted == IF r.prefix = << >> THEN st ELSE NoteText(st, r.prefix)
        next == [noted EXCEPT !.capture = << >>, !.capturing = FALSE, !.pending = r.suffix,
                              !.ready = IF r.calls # << >> THEN r.calls ELSE @]
    IN IF ~r.ready THEN [st |-> [st EXCEPT !.capture = captured, !.pending = << >>], out |-> << >>, more |-> FALSE]
       ELSE [st |-> next, out |-> Text(r.prefix), more |-> TRUE]

AfterText(st, s, start, safe) ==
    LET before == SubSeq(s, 1, start - 1)
        captures == [NoteText(st, before) EXCEPT !.pending = << >>, !.capture = TextFrom(s, start), !.capturing = TRUE]
        passes == [NoteText(st, safe) EXCEPT !.pending = TextFrom(s, Len(safe) + 1)]
    IN IF s = << >> \/ (start = 0 /\ safe = << >>) THEN [st |-> st, out |-> << >>, more |-> FALSE]
       ELSE IF start # 0 THEN [st |-> captures, out |-> Text(before), more |-> TRUE]
       ELSE [st |-> passes, out |-> Text(safe), more |-> TRUE]

RoundOn(st, s, offered) ==
    IF st.capturing THEN AfterCapture(st, s, ConsumeCapture(s, offered))
    ELSE AfterText(st, s, FindToolSegmentStart(st, s), SubSeq(s, 1, Len(s) - Held(st, s)))
Round(st, offered) == RoundOn(st, st.capture \o st.pending, offered)  \* one of the two is empty, or both are taken

\* The loop.  A round takes some text away, but for one that only starts a capture, so that
\* two rounds for every token are enough.
MaxRounds(st) == 2 * Len(st.capture \o st.pending) + 2
Further(d, r) == [r EXCEPT !.out = d.out \o @]
NextRound(d, offered) == IF d.more THEN Further(d, Round(d.st, offered)) ELSE d
Drained(d) == [st |-> d.st, out |-> d.out]
Drain(st, offered, out) ==
    LET after[n \in 0..MaxRounds(st)] ==
            IF n = 0 THEN [st |-> st, out |-> out, more |-> TRUE] ELSE NextRound(after[n - 1], offered)
    IN Drained(after[MaxRounds(st)])

HandOut(st) == IF st.ready = << >> THEN << >> ELSE <<CallEvent(st.ready)>>

ProcessChunk(st, chunk, offered) ==
    Drain([st EXCEPT !.pending = @ \o chunk, !.ready = << >>], offered, HandOut(st))

\* What Flush makes of a capture that is still open, and of the text that is pending.
FlushedCapture(s, r, recovered) ==
    LET events(x) == Text(x.prefix) \o (IF x.calls = << >> THEN << >> ELSE <<CallEvent(x.calls)>>)
                     \o Text(x.suffix)
    IN IF r.ready THEN events(r)
       ELSE IF SanitizeLooseCDATA(s) # s /\ recovered.ready /\ recovered.calls # << >>
       THEN events(recovered)
       ELSE IF HasMalformedMarker(s) THEN << >> ELSE Text(s)
FlushCapture(s, offered) ==
    FlushedCapture(s, ConsumeCapture(s, offered), ConsumeXML(SanitizeLooseCDATA(s), offered))

Leftover(st, offered) ==
    (IF st.capturing THEN FlushCapture(st.capture, offered) ELSE << >>)
    \o (IF HasMalformedMarker(st.pending) THEN << >> ELSE Text(st.pending))
Noted(st, events) == FoldLeft(LAMBDA s, e : NoteText(s, e.content), st, events)
Emptied(d, last) ==
    LET noted == Noted(d.st, last)
    IN [st |-> [NewSieve EXCEPT !.fenced = noted.fenced, !.ticks = noted.ticks, !.lineStart = noted.lineStart],
        out |-> d.out \o HandOut(d.st) \o last]
FlushDrained(d, offered) == Emptied(d, Leftover(d.st, offered))
Flush(st, offered) == FlushDrained(ProcessChunk(st, << >>, offered), offered)
=============================================================================
