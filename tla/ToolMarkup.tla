------------------------------ MODULE ToolMarkup ------------------------------
(***************************************************************************)
(* The parser of tool calls, internal/toolcall, over text cut in tokens.   *)
(* A token is [t |-> kind, at |-> its place in the reply]; the kinds are   *)
(* the pieces of text the parser and the sieve tell apart:                 *)
(*   "word" prose, " " a blank, "\n" a line end, "fence" three ticks,      *)
(*   "shell fence" three ticks and the language of a shell,                *)
(*   "<tool_calls" and ">" the two halves of the opening wrapper (a chunk  *)
(*   may end between them), "</tool_calls>",                               *)
(*   "<invoke a>", "<invoke b>" and "<invoke implicit>", of a tool that    *)
(*   the parser knows by itself (each with the opening tag of its one      *)
(*   parameter), "</invoke>" (with the closing tag of the parameter),      *)
(*   "<![CDATA[" and "]]>",                                                *)
(*   "minimax" and "tool_call" the two halves of a marker (the second with *)
(*   the opening tag of the one parameter that follows it), and            *)
(*   "</minimaxtool_call>" (with the closing tag of the parameter).        *)
(* Fences are never adjacent.  The markup of the other dialects (DSML,     *)
(* named XML, JSON, Gemma, key-value, bare tool names) has no token, so    *)
(* those readers never match; nor is a block of one dialect in another's.  *)
(***************************************************************************)
EXTENDS Naturals, Sequences, FiniteSets, SequencesExt, Selections

AnyTool == "__any_tool__"  \* stands for a list of tools that cannot be named

Blank == {" ", "\n"}
Implicit == {"<invoke implicit>"}  \* read_file, write_file, execute_command and others
Invokes == {"<invoke a>", "<invoke b>"} \union Implicit
FenceOpens == {"fence", "shell fence"}
Closing == {"</tool_calls>", "</invoke>"}

Inserted(kind) == [t |-> kind, at |-> 0]
Kind(s, i) == IF i \in 1..Len(s) THEN s[i].t ELSE "end"
IsBlank(s) == \A i \in 1..Len(s) : s[i].t \in Blank
HasKind(s, kinds) == \E i \in 1..Len(s) : s[i].t \in kinds
TextFrom(s, i) == SubSeq(s, i, Len(s))

\* The first and the last of some positions, 0 if there is none; where a kind first occurs.
FirstOf(positions) == IF positions = {} THEN 0 ELSE Min(positions)
LastOf(positions) == IF positions = {} THEN 0 ELSE Max(positions)
FirstAt(s, from, kinds) == FirstOf({i \in from..Len(s) : s[i].t \in kinds})

Printed(s) == {i \in 1..Len(s) : s[i].t \notin Blank}
TrimLeft(s) == TextFrom(s, Min(Printed(s) \union {Len(s) + 1}))
TrimRight(s) == SubSeq(s, 1, LastOf(Printed(s)))
TrimSpace(s) == TrimRight(TrimLeft(s))

\* strings.SplitAfter(s, "\n"): every line keeps its line end.
LinesAt(s, starts) ==
    [k \in 1..Len(starts) |-> SubSeq(s, starts[k], IF k = Len(starts) THEN Len(s) ELSE starts[k + 1] - 1)]
Lines(s) == LinesAt(s, Places({i \in 1..Len(s) : i = 1 \/ s[i - 1].t = "\n"}, Len(s)))

OpensFence(line) == Kind(TrimLeft(line), 1) \in FenceOpens
ClosesFence(line) == Kind(TrimLeft(line), 1) = "fence" /\ IsBlank(Tail(TrimLeft(line)))

\* cdataOffsetIsInsideMarkdownFence
EndsInFence(s) == FoldLeft(LAMBDA in, line : IF in THEN ~ClosesFence(line) ELSE OpensFence(line),
                           FALSE, Lines(s))

LooksStructural(s, after) == Kind(TrimLeft(TextFrom(s, after)), 1) \in Closing

\* findToolCDATAEnd: where the section that starts at "from" ends; an open one hides the rest.
SectionEnd(s, ends) ==
    LET sure == {e \in ends : LooksStructural(s, e + 1)}
    IN IF ends = {} THEN Len(s) ELSE IF sure = {} THEN Min(ends) ELSE Min(sure)
CDATAEnd(s, from) ==
    SectionEnd(s, {e \in from..Len(s) : s[e].t = "]]>" /\ ~EndsInFence(SubSeq(s, from, e - 1))})

-----------------------------------------------------------------------------
(* Tags outside CDATA. *)

\* scanToolMarkupTagAt: a tag is whole, and the opening wrapper has both halves.
TagKinds == Invokes \union Closing
IsTag(s, i) == s[i].t \in TagKinds \/ (s[i].t = "<tool_calls" /\ Kind(s, i + 1) = ">")
TagEnd(s, i) == IF s[i].t = "<tool_calls" THEN i + 1 ELSE i

\* The places where something starts that is not inside what started before it; ends[i] is
\* where what starts at i ends, 0 if nothing does.
Outermost(ends) ==
    LET covered[i \in 0..Len(ends)] ==
            IF i = 0 THEN 0
            ELSE LET before == covered[i - 1]
                 IN IF i > before /\ ends[i] # 0 THEN ends[i] ELSE before
    IN {i \in 1..Len(ends) : ends[i] # 0 /\ i > covered[i - 1]}

\* FindToolMarkupTagOutsideIgnored, until there is none: the tags of s.
Covered(ends) == UNION {i..ends[i] : i \in Outermost(ends)}
Ignored(s) == Covered([i \in 1..Len(s) |-> IF s[i].t = "<![CDATA[" THEN CDATAEnd(s, i + 1) ELSE 0])
TagsAt(s, at) == [k \in 1..Len(at) |-> [t |-> s[at[k]].t, first |-> at[k], last |-> TagEnd(s, at[k])]]
Tags(s) == TagsAt(s, Places({i \in 1..Len(s) : IsTag(s, i)} \ Ignored(s), Len(s)))

\* The place in tags of the first of some kinds from place k on, 0 if none.
FindTagOf(tags, k, kinds) == FirstAt(tags, k, kinds)

\* FindMatchingToolMarkupClose, findMatchingXMLEndTagOutsideCDATA: the place in tags of the
\* close that belongs to the opening at place k, as many opened as closed between them.
MatchClose(tags, k, opens, close) ==
    LET between(p, kinds) == {q \in k + 1..p - 1 : tags[q].t \in kinds}
    IN FirstOf({p \in k + 1..Len(tags) :
                   /\ tags[p].t = close
                   /\ Cardinality(between(p, opens)) = Cardinality(between(p, {close}))})

\* findXMLElementBlocks: the elements of one kind, outermost, in order, by positions.
ElementsAt(tags, ends, at) ==
    [i \in 1..Len(at) |-> [open |-> tags[at[i]].first, body |-> tags[at[i]].last + 1,
                           close |-> tags[ends[at[i]]].first]]
ElementsOf(tags, ends) == ElementsAt(tags, ends, Places(Outermost(ends), Len(tags)))
Elements(tags, opens, close) ==
    ElementsOf(tags, [k \in 1..Len(tags) |-> IF tags[k].t \in opens THEN MatchClose(tags, k, opens, close) ELSE 0])

Wrappers(s) == Elements(Tags(s), {"<tool_calls"}, "</tool_calls>")

\* looksLikeToolCallSyntax: a wrapper tag, opening or closing, outside CDATA.
SawSyntax(s) == HasKind(Tags(s), {"<tool_calls", "</tool_calls>"})

-----------------------------------------------------------------------------
(* stripFencedCodeBlocks: drops fenced lines, but not those of a CDATA     *)
(* section; an open fence drops the rest of the text.                      *)

FirstKind(s, kinds) == FirstAt(s, 1, kinds)

CDATABeforeFence(line) ==
    LET c == FirstKind(line, {"<![CDATA["})
        f == FirstKind(line, FenceOpens)
    IN c # 0 /\ (f = 0 \/ c < f)

\* updateCDATAStateForStrip from position i of the line, inside a section: each end
\* outside a fence that looks structural, or ends the line, leaves the section.
CDATAWalk(line, from, fence) ==
    LET walk[i \in 1..Len(line) + 1, fenced \in BOOLEAN] ==
            LET e == FirstAt(line, i, {"]]>"})
                c == FirstAt(line, e + 1, {"<![CDATA["})
            IN IF e = 0 THEN [in |-> TRUE, fenced |-> fenced]
               ELSE IF fenced \/ ~(LooksStructural(line, e + 1) \/ IsBlank(TextFrom(line, e + 1)))
                    THEN walk[e + 1, fenced]
               ELSE IF c = 0 THEN [in |-> FALSE, fenced |-> FALSE]
               ELSE walk[c + 1, OpensFence(TextFrom(line, c + 1))]
    IN walk[from, fence]

CDATALine(st, line) ==
    LET from == IF st.in THEN 1 ELSE FirstKind(line, {"<![CDATA["}) + 1
        rest == TextFrom(line, from)
    IN CDATAWalk(line, from, IF st.fenced THEN ~ClosesFence(rest) ELSE OpensFence(rest))

StripLine(acc, line) ==
    IF acc.cdata.in \/ CDATABeforeFence(line)
    THEN [acc EXCEPT !.out = @ \o line, !.cdata = CDATALine(@, line)]
    ELSE IF acc.fence THEN [acc EXCEPT !.fence = ~ClosesFence(line)]
    ELSE IF OpensFence(line) THEN [acc EXCEPT !.fence = TRUE, !.before = Len(acc.out)]
    ELSE [acc EXCEPT !.out = @ \o line]

Unfenced(r) == IF r.fence THEN SubSeq(r.out, 1, r.before) ELSE r.out
StripFenced(s) ==
    LET lines == Lines(s)
        after[i \in 0..Len(lines)] ==
            IF i = 0 THEN [out |-> << >>, fence |-> FALSE, before |-> 0, cdata |-> [in |-> FALSE, fenced |-> FALSE]]
            ELSE StripLine(after[i - 1], lines[i])
    IN Unfenced(after[Len(lines)])

-----------------------------------------------------------------------------
(* Parsing.  A call is the token that names it. *)

\* repairMissingXMLToolCallsOpeningWrapper
RepairOpening(s) ==
    LET close == LastOf({i \in 1..Len(s) : s[i].t = "</tool_calls>"})
        inv == FirstKind(s, Invokes)
    IN IF HasKind(s, {"<tool_calls"}) \/ close = 0 \/ inv = 0 \/ inv >= close THEN s
       ELSE SubSeq(s, 1, inv - 1) \o <<Inserted("<tool_calls"), Inserted(">")>>
            \o TextFrom(s, inv)

\* parseSingleXMLToolCall and parseInvokeParameterValue: the invokes of a wrapper; the
\* value of the parameter is its body, out of CDATA.
Invoked(body, e) ==
    [call |-> body[e.open],
     meant |-> \E i \in e.body..e.close - 1 : body[i].t \notin Blank \union {"<![CDATA[", "]]>"}]
InvokedAll(body, elements) == [i \in 1..Len(elements) |-> Invoked(body, elements[i])]
InvokesIn(body) == InvokedAll(body, Elements(Tags(body), Invokes, "</invoke>"))

\* parseXMLToolCalls
InvokesOf(s, wrappers) ==
    FlattenSeq([i \in 1..Len(wrappers) |-> InvokesIn(SubSeq(s, wrappers[i].body, wrappers[i].close - 1))])
Wrapped(s) == InvokesOf(s, Wrappers(s))
XMLInvokes(s) == Wrapped(IF Wrappers(s) = << >> THEN RepairOpening(s) ELSE s)

\* SanitizeLooseCDATA: takes out the one opener that is never closed.
SanitizeLooseCDATA(s) ==
    LET last == LastOf({i \in 1..Len(s) : s[i].t = "]]>"})
        open == FirstAt(s, last + 1, {"<![CDATA["})
    IN IF open = 0 THEN s ELSE RemoveAt(s, open)

\* filterToolCallsDetailed: an invoke whose only value is blank is no call.
Calls(invokes) ==
    LET kept == Picked(invokes, {i \in 1..Len(invokes) : invokes[i].meant})
    IN [i \in 1..Len(kept) |-> kept[i].call]

\* appendImplicitTools: whoever offers some tools is taken to offer the implicit ones too.
WithImplicit(offered) == IF offered = {} THEN {} ELSE offered \union Implicit

\* canonicalizeParsedToolCalls: calls of tools not offered are dropped, unless none is.
Canonical(calls, offered) ==
    Picked(calls, {i \in 1..Len(calls) : offered = {} \/ AnyTool \in offered \/ calls[i].t \in offered})

\* parseToolCallsDetailedXMLOnly
OrLoose(invokes, text) ==
    IF invokes = << >> /\ HasKind(text, {"<![CDATA["}) THEN XMLInvokes(SanitizeLooseCDATA(text)) ELSE invokes
ReadXML(text) == OrLoose(XMLInvokes(text), text)
XMLOnly(s) == ReadXML(TrimSpace(StripFenced(s)))

\* Where the line of token i starts, when only blanks come before the token; else 0.
LineStart(s, i) ==
    LET l == LastOf({j \in 1..i - 1 : s[j].t # " "})
    IN IF l = 0 \/ Kind(s, l) = "\n" THEN l + 1 ELSE 0

\* minimaxToolCallBlockRe: from a marker that starts its line to the first close after it.
IsMarker(s, i) == Kind(s, i) = "minimax" /\ Kind(s, i + 1) = "tool_call"
MinimaxStarts(s) == {i \in 1..Len(s) : IsMarker(s, i) /\ LineStart(s, i) # 0}
BlocksAt(ends, at) == [k \in 1..Len(at) |-> [open |-> at[k], close |-> ends[at[k]]]]
BlocksOf(ends) == BlocksAt(ends, Places(Outermost(ends), Len(ends)))
MinimaxBlocks(s) ==
    BlocksOf([i \in 1..Len(s) |->
                 IF i \in MinimaxStarts(s) THEN FirstAt(s, i, {"</minimaxtool_call>"}) ELSE 0])

\* parseMinimaxToolCalls: every block is a call, for it has a parameter.
Openers(s, blocks) == [i \in 1..Len(blocks) |-> s[blocks[i].open]]
MinimaxCalls(s) == Openers(s, MinimaxBlocks(s))

\* parseShellFenceToolCalls: every closed shell block with a body is a call.
ShellCalls(lines) ==
    LET ends == [k \in 1..Len(lines) |->
                    IF Kind(TrimLeft(lines[k]), 1) = "shell fence"
                    THEN FirstOf({j \in k + 1..Len(lines) : ClosesFence(lines[j])}) ELSE 0]
        bodied == {k \in Outermost(ends) : ~IsBlank(FlattenSeq(SubSeq(lines, k + 1, ends[k] - 1)))}
        at == Places(bodied, Len(lines))
    IN [i \in 1..Len(at) |-> TrimLeft(lines[at[i]])[1]]

OrElse(first, second) == IF first # << >> THEN first ELSE second

\* parseMultiFormatToolCalls: the first dialect that finds calls.  A tool for them is
\* always found: the implicit tools name one.
MultiFormat(s) ==
    OrElse(MinimaxCalls(s), ShellCalls(Lines(s)))

\* ParseStandaloneToolCallsDetailed: the XML reading first, then the other dialects.
FirstReading(invokes, others, sawSyntax, offered) ==
    IF Calls(invokes) # << >> THEN [calls |-> Canonical(Calls(invokes), offered), saw |-> TRUE]
    ELSE IF others # << >> THEN [calls |-> others, saw |-> TRUE]
    ELSE [calls |-> << >>, saw |-> sawSyntax \/ invokes # << >>]
ParseTrimmed(s, offered) == FirstReading(XMLOnly(s), MultiFormat(s), SawSyntax(s), offered)
ParseStandalone(s, offered) == ParseTrimmed(TrimSpace(s), WithImplicit(offered))
=============================================================================
