------------------------------- MODULE SSEParser -------------------------------
(* One line of the upstream event stream becomes a LineResult: parts of         *)
(* thinking and text, the thinking kept for tool detection, whether the stream  *)
(* ends, and the type that text without one of its own has from here on         *)
(* (internal/sse/line.go, parser.go).  A text is a sequence of tokens; the      *)
(* tokens that the parser looks for are constants, any other is content.        *)
EXTENDS Naturals, Sequences, SequencesExt

CONSTANTS NewLine, Blank, OpenTag, CloseTag, Leak, MinSnapshot

ASSUME SnapshotAssumption == MinSnapshot \in Nat \ {0}

Kinds == {"thinking", "text"}

(* ---- parts ---- *)
Part(text, type) == IF text = <<>> THEN <<>> ELSE <<[text |-> text, type |-> type]>>
Thinking(parts) == SelectSeq(parts, LAMBDA p : p.type = "thinking")
Shown(parts, enabled) ==
    IF enabled THEN parts ELSE SelectSeq(parts, LAMBDA p : p.type # "thinking")
Gather(Op(_), s) == FlattenSeq([i \in DOMAIN s |-> Op(s[i])])

StripTags(text) == SelectSeq(text, LAMBDA c : c \notin {OpenTag, CloseTag})
Position(token, text) == CHOOSE i \in 1..Len(text) :
                            text[i] = token /\ \A j \in 1..(i - 1) : text[j] # token
Holds(token, text) == \E i \in 1..Len(text) : text[i] = token

\* Thinking is cut at the first closing tag; the rest of it, and all thinking
\* after it in the same line, is text.
SplitThinking(parts) ==
    FoldLeft(LAMBDA acc, p :
        IF p.type # "thinking" \/ acc.over
          THEN [acc EXCEPT !.parts = @ \o Part(StripTags(p.text),
                    IF p.type = "thinking" THEN "text" ELSE p.type)]
        ELSE IF ~Holds(CloseTag, p.text) THEN [acc EXCEPT !.parts = Append(@, p)]
        ELSE LET i == Position(CloseTag, p.text)
             IN  [over |-> TRUE,
                  parts |-> acc.parts \o Part(SubSeq(p.text, 1, i - 1), "thinking")
                             \o Part(StripTags(SubSeq(p.text, i + 1, Len(p.text))), "text")],
        [over |-> FALSE, parts |-> <<>>], parts)

\* A leaked CONTENT_FILTER marker cuts its part; what is left is trimmed at the
\* right, and dropped unless it still says something or ends a line.
RightTrimmed(text) ==
    LET last == CHOOSE n \in 0..Len(text) :
                   /\ n = 0 \/ text[n] # Blank
                   /\ \A i \in (n + 1)..Len(text) : text[i] = Blank
    IN  SubSeq(text, 1, last)
WithoutLeak(p) ==
    IF ~Holds(Leak, p.text) THEN <<p>>
    ELSE LET cleaned == RightTrimmed(SubSeq(p.text, 1, Position(Leak, p.text) - 1))
         IN  IF \A i \in 1..Len(cleaned) : cleaned[i] = Blank
               THEN <<>> ELSE <<[p EXCEPT !.text = cleaned]>>

(* ---- fragments and batched items of the patch format ---- *)
\* A fragment: [name, content]; a batch item: [path, name, content, value] whose
\* value is a text or a list of fragments.
FragmentKind(f, default) == IF f.name = "THINK" THEN "thinking"
                            ELSE IF f.name = "RESPONSE" THEN "text" ELSE default
KindAfter(frags, cur) ==
    FoldLeft(LAMBDA acc, f : FragmentKind(f, acc), cur, frags)
FragmentParts(frags, default) ==
    Gather(LAMBDA f : Part(f.content, FragmentKind(f, default)), frags)

StatusPaths == {"status", "response/status"}
ItemKind(item, default) ==
    IF item.path = "thinking_content" THEN "thinking"
    ELSE IF item.path \in {"content", "response", "fragments"} THEN "text" ELSE default
ItemParts(item, default) ==
    IF item.path \in StatusPaths \cup {"quasi_status"} THEN <<>>
    ELSE IF item.content # <<>> THEN Part(item.content, FragmentKind(item, default))
    ELSE IF item.path = "fragments" THEN FragmentParts(item.value, ItemKind(item, default))
    ELSE Part(item.value, ItemKind(item, default))
BatchFinished(items) == \E i \in 1..Len(items) :
                           items[i].path \in StatusPaths /\ items[i].value = "FINISHED"

(* ---- one patch: [kind |-> "patch", path, op, shape, value] ---- *)
ExplicitKind(path, enabled, cur) ==
    IF path = "response/content" THEN "text"
    ELSE IF path = "response/thinking_content" /\ (~enabled \/ cur # "text")
           THEN "thinking" ELSE cur
PartKind(path, enabled, cur) ==
    CASE path = "response/thinking_content" ->
           IF enabled /\ cur = "text" THEN "text" ELSE "thinking"
      [] path \in {"", "response/fragments/-1/content"} -> cur
      [] OTHER -> "text"

PatchKind(line, enabled, cur) ==
    LET explicit == ExplicitKind(line.path, enabled, cur)
        nested == Gather(LAMBDA item : IF item.path = "fragments" THEN item.value ELSE <<>>,
                         line.value)
    IN  CASE line.path = "response/fragments" /\ line.shape = "fragments"
               -> KindAfter(line.value, explicit)
          [] line.path = "response" /\ line.shape = "batch" -> KindAfter(nested, explicit)
          [] OTHER -> explicit
PatchParts(line, kind) ==
    CASE line.shape = "text" -> Part(line.value, kind)
      [] line.shape = "fragments" ->     \* "o": "APPEND" on the list of fragments
           IF line.path = "response/fragments" THEN FragmentParts(line.value, "text") ELSE <<>>
      [] line.shape = "batch" -> Gather(LAMBDA item : ItemParts(item, kind), line.value)
      [] line.shape = "wrapped" -> FragmentParts(line.value, kind)
PatchFinished(line) ==
    \/ line.shape = "status" /\ line.path \in StatusPaths \cup {""} /\ line.value = "FINISHED"
    \/ line.shape = "batch" /\ BatchFinished(line.value)

(* ---- one line ---- *)
Nothing(cur) == [parsed |-> FALSE, stop |-> FALSE, failed |-> FALSE, filtered |-> FALSE,
                 parts |-> <<>>, detect |-> <<>>, next |-> cur]
Ends(cur) == [Nothing(cur) EXCEPT !.parsed = TRUE, !.stop = TRUE]
Carries(parts, detect, next) ==
    [Nothing(next) EXCEPT !.parsed = TRUE, !.parts = Gather(WithoutLeak, parts),
                          !.detect = Gather(WithoutLeak, detect)]

\* The OpenAI format: a reason to finish, or a delta of reasoning and content.
ParseChoice(line, enabled, cur) ==
    LET thought == Part(line.reasoning, "thinking")
        parts == thought \o Part(line.content, "text")
    IN  IF line.finish THEN Ends(cur)
        ELSE Carries(Shown(parts, enabled), thought,
                     IF parts = <<>> THEN cur ELSE IF thought # <<>> THEN "thinking" ELSE "text")

ParsePatch(line, enabled, cur) ==
    LET next  == PatchKind(line, enabled, cur)
        after == IF line.shape = "wrapped" THEN KindAfter(line.value, next) ELSE next
        split == SplitThinking(PatchParts(line, PartKind(line.path, enabled, next)))
    IN  IF PatchFinished(line) THEN Ends(after)
        ELSE IF line.shape = "status" \/ line.path = "quasi_status" THEN Carries(<<>>, <<>>, cur)
        ELSE Carries(Shown(split.parts, enabled), Thinking(split.parts),
                     IF split.over THEN "text" ELSE after)

ParseLine(line, enabled, cur) ==
    CASE line.kind = "junk"   -> Nothing(cur)     \* no "data:" prefix, or no JSON
      [] line.kind = "done"   -> Ends(cur)
      [] line.kind = "error"  -> [Ends(cur) EXCEPT !.failed = TRUE]
      [] line.kind = "filter" -> [Ends(cur) EXCEPT !.filtered = TRUE]
      [] line.kind = "choice" -> ParseChoice(line, enabled, cur)
      [] line.kind = "patch"  -> ParsePatch(line, enabled, cur)

(* ---- the overlap of a continuation ---- *)
\* A long increment that repeats all that was received is cut to its new end; one
\* that repeats less than that is dropped.
TrimOverlap(existing, incoming) ==
    IF existing = <<>> \/ Len(incoming) < MinSnapshot THEN incoming
    ELSE IF Len(incoming) > Len(existing) /\ IsPrefix(existing, incoming)
           THEN SubSeq(incoming, Len(existing) + 1, Len(incoming))
    ELSE IF Len(incoming) < Len(existing) /\ IsPrefix(incoming, existing) THEN <<>>
    ELSE incoming

(* ---- collecting a whole stream (CollectStream) ---- *)
Collected0(enabled) ==
    [thinking |-> <<>>, text |-> <<>>, detect |-> <<>>, all |-> <<>>, filter |-> FALSE,
     stopped |-> FALSE, done |-> FALSE, cur |-> IF enabled THEN "thinking" ELSE "text"]
AddPart(c, p) ==       \* "all" keeps the two kinds in their order
    LET new == TrimOverlap(IF p.type = "thinking" THEN c.thinking ELSE c.text, p.text)
    IN  IF p.type = "thinking" THEN [c EXCEPT !.thinking = @ \o new, !.all = @ \o new]
                               ELSE [c EXCEPT !.text = @ \o new, !.all = @ \o new]
Collect(c, line, enabled) ==
    LET r == ParseLine(line, enabled, c.cur)
        with == FoldLeft(AddPart, c, r.parts)
    IN  IF c.done \/ line.kind = "done" THEN [c EXCEPT !.done = TRUE]
        ELSE IF c.stopped THEN c
        ELSE IF ~r.parsed THEN [c EXCEPT !.cur = r.next]
        ELSE IF r.stop THEN [c EXCEPT !.cur = r.next, !.stopped = TRUE, !.filter = r.filtered]
        ELSE [with EXCEPT !.cur = r.next,
                !.detect = FoldLeft(LAMBDA d, p : d \o TrimOverlap(d, p.text), @, r.detect)]
================================================================================
