----------------------------- MODULE MCStreamEngine -----------------------------
(* Small responses for TLC. *)
EXTENDS StreamEngine, TLC

CONSTANTS nl, blank, openTag, closeTag, leak

Choice(reasoning, content) ==
    [kind |-> "choice", finish |-> FALSE, reasoning |-> reasoning, content |-> content]
Patch(path, shape, value) == [kind |-> "patch", path |-> path, shape |-> shape, value |-> value]

\* The i-th line carries tokens of its own, in one of the upstream's two formats:
\* reasoning, text, both, enough text to be sent at once, the end of a line,
\* thinking closed by a tag; the last line ends the stream or not.
Think(i) == Patch("response/thinking_content", "text", <<3 * i>>)
Text(i)  == Choice(<<>>, <<3 * i>>)
Fragments(i) ==
    Patch("response/fragments", "fragments",
          <<[name |-> "THINK", content |-> <<3 * i, closeTag, 3 * i + 1>>],
            [name |-> "RESPONSE", content |-> <<leak>>]>>)
Continued(i) == Patch("response/fragments/-1/content", "text", <<3 * i>>)
Finish == Patch("response", "batch",
                <<[path |-> "status", name |-> "", content |-> <<>>, value |-> "FINISHED"]>>)
FreshScript ==
    <<{Think(1), Text(1), Choice(<<3>>, <<4>>), [kind |-> "done"]},
      {Choice(<<6>>, <<>>), Fragments(2), Choice(<<>>, <<6, nl>>), [kind |-> "error"]},
      {Think(3), Continued(3), [kind |-> "filter"], Finish}>>
================================================================================
