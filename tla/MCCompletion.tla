------------------------------ MODULE MCCompletion ------------------------------
(* Small instances of Completion for TLC. *)
EXTENDS Completion

A == "<invoke a>"
B == "<invoke b>"
Call(x) == <<"<invoke " \o x \o ">", "word", "</invoke>">>
Block(x) == <<"<tool_calls", ">">> \o Call(x) \o <<"</tool_calls>">>

\* Every choice of tools, of requests with two tools, with tools that cannot be named and
\* with none; "ghost" is a tool nobody declares.
Choice(form, word, name, fn, narrows, allowed) ==
  [form |-> form, word |-> word, name |-> name, fn |-> fn, narrows |-> narrows, allowed |-> allowed]
Words == {"blank", "auto", "none", "required", "function", "else"}
ToolChoices ==
  {Choice(form, "blank", NoTool, NoTool, FALSE, {}) : form \in {"absent", "other"}}
  \union {Choice("string", word, NoTool, NoTool, FALSE, {}) : word \in Words}
  \union {Choice("object", word, name, fn, narrowed # {"any"}, narrowed \ {"any"}) :
             word \in Words, name \in {A, "ghost", NoTool}, fn \in {A, "ghost", NoTool},
             narrowed \in {{"any"}, {}, {B}, {"ghost"}}}
Request(api, stream, listed, declared, choice) ==
  [api |-> api, stream |-> stream, valid |-> TRUE, listed |-> listed, declared |-> declared, choice |-> choice]
Auto == Choice("absent", "blank", NoTool, NoTool, FALSE, {})
AllRequests ==
  {Request(api, stream, tools.listed, tools.names, choice) :
     api \in {"chat", "responses"}, stream \in BOOLEAN, choice \in ToolChoices,
     tools \in {[listed |-> FALSE, names |-> {}], [listed |-> TRUE, names |-> {}],
                [listed |-> TRUE, names |-> {A, B}]}}
  \union {[Request("chat", TRUE, FALSE, {}, Auto) EXCEPT !.valid = FALSE]}
Reply(thinking, text, end) == [thinking |-> thinking, text |-> text, ends |-> end]
SomeReplies ==
  {Reply(<<"word">>, <<"word">> \o Block("a") \o <<"word">>, "stop"),
   Reply(<< >>, Block("a") \o <<"word">> \o Block("b"), "stop"),
   Reply(Block("a"), << >>, "stop"),
   Reply(<< >>, Block("implicit"), "stop"),
   Reply(<<"word">>, <<" ">>, "stop"),
   Reply(<< >>, <<"<tool_calls", ">", "<invoke a>", "<![CDATA[", "</invoke>", "]]>", "</invoke>",
                  "</tool_calls>", "word">>, "stop"),
   Reply(<< >>, <<"word">> \o Call("a") \o Call("b") \o <<"</tool_calls>", "word">>, "stop"),
   Reply(<< >>, <<"word", "word">>, "filter"),
   Reply(<< >>, << >>, "filter"),
   Reply(<< >>, <<"word", "<tool_calls", ">", "<invoke a>", "word">>, "error"),
   Reply(<< >>, <<"minimax", "tool_call", "word", "</minimaxtool_call>", "word">>, "stop"),
   Reply(<< >>, <<"\n", "shell fence", "\n", "word", "\n", "fence", "\n", "word">>, "stop")}

\* The reply of the violation run, and a streamed request that offers tools.
OneRequest == {Request("chat", TRUE, TRUE, {A, B}, Auto)}
FencedReply == {Reply(<< >>, <<"word", "\n", "fence", "\n">> \o Block("a") \o <<"\n", "fence", "\n">>, "stop")}
=================================================================================
