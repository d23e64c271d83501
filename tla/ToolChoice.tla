------------------------------- MODULE ToolChoice -------------------------------
(***************************************************************************)
(* What a request says of the tools its reply may or must call: the        *)
(* tool_choice of the chat API (internal/promptcompat), the second reading *)
(* of it by the responses API, and the tool names the reply is read with.  *)
(*                                                                         *)
(* A request as it arrives is [api, stream, valid, listed, declared,       *)
(* choice]: valid that its body can be read and names a model and          *)
(* messages, listed that its list of tools is not empty, declared the      *)
(* names in it.  A choice is [form, word, name, fn, narrows, allowed]:     *)
(* form "absent", "string", "object" or "other"; word the string or the    *)
(* type of the object, "blank" if there is none, "else" if unknown; name   *)
(* and fn the two places of a function's name; narrows that allowed_tools  *)
(* is given, allowed its names, none if it is malformed.                   *)
(***************************************************************************)
EXTENDS ToolMarkup

CONSTANT NoTool  \* where no function is named

Policy(mode, allowed) == [mode |-> mode, name |-> NoTool, allowed |-> allowed]
Forced(name) == [mode |-> "forced", name |-> name, allowed |-> {name}]
Refused == Policy("refused", {})
Demands(policy) == policy.mode \in {"required", "forced"}

\* parseForcedToolName, hasFunctionSelector
Selected(c) == IF c.name # NoTool THEN c.name ELSE c.fn
Selects(c) == Selected(c) # NoTool

-----------------------------------------------------------------------------
(* The chat API. *)

\* parseAllowedToolNames: the list, if there is one, names declared tools.
Narrowed(c, declared) == c.narrows => c.allowed # {} /\ c.allowed \subseteq declared

\* The two switches of parseToolChoicePolicy.
ReadChoice(c, declared) ==
    LET allowed == IF c.narrows THEN c.allowed ELSE declared
        names == Selects(c) /\ c.word \in {"blank", "auto", "function"}
    IN IF c.form = "other" \/ ~Narrowed(c, declared) THEN Refused
       ELSE CASE names -> Forced(Selected(c))
              [] ~names /\ c.word \in {"blank", "auto"} -> Policy("auto", allowed)
              [] c.word = "none" -> Policy("none", {})
              [] c.word = "required" -> Policy("required", allowed)
              [] OTHER -> Refused

\* Calls are only demanded of tools that are there.
ParseToolChoicePolicy(c, declared) ==
    LET p == ReadChoice(c, declared)
    IN IF Demands(p) /\ (p.allowed = {} \/ ~(p.allowed \subseteq declared)) THEN Refused ELSE p

\* injectToolPrompt: the tools that are described to the model.
Described(p, declared) ==
    IF p.mode = "none" THEN {} ELSE {t \in declared : p.allowed = {} \/ t \in p.allowed}

\* ensureToolDetectionEnabled: a list of tools that leaves no name stands for any tool.
EnsureToolDetection(names, listed) == IF names = {} /\ listed THEN {AnyTool} ELSE names

\* NormalizeOpenAIChatRequest
ToolNamesAll(p, r) ==  \* mutant: tools that are not allowed are offered
    EnsureToolDetection(IF p.mode = "none" THEN {} ELSE r.declared, r.listed)
ToolNames(p, r) == EnsureToolDetection(Described(p, r.declared), r.listed)

-----------------------------------------------------------------------------
(* The responses API: a request is first normalized as one of the chat     *)
(* API, then its choice is read again.                                     *)

\* toolChoicePolicyFromResponses.  A string it does not know is taken for a name; those
\* that are not blank were refused before.
ResponsesPolicy(c) ==
    LET known == c.word \in {"auto", "none", "required"}
    IN CASE c.form \in {"absent", "other"} -> Policy("auto", {})
         [] c.form \in {"string", "object"} /\ known -> Policy(c.word, {})
         [] c.form = "string" /\ ~known -> Forced(NoTool)
         [] c.form = "object" /\ c.word = "function" -> IF Selects(c) THEN Forced(Selected(c)) ELSE Refused
         [] c.form = "object" /\ c.word \in {"blank", "else"} ->
              IF c.name # NoTool THEN Forced(c.name) ELSE Policy("auto", {})

EnsureAllowedToolNames(names, allowed) ==
    IF names \intersect allowed = {} THEN names ELSE names \intersect allowed

-----------------------------------------------------------------------------
(* Both. *)

Accepted(r) == r.valid /\ ParseToolChoicePolicy(r.choice, r.declared).mode # "refused"

\* The policy the reply is judged by, and the names it is read with.
Judging(r) ==
    LET again == ResponsesPolicy(r.choice)
    IN IF r.api = "responses" /\ again.mode # "refused" THEN again
       ELSE ParseToolChoicePolicy(r.choice, r.declared)

Offered(r) ==
    LET names == ToolNames(ParseToolChoicePolicy(r.choice, r.declared), r)
    IN IF r.api = "responses" /\ Judging(r).mode # "none"
       THEN EnsureAllowedToolNames(names, Judging(r).allowed) ELSE names

-----------------------------------------------------------------------------
(* What a client means, for the properties: whether a call must be made,   *)
(* and of which tools.  Not clear are, for the responses API, a blank      *)
(* string and a name without the type "function", which its second reading *)
(* takes otherwise than the first; "none", which turns the description of  *)
(* the tools off but not their detection; and tools without names.         *)
Meant(r) ==
    LET c == r.choice
        one == Selects(c) /\ c.word \in {"blank", "auto", "function"}
        misread == r.api = "responses" /\ \/ c.form = "string" /\ c.word = "blank"
                                          \/ one /\ c.word = "auto"
                                          \/ one /\ c.word = "blank" /\ c.name = NoTool
    IN IF misread \/ c.word = "none" \/ (r.listed /\ r.declared = {})
       THEN [clear |-> FALSE, must |-> FALSE, may |-> {}]
       ELSE [clear |-> TRUE, must |-> c.word = "required" \/ one,
             may |-> IF one THEN {Selected(c)} ELSE IF c.narrows THEN c.allowed ELSE r.declared]
=================================================================================
