------------------------------- MODULE Completion -------------------------------
(***************************************************************************)
(* One completion request from its handler to its end: session and first   *)
(* call (internal/completionruntime), the reply streamed through the chat  *)
(* or the responses runtime or collected whole, the retry of an attempt    *)
(* that brought nothing, the history entry of the request (sessions of     *)
(* chat and responsehistory) and the removal of the remote session.        *)
(*                                                                         *)
(* left is what the upstream still has to send, as tokens with their kind  *)
(* of part; a line takes a few of them.  blankLine and crowded remember    *)
(* how the reply was cut: a line of blanks only, or one that goes on after *)
(* the end of a block; they are read by properties only.                   *)
(***************************************************************************)
EXTENDS ChatRuntime, ResponsesRuntime, ToolChoice

CONSTANTS
  Requests,      \* the requests as they arrive (see ToolChoice)
  Replies,       \* the replies: [thinking, text, ends], the first two sequences of token kinds
  MaxLine,       \* the most tokens a line brings, unless it brings all
  MaxAttempts    \* emptyOutputRetryMaxAttempts

\* Only an object names a function or narrows the tools (parseToolChoicePolicy, the switch on
\* its type), and no tool is declared under the name that stands for any.
ASSUME RequestsAssumption ==
    \A r \in Requests :
        LET c == r.choice
        IN /\ r.valid \in BOOLEAN /\ r.listed \in BOOLEAN /\ AnyTool \notin r.declared
           /\ c.form \in {"absent", "string", "object", "other"} /\ c.narrows \in BOOLEAN
           /\ c.word \in {"blank", "auto", "none", "required", "function", "else"}
           /\ c.form # "object" => ~Selects(c) /\ ~c.narrows
           /\ c.form \in {"absent", "other"} => c.word = "blank"

ASSUME RepliesAssumption ==
    \A reply \in Replies : reply.thinking \in Seq(STRING) /\ reply.text \in Seq(STRING)

VARIABLES
  req, phase, attempt, left, ends, seen, rt,
  answer,        \* what a handler that does not stream tells the client
  remote,        \* the upstream session: "none", "open", "deleted"
  entry,         \* the history entry: "missing" or its status
  session,       \* "on", or "off" once history is disabled
  enabled,       \* the store accepts updates
  stored,        \* the response kept for its owner: "none", "completed", "failed", "expired"
  blankLine, crowded

vars == <<req, phase, attempt, left, ends, seen, rt, answer, remote, entry, session, enabled,
          stored, blankLine, crowded>>

\* What is kept of a request, and what its client meant by it, which only properties read.
Received(r) ==
    LET ok == Accepted(r)
    IN [api |-> IF r.stream THEN r.api ELSE "plain", keeps |-> ok /\ r.api = "responses", accepted |-> ok,
        offered |-> IF ok THEN Offered(r) ELSE {}, required |-> ok /\ Demands(Judging(r)),
        meant |-> IF ok THEN Meant(r) ELSE [clear |-> FALSE, must |-> FALSE, may |-> {}]]

Streams == req.api \in {"chat", "responses"}
NoAnswer == [status |-> "none", calls |-> << >>, text |-> << >>, reason |-> "none"]
Answer(turn) == [status |-> "ok", calls |-> turn.calls, text |-> turn.text,
                 reason |-> Outcome(turn, FALSE).reason]
Refusal(error) == [NoAnswer EXCEPT !.status = error]

Init == /\ req \in {Received(r) : r \in Requests}
        /\ phase = "start" /\ attempt = 0 /\ left = << >> /\ ends = "none" /\ seen = 0
        /\ rt = CASE req.api = "chat" -> NewChat [] req.api = "responses" -> NewResponse
                  [] OTHER -> [acc |-> NewAcc]
        /\ answer = NoAnswer /\ remote = "none"
        /\ entry = (IF req.accepted THEN "streaming" ELSE "missing")
        /\ session = (IF req.accepted THEN "on" ELSE "off") /\ enabled = TRUE /\ stored = "none"
        /\ blankLine = FALSE /\ crowded = FALSE

-----------------------------------------------------------------------------
(* The history session. *)

\* persistUpdate, handlePersistError, retryMissingEntry: a missing entry is started again,
\* which a history that is disabled refuses; to be updated it need not be enabled.
Persist(status) ==
    IF session = "on" /\ entry = "missing" /\ ~enabled THEN session' = "off" /\ UNCHANGED entry
    ELSE entry' = (IF session = "on" THEN status ELSE entry) /\ UNCHANGED session

\* progress: at most every 250 ms.
Progress == Persist("streaming") \/ UNCHANGED <<entry, session>>

\* The operator clears the history, or switches it off, whatever the request is doing.
ClearHistory == entry # "missing" /\ phase # "closed" /\ entry' = "missing"
                /\ UNCHANGED <<req, phase, attempt, left, ends, seen, rt, answer, remote, session,
                               enabled, stored, blankLine, crowded>>
DisableHistory == enabled /\ phase # "closed" /\ enabled' = FALSE
                  /\ UNCHANGED <<req, phase, attempt, left, ends, seen, rt, answer, remote, entry,
                                 session, stored, blankLine, crowded>>

-----------------------------------------------------------------------------
(* The store of responses. *)

\* put, when there is something to put; the response a runtime has persisted.
Keep(status) == stored' = (IF req.keeps /\ status # "none" THEN status ELSE stored)
Object(r) == IF req.api = "responses" THEN r.object.status ELSE "none"

\* get finds what is kept until its time has passed: sweepLocked.
Found == stored \in {"completed", "failed"}
Expire == Found /\ phase # "closed" /\ stored' = "expired"
          /\ UNCHANGED <<req, phase, attempt, left, ends, seen, rt, answer, remote, entry, session,
                         enabled, blankLine, crowded>>

-----------------------------------------------------------------------------
(* Starting an attempt. *)

Tokens(kinds, kind, at) == [i \in 1..Len(kinds) |-> [t |-> kinds[i], at |-> at + i, part |-> kind]]

\* A response of the upstream whose status is 200.
Opens(reply) ==
    LET thinking == Tokens(reply.thinking, "thinking", seen)
        text == Tokens(reply.text, "text", seen + Len(thinking))
    IN /\ left' = thinking \o text /\ ends' = reply.ends /\ phase' = "reading"

\* A request that cannot be read, or whose choice of tools cannot be: no entry is started.
BadRequest ==
    /\ phase = "start" /\ ~req.accepted /\ phase' = "over" /\ answer' = Refusal("bad request")
    /\ UNCHANGED <<req, attempt, left, ends, seen, rt, remote, entry, session, enabled,
                   stored, blankLine, crowded>>

\* StartCompletion fails before or after the session exists; the handler tells the client.
StartFails ==
    /\ phase = "start" /\ req.accepted /\ phase' = "over"
    /\ remote' \in {"none", "open"}
    /\ answer' = Refusal("start failed") /\ Persist("error")
    /\ UNCHANGED <<req, attempt, left, ends, seen, rt, enabled, stored, blankLine, crowded>>

\* A response begins with its announcement, sendCreated.
StartOpens ==
    /\ phase = "start" /\ req.accepted /\ remote' = "open"
    /\ \E reply \in Replies : Opens(reply)
    /\ rt' = (IF req.api = "responses" THEN RespSend(rt, Created) ELSE rt)
    /\ UNCHANGED <<req, attempt, seen, answer, entry, session, enabled, stored, blankLine, crowded>>

\* prepareChatStreamRuntime, prepareResponsesStreamRuntime, collectAttempt: another status.
StartRefused ==
    /\ phase = "start" /\ req.accepted /\ phase' = "over" /\ remote' = "open"
    /\ answer' = Refusal("upstream status") /\ Persist("error")
    /\ UNCHANGED <<req, attempt, left, ends, seen, rt, enabled, stored, blankLine, crowded>>

-----------------------------------------------------------------------------
(* Reading an attempt. *)

OfPart(s, kind) == Picked(s, {i \in 1..Len(s) : s[i].part = kind})

OnLine(thinking, text) ==
    CASE req.api = "chat" -> ChatLine(rt, thinking, text, req.offered)
      [] req.api = "responses" -> RespLine(rt, thinking, text, req.offered)
      [] OTHER -> [rt EXCEPT !.acc = ApplyText(ApplyThinking(@, thinking), text)]

\* The ends of two blocks, or text after the end of a block that is not of the first dialect.
Crowds(s) ==
    \/ Len(SelectSeq(s, LAMBDA tok : tok.t = "</tool_calls>" \/ tok.t \in FenceOpens)) > 1
    \/ HasKind(s, {"</minimaxtool_call>"}) /\ Kind(s, Len(s)) # "</minimaxtool_call>"

\* onParsed, and the collection of a reply that is not streamed.
Line == \E n \in 1..MaxLine \union {Len(left)} :
    LET line == SubSeq(left, 1, n)
        text == OfPart(line, "text")
    IN /\ phase = "reading" /\ n > 0 /\ n <= Len(left)
       /\ rt' = OnLine(OfPart(line, "thinking"), text)
       /\ left' = TextFrom(left, n + 1) /\ seen' = seen + n
       /\ IF Streams THEN Progress ELSE UNCHANGED <<entry, session>>
       /\ blankLine' = (blankLine \/ (text # << >> /\ IsBlank(text)))
       /\ crowded' = (crowded \/ Crowds(text))
       /\ UNCHANGED <<req, phase, attempt, ends, answer, remote, enabled, stored>>

\* consumeChatStreamAttempt, consumeResponsesStreamAttempt, one round of
\* ExecuteNonStreamWithRetry: the attempt ends and is judged.
Judged ==
    LET defer(reason) == attempt < MaxAttempts /\ reason # "content_filter"
        chat == ChatReason(rt, ends)
        resp == RespReason(ends)
    IN IF req.api = "chat" THEN ChatFinalize(rt, chat, defer(chat), req.offered, req.required)
       ELSE RespFinalize(rt, resp, defer(resp), req.offered, req.required)

Settled(r) == IF r.error # "none" THEN "error" ELSE "success"

EndStreamed ==
    /\ phase = "reading" /\ left = << >> /\ Streams
    /\ \E judged \in {Judged} :
          /\ rt' = judged.rt /\ Keep(Object(judged.rt))
          /\ IF judged.over THEN phase' = "over" /\ Persist(Settled(judged.rt))
             ELSE phase' = "retry" /\ UNCHANGED <<entry, session>>
    /\ UNCHANGED <<req, attempt, left, ends, seen, answer, remote, enabled, blankLine, crowded>>

\* A whole reply: its text is that of the last attempt, its thinking that of all.
EndCollected ==
    LET turn == CollectedTurn(rt.acc.rawText, rt.acc.rawThinking, ends = "filter", req.offered, req.required)
    IN /\ phase = "reading" /\ left = << >> /\ ~Streams
       /\ IF RetryEmpty(turn, attempt, MaxAttempts)
          THEN /\ phase' = "retry" /\ UNCHANGED <<answer, entry, session>>
               /\ rt' = [rt EXCEPT !.acc.rawText = << >>, !.acc.text = << >>]
          ELSE /\ phase' = "over" /\ UNCHANGED rt
               /\ answer' = (IF turn.error = "none" THEN Answer(turn) ELSE Refusal(turn.error))
               /\ Persist(IF turn.error = "none" THEN "success" ELSE "error")
       /\ Keep(IF phase' = "over" /\ turn.error = "none" THEN "completed" ELSE "none")
       /\ UNCHANGED <<req, attempt, left, ends, seen, remote, enabled, blankLine, crowded>>

\* The client goes away: the chat entry is stopped, that of a response is left as it is.
Cancelled ==
    /\ phase = "reading" /\ Streams /\ phase' = "over"
    /\ rt' = [rt EXCEPT !.error = "context_cancelled"]
    /\ IF req.api = "chat" THEN Persist("stopped") ELSE UNCHANGED <<entry, session>>
    /\ UNCHANGED <<req, attempt, left, ends, seen, answer, remote, enabled, stored, blankLine, crowded>>

-----------------------------------------------------------------------------
(* The retry, and the end of the handler. *)

RetryOpens ==
    /\ phase = "retry" /\ attempt' = attempt + 1
    /\ \E reply \in Replies : Opens(reply)
    /\ UNCHANGED <<req, seen, rt, answer, remote, entry, session, enabled, stored, blankLine, crowded>>

\* failChatStreamRetry, failResponse, the errors of ExecuteNonStreamWithRetry
RetryFails ==
    /\ phase = "retry" /\ phase' = "over" /\ attempt' = attempt + 1
    /\ IF Streams
       THEN /\ rt' = (IF req.api = "chat" THEN ChatFail(rt, "error") ELSE RespFail(rt, "error"))
            /\ Keep(Object(rt')) /\ UNCHANGED answer
       ELSE answer' = Refusal("error") /\ UNCHANGED <<rt, stored>>
    /\ Persist("error")
    /\ UNCHANGED <<req, left, ends, seen, remote, enabled, blankLine, crowded>>

\* The deferred autoDeleteRemoteSession, which outlives the context of the request.
Close == /\ phase = "over" /\ phase' = "closed"
         /\ remote' = (IF remote = "open" THEN "deleted" ELSE remote)
         /\ UNCHANGED <<req, attempt, left, ends, seen, rt, answer, entry, session, enabled,
                        stored, blankLine, crowded>>

Next == \/ BadRequest \/ StartFails \/ StartOpens \/ StartRefused \/ Line \/ EndStreamed \/ EndCollected
        \/ Cancelled \/ RetryOpens \/ RetryFails \/ Close \/ ClearHistory \/ DisableHistory \/ Expire
Spec == Init /\ [][Next]_vars

-----------------------------------------------------------------------------
(* Properties. *)

Over == phase \in {"over", "closed"}
Sent == IF Streams THEN rt.sent ELSE << >>
Frames(kinds) == {i \in 1..Len(Sent) : Sent[i].ev \in kinds}
Good == {"finish", "completed"}
Bad == {"error", "failed"}

TextShown == FlattenSeq([i \in 1..Len(Sent) |->
                IF Sent[i].ev \in {"content", "text", "reasoning"} THEN Sent[i].text ELSE << >>])
CallsShown == FlattenSeq([i \in 1..Len(Sent) |->
                IF Sent[i].ev = "tool_calls" THEN Sent[i].calls
                ELSE IF Sent[i].ev = "call" THEN <<Sent[i].call>> ELSE << >>])

\* What the client was told of the request.
Told == CASE answer.status = "ok" \/ Frames(Good) # {} -> "success"
          [] answer.status \notin {"none", "ok"} \/ Frames(Bad) # {} -> "error"
          [] OTHER -> "nothing"

\* A stream tells one outcome, at its very end and before the end mark, however many
\* attempts it took, and goes without one only when the client has left: an attempt whose
\* finalize is put off must have sent none (finalize, failChatStreamRetry, failResponse).
OneEnding ==
    LET outcomes == Frames(Good \union Bad)
    IN /\ \A i \in outcomes : i = Len(Sent) - 1 /\ Sent[i + 1].ev = "done"
       /\ Over /\ Streams /\ answer = NoAnswer /\ rt.error # "context_cancelled" => outcomes # {}

\* When a request is over, the entry the operator reads says what the client was told,
\* also after retries and after the entry was cleared and started again (the settling
\* calls of the handlers, and handlePersistError).  Who left was told nothing.  So does a
\* response that is found in the store, and every response whose outcome was told over a
\* stream, or was good, has been put there (persistResponse, GetResponseByID).
HistoryTells ==
    Over =>
        /\ session = "on" /\ entry # "missing" =>
               entry = IF Told # "nothing" THEN Told ELSE IF req.api = "chat" THEN "stopped" ELSE "streaming"
        /\ Found => Told = IF stored = "completed" THEN "success" ELSE "error"
        /\ req.keeps /\ (Told = "success" \/ Frames(Bad) # {}) => stored # "none"

\* The client gets the text in the order of the reply, and the calls too, although the
\* sieve and the delta batch each hold parts of it back (tool_sieve_core.go, *_delta_batch).
Ascending(s) == \A i \in 1..Len(s) - 1 : s[i].at < s[i + 1].at
InOrder == Ascending(TextShown) /\ Ascending(CallsShown)

\* Who streams gets what a handler that collects the same reply would answer: the same
\* calls and, when the request has tools, the same text but for blanks (and but for a block
\* whose wrapper was never opened, which stays in the collected text), wherever the reply
\* was cut into lines (onParsed and finalize against BuildTurnFromCollected).
\* Two kinds of cut are known to break it and excluded: a line of blanks only (see
\* FencedStaysText), and one that goes on after the end of a block: the calls of the first
\* of two blocks are lost, and so is text after a block of another dialect (consumeToolCapture).
\* So is a wrapper that only an earlier attempt opened, and a block of the second dialect
\* that no longer starts a line: what is kept is one text for all attempts.
Solid(s) == SelectSeq(s, LAMBDA tok : tok.t \notin Blank)
Whole == CollectedTurn(rt.acc.rawText, rt.acc.rawThinking, FALSE, req.offered, req.required)
Unopened == HasKind(Whole.text, {"</tool_calls>", "</minimaxtool_call>"})
StreamTellsTheWhole ==
    Over /\ Streams /\ Told = "success" /\ ~blankLine /\ ~crowded =>
        /\ attempt = 0 \/ ~Unopened => CallsShown = Whole.calls
        /\ req.offered # {} /\ ~Unopened =>
               Solid(OfPart(TextShown, "text")) = Solid(Whole.text)

\* The finish names tool calls as its reason exactly when calls were sent, in the middle
\* of the stream or at its end (FinalizeTurn, given what the runtime already emitted).
FinishNamesCalls ==
    \A i \in Frames(Good) : (Sent[i].reason = "tool_calls") = (CallsShown # << >>)

\* A second attempt is made only if the client has been shown no text of the first
\* (ShouldRetryEmptyOutput), unless calls are required of the reply.
RetriesShowNothing ==
    phase = "retry" /\ ~req.required => IsBlank(OfPart(TextShown, "text"))

\* A completed response has closed every item it announced, no two of its items share an
\* output index, and the response that is stored repeats the message that was streamed
\* (the item helpers of the runtime, buildCompletedResponseObject).
Items(ev) == {[id |-> Sent[i].id, index |-> Sent[i].index] : i \in Frames({ev})}
ItemsClosed ==
    req.api = "responses" /\ Frames({"completed"}) # {} =>
        /\ Items("item added") = Items("item done")
        /\ \A a, b \in rt.object.items \union Items("item added") : a.index = b.index => a = b
        /\ {a \in Items("item added") : a.id = 0} \subseteq rt.object.items

\* What the client asks of the tools comes true across parsing, sieve, retries and ending:
\* a request that demands a call ends well only with one, none that does not is refused for
\* the lack of one, and no call is made of a tool that was not allowed.  Two kinds of calls
\* are beyond its choice, and satisfy its demand too: the parser takes the implicit tools to
\* be offered whenever some are (appendImplicitTools), and reads the other dialects with a
\* tool of their own.
Made == CallsShown \o answer.calls
Error == IF Streams /\ answer = NoAnswer THEN rt.error ELSE answer.status
ChoiceKept ==
    Over /\ req.meant.clear =>
        /\ Error = "tool_choice_violation" => req.meant.must
        /\ Told = "success" /\ req.meant.must => Made # << >>
        /\ req.offered # {} => \A i \in 1..Len(Made) : 
               Made[i].t \in req.meant.may \union Implicit \union {"shell fence", "minimax"}

\* "expected fenced XML examples to stay text": a call that was sent was not written
\* inside a code fence of the reply.
FencedStaysText ==
    \A i \in 1..Len(CallsShown) :
        ~EndsInFence(SelectSeq(rt.acc.rawText, LAMBDA tok : tok.at < CallsShown[i].at))
=================================================================================
