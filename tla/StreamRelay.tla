---------------------------- MODULE StreamRelay ----------------------------
(***************************************************************************)
(* One streamed answer, from the upstream's body to the client             *)
(* (proxy/stream.go): the handler goroutine reads the body in chunks that  *)
(* respect no line, forwards, holds back or buffers them, and ends the     *)
(* stream; the keepalive goroutine writes comment lines to the same        *)
(* http.ResponseWriter through streamWriter's mutex.                       *)
(*                                                                         *)
(* The upstream's body is a sequence of events ("data: ...\n\n"); event i  *)
(* is two halves, 2i-1 (ends inside the line) and 2i (ends it), and a Read *)
(* returns any run of halves.  A chunk "shows" an event's telltale text    *)
(* ("tool_calls", "[DONE]", "type":"response.) when it holds the whole     *)
(* event; of a torn event each half may or may not show it (the split      *)
(* falls before, inside or after the text).  An event is "loud" when its   *)
(* line as forwarded has "content" or "finish_reason" anywhere in it: that *)
(* of a text always has, a role's or a tool call's may.                    *)
(*                                                                         *)
(* Kinds of events:                                                        *)
(*   head                   a delta without text (role, empty, finish)     *)
(*   text, leak             content; a leak parses as a tool call          *)
(*   tool                   a delta with tool_calls                        *)
(*   fail                   content or an error event isErrorContent knows *)
(*   done                   "data: [DONE]"                                 *)
(*   resp                   a Responses-API event without output text      *)
(*   resptext, respleak, respfail   the same with the final output text    *)
(*   respcall               a Responses-API function_call item             *)
(***************************************************************************)
EXTENDS Naturals, Sequences, SequencesExt, FiniteSets

CONSTANTS
    Streams,    \* bodies the upstream may send, sequences of kinds
    Adapters,   \* "openai" (passes the data), "converting" (rewrites whole
                \* events, as anthropic and gemini do), "none" (raw handler)
    MaxPings    \* bound on the keepalive comments written

Kinds == {"head", "text", "leak", "tool", "fail", "done",
          "resp", "resptext", "respleak", "respfail", "respcall"}

ASSUME StreamsAssumption ==
    /\ \A s \in Streams : s \in Seq(Kinds)
    /\ Adapters \subseteq {"openai", "converting", "none"}
    /\ MaxPings \in Nat

VARIABLES
    body,       \* what the upstream sends
    adapter,    \* how the provider's stream is parsed
    loud,       \* the events whose line says "content" or "finish_reason"
    toolGate,   \* the request carried tools
    fed,        \* halves read so far
    pc,         \* "first", "read", "closing", "failing", "direct", "gone"
    pend,       \* chunks the handler has yet to pass to streamWriter.Write
    head,       \* the held pre-content head
    headOpen,   \* whether it is still held
    held,       \* bufferedChunks: [data, opens, ends]
    sentDone,   \* "[DONE]" was seen
    toolCalls,  \* streamHasToolCalls
    text,       \* the events whose text outputTextAccum holds
    active,     \* responsesBuffer.active
    buf,        \* responsesBuffer.buf
    out,        \* what the client was written
    written,    \* whether the header is out
    code,       \* the status in the header
    lineStart,  \* streamWriter.atLineStart
    pinger,     \* "none", "idle", "writing", "gone"
    pings,      \* comments written
    log         \* the usage log row: "none", "ok", "error"

reading  == <<body, adapter, loud, toolGate, fed>>
sorting  == <<pend, head, headOpen, held, sentDone, toolCalls, text, active, buf>>
client   == <<out, written, code, lineStart>>
keepalive == <<pinger, pings>>
vars == <<reading, pc, sorting, client, keepalive, log>>

-----------------------------------------------------------------------------
(* Events and chunks.                                                      *)

Kind(n)    == body[(n + 1) \div 2]
BackOf(i)  == 2 * i
FrontOf(i) == 2 * i - 1
Events    == DOMAIN body
Run(a, b) == [k \in 1..(b - a + 1) |-> <<"data", a + k - 1>>]

Whole(a, b) == {i \in Events : a <= FrontOf(i) /\ BackOf(i) <= b}
Torn(a, b)  == {i \in Events \ Whole(a, b) : \E n \in {FrontOf(i), BackOf(i)} : n \in a..b}
Are(K, I)   == {i \in I : body[i] \in K}

Responses == {"resp", "resptext", "respleak", "respfail", "respcall"}

(* A token ends at a line boundary unless it is the front half of an event. *)
EndsLine(tok) == tok[1] = "data" => tok[2] % 2 = 0

(* ParseStreamChunk of a converting adapter: a line of its own for every    *)
(* whole event with text or a role, and one empty delta when there is none. *)
Converted(a, b) ==
    LET said == Are({"head", "text", "leak"}, Whole(a, b))
    IN  IF said = {} THEN <<<<"blank", 0>>>>
        ELSE FlattenSeq([k \in Events |-> IF k \in said THEN <<<<"conv", k>>>> ELSE <<>>])

-----------------------------------------------------------------------------
(* The handler's output: the head is collected until a chunk opens it.      *)

Sink == [head |-> head, open |-> headOpen, pend |-> pend, ended |-> sentDone]

FlushHead(s) ==
    IF s.open THEN [s EXCEPT !.pend = Append(s.pend, s.head), !.head = <<>>, !.open = FALSE]
    ELSE s

(* A chunk is written, or joins the head while nothing has opened it.       *)
Emit(s, data, opens) ==
    LET f == IF opens THEN FlushHead(s) ELSE s
    IN  IF f.open THEN [f EXCEPT !.head = f.head \o data]
        ELSE [f EXCEPT !.pend = Append(f.pend, data)]

(* bufferedChunks are emitted in order; a "[DONE]" among them counts.       *)
EmitHeld(s, chunks) ==
    FoldLeft(LAMBDA t, c : [Emit(t, c.data, c.opens) EXCEPT !.ended = t.ended \/ c.ends],
             s, chunks)

Put(s) == /\ head' = s.head
          /\ headOpen' = s.open
          /\ pend' = s.pend
          /\ sentDone' = s.ended

-----------------------------------------------------------------------------
Init ==
    /\ body \in Streams
    /\ adapter \in Adapters
    /\ loud \in {L \in SUBSET Events : Are({"text", "leak"}, Events) \subseteq L /\ Are({"done"}, L) = {}}
    /\ toolGate \in BOOLEAN
    /\ fed = 0 /\ pc = "first"
    /\ pend = <<>> /\ head = <<>> /\ headOpen = TRUE /\ held = <<>>
    /\ sentDone = FALSE /\ toolCalls = FALSE /\ text = {}
    /\ active = FALSE /\ buf = <<>>
    /\ out = <<>> /\ written = FALSE /\ code = 200 /\ lineStart = TRUE
    /\ pinger = "none" /\ pings = 0
    /\ log = "none"

(* The first Read fails: a logged 502 and no stream.                        *)
EmptyBody ==
    /\ pc = "first"
    /\ log' = "error" /\ code' = 502 /\ written' = TRUE
    /\ out' = Append(out, <<"body", 0>>)
    /\ pc' = "gone"
    /\ UNCHANGED <<reading, sorting, lineStart, keepalive>>

(* startSSE after the first Read.                                           *)
StartSSE == pinger' = IF pc = "first" THEN "idle" ELSE pinger

(* responsesBuffer.observe takes the chunk for itself.                      *)
Observe(a, b, shown) ==
    /\ active' = (active \/ Are(Responses, shown) # {})
    /\ buf' = IF active' THEN buf \o Run(a, b) ELSE buf

(* The raw handler writes what observe does not take.                       *)
RelayRaw(a, b, shown) ==
    /\ adapter = "none"
    /\ Observe(a, b, shown)
    /\ pend' = IF active' THEN pend ELSE Append(pend, Run(a, b))
    /\ pc' = "read"
    /\ UNCHANGED <<head, headOpen, held, sentDone, toolCalls, text>>

(* extractDeltaContent: the text of the whole events, none of it when the   *)
(* chunk also holds "[DONE]".                                               *)
Heard(a, b, shown) ==
    IF Are({"done"}, shown) # {} THEN text ELSE text \cup Are({"text", "leak"}, Whole(a, b))

(* The adapter finds a failure in a whole event: the loop is left before    *)
(* anything of this chunk is forwarded, and the error is logged.            *)
UpstreamFails(a, b, shown) ==
    /\ adapter # "none"
    /\ Are({"fail"}, Whole(a, b)) # {}
    /\ sentDone' = (sentDone \/ Are({"done"}, shown) # {})
    /\ text' = Heard(a, b, shown)
    /\ pc' = "failing"
    /\ UNCHANGED <<pend, head, headOpen, held, toolCalls, active, buf>>

Parsed(a, b) == IF adapter = "converting" THEN Converted(a, b) ELSE Run(a, b)

(* Whether the chunk as forwarded is a tool call's or has a "[DONE]": what  *)
(* a converting adapter returns never does.                                 *)
Says(kind, shown) == adapter # "converting" /\ Are({kind}, shown) # {}

(* Variant: the first chunk opens the head whatever it says.                *)
OpensAtOnce(a, b) == {TRUE}

(* Whether it has "content" or "finish_reason": the answers it may give, as *)
(* either half of a torn event may hold the words.                          *)
Opens(a, b) ==
    IF adapter = "converting" THEN {loud \cap Are({"head", "text", "leak"}, Whole(a, b)) # {}}
    ELSE {loud \cap (Whole(a, b) \cup seen) # {} : seen \in SUBSET Torn(a, b)}

(* Held back: the request has tools and no tool call was seen yet.          *)
Hold(a, b, shown, ended) ==
    /\ \E opens \in Opens(a, b) :
          held' = Append(held, [data  |-> Parsed(a, b),
                                opens |-> opens \/ Says("done", shown),
                                ends  |-> Says("done", shown)])
    /\ sentDone' = ended
    /\ UNCHANGED <<pend, head, headOpen>>

(* Variant: what was held back is forgotten at the first tool call.         *)
ForwardForgetting(a, b, ended) ==
    /\ \E opens \in Opens(a, b) :
          Put(Emit([Sink EXCEPT !.ended = ended], Parsed(a, b), ended \/ opens))
    /\ held' = <<>>

(* Forwarded, after what was held back before the first tool call.          *)
Forward(a, b, ended) ==
    LET s == EmitHeld([Sink EXCEPT !.ended = ended], held)
        t == IF held # <<>> /\ s.ended THEN FlushHead(s) ELSE s
    IN  /\ \E opens \in Opens(a, b) : Put(Emit(t, Parsed(a, b), t.ended \/ opens))
        /\ held' = <<>>

(* One turn of the loop of handleStreamResponse without a failure.          *)
RelayChat(a, b, shown) ==
    LET ended == sentDone \/ Are({"done"}, shown) # {}
    IN  /\ adapter # "none"
        /\ Are({"fail"}, Whole(a, b)) = {}
        /\ text' = Heard(a, b, shown)
        /\ Observe(a, b, shown)
        /\ toolCalls' = (toolCalls \/ (~active' /\ Says("tool", shown)))
        /\ \/ active' /\ sentDone' = ended /\ UNCHANGED <<pend, head, headOpen, held>>
           \/ ~active' /\ toolGate /\ ~toolCalls' /\ Hold(a, b, shown, ended)
           \/ ~active' /\ (~toolGate \/ toolCalls') /\ Forward(a, b, ended)
        /\ pc' = "read"

(* A Read returns the halves up to b, torn events showing as they may; of a *)
(* torn "data: [DONE]" only the front half can.                             *)
Read(b) ==
    LET a == fed + 1
    IN  /\ pc \in {"first", "read"} /\ pend = <<>>
        /\ b \in a..(2 * Len(body))
        /\ fed' = b
        /\ \E seen \in SUBSET Torn(a, b) :
              /\ \A i \in Are({"done"}, seen) : FrontOf(i) >= a
              /\ LET shown == Whole(a, b) \cup seen
                 IN  RelayRaw(a, b, shown) \/ UpstreamFails(a, b, shown) \/ RelayChat(a, b, shown)
        /\ StartSSE
        /\ log' = IF pc' = "failing" THEN "error" ELSE log
        /\ UNCHANGED <<body, adapter, loud, toolGate, client, pings>>

(* streamWriter.Write: one chunk, under the mutex; an empty one still       *)
(* flushes, and so sends the header.                                        *)
Write ==
    /\ pend # <<>>
    /\ pinger # "writing"
    /\ pend' = Tail(pend)
    /\ out' = out \o Head(pend)
    /\ lineStart' = IF Head(pend) = <<>> THEN lineStart ELSE EndsLine(Last(Head(pend)))
    /\ written' = TRUE
    /\ UNCHANGED <<reading, pc, head, headOpen, held, sentDone, toolCalls, text, active, buf,
                   code, keepalive, log>>

-----------------------------------------------------------------------------
(* The end of the body.                                                     *)

(* responsesBuffer's finalText: the last output text reassembled in it.     *)
Buffered == {i \in Events : \A n \in {FrontOf(i), BackOf(i)} : <<"data", n>> \in ToSet(buf)}
Said     == Are({"resptext", "respleak", "respfail"}, Buffered)
FinalText == IF Said = {} THEN "none" ELSE body[CHOOSE i \in Said : \A j \in Said : j <= i]

(* The buffer holds a function_call item, whole or cut.                     *)
HasCall == \E tok \in ToSet(buf) : Kind(tok[2]) = "respcall"

(* The Responses stream said nothing but a known failure text.              *)
ResponsesFailed == active /\ FinalText = "respfail"

(* Everything held or buffered is turned into tool calls.                   *)
ResponsesLeaked ==
    adapter # "none" /\ active /\ toolGate /\ ~HasCall /\ FinalText = "respleak"
(* Variant: the text alone decides, whatever was forwarded.                 *)
ChatLeakedAnyway ==
    adapter # "none" /\ toolGate /\ text # {} /\ Are({"text"}, text) = {}

ChatLeaked ==
    /\ adapter # "none" /\ toolGate /\ ~toolCalls
    /\ held # <<>> /\ text # {} /\ Are({"text"}, text) = {}

(* Variant: a failure inside the stream is not logged.                      *)
EndFailedQuietly ==
    /\ ResponsesFailed
    /\ IF written THEN pend' = <<<<<<"event", 0>>>>>> /\ pc' = "closing" /\ UNCHANGED log
       ELSE pc' = "failing" /\ log' = "error" /\ UNCHANGED pend
    /\ UNCHANGED <<head, headOpen, held, sentDone>>

(* writeResponsesFailure: an in-stream event when something was written,    *)
(* else the plain error body.                                               *)
EndFailed ==
    /\ ResponsesFailed
    /\ log' = "error"
    /\ IF written THEN pend' = <<<<<<"event", 0>>>>>> /\ pc' = "closing"
       ELSE pc' = "failing" /\ UNCHANGED pend
    /\ UNCHANGED <<head, headOpen, held, sentDone>>

(* The synthesized tool calls and a "[DONE]" replace the stream.            *)
EndLeaked ==
    /\ ~ResponsesFailed /\ (ResponsesLeaked \/ ChatLeaked)
    /\ pend' = <<<<<<"fix", 0>>>>, <<<<"done", 0>>>>>>
    /\ pc' = "closing"
    /\ UNCHANGED <<head, headOpen, held, sentDone, log>>

(* Variant: "[DONE]" is only added to a stream whose head was opened.       *)
EndPlainUnended ==
    /\ ~ResponsesFailed /\ ~ResponsesLeaked /\ ~ChatLeaked
    /\ LET s == IF adapter = "none" THEN Sink ELSE FlushHead(EmitHeld(Sink, held))
           r == IF active THEN Append(s.pend, buf) ELSE s.pend
       IN  Put([s EXCEPT !.pend = IF adapter = "none" \/ s.ended \/ headOpen THEN r
                                  ELSE Append(r, <<<<"done", 0>>>>)])
    /\ held' = <<>>
    /\ pc' = "closing"
    /\ UNCHANGED log

(* The held chunks, the head and the Responses buffer are written; the chat *)
(* handler adds "[DONE]" when none was seen.                                *)
EndPlain ==
    /\ ~ResponsesFailed /\ ~ResponsesLeaked /\ ~ChatLeaked
    /\ LET s == IF adapter = "none" THEN Sink ELSE FlushHead(EmitHeld(Sink, held))
           r == IF active THEN Append(s.pend, buf) ELSE s.pend
       IN  Put([s EXCEPT !.pend = IF adapter = "none" \/ s.ended THEN r
                                  ELSE Append(r, <<<<"done", 0>>>>)])
    /\ held' = <<>>
    /\ pc' = "closing"
    /\ UNCHANGED log

(* Read reports the end of the body or a broken connection, at any half.    *)
EndOfBody ==
    /\ pc = "read" /\ pend = <<>>
    /\ EndFailed \/ EndLeaked \/ EndPlain
    /\ UNCHANGED <<reading, toolCalls, text, active, buf, client, keepalive>>

(* writeStreamUpstreamError writes to c.Writer itself, past streamWriter    *)
(* and its mutex; a status set after the header is out is ignored.          *)
DirectBegin ==
    /\ pc = "failing"
    /\ code' = IF written THEN code ELSE 503
    /\ pc' = "direct"
    /\ UNCHANGED <<reading, sorting, out, written, lineStart, keepalive, log>>

(* The write ends, the handler returns and close(done) stops the pinger.    *)
DirectEnd ==
    /\ pc = "direct"
    /\ out' = Append(out, <<"body", 0>>)
    /\ written' = TRUE
    /\ pc' = "gone"
    /\ UNCHANGED <<reading, sorting, code, lineStart, keepalive, log>>

(* The last chunk is written: the usage is logged and the handler returns.  *)
Return ==
    /\ pc = "closing" /\ pend = <<>>
    /\ log' = IF log = "none" THEN "ok" ELSE log
    /\ pc' = "gone"
    /\ UNCHANGED <<reading, sorting, client, keepalive>>

-----------------------------------------------------------------------------
(* The keepalive goroutine.                                                 *)

(* Variant: a tick writes wherever the stream is.                           *)
PingBeginAnywhere ==
    /\ pinger = "idle"
    /\ pings < MaxPings
    /\ pinger' = "writing"
    /\ UNCHANGED <<reading, pc, sorting, client, pings, log>>

(* A tick takes the mutex at a line boundary; elsewhere it writes nothing.  *)
PingBegin ==
    /\ pinger = "idle" /\ lineStart
    /\ pings < MaxPings
    /\ pinger' = "writing"
    /\ UNCHANGED <<reading, pc, sorting, client, pings, log>>

PingEnd ==
    /\ pinger = "writing"
    /\ out' = Append(out, <<"ping", 0>>)
    /\ written' = TRUE
    /\ pings' = pings + 1
    /\ pinger' = "idle"
    /\ UNCHANGED <<reading, pc, sorting, code, lineStart, log>>

(* It meets the closed channel between two ticks.                           *)
PingerExit ==
    /\ pinger = "idle" /\ pc = "gone"
    /\ pinger' = "gone"
    /\ UNCHANGED <<reading, pc, sorting, client, pings, log>>

(* The stream is over.                                                      *)
Over == pc = "gone" /\ pinger \in {"none", "gone"} /\ UNCHANGED vars

Handler == \/ EmptyBody \/ Write \/ EndOfBody \/ DirectBegin \/ DirectEnd \/ Return
           \/ \E b \in 1..(2 * Len(body)) : Read(b)
Pinger  == PingBegin \/ PingEnd \/ PingerExit
Next    == Handler \/ Pinger \/ Over
Spec    == Init /\ [][Next]_vars

-----------------------------------------------------------------------------
(* Properties.                                                              *)

Token == {"data", "conv", "blank", "ping", "fix", "done", "event", "body"} \X Nat
Sent(kind) == \E tok \in ToSet(out) : tok[1] = kind

(* The variables keep their types; only a Responses stream is buffered and  *)
(* only a request with tools is held back.                                  *)
TypeOK ==
    /\ body \in Streams /\ adapter \in Adapters /\ loud \subseteq Events /\ toolGate \in BOOLEAN
    /\ fed \in 0..(2 * Len(body))
    /\ pc \in {"first", "read", "closing", "failing", "direct", "gone"}
    /\ out \in Seq(Token) /\ head \in Seq(Token) /\ buf \in Seq(Token)
    /\ pend \in Seq(Seq(Token))
    /\ held \in Seq([data : Seq(Token), opens : BOOLEAN, ends : BOOLEAN])
    /\ headOpen \in BOOLEAN /\ sentDone \in BOOLEAN /\ toolCalls \in BOOLEAN
    /\ text \subseteq Events
    /\ active \in BOOLEAN /\ (buf # <<>> => active)
    /\ held # <<>> => toolGate
    /\ written \in BOOLEAN /\ code \in {200, 502, 503} /\ lineStart \in BOOLEAN
    /\ pinger \in {"none", "idle", "writing", "gone"} /\ pings \in 0..MaxPings
    /\ log \in {"none", "ok", "error"}

(* Where the data is passed through, every byte read is with the client or  *)
(* in exactly one of the handler's stores, in the order it was read, until  *)
(* an error or synthesized tool calls take its place: head, bufferedChunks, *)
(* the Responses buffer and the writes never lose, repeat or swap a chunk.  *)
Data(seq) ==
    FlattenSeq([k \in DOMAIN seq |-> IF seq[k][1] = "data" THEN <<seq[k]>> ELSE <<>>])
Stored == FlattenSeq(pend) \o head \o FlattenSeq([k \in DOMAIN held |-> held[k].data])
Replaced == \E tok \in ToSet(out \o FlattenSeq(pend)) : tok[1] = "fix"
NothingLost ==
    /\ TypeOK
    /\ adapter # "converting" /\ log # "error" /\ pc # "failing" /\ ~Replaced =>
        Data(out \o Stored) \o (IF pc \in {"first", "read"} THEN buf ELSE <<>>) = Run(1, fed)

(* A keepalive comment never follows the front half of an event, whatever   *)
(* chunks the upstream's body comes in (WriteKeepAlive's atLineStart).      *)
PingSplitsNoLine ==
    \A k \in 2..Len(out) : out[k][1] = "ping" => EndsLine(out[k - 1])

(* When synthesized tool calls are sent, nothing of the stream they replace *)
(* was or is sent: the client never sees the leak beside the call.  (A body *)
(* that calls a tool as a chat and goes on as a Responses stream is not     *)
(* covered: streamHasToolCalls is not asked before the latter is replaced.) *)
Mixed == \E i, j \in Events : body[i] = "tool" /\ body[j] \in Responses
LeakReplaced ==
    Sent("fix") /\ ~Mixed => ~\E tok \in ToSet(out) : tok[1] \in {"data", "conv", "blank"}

(* A request whose client was answered with an error, as a status or inside *)
(* the stream, is logged as one, and no other is.  An error body goes out   *)
(* under status 200 only when something forced the header out before: a     *)
(* line with "content" or "finish_reason", "[DONE]" or a keepalive.  The    *)
(* lines in front with none of these never do, however they were split,     *)
(* held back or collected.                                                  *)
Forcing(tok) ==
    \/ tok[1] = "ping"
    \/ tok[1] = "data" /\ (adapter = "none" \/ Kind(tok[2]) = "done" \/ (tok[2] + 1) \div 2 \in loud)
    \/ tok[1] = "conv" /\ tok[2] \in loud
LoggedAsSeen ==
    /\ pc = "gone" => (log = "error" <=> Sent("body") \/ Sent("event"))
    /\ Sent("body") /\ code = 200 => sentDone \/ \E tok \in ToSet(out) : Forcing(tok)

(* A chat stream that is logged as a success ended with a "[DONE]" of the   *)
(* upstream's or of the handler's own.                                      *)
Terminated ==
    pc = "gone" /\ log = "ok" /\ adapter = "openai" =>
        \E tok \in ToSet(out) : \/ tok[1] = "done"
                                \/ tok[1] = "data" /\ Kind(tok[2]) = "done"

(* "Both the pinger and the main thread use the same *streamWriter to avoid *)
(* concurrent access to c.Writer" (stream.go:62): nobody writes an error or *)
(* has returned the writer while the pinger writes.                         *)
OneAtTheWriter == pinger = "writing" => pc \notin {"direct", "gone"}

(* "Interruptions are temporary -> 503 retryable" (stream.go:80): an error  *)
(* body never goes out under status 200.                                    *)
InterruptionIs503 == Sent("body") => code # 200

=============================================================================
