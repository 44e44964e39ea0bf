--------------------------- MODULE EventStreams ---------------------------
(***************************************************************************)
(* The two handlers that answer with the events of an API the provider     *)
(* does not speak: handleResponsesStream (/v1/responses) and               *)
(* handleMessagesStreamResponse (/v1/messages), with the chunk parsers of  *)
(* the three adapters.  One request is followed from the provider's first  *)
(* byte to the usage log.                                                  *)
(*                                                                         *)
(* The provider sends lines; a read of the body returns some of them and   *)
(* may end inside the last one.  The adapters look at each read by itself, *)
(* so a line torn by a read is invisible to them; handleResponsesStream    *)
(* keeps the bytes an adapter passes through and joins such a line again.  *)
(*                                                                         *)
(* A line is [k, i, n]: its kind, the index of the tool call it belongs to *)
(* and its position, which stands for the text, arguments or token count   *)
(* it carries.  The kinds are                                              *)
(*   role                       the opening of the answer                  *)
(*   text, leak                 content; a leak parses as a tool call      *)
(*   call, callargs, args       a call's first delta, without or with      *)
(*                              arguments, and more of its arguments       *)
(*   stop, length               the end of the answer and its reason       *)
(*   usage, done                the token counts and the [DONE] marker     *)
(*   fail                       an error written as content                *)
(***************************************************************************)
EXTENDS Naturals, Sequences, FiniteSets, SequencesExt

CONSTANTS
    MaxLines,      \* bound: lines the provider sends
    MaxInRead,     \* bound: lines that wait to be read
    MaxCalls       \* bound: tool calls of one answer

ASSUME BoundsAssumption ==
    MaxLines \in Nat /\ MaxInRead \in Nat \ {0} /\ MaxCalls \in Nat

VARIABLES
    api,           \* "responses" or "messages": what the client speaks
    provider,      \* "openai", "anthropic" or "gemini": what the provider speaks
    holding,       \* the request has tools and no real call has been seen
    sent,          \* every line the provider has sent
    chunk,         \* the lines of it that are not read yet
    torn,          \* the line a read ended in, if any
    lost,          \* positions of the lines no adapter saw
    lines,         \* the lines of the last read still to be handled
    failed,        \* state["upstream_error"] is set
    tokens,        \* totalOutputTokens
    accum,         \* outputTextAccum
    started,       \* contentStarted
    pending,       \* pendingEvents
    current,       \* the item that is open
    items,         \* outputItems
    heldText,      \* text that may turn out to be a call
    finish,        \* finishReason
    out,           \* streamBuf: the events of the Messages API so far
    wire,          \* the events written to the client, keepalive comments aside
    status,        \* the status of the response: "none" before the first byte
    pinged,        \* a keepalive comment was written
    logs           \* the rows given to usageService.Log

provided == <<api, provider>>
upstream == <<sent, chunk, torn, lost>>
reading  == <<failed, tokens>>
answer   == <<started, pending, current, items, finish, wire, status, pinged>>
vars == <<provided, upstream, reading, answer, holding, heldText, lines, accum, out, logs>>

-----------------------------------------------------------------------------
(* What the provider sends.                                                *)

Content  == {"text", "leak", "fail"}
ToolKind == {"call", "callargs", "args"}
Ends     == {"stop", "length"}

LineKinds == {"role"} \cup Content \cup ToolKind \cup Ends \cup {"usage", "done"}

Kinds == [ openai    |-> LineKinds,
           anthropic |-> {"role"} \cup Content \cup ToolKind \cup Ends \cup {"done"},
           gemini    |-> Content \cup Ends ]

SentKinds == {sent[p].k : p \in DOMAIN sent}
CallKind  == {"call", "callargs"}
Calls     == Cardinality({p \in DOMAIN sent : sent[p].k \in CallKind})

\* The order in which a provider sends its lines.
MayFollow(k) ==
    /\ SentKinds \cap {"done", "fail"} = {}
    /\ CASE k = "role"  -> sent = <<>>
         [] k = "args"  -> sent # <<>> /\ Last(sent).k \in ToolKind
         [] k \in CallKind -> SentKinds \cap Ends = {} /\ Calls < MaxCalls
         [] k = "usage" -> SentKinds \cap Ends # {} /\ "usage" \notin SentKinds
         [] k = "done"  -> SentKinds \cap Ends # {}
         [] OTHER       -> SentKinds \cap Ends = {}

Done == logs # <<>>

\* The provider's next line reaches the proxy.
Arrive ==
    /\ lines = <<>> /\ ~Done
    /\ Len(sent) < MaxLines /\ Len(chunk) < MaxInRead
    /\ \E k \in Kinds[provider] :
          /\ MayFollow(k)
          /\ LET i == IF k \in CallKind THEN Calls ELSE IF k = "args" THEN Last(sent).i ELSE 0
                 l == [k |-> k, i |-> i, n |-> Len(sent) + 1]
             IN sent' = Append(sent, l) /\ chunk' = Append(chunk, l)
    /\ UNCHANGED <<provided, torn, lost, reading, answer, holding, heldText, lines, accum, out, logs>>

-----------------------------------------------------------------------------
(* A read, and what an adapter makes of it.                                *)

\* An adapter that rewrites the stream works on whole lines only.
Converts == IF api = "responses" THEN provider # "openai" ELSE provider # "anthropic"

\* The lines on which the provider reports its token counts.
Reports(l) ==
    CASE provider = "openai"    -> l.k = "usage"
      [] provider = "anthropic" -> l.k \in Ends
      [] provider = "gemini"    -> l.k \notin {"fail"}

TokensOf(whole) ==
    LET told == {p \in DOMAIN whole : Reports(whole[p])}
    IN IF told = {} THEN 0 ELSE whole[Max(told)].n

\* A read without a count leaves the total alone.
CountTokens(whole) ==
    LET t == TokensOf(whole) IN IF t > 0 THEN t ELSE tokens

\* The positions of the lines of some kinds.
PositionsOf(ls, kinds) ==
    FlattenSeq([p \in DOMAIN ls |-> IF ls[p].k \in kinds THEN <<ls[p].n>> ELSE <<>>])

\* extractDeltaContent: a read that holds an end marker is skipped altogether,
\* and Gemini's lines are not understood.
Counted(whole) ==
    LET marker == IF provider = "openai" THEN {"done"} ELSE {"done"} \cup Ends
        skipped == \E p \in DOMAIN whole : whole[p].k \in marker
    IN IF provider = "gemini" \/ skipped THEN <<>>
       ELSE PositionsOf(whole, Content)

\* What is left of the lines once the adapter has rewritten them for the
\* Responses handler: tool calls of Anthropic and Gemini are not translated,
\* Anthropic's reason is always "stop", Gemini's is dropped.
Rewrite(l) ==
    CASE provider = "openai" \/ l.k \in Content -> <<l>>
      [] provider = "anthropic" /\ l.k \in Ends -> <<[k |-> "stop", i |-> l.i, n |-> l.n]>>
      [] OTHER -> <<>>

Rewritten(ls) == FlattenSeq([p \in DOMAIN ls |-> Rewrite(ls[p])])

\* The body is read; cut says that the read ends inside its last line.
Read(cut) ==
    LET whole == IF cut THEN Front(chunk) ELSE chunk
        joined == torn \o whole
        fails == \E p \in DOMAIN whole : whole[p].k = "fail"
    IN
    /\ lines = <<>> /\ ~Done /\ ~(failed /\ api = "responses")
    /\ chunk # <<>> \/ (torn # <<>> /\ ~cut)
    /\ chunk' = <<>>
    /\ torn' = IF cut THEN <<Last(chunk)>> ELSE <<>>
    /\ lost' = IF cut THEN lost \cup {Last(chunk).n} ELSE lost
    /\ failed' = (failed \/ fails)
    /\ tokens' = CountTokens(whole)
    /\ accum' = IF api = "messages" THEN accum \o Counted(whole) ELSE accum
    /\ lines' = IF failed' THEN <<>>
                ELSE IF api = "responses" THEN Rewritten(IF Converts THEN whole ELSE joined)
                ELSE IF Converts THEN whole ELSE joined
    /\ UNCHANGED <<provided, sent, answer, holding, heldText, out, logs>>

-----------------------------------------------------------------------------
(* handleResponsesStream: the events are [e, k, i, c], what happens, the kind *)
(* of item, its output_index and its content (positions of lines).         *)

Event(e, k, i, c) == [e |-> e, k |-> k, i |-> i, c |-> c]
Bare(e) == Event(e, "none", 0, <<>>)

NoItem == [k |-> "none", call |-> 0, c |-> <<>>]

\* A step works on the events it emits, the open item and the closed ones.
Now == [ev |-> <<>>, cur |-> current, items |-> items]

CloseItem(s) ==
    IF s.cur = NoItem THEN s
    ELSE [ ev    |-> Append(s.ev, Event("close", s.cur.k, Len(s.items), s.cur.c)),
           cur   |-> NoItem,
           items |-> Append(s.items, s.cur) ]

OpenItem(s, k, call) ==
    [ ev    |-> Append(s.ev, Event("open", k, Len(s.items), <<>>)),
      cur   |-> [k |-> k, call |-> call, c |-> <<>>],
      items |-> s.items ]

OpenMessage(s) ==
    IF s.cur.k = "message" THEN s ELSE OpenItem(CloseItem(s), "message", 0)

Delta(s, c) ==
    [ ev    |-> Append(s.ev, Event("delta", s.cur.k, Len(s.items), c)),
      cur   |-> [k |-> s.cur.k, call |-> s.cur.call, c |-> s.cur.c \o c],
      items |-> s.items ]

\* Variant: the held text is shown but not kept for the item that is closed.
FlushHeldUnkept(s) ==
    IF heldText = <<>> THEN s
    ELSE LET o == OpenMessage(s)
         IN [o EXCEPT !.ev = Append(@, Event("delta", "message", Len(o.items), heldText))]

FlushHeld(s) == IF heldText = <<>> THEN s ELSE Delta(OpenMessage(s), heldText)

\* emit: before the first content the events wait.
Emit(s, now) ==
    /\ started' = now
    /\ IF now THEN wire' = wire \o pending \o s.ev /\ pending' = <<>> /\ status' = "ok"
              ELSE pending' = pending \o s.ev /\ UNCHANGED <<wire, status>>
    /\ current' = s.cur
    /\ items' = s.items
    /\ UNCHANGED pinged

\* Variant: the open item is not closed first.
CallItemUnclosed(s, l) ==
    IF s.cur.k = "function_call" /\ s.cur.call = l.i THEN s
    ELSE OpenItem(s, "function_call", l.i)

\* A call's delta goes to the open item of that call, or to a new one.
CallItem(s, l) ==
    IF s.cur.k = "function_call" /\ s.cur.call = l.i THEN s
    ELSE OpenItem(CloseItem(s), "function_call", l.i)

HasArguments(l) == l.k \in {"callargs", "args"}

\* Variant: the text held so far is not shown before the first real call.
OnCallForgetting(l) ==
    LET opened == CallItem(Now, l)
    IN
    /\ l.k \in ToolKind
    /\ Emit(IF HasArguments(l) THEN Delta(opened, <<l.n>>) ELSE opened, started)
    /\ holding' = FALSE
    /\ heldText' = <<>>
    /\ UNCHANGED <<accum, finish>>

\* Variant: a call's delta counts as content, the events no longer wait.
OnCallStarting(l) ==
    LET flushed == IF holding THEN FlushHeld(Now) ELSE Now
        opened  == CallItem(flushed, l)
    IN
    /\ l.k \in ToolKind
    /\ Emit(IF HasArguments(l) THEN Delta(opened, <<l.n>>) ELSE opened, TRUE)
    /\ holding' = FALSE
    /\ heldText' = IF holding THEN <<>> ELSE heldText
    /\ UNCHANGED <<accum, finish>>

OnCall(l) ==
    LET flushed == IF holding THEN FlushHeld(Now) ELSE Now
        opened  == CallItem(flushed, l)
    IN
    /\ l.k \in ToolKind
    /\ Emit(IF HasArguments(l) THEN Delta(opened, <<l.n>>) ELSE opened, started)
    /\ holding' = FALSE
    /\ heldText' = IF holding THEN <<>> ELSE heldText
    /\ UNCHANGED <<accum, finish>>

OnText(l) ==
    /\ l.k \in Content
    /\ accum' = Append(accum, l.n)
    /\ IF holding
       THEN Emit(Now, TRUE) /\ heldText' = Append(heldText, l.n)
       ELSE Emit(Delta(OpenMessage(Now), <<l.n>>), TRUE) /\ UNCHANGED heldText
    /\ UNCHANGED <<holding, finish>>

OnFinish(l) ==
    /\ l.k \in Ends
    /\ finish' = l.k
    /\ Emit(Now, TRUE)
    /\ UNCHANGED <<holding, heldText, accum>>

OnOther(l) ==
    /\ l.k \in {"role", "usage", "done"}
    /\ UNCHANGED <<answer, holding, heldText, accum>>

ResponsesLine ==
    /\ api = "responses" /\ lines # <<>>
    /\ lines' = Tail(lines)
    /\ \/ OnCall(Head(lines))
       \/ OnText(Head(lines))
       \/ OnFinish(Head(lines))
       \/ OnOther(Head(lines))
    /\ UNCHANGED <<provided, upstream, reading, out, logs>>

\* startKeepAlive: from the first byte of the body on a ticker writes comments
\* between the events, and the first of them fixes the status to 200.
Ping ==
    /\ api = "responses" /\ ~Done
    /\ Len(chunk) < Len(sent)
    /\ pinged' = TRUE
    /\ status' = IF status = "none" THEN "ok" ELSE status
    /\ UNCHANGED <<provided, upstream, reading, started, pending, current, items, finish, wire,
                   holding, heldText, lines, accum, out, logs>>

\* The body has ended, or a read failed: nothing more is read.
Ended ==
    /\ ~Done /\ lines = <<>>
    /\ chunk = <<>> \/ (failed /\ api = "responses")

Log(error, n) == logs' = Append(logs, [error |-> error, tokens |-> n])

\* The provider's error, or a body without a byte, ends the answer; its status
\* is the client's only if nothing was written before.
Refuse ==
    /\ wire' = Append(wire, Bare("error"))
    /\ status' = IF status = "none" THEN "error" ELSE status
    /\ Log(TRUE, 0)
    /\ UNCHANGED <<started, pending, current, items, finish, pinged, holding, heldText, accum>>

\* parseContentAsToolCalls: the calls the held text turns out to be.
LeakedIn(text) ==
    FlattenSeq([p \in DOMAIN text |-> IF sent[text[p]].k = "leak" THEN <<text[p]>> ELSE <<>>])

\* Each of them becomes an item; the text around them is dropped.
LeakedItem(s, n) ==
    [ ev    |-> s.ev \o << Event("open", "function_call", Len(s.items), <<>>),
                           Event("close", "function_call", Len(s.items), <<n>>) >>,
      cur   |-> s.cur,
      items |-> Append(s.items, [k |-> "function_call", call |-> 0, c |-> <<n>>]) ]

EndItems ==
    LET leaked == IF holding THEN LeakedIn(heldText) ELSE <<>>
    IN IF leaked # <<>> THEN CloseItem(FoldLeft(LeakedItem, Now, leaked))
       ELSE CloseItem(IF holding THEN FlushHeld(Now) ELSE Now)

\* Variant: the text is not counted when the provider reports no tokens.
ChargeReported(text) == tokens

\* The tokens of the row: the provider's count, else the counted text, which
\* the arguments replace when the text was a leaked call.
Charge(text) == IF tokens > 0 THEN tokens ELSE Len(text)

Complete ==
    LET s == EndItems
        how == IF finish = "length" THEN "incomplete" ELSE "completed"
        all == [s EXCEPT !.ev = @ \o <<Event(how, "none", Len(s.items), <<>>), Bare("done")>>]
    IN
    /\ Emit(all, TRUE)
    /\ accum' = IF holding /\ LeakedIn(heldText) # <<>> THEN LeakedIn(heldText) ELSE accum
    /\ Log(FALSE, Charge(accum'))
    /\ heldText' = <<>>
    /\ holding' = FALSE
    /\ UNCHANGED finish

EndResponses ==
    /\ api = "responses" /\ Ended
    /\ IF failed \/ sent = <<>> THEN Refuse ELSE Complete
    /\ UNCHANGED <<provided, upstream, reading, lines, out>>

-----------------------------------------------------------------------------
(* handleMessagesStreamResponse and messagesStreamWriter: the whole stream  *)
(* is collected in out and written when the body has ended.                *)

Has(e, evs) == \E p \in DOMAIN evs : evs[p].e = e

\* Variant: asked of the events of this chunk, not of the stream's state.
EnsureStartedAgain(o) == o \o <<Bare("start"), Event("open", "text", 0, <<>>)>>

\* ensureStarted: message_start and the text block 0.
EnsureStarted(o) ==
    IF Has("start", o) THEN o ELSE o \o <<Bare("start"), Event("open", "text", 0, <<>>)>>

\* finish: the text block is closed and the message ended, once.
WriteFinish(o) ==
    IF Has("stop", o) THEN o
    ELSE EnsureStarted(o) \o <<Event("close", "text", 0, <<>>), Bare("reason"), Bare("stop")>>

ToolStarted(i) == \E p \in DOMAIN out : out[p].e = "open" /\ out[p].k = "tool_use" /\ out[p].i = i

CallDelta(l) ==
    IF HasArguments(l) THEN <<Event("delta", "tool_use", l.i, <<l.n>>)>> ELSE <<>>

\* A call's block starts with the delta that has its id; arguments of a call
\* that was never started are dropped.
WriteCall(o, l) ==
    IF l.k \in CallKind /\ ~ToolStarted(l.i)
    THEN EnsureStarted(o) \o <<Event("open", "tool_use", l.i, <<>>)>> \o CallDelta(l)
    ELSE IF ToolStarted(l.i) THEN o \o CallDelta(l) ELSE o

\* ParseMessagesStreamChunk of the three adapters, for one line.
Translate(o, l) ==
    CASE provider = "anthropic"                 -> Append(o, Event("raw", l.k, l.i, <<l.n>>))
      [] provider # "anthropic" /\ l.k \in Content ->
            Append(EnsureStarted(o), Event("delta", "text", 0, <<l.n>>))
      [] provider = "openai" /\ l.k = "role"    -> EnsureStarted(o)
      [] provider = "openai" /\ l.k \in ToolKind -> WriteCall(o, l)
      [] provider # "anthropic" /\ l.k \in Ends \cup {"done"} -> WriteFinish(o)
      [] OTHER                                  -> o

MessagesLine ==
    /\ api = "messages" /\ lines # <<>>
    /\ lines' = Tail(lines)
    /\ out' = Translate(out, Head(lines))
    /\ UNCHANGED <<provided, upstream, reading, answer, holding, heldText, accum, logs>>

\* Anthropic's bytes are passed through: of a line the body ended in, the half
\* that came is part of the answer.
PassedThrough == api = "messages" /\ provider = "anthropic"

Half == IF PassedThrough THEN [p \in DOMAIN torn |-> Bare("half")] ELSE <<>>

EndMessages ==
    /\ api = "messages" /\ Ended
    /\ IF failed \/ out \o Half = <<>>
       THEN Refuse
       ELSE /\ wire' = wire \o out \o Half
            /\ status' = "ok"
            /\ Log(FALSE, Charge(accum))
            /\ UNCHANGED <<started, pending, current, items, finish, pinged, holding, heldText, accum>>
    /\ UNCHANGED <<provided, upstream, reading, lines, out>>

-----------------------------------------------------------------------------

Init ==
    /\ api \in {"responses", "messages"}
    /\ provider \in DOMAIN Kinds
    /\ holding \in (IF api = "responses" THEN BOOLEAN ELSE {FALSE})
    /\ sent = <<>> /\ chunk = <<>> /\ torn = <<>> /\ lost = {}
    /\ lines = <<>> /\ failed = FALSE /\ tokens = 0 /\ accum = <<>>
    /\ started = FALSE
    /\ pending = IF api = "responses" THEN <<Bare("created")>> ELSE <<>>
    /\ current = NoItem /\ items = <<>> /\ heldText = <<>> /\ finish = ""
    /\ out = <<>> /\ wire = <<>> /\ status = "none" /\ pinged = FALSE /\ logs = <<>>

Next ==
    \/ Arrive
    \/ \E cut \in BOOLEAN : (cut => chunk # <<>>) /\ Read(cut)
    \/ ResponsesLine
    \/ MessagesLine
    \/ Ping
    \/ EndResponses
    \/ EndMessages

Spec == Init /\ [][Next]_vars

-----------------------------------------------------------------------------
(* Properties.                                                             *)

Events == [e : {"created", "open", "delta", "close", "completed", "incomplete", "done",
                "start", "reason", "stop", "raw", "half", "error"},
           k : {"none", "message", "function_call", "text", "tool_use"} \cup LineKinds,
           i : Nat, c : Seq(1 .. MaxLines)]

\* The variables have their types: the handler keeps no more lines than it was
\* sent, and gives the usage log one row at most, at the end.
TypeOK ==
    /\ api \in {"responses", "messages"} /\ provider \in DOMAIN Kinds
    /\ Len(sent) <= MaxLines /\ Len(chunk) <= MaxInRead /\ Len(torn) <= 1
    /\ lost \subseteq 1 .. MaxLines /\ failed \in BOOLEAN /\ tokens \in 0 .. MaxLines
    /\ \A evs \in {pending, out, wire} : \A p \in DOMAIN evs : evs[p] \in Events
    /\ started \in BOOLEAN /\ holding \in BOOLEAN /\ finish \in Ends \cup {""}
    /\ status \in {"none", "ok", "error"} /\ pinged \in BOOLEAN
    /\ Len(logs) <= 1

\* Everything handleResponsesStream has said or is about to say.
Said == wire \o pending

Before(p, e) == {q \in 1 .. p - 1 : Said[q].e = e}

\* The variables have their types.  The items of a Responses stream follow one
\* another: an item is added with the next output_index when none is open, its
\* deltas and its done event bear that index and kind, and the response ends
\* with no item open and with as many items in its output as were announced
\* (closeItem, openMessage, openFunctionCall, flushHeld and the leaked calls,
\* which work on one counter).
ItemsFollow ==
    /\ TypeOK
    /\ api = "responses" =>
        \A p \in DOMAIN Said :
            LET opened == Cardinality(Before(p, "open"))
                closed == Cardinality(Before(p, "close"))
                ev == Said[p]
            IN
            /\ ev.e = "open" => opened = closed /\ ev.i = closed
            /\ ev.e \in {"delta", "close"} =>
                  /\ opened = closed + 1 /\ ev.i = closed
                  /\ \A q \in Before(p, "open") : Said[q].i = ev.i => Said[q].k = ev.k
            /\ ev.e \in {"completed", "incomplete"} => opened = closed /\ ev.i = closed

\* What the events of a kind carry, for the items or blocks of some indices.
Gathered(evs, e, indices) ==
    FlattenSeq([p \in DOMAIN evs |->
        IF evs[p].e = e /\ evs[p].i \in indices THEN evs[p].c ELSE <<>>])

\* What a done event gives as the item's full text or arguments is what the
\* deltas of that item add up to: a client that listens to deltas and one that
\* waits for the end have the same answer.  Only a leaked call has no deltas.
DeltasAddUp ==
    api = "responses" =>
        \A p \in DOMAIN Said : Said[p].e = "close" =>
            \/ Gathered(Said, "delta", {Said[p].i}) = Said[p].c
            \/ /\ \A q \in DOMAIN Said : Said[q].e = "delta" => Said[q].i # Said[p].i
               /\ \A q \in DOMAIN Said[p].c : sent[Said[p].c[q]].k = "leak"

\* The p-th line of the provider reached an adapter in one piece, or the
\* handler joined it again.
Received(p) == IF Converts THEN p \notin lost ELSE \A q \in DOMAIN torn : torn[q].n # p

\* It has text or arguments; the Messages API has no place for the arguments of
\* a call whose beginning was not received.
Carries(p) ==
    \/ PassedThrough \/ sent[p].k \in Content
    \/ /\ provider = "openai" /\ HasArguments(sent[p])
       /\ api = "messages" => \E q \in DOMAIN sent :
                                 Received(q) /\ sent[q].k \in CallKind /\ sent[q].i = sent[p].i

Shown ==
    FlattenSeq([p \in DOMAIN sent |-> IF Received(p) /\ Carries(p) THEN <<p>> ELSE <<>>])

\* An answer that was not refused gives the client every piece of text and of
\* arguments it received, once and in the provider's order, unless the text
\* turned out to be a leaked call (text held back for the tools, items per
\* call, blocks per index and the lines joined over two reads are where one
\* could be lost or overtaken).
AllDelivered ==
    /\ Done /\ ~logs[1].error
    /\ ~\E p \in DOMAIN wire : wire[p].e = "close" /\ wire[p].k = "function_call"
                               /\ \E q \in DOMAIN wire[p].c : sent[wire[p].c[q]].k = "leak"
    => Gathered(wire, IF PassedThrough THEN "raw" ELSE "delta", Nat) = Shown

\* An error the provider sends before any content is a clean refusal: of the
\* events prepared so far none is written, and the client is given the error's
\* own status unless a keepalive comment has fixed it to 200 before.  The
\* Messages handler owes that for an error at any point; after content the
\* error is the last thing the client gets.
RefusedClean ==
    Done /\ logs[1].error =>
        /\ Last(wire) = Bare("error")
        /\ \/ wire = <<Bare("error")>> /\ (status = "error" \/ pinged)
           \/ /\ api = "responses" /\ status = "ok"
              /\ \E p \in DOMAIN sent : Received(p) /\ sent[p].k \in {"text", "leak"} \cup Ends

\* A translated Messages stream without tool calls is the one message Anthropic
\* documents: start, one text block, deltas, end of the block, reason, stop; and
\* it ends exactly when the provider said so.  With calls, each is one tool_use
\* block, started before any of its arguments and never twice, whichever reads
\* its deltas came in.
ToolBlocksStart ==
    \A p \in DOMAIN out : out[p].k = "tool_use" /\ out[p].e # "raw" =>
        LET starts == {q \in 1 .. p : out[q].e = "open" /\ out[q].k = "tool_use" /\ out[q].i = out[p].i}
        IN \E q \in starts : starts = {q}
Block(n) == <<"start", "open">> \o [p \in 1 .. n |-> "delta"]
MessageShape ==
    /\ ToolBlocksStart
    /\ (api = "messages" /\ provider # "anthropic" /\ Calls = 0) =>
           LET events == [p \in DOMAIN out |-> out[p].e]
               ended == \E p \in DOMAIN sent : Received(p) /\ sent[p].k \in Ends \cup {"done"}
           IN /\ events = <<>> \/ \E n \in 0 .. Len(out) :
                     events \in {Block(n), Block(n) \o <<"close", "reason", "stop">>}
              /\ Done /\ ~logs[1].error => (Has("stop", out) <=> ended)

\* A request has one row in the usage log.  It is an error exactly when the
\* client was given one, and an answer with text is never logged without tokens
\* when the provider reported them in a line that was read whole; the Responses
\* handler counts them itself when the provider is silent.
Charged ==
    Done =>
        /\ Len(logs) = 1
        /\ logs[1].error <=> Has("error", wire)
        /\ /\ ~logs[1].error
           /\ \E p \in DOMAIN wire : wire[p].e = "delta" /\ wire[p].k \in {"message", "text"}
           /\ api = "responses" \/ \E p \in DOMAIN sent : Reports(sent[p]) /\ p \notin lost
           => logs[1].tokens > 0

=============================================================================
