-------------------------------- MODULE Hub --------------------------------
(***************************************************************************)
(* The WebSocket hub (hub/hub.go): broadcasts to the connections of a user *)
(* while their read and write pumps end for reasons of their own.          *)
(*                                                                         *)
(* A connection's done channel is closed by its pumps through c.once, and  *)
(* by Broadcast directly when the connection's buffer is full. Closing it  *)
(* twice is a panic: gin recovers one in a request's goroutine (ReadPump,  *)
(* or a Broadcast made by a handler), any other ends the process.          *)
(***************************************************************************)
EXTENDS Naturals, Sequences, FiniteSets

CONSTANTS
    Conns,          \* connections, each opened once
    Users,
    Casters,        \* goroutines that broadcast
    Handlers,       \* those of them in which gin recovers a panic
    BufferSize,     \* capacity of Conn.events, 16 in the code
    MaxEvents,      \* bound: broadcasts to one user
    Nobody

ASSUME HubAssumption ==
    /\ Handlers \subseteq Casters
    /\ Nobody \notin Users
    /\ {"free", "wedged"} \cap Casters = {}
    /\ BufferSize \in Nat \ {0}
    /\ MaxEvents \in Nat

VARIABLES
    holder,     \* who holds h.mu: "free", a caster, or "wedged" for ever
    conns,      \* h.connections
    userOf,     \* Conn.userID, Nobody before Register
    done,       \* is Conn.done closed?
    once,       \* has Conn.once been used?
    events,     \* Conn.events
    reader,     \* where c's ReadPump is
    writer,     \* where c's WritePump is
    payload,    \* the event WritePump took from Conn.events, as a sequence
    sock,       \* is the WebSocket open?
    caster,     \* where b's Broadcast is: [at, user, i, dead]
    crashed,    \* has the process died of a panic?
    panicked,   \* history: the functions that panicked
    published,  \* history: the number of broadcasts made to user u
    since,      \* history: that number when c was registered
    sent        \* history: the events written to c's client

connVars == <<userOf, done, once, events, reader, writer, payload, sock,
              since, sent>>
vars == <<holder, conns, connVars, caster, crashed, panicked, published>>

Resting == [at |-> "rest"]

Init ==
    /\ holder = "free"
    /\ conns = [u \in Users |-> << >>]
    /\ userOf = [c \in Conns |-> Nobody]
    /\ done = [c \in Conns |-> FALSE]
    /\ once = [c \in Conns |-> FALSE]
    /\ events = [c \in Conns |-> << >>]
    /\ reader = [c \in Conns |-> "unborn"]
    /\ writer = [c \in Conns |-> "unborn"]
    /\ payload = [c \in Conns |-> << >>]
    /\ sock = [c \in Conns |-> FALSE]
    /\ caster = [b \in Casters |-> Resting]
    /\ crashed = FALSE
    /\ panicked = {}
    /\ published = [u \in Users |-> 0]
    /\ since = [c \in Conns |-> 0]
    /\ sent = [c \in Conns |-> << >>]

-----------------------------------------------------------------------------
Listed(c) == \E u \in Users : \E i \in DOMAIN conns[u] : conns[u][i] = c

\* The list without c: Unregister drops its first occurrence, if any.
Without(s, c) ==
    LET at == {i \in DOMAIN s : s[i] = c}
        first == CHOOSE i \in at : \A j \in at : i <= j
    IN IF at = {} THEN s
       ELSE SubSeq(s, 1, first - 1) \o SubSeq(s, first + 1, Len(s))

\* Unregister, which holds h.mu from start to end.
Unregister(c) ==
    /\ holder = "free"
    /\ conns' = [conns EXCEPT ![userOf[c]] = Without(@, c)]

\* c.once.Do(func() { close(c.done) }): TRUE when it panics: the once was
\* unused and the channel already closed.
OncePanics(c) == ~once[c] /\ done[c]

UseOnce(c) ==
    /\ once' = [once EXCEPT ![c] = TRUE]
    /\ done' = [done EXCEPT ![c] = TRUE]

-----------------------------------------------------------------------------
\* Variant: connections are not kept apart by user.
RegisterEverywhere(c, u) ==
    /\ ~crashed
    /\ reader[c] = "unborn"
    /\ holder = "free"
    /\ conns' = [v \in Users |-> Append(conns[v], c)]
    /\ userOf' = [userOf EXCEPT ![c] = u]
    /\ since' = [since EXCEPT ![c] = published[u]]
    /\ sock' = [sock EXCEPT ![c] = TRUE]
    /\ reader' = [reader EXCEPT ![c] = "reading"]
    /\ writer' = [writer EXCEPT ![c] = "select"]
    /\ UNCHANGED <<holder, done, once, events, payload, caster, crashed,
                   panicked, published, sent>>

(* WebSocketUpgrader: Register, then one goroutine per pump. *)
Register(c, u) ==
    /\ ~crashed
    /\ reader[c] = "unborn"
    /\ holder = "free"
    /\ conns' = [conns EXCEPT ![u] = Append(@, c)]
    /\ userOf' = [userOf EXCEPT ![c] = u]
    /\ since' = [since EXCEPT ![c] = published[u]]
    /\ sock' = [sock EXCEPT ![c] = TRUE]
    /\ reader' = [reader EXCEPT ![c] = "reading"]
    /\ writer' = [writer EXCEPT ![c] = "select"]
    /\ UNCHANGED <<holder, done, once, events, payload, caster, crashed,
                   panicked, published, sent>>

-----------------------------------------------------------------------------
(* ReadPump *)

\* ReadMessage fails: the client left, sent no pong in time, or conn.Close
\* was called.
ReadError(c) ==
    /\ ~crashed
    /\ reader[c] = "reading"
    /\ reader' = [reader EXCEPT ![c] = "once"]
    /\ UNCHANGED <<holder, conns, userOf, done, once, events, writer, payload,
                   sock, since, sent, caster, crashed, panicked, published>>

\* First deferred statement. A panic skips the two others and is recovered by
\* gin, in whose handler ReadPump runs.
ReadPumpOnce(c) ==
    /\ ~crashed
    /\ reader[c] = "once"
    /\ UseOnce(c)
    /\ reader' = [reader EXCEPT ![c] = IF OncePanics(c) THEN "gone" ELSE "unregister"]
    /\ panicked' = IF OncePanics(c) THEN panicked \cup {"ReadPump"} ELSE panicked
    /\ UNCHANGED <<holder, conns, userOf, events, writer, payload, sock, since,
                   sent, caster, crashed, published>>

ReadPumpUnregister(c) ==
    /\ ~crashed
    /\ reader[c] = "unregister"
    /\ Unregister(c)
    /\ reader' = [reader EXCEPT ![c] = "close"]
    /\ UNCHANGED <<holder, userOf, done, once, events, writer, payload, sock,
                   since, sent, caster, crashed, panicked, published>>

ReadPumpClose(c) ==
    /\ ~crashed
    /\ reader[c] = "close"
    /\ sock' = [sock EXCEPT ![c] = FALSE]
    /\ reader' = [reader EXCEPT ![c] = "gone"]
    /\ UNCHANGED <<holder, conns, userOf, done, once, events, writer, payload,
                   since, sent, caster, crashed, panicked, published>>

-----------------------------------------------------------------------------
(* WritePump: the select picks any branch that is ready. *)

\* It returns, and conn.Close is deferred.
WritePumpReturns(c) ==
    /\ writer' = [writer EXCEPT ![c] = "gone"]
    /\ sock' = [sock EXCEPT ![c] = FALSE]

SelectDone(c) ==
    /\ ~crashed
    /\ writer[c] = "select"
    /\ done[c]
    /\ WritePumpReturns(c)
    /\ UNCHANGED <<holder, conns, userOf, done, once, events, reader, payload,
                   since, sent, caster, crashed, panicked, published>>

\* A ping that is written changes nothing; one that is not ends the pump.
PingFails(c) ==
    /\ ~crashed
    /\ writer[c] = "select"
    /\ WritePumpReturns(c)
    /\ UNCHANGED <<holder, conns, userOf, done, once, events, reader, payload,
                   since, sent, caster, crashed, panicked, published>>

SelectEvent(c) ==
    /\ ~crashed
    /\ writer[c] = "select"
    /\ events[c] # << >>
    /\ payload' = [payload EXCEPT ![c] = <<Head(events[c])>>]
    /\ events' = [events EXCEPT ![c] = Tail(@)]
    /\ writer' = [writer EXCEPT ![c] = "write"]
    /\ UNCHANGED <<holder, conns, userOf, done, once, reader, sock, since, sent,
                   caster, crashed, panicked, published>>

WriteSucceeds(c) ==
    /\ ~crashed
    /\ writer[c] = "write"
    /\ sock[c]
    /\ sent' = [sent EXCEPT ![c] = @ \o payload[c]]
    /\ payload' = [payload EXCEPT ![c] = << >>]
    /\ writer' = [writer EXCEPT ![c] = "select"]
    /\ UNCHANGED <<holder, conns, userOf, done, once, events, reader, sock,
                   since, caster, crashed, panicked, published>>

\* A failed write sends the pump to place.
WriteFailsTo(c, place) ==
    /\ ~crashed
    /\ writer[c] = "write"
    /\ writer' = [writer EXCEPT ![c] = place]
    /\ UNCHANGED <<holder, conns, userOf, done, once, events, reader, payload,
                   sock, since, sent, caster, crashed, panicked, published>>

\* Variant: the pump goes on with the next event.
WriteFailsIgnored(c) == WriteFailsTo(c, "select")

\* The write deadline passes, or the socket is gone.
WriteFails(c) == WriteFailsTo(c, "once")

\* A panic here is in a goroutine of its own.
WritePumpOnce(c) ==
    /\ ~crashed
    /\ writer[c] = "once"
    /\ UseOnce(c)
    /\ writer' = [writer EXCEPT ![c] = "unregister"]
    /\ crashed' = OncePanics(c)
    /\ panicked' = IF OncePanics(c) THEN panicked \cup {"WritePump"} ELSE panicked
    /\ UNCHANGED <<holder, conns, userOf, events, reader, payload, sock, since,
                   sent, caster, published>>

WritePumpUnregister(c) ==
    /\ ~crashed
    /\ writer[c] = "unregister"
    /\ Unregister(c)
    /\ WritePumpReturns(c)
    /\ UNCHANGED <<holder, userOf, done, once, events, reader, payload, since,
                   sent, caster, crashed, panicked, published>>

-----------------------------------------------------------------------------
(* Broadcast *)

\* h.mu is held until BroadcastUnlock.
BroadcastLock(b, u) ==
    /\ ~crashed
    /\ caster[b] = Resting
    /\ holder = "free"
    /\ published[u] < MaxEvents
    /\ holder' = b
    /\ published' = [published EXCEPT ![u] = @ + 1]
    /\ caster' = [caster EXCEPT ![b] =
                    [at |-> "check", user |-> u, i |-> 1, dead |-> << >>]]
    /\ UNCHANGED <<conns, connVars, crashed, panicked>>

Target(b) == conns[caster[b].user][caster[b].i]

Bury(b, c) == [caster[b] EXCEPT !.at = "check", !.i = @ + 1,
                                !.dead = Append(@, c)]

\* First select: is the connection done already?
BroadcastCheck(b) ==
    /\ ~crashed
    /\ caster[b].at = "check"
    /\ caster[b].i <= Len(conns[caster[b].user])
    /\ caster' = [caster EXCEPT ![b] =
                    IF done[Target(b)] THEN Bury(b, Target(b))
                                       ELSE [@ EXCEPT !.at = "send"]]
    /\ UNCHANGED <<holder, conns, connVars, crashed, panicked, published>>

\* Queues the event of broadcast b for c.
Queue(b, c) ==
    /\ events' = [events EXCEPT ![c] =
                    Append(@, <<caster[b].user, published[caster[b].user]>>)]
    /\ caster' = [caster EXCEPT ![b].at = "check", ![b].i = @ + 1]

\* Variant: an event that does not fit is dropped.
BroadcastSendDropping(b) ==
    /\ ~crashed
    /\ caster[b].at = "send"
    /\ IF Len(events[Target(b)]) < BufferSize
         THEN Queue(b, Target(b))
         ELSE /\ caster' = [caster EXCEPT ![b].at = "check", ![b].i = @ + 1]
              /\ UNCHANGED events
    /\ UNCHANGED <<holder, conns, userOf, done, once, reader, writer, payload,
                   sock, since, sent, crashed, panicked, published>>

\* Second select: queue the event, or close a connection whose buffer is full.
\* A pump may have closed it since the first select.
BroadcastSend(b) ==
    /\ ~crashed
    /\ caster[b].at = "send"
    /\ LET c == Target(b)
       IN IF Len(events[c]) < BufferSize
            THEN /\ Queue(b, c)
                 /\ UNCHANGED <<holder, done, crashed, panicked>>
            ELSE IF ~done[c]
            THEN /\ done' = [done EXCEPT ![c] = TRUE]
                 /\ caster' = [caster EXCEPT ![b] = Bury(b, c)]
                 /\ UNCHANGED <<holder, events, crashed, panicked>>
            ELSE \* close of closed channel, with h.mu held
                 /\ panicked' = panicked \cup {"Broadcast"}
                 /\ crashed' = (b \notin Handlers)
                 /\ holder' = "wedged"
                 /\ caster' = [caster EXCEPT ![b] = Resting]
                 /\ UNCHANGED <<events, done>>
    /\ UNCHANGED <<conns, userOf, once, reader, writer, payload, sock, since,
                   sent, published>>

BroadcastUnlock(b) ==
    /\ ~crashed
    /\ caster[b].at = "check"
    /\ caster[b].i > Len(conns[caster[b].user])
    /\ holder' = "free"
    /\ caster' = [caster EXCEPT ![b].at = "reap"]
    /\ UNCHANGED <<conns, connVars, crashed, panicked, published>>

\* Variant: dead connections are left to their pumps.
BroadcastReapNobody(b) ==
    /\ ~crashed
    /\ caster[b].at = "reap"
    /\ caster' = [caster EXCEPT ![b] = Resting]
    /\ UNCHANGED <<conns, holder, connVars, crashed, panicked, published>>

\* One Unregister for each connection found dead, then the call returns.
BroadcastReap(b) ==
    /\ ~crashed
    /\ caster[b].at = "reap"
    /\ IF caster[b].dead = << >>
         THEN /\ caster' = [caster EXCEPT ![b] = Resting]
              /\ UNCHANGED conns
         ELSE /\ Unregister(Head(caster[b].dead))
              /\ caster' = [caster EXCEPT ![b].dead = Tail(@)]
    /\ UNCHANGED <<holder, connVars, crashed, panicked, published>>

-----------------------------------------------------------------------------
ReadPump(c) ==
    ReadError(c) \/ ReadPumpOnce(c) \/ ReadPumpUnregister(c) \/ ReadPumpClose(c)

WritePump(c) ==
    \/ SelectDone(c) \/ PingFails(c) \/ SelectEvent(c) \/ WriteSucceeds(c)
    \/ WriteFails(c) \/ WritePumpOnce(c) \/ WritePumpUnregister(c)

BroadcastStep(b) ==
    \/ BroadcastCheck(b) \/ BroadcastSend(b) \/ BroadcastUnlock(b)
    \/ BroadcastReap(b)

Next ==
    \/ \E c \in Conns : \/ \E u \in Users : Register(c, u)
                        \/ ReadPump(c) \/ WritePump(c)
    \/ \E b \in Casters : \/ \E u \in Users : BroadcastLock(b, u)
                          \/ BroadcastStep(b)

Spec == Init /\ [][Next]_vars

\* Goroutines are scheduled; ReadMessage returns once its socket is closed;
\* a write ends by its deadline; a select whose done branch stays ready
\* takes it in the end; h.mu is handed over fairly (sync.Mutex starvation mode).
Fairness ==
    /\ \A c \in Conns :
         /\ WF_vars(~sock[c] /\ ReadError(c))
         /\ WF_vars(ReadPumpOnce(c) \/ ReadPumpClose(c))
         /\ SF_vars(ReadPumpUnregister(c))
         /\ WF_vars(SelectDone(c))
         /\ WF_vars(WriteSucceeds(c) \/ WriteFails(c))
         /\ WF_vars(WritePumpOnce(c))
         /\ SF_vars(WritePumpUnregister(c))
    /\ \A b \in Casters :
         /\ WF_vars(BroadcastCheck(b) \/ BroadcastSend(b)
                    \/ BroadcastUnlock(b))
         /\ SF_vars(BroadcastReap(b))

FairSpec == Spec /\ Fairness

-----------------------------------------------------------------------------
TypeOK ==
    /\ holder \in {"free", "wedged"} \cup Casters
    /\ conns \in [Users -> Seq(Conns)]
    /\ userOf \in [Conns -> Users \cup {Nobody}]
    /\ done \in [Conns -> BOOLEAN]
    /\ once \in [Conns -> BOOLEAN]
    /\ events \in [Conns -> Seq(Users \X Nat)]
    /\ \A c \in Conns : Len(events[c]) <= BufferSize
    /\ reader \in [Conns -> {"unborn", "reading", "once", "unregister",
                             "close", "gone"}]
    /\ writer \in [Conns -> {"unborn", "select", "write", "once",
                             "unregister", "gone"}]
    /\ payload \in [Conns -> Seq(Users \X Nat)]
    /\ sock \in [Conns -> BOOLEAN]
    /\ caster \in [Casters -> {Resting} \cup
                      [at : {"check", "send", "reap"}, user : Users,
                       i : Nat \ {0}, dead : Seq(Conns)]]
    /\ crashed \in BOOLEAN
    /\ panicked \subseteq {"ReadPump", "WritePump", "Broadcast"}
    /\ published \in [Users -> Nat]
    /\ since \in [Conns -> Nat]
    /\ sent \in [Conns -> Seq(Users \X Nat)]

-----------------------------------------------------------------------------
\* The variables have their types, and what a connection was written, is being
\* written and has queued is an unbroken run of its own user's broadcasts from
\* the first one after it was registered: nothing is skipped, repeated,
\* reordered or another user's.
Stream(c) == sent[c] \o payload[c] \o events[c]

UnbrokenStream ==
    /\ TypeOK
    /\ \A c \in Conns : \A k \in DOMAIN Stream(c) :
        Stream(c)[k] = <<userOf[c], since[c] + k>>

\* A connection that is not done is in the hub's list and, while no broadcast is
\* under way, has every broadcast made since it was registered: slow clients
\* are cut off and their write pumps told to stop, rather than left with gaps.
NothingMissed ==
    \A c \in Conns : userOf[c] # Nobody /\ ~done[c] =>
        /\ Listed(c)
        /\ holder = "free" => since[c] + Len(Stream(c)) = published[userOf[c]]

\* A connection whose done channel is closed is taken out of the hub and both
\* its pumps end, closing the socket, unless a panic has stopped the process or
\* left the hub locked.
DoneIsCleanedUp ==
    \A c \in Conns :
        done[c] ~> \/ ~Listed(c) /\ reader[c] = "gone" /\ writer[c] = "gone"
                   \/ crashed \/ holder = "wedged"

\* "Failed writes are silently dropped; cleanup happens on next write attempt":
\* no order of broadcasts, slow clients and closing clients panics.
NoPanic == panicked = {}
=============================================================================
