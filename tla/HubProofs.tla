----------------------------- MODULE HubProofs -----------------------------
(***************************************************************************)
(* Proofs about Hub: what a client is sent is an unbroken run of its own   *)
(* user's broadcasts, and a connection that has not been told to stop has  *)
(* all of them.                                                            *)
(***************************************************************************)
EXTENDS Hub, SequenceTheorems, WellFoundedInduction, TLAPS

\* Caster b is in the loop over the connections, which holds h.mu.
Looping(b) == caster[b].at \in {"check", "send"}

\* h.mu is held by the caster in its loop, and by no other.
Locked == \A b \in Casters : Looping(b) <=> holder = b

\* The index stays within the list, or one past it before the unlock.
Within ==
    \A b \in Casters : Looping(b) =>
        /\ caster[b].i <= Len(conns[caster[b].user]) + 1
        /\ caster[b].at = "send" => caster[b].i <= Len(conns[caster[b].user])

\* A list has connections of its user only, each once.
Members ==
    /\ \A u \in Users : \A i \in DOMAIN conns[u] : userOf[conns[u][i]] = u
    /\ \A u \in Users : \A i, j \in DOMAIN conns[u] :
        conns[u][i] = conns[u][j] => i = j

\* A connection not registered yet is nowhere.
Unborn ==
    \A c \in Conns :
        /\ reader[c] = "unborn" <=> userOf[c] = Nobody
        /\ reader[c] = "unborn" => writer[c] = "unborn" /\ Stream(c) = << >>

\* WritePump holds an event only from its select to the end of the write, or
\* when it ends with a write that failed.
Empty ==
    \A c \in Conns : writer[c] \in {"unborn", "select"} => payload[c] = << >>

\* Whoever unregisters a connection has seen it done.
Doomed ==
    /\ \A c \in Conns :
        reader[c] = "unregister" \/ writer[c] = "unregister" => done[c]
    /\ \A b \in Casters : caster[b] # Resting =>
        \A k \in DOMAIN caster[b].dead : done[caster[b].dead[k]]

\* Nothing not done leaves the list.
Present ==
    \A c \in Conns : userOf[c] # Nobody /\ ~done[c] =>
        \E i \in DOMAIN conns[userOf[c]] : conns[userOf[c]][i] = c

\* The number of the last broadcast that c was sent, is being sent or has queued.
Last(c) == since[c] + Len(Stream(c))

\* While no loop is on it, a list's connections that are not done have everything.
Quiet ==
    holder # "wedged" =>
    \A u \in Users, c \in Conns :
        (\A b \in Casters : ~(Looping(b) /\ caster[b].user = u)) =>
        \A i \in DOMAIN conns[u] :
            conns[u][i] = c /\ ~done[c] => Last(c) = published[u]

\* A loop has queued its event for the connections before its index, and not
\* for the others; it queues it for the one it has found not done even if that
\* is told to stop meanwhile.
Progress ==
    \A b \in Casters, c \in Conns : Looping(b) =>
        \A i \in DOMAIN conns[caster[b].user] : conns[caster[b].user][i] = c =>
            /\ i < caster[b].i /\ ~done[c] =>
                    Last(c) = published[caster[b].user]
            /\ \/ i > caster[b].i /\ ~done[c]
               \/ i = caster[b].i /\ (~done[c] \/ caster[b].at = "send")
               => Last(c) + 1 = published[caster[b].user]

Numbered ==
    \A c \in Conns : \A k \in DOMAIN Stream(c) :
        Stream(c)[k] = <<userOf[c], since[c] + k>>

Lists == Locked /\ Within /\ Members /\ Present /\ Quiet /\ Progress

HInv == TypeOK /\ Lists /\ Numbered /\ Unborn /\ Empty /\ Doomed

-----------------------------------------------------------------------------
(* Sequences. *)

\* A set of numbers has a least one.
LEMMA Least ==
  ASSUME NEW T \in SUBSET Nat, T # {}
  PROVE \E n \in T : \A m \in T : n <= m
<1> DEFINE R == OpToRel(<,Nat)
<1>1. IsWellFoundedOn(R, Nat)
  BY NatLessThanWellFounded
<1>3. \A m, n \in Nat : <<m, n>> \in R <=> m < n
  BY DEF OpToRel
<1> HIDE DEF R
<1>2. PICK n \in T : \A y \in T : ~ (<<y, n>> \in R)
  BY <1>1, WFMin
<1>4. ASSUME NEW m \in T PROVE n <= m
  <2>1. ~ (<<m, n>> \in R)
    BY <1>2
  <2>2. m \in Nat /\ n \in Nat
    OBVIOUS
  <2>3. ~ (m < n)
    BY <2>1, <2>2, <1>3
  <2> QED
    BY <2>2, <2>3
<1> QED
  BY <1>4

\* Unregister drops one entry and closes the gap, or finds none.
LEMMA WithoutFacts ==
    ASSUME NEW S, NEW s \in Seq(S), NEW c
    PROVE  /\ Without(s, c) \in Seq(S)
           /\ \/ Without(s, c) = s
              \/ \E f \in DOMAIN s :
                    /\ s[f] = c
                    /\ Len(Without(s, c)) = Len(s) - 1
                    /\ \A i \in DOMAIN Without(s, c) :
                        Without(s, c)[i] = IF i < f THEN s[i] ELSE s[i + 1]
<1> DEFINE at == {i \in DOMAIN s : s[i] = c}
           first == CHOOSE i \in at : \A j \in at : i <= j
           a == SubSeq(s, 1, first - 1)
           b == SubSeq(s, first + 1, Len(s))
<1>1. CASE at = {}
  BY <1>1 DEF Without
<1>2. CASE at # {}
  <2>1. Without(s, c) = a \o b
    BY <1>2 DEF Without
  <2>2. \E i \in at : \A j \in at : i <= j
    <3>1. at \in SUBSET Nat
      OBVIOUS
    <3> HIDE DEF at
    <3> QED
      BY <1>2, <3>1, Least
  <2>3. first \in DOMAIN s /\ s[first] = c
    BY <2>2
  <2> HIDE DEF first
  <2>4. /\ a \in Seq(S) /\ Len(a) = first - 1
        /\ \A i \in 1 .. first - 1 : a[i] = s[i]
    BY <2>3, SubSeqProperties
  <2>5. /\ b \in Seq(S) /\ Len(b) = Len(s) - first
        /\ \A i \in 1 .. Len(s) - first : b[i] = s[first + i]
    BY <2>3, SubSeqProperties
  <2> HIDE DEF a, b
  <2>6. /\ a \o b \in Seq(S) /\ Len(a \o b) = Len(s) - 1
        /\ \A i \in 1 .. Len(s) - 1 : (a \o b)[i] = IF i < first THEN s[i] ELSE s[i + 1]
    BY <2>3, <2>4, <2>5, ConcatProperties
  <2>7. DOMAIN (a \o b) = 1 .. Len(s) - 1
    BY <2>6, LenProperties
  <2> QED
    BY <2>1, <2>3, <2>6, <2>7
<1> QED
  BY <1>1, <1>2

\* The entries of a list with one more, and of one without its first.
LEMMA Entries ==
    ASSUME NEW S, NEW s \in Seq(S)
    PROVE  /\ \A c \in S : \A k \in DOMAIN Append(s, c) :
                \/ Append(s, c)[k] = c
                \/ \E j \in DOMAIN s : Append(s, c)[k] = s[j]
           /\ s # << >> => \A k \in DOMAIN Tail(s) : \E j \in DOMAIN s : Tail(s)[k] = s[j]
OBVIOUS

\* Taking an event from the buffer, writing it, queueing another.
LEMMA StreamSteps ==
    ASSUME NEW S, NEW s \in Seq(S), NEW p \in Seq(S), NEW e \in Seq(S)
    PROVE  /\ e # << >> => /\ Tail(e) \in Seq(S) /\ <<Head(e)>> \in Seq(S)
                           /\ s \o <<Head(e)>> \o Tail(e) = s \o << >> \o e
           /\ (s \o p) \o << >> \o e = s \o p \o e
           /\ s \o p \o e \in Seq(S)
           /\ Len(s \o p \o e) = Len(s) + Len(p) + Len(e)
           /\ \A x \in S : s \o p \o Append(e, x) = Append(s \o p \o e, x)
<1>1. s \o p \in Seq(S) /\ Len(s \o p) = Len(s) + Len(p)
  BY ConcatProperties
<1>2. s \o p \o e \in Seq(S) /\ Len(s \o p \o e) = Len(s) + Len(p) + Len(e)
  BY <1>1, ConcatProperties
<1>3. (s \o p) \o << >> \o e = s \o p \o e
  BY <1>1, ConcatEmptySeq
<1>4. ASSUME e # << >>
      PROVE  /\ Tail(e) \in Seq(S) /\ <<Head(e)>> \in Seq(S)
             /\ s \o <<Head(e)>> \o Tail(e) = s \o << >> \o e
  <2>1. Tail(e) \in Seq(S) /\ Head(e) \in S /\ <<Head(e)>> \in Seq(S)
    BY <1>4
  <2>2. <<Head(e)>> \o Tail(e) = e
    BY <1>4, <2>1
  <2>3. (s \o <<Head(e)>>) \o Tail(e) = s \o (<<Head(e)>> \o Tail(e))
    BY <2>1, ConcatAssociative
  <2>4. s \o << >> = s
    BY ConcatEmptySeq
  <2> QED
    BY <2>1, <2>2, <2>3, <2>4
<1>5. ASSUME NEW x \in S
      PROVE  s \o p \o Append(e, x) = Append(s \o p \o e, x)
  <2>1. Append(e, x) = e \o <<x>> /\ <<x>> \in Seq(S)
    BY AppendIsConcat
  <2>2. (s \o p) \o (e \o <<x>>) = ((s \o p) \o e) \o <<x>>
    BY <1>1, <2>1, ConcatAssociative
  <2>3. Append(s \o p \o e, x) = (s \o p \o e) \o <<x>>
    BY <1>2, AppendIsConcat
  <2> QED
    BY <2>1, <2>2, <2>3
<1> QED
  BY <1>2, <1>3, <1>4, <1>5

-----------------------------------------------------------------------------
(* Types. *)

Pumps ==
    \E c \in Conns :
        \/ ReadError(c) \/ ReadPumpOnce(c) \/ ReadPumpClose(c)
        \/ SelectDone(c) \/ PingFails(c) \/ SelectEvent(c) \/ WriteSucceeds(c)
        \/ WriteFails(c) \/ WritePumpOnce(c)

\* What a caster remembers.
Rec == [at : {"check", "send", "reap"}, user : Users, i : Nat \ {0}, dead : Seq(Conns)]

LEMMA CasterTypes ==
    ASSUME TypeOK, NEW b \in Casters
    PROVE  /\ caster[b].at = "rest" <=> caster[b] = Resting
           /\ caster[b] # Resting =>
                /\ caster[b] \in Rec
                /\ caster[b].at \in {"check", "send", "reap"}
                /\ caster[b].user \in Users
                /\ caster[b].i \in Nat \ {0}
                /\ caster[b].dead \in Seq(Conns)
           /\ Looping(b) => caster[b] # Resting
BY DEF TypeOK, Resting, Looping, Rec

LEMMA TypePumps == TypeOK /\ Pumps => TypeOK'
<1> SUFFICES ASSUME TypeOK, NEW c \in Conns,
                    \/ ReadError(c) \/ ReadPumpOnce(c) \/ ReadPumpClose(c)
                    \/ SelectDone(c) \/ PingFails(c) \/ SelectEvent(c)
                    \/ WriteSucceeds(c) \/ WriteFails(c) \/ WritePumpOnce(c)
             PROVE  TypeOK'
  BY DEF Pumps
<1>1. CASE ReadError(c)
  BY <1>1 DEF ReadError, TypeOK
<1>2. CASE ReadPumpOnce(c)
  BY <1>2 DEF ReadPumpOnce, UseOnce, TypeOK
<1>3. CASE ReadPumpClose(c)
  BY <1>3 DEF ReadPumpClose, TypeOK
<1>4. CASE SelectDone(c)
  BY <1>4 DEF SelectDone, WritePumpReturns, TypeOK
<1>5. CASE PingFails(c)
  BY <1>5 DEF PingFails, WritePumpReturns, TypeOK
<1>6. CASE SelectEvent(c)
  <2>1. /\ Head(events[c]) \in Users \X Nat
        /\ Tail(events[c]) \in Seq(Users \X Nat)
        /\ Len(Tail(events[c])) <= BufferSize
    BY <1>6, HubAssumption DEF SelectEvent, TypeOK
  <2>2. events' = [events EXCEPT ![c] = Tail(events[c])]
    BY <1>6 DEF SelectEvent
  <2>3. /\ events' \in [Conns -> Seq(Users \X Nat)]
        /\ \A d \in Conns : Len(events'[d]) <= BufferSize
    BY <2>1, <2>2 DEF TypeOK
  <2>4. payload' \in [Conns -> Seq(Users \X Nat)]
    BY <1>6, <2>1 DEF SelectEvent, TypeOK
  <2> QED
    BY <1>6, <2>3, <2>4 DEF SelectEvent, TypeOK
<1>7. CASE WriteSucceeds(c)
  BY <1>7, SMTT(40) DEF WriteSucceeds, TypeOK
<1>8. CASE WriteFails(c)
  BY <1>8 DEF WriteFails, WriteFailsTo, TypeOK
<1>9. CASE WritePumpOnce(c)
  BY <1>9 DEF WritePumpOnce, UseOnce, OncePanics, TypeOK
<1> QED
  BY <1>1, <1>2, <1>3, <1>4, <1>5, <1>6, <1>7, <1>8, <1>9

LEMMA TypeLists ==
    ASSUME TypeOK, NEW c \in Conns,
           \/ \E u \in Users : Register(c, u)
           \/ ReadPumpUnregister(c) \/ WritePumpUnregister(c)
    PROVE  TypeOK'
<1>1. ASSUME NEW u \in Users, Register(c, u) PROVE TypeOK'
  <2>1. Append(conns[u], c) \in Seq(Conns)
    BY DEF TypeOK
  <2> QED
    BY <1>1, <2>1 DEF Register, TypeOK
<1>2. ASSUME Unregister(c) PROVE conns' \in [Users -> Seq(Conns)]
  <2>1. \A u \in Users : Without(conns[u], c) \in Seq(Conns)
    BY WithoutFacts DEF TypeOK
  <2> QED
    BY <1>2, <2>1 DEF Unregister, TypeOK
<1>3. CASE ReadPumpUnregister(c)
  <2>1. conns' \in [Users -> Seq(Conns)]
    BY <1>2, <1>3 DEF ReadPumpUnregister
  <2> QED
    BY <1>3, <2>1 DEF ReadPumpUnregister, TypeOK
<1>4. CASE WritePumpUnregister(c)
  <2>1. conns' \in [Users -> Seq(Conns)]
    BY <1>2, <1>4 DEF WritePumpUnregister
  <2> QED
    BY <1>4, <2>1 DEF WritePumpUnregister, WritePumpReturns, TypeOK
<1> QED
  BY <1>1, <1>3, <1>4

LEMMA TypeCaster ==
    ASSUME TypeOK, NEW b \in Casters, NEW r, caster' = [caster EXCEPT ![b] = r],
           r \in {Resting} \cup Rec
    PROVE  /\ caster' \in [Casters -> {Resting} \cup Rec]
           /\ caster'[b] = r
           /\ \A a \in Casters \ {b} : caster'[a] = caster[a]
BY DEF TypeOK, Rec


IsRecord(r, at, user, i, dead) ==
    r \in Rec /\ r.at = at /\ r.user = user /\ r.i = i /\ r.dead = dead

\* What the steps of a broadcast make of its record.
LEMMA CasterRecords ==
    ASSUME NEW r \in Rec
    PROVE  /\ \A c \in Conns :
                IsRecord([r EXCEPT !.at = "check", !.i = @ + 1, !.dead = Append(@, c)],
                         "check", r.user, r.i + 1, Append(r.dead, c))
           /\ IsRecord([r EXCEPT !.at = "send"], "send", r.user, r.i, r.dead)
           /\ IsRecord([r EXCEPT !.at = "check", !.i = @ + 1],
                       "check", r.user, r.i + 1, r.dead)
           /\ IsRecord([r EXCEPT !.at = "reap"], "reap", r.user, r.i, r.dead)
           /\ r.dead # << >> =>
                IsRecord([r EXCEPT !.dead = Tail(@)], r.at, r.user, r.i, Tail(r.dead))
<1>1. ASSUME NEW p \in {"check", "send", "reap"}
      PROVE  IsRecord([r EXCEPT !.at = p], p, r.user, r.i, r.dead)
  BY DEF Rec, IsRecord
<1>2. ASSUME NEW d \in Seq(Conns)
      PROVE  IsRecord([r EXCEPT !.dead = d], r.at, r.user, r.i, d)
  BY DEF Rec, IsRecord
<1>3. ASSUME NEW p \in {"check", "send", "reap"}, NEW j \in Nat \ {0}
      PROVE  IsRecord([r EXCEPT !.at = p, !.i = j], p, r.user, j, r.dead)
  BY DEF Rec, IsRecord
<1>4. ASSUME NEW p \in {"check", "send", "reap"}, NEW j \in Nat \ {0}, NEW d \in Seq(Conns)
      PROVE  IsRecord([r EXCEPT !.at = p, !.i = j, !.dead = d], p, r.user, j, d)
  BY DEF Rec, IsRecord
<1>5. r.i + 1 \in Nat \ {0} /\ \A c \in Conns : Append(r.dead, c) \in Seq(Conns)
  BY DEF Rec
<1>6. ASSUME r.dead # << >> PROVE Tail(r.dead) \in Seq(Conns)
  BY <1>6 DEF Rec
<1>7. r.dead # << >> =>
        IsRecord([r EXCEPT !.dead = Tail(@)], r.at, r.user, r.i, Tail(r.dead))
  BY <1>2, <1>6
<1>8. ASSUME NEW c \in Conns
      PROVE  IsRecord([r EXCEPT !.at = "check", !.i = @ + 1, !.dead = Append(@, c)],
                      "check", r.user, r.i + 1, Append(r.dead, c))
  BY <1>4, <1>5
<1> QED
  BY <1>1, <1>3, <1>5, <1>7, <1>8

\* What each step of a broadcast does to the caster, with the types.
LEMMA CheckStep ==
    ASSUME TypeOK, Within, NEW b \in Casters, BroadcastCheck(b)
    PROVE  /\ TypeOK'
           /\ Looping(b) /\ Target(b) \in Conns
           /\ caster[b].i \in DOMAIN conns[caster[b].user]
           /\ \A a \in Casters \ {b} : caster'[a] = caster[a]
           /\ \/ /\ done[Target(b)]
                 /\ IsRecord(caster'[b], "check", caster[b].user, caster[b].i + 1,
                             Append(caster[b].dead, Target(b)))
              \/ /\ ~done[Target(b)]
                 /\ IsRecord(caster'[b], "send", caster[b].user, caster[b].i,
                             caster[b].dead)
<1>1. Looping(b) /\ caster[b] \in Rec /\ caster[b].user \in Users /\ caster[b].i \in Nat \ {0}
  BY CasterTypes DEF BroadcastCheck, Looping
<1>2. caster[b].i \in DOMAIN conns[caster[b].user] /\ Target(b) \in Conns
  BY <1>1, SMTT(40) DEF BroadcastCheck, Target, TypeOK
<1>3. ASSUME done[Target(b)]
      PROVE  /\ caster' = [caster EXCEPT ![b] = Bury(b, Target(b))]
             /\ IsRecord(Bury(b, Target(b)), "check", caster[b].user, caster[b].i + 1,
                         Append(caster[b].dead, Target(b)))
  BY <1>1, <1>2, <1>3, CasterRecords DEF BroadcastCheck, Bury
<1>4. ASSUME ~done[Target(b)]
      PROVE  /\ caster' = [caster EXCEPT ![b] = [caster[b] EXCEPT !.at = "send"]]
             /\ IsRecord([caster[b] EXCEPT !.at = "send"], "send", caster[b].user,
                         caster[b].i, caster[b].dead)
  BY <1>1, <1>2, <1>4, CasterRecords DEF BroadcastCheck
<1>5. \E r \in Rec : caster' = [caster EXCEPT ![b] = r]
  BY <1>3, <1>4 DEF IsRecord
<1>6. TypeOK'
  BY <1>5, TypeCaster DEF BroadcastCheck, TypeOK, connVars, Rec
<1>7. caster \in [Casters -> {Resting} \cup Rec]
  BY DEF TypeOK, Rec
<1> QED
  BY <1>1, <1>2, <1>3, <1>4, <1>6, <1>7

LEMMA SendStep ==
    ASSUME TypeOK, Within, NEW b \in Casters, BroadcastSend(b)
    PROVE  /\ TypeOK'
           /\ Looping(b) /\ caster[b].at = "send" /\ Target(b) \in Conns
           /\ caster[b].i \in DOMAIN conns[caster[b].user]
           /\ \A a \in Casters \ {b} : caster'[a] = caster[a]
           /\ \/ /\ events' = [events EXCEPT ![Target(b)] =
                        Append(@, <<caster[b].user, published[caster[b].user]>>)]
                 /\ IsRecord(caster'[b], "check", caster[b].user, caster[b].i + 1,
                             caster[b].dead)
                 /\ UNCHANGED <<holder, done>>
              \/ /\ done' = [done EXCEPT ![Target(b)] = TRUE]
                 /\ IsRecord(caster'[b], "check", caster[b].user, caster[b].i + 1,
                             Append(caster[b].dead, Target(b)))
                 /\ UNCHANGED <<holder, events>>
              \/ /\ caster'[b] = Resting /\ holder' = "wedged"
                 /\ UNCHANGED <<events, done>>
<1> DEFINE c == Target(b)
           e == <<caster[b].user, published[caster[b].user]>>
<1>1. Looping(b) /\ caster[b] \in Rec /\ caster[b].user \in Users /\ caster[b].i \in Nat \ {0}
  BY CasterTypes DEF BroadcastSend, Looping
<1>2. caster[b].i \in DOMAIN conns[caster[b].user] /\ c \in Conns
  BY <1>1, SMTT(40) DEF BroadcastSend, Target, TypeOK, Within
<1>3. caster \in [Casters -> {Resting} \cup Rec]
  BY DEF TypeOK, Rec
<1>4. CASE Len(events[c]) < BufferSize
  <2>1. /\ caster' = [caster EXCEPT ![b] = [caster[b] EXCEPT !.at = "check", !.i = @ + 1]]
        /\ events' = [events EXCEPT ![c] = Append(events[c], e)]
        /\ UNCHANGED <<holder, done, crashed, panicked>>
    BY <1>3, <1>4 DEF BroadcastSend, Queue
  <2>2. IsRecord([caster[b] EXCEPT !.at = "check", !.i = @ + 1], "check",
                 caster[b].user, caster[b].i + 1, caster[b].dead)
    BY <1>1, <1>2, CasterRecords
  <2>3. PICK r \in Rec : /\ caster' = [caster EXCEPT ![b] = r]
                         /\ IsRecord(r, "check", caster[b].user, caster[b].i + 1,
                                     caster[b].dead)
    BY <2>1, <2>2 DEF IsRecord
  <2>4. e \in Users \X Nat
    BY <1>1 DEF TypeOK
  <2>5. /\ Append(events[c], e) \in Seq(Users \X Nat)
        /\ Len(Append(events[c], e)) <= BufferSize
    BY <1>2, <1>4, <2>4, HubAssumption, SMTT(40) DEF TypeOK
  <2>6. /\ events' \in [Conns -> Seq(Users \X Nat)]
        /\ \A d \in Conns : Len(events'[d]) <= BufferSize
    BY <1>2, <2>1, <2>5 DEF TypeOK
  <2>7. caster' \in [Casters -> {Resting} \cup Rec]
    BY <1>3, <2>3
  <2>8. TypeOK'
    BY <2>1, <2>6, <2>7 DEF BroadcastSend, TypeOK, Rec
  <2> QED
    BY <1>1, <1>2, <1>3, <2>1, <2>3, <2>8 DEF BroadcastSend
<1>5. CASE ~(Len(events[c]) < BufferSize) /\ ~done[c]
  <2>1. /\ caster' = [caster EXCEPT ![b] = Bury(b, c)]
        /\ done' = [done EXCEPT ![c] = TRUE]
        /\ UNCHANGED <<holder, events, crashed, panicked>>
    BY <1>5 DEF BroadcastSend
  <2>2. IsRecord(Bury(b, c), "check", caster[b].user, caster[b].i + 1,
                 Append(caster[b].dead, c))
    BY <1>1, <1>2, CasterRecords DEF Bury
  <2>3. PICK r \in Rec : /\ caster' = [caster EXCEPT ![b] = r]
                         /\ IsRecord(r, "check", caster[b].user, caster[b].i + 1,
                                     Append(caster[b].dead, c))
    BY <2>1, <2>2 DEF IsRecord
  <2>4. caster' \in [Casters -> {Resting} \cup Rec]
    BY <1>3, <2>3
  <2>5. TypeOK'
    BY <2>1, <2>4 DEF BroadcastSend, TypeOK, Rec
  <2> QED
    BY <1>1, <1>2, <1>3, <2>1, <2>3, <2>5 DEF BroadcastSend
<1>6. CASE ~(Len(events[c]) < BufferSize) /\ done[c]
  <2>1. /\ caster' = [caster EXCEPT ![b] = Resting] /\ holder' = "wedged"
        /\ crashed' = (b \notin Handlers) /\ panicked' = panicked \cup {"Broadcast"}
        /\ UNCHANGED <<events, done>>
    BY <1>6 DEF BroadcastSend
  <2>2. caster' \in [Casters -> {Resting} \cup Rec]
    BY <1>3, <2>1
  <2>3. TypeOK'
    BY <2>1, <2>2 DEF BroadcastSend, TypeOK, Rec
  <2> QED
    BY <1>1, <1>2, <1>3, <2>1, <2>3 DEF BroadcastSend
<1> QED
  BY <1>4, <1>5, <1>6

LEMMA OtherSteps ==
    ASSUME TypeOK, NEW b \in Casters
    PROVE  /\ \A u \in Users : BroadcastLock(b, u) =>
                /\ TypeOK'
                /\ IsRecord(caster'[b], "check", u, 1, << >>)
                /\ \A a \in Casters \ {b} : caster'[a] = caster[a]
           /\ BroadcastUnlock(b) =>
                /\ TypeOK'
                /\ Looping(b)
                /\ IsRecord(caster'[b], "reap", caster[b].user, caster[b].i,
                            caster[b].dead)
                /\ \A a \in Casters \ {b} : caster'[a] = caster[a]
           /\ BroadcastReap(b) =>
                /\ TypeOK'
                /\ caster[b] # Resting
                /\ \A a \in Casters \ {b} : caster'[a] = caster[a]
                /\ \/ caster'[b] = Resting /\ UNCHANGED conns
                   \/ /\ caster[b].dead # << >> /\ Unregister(Head(caster[b].dead))
                      /\ Head(caster[b].dead) \in Conns
                      /\ IsRecord(caster'[b], "reap", caster[b].user, caster[b].i,
                                  Tail(caster[b].dead))
<1>1. caster \in [Casters -> {Resting} \cup Rec]
  BY DEF TypeOK, Rec
<1>2. ASSUME NEW u \in Users, BroadcastLock(b, u)
      PROVE  /\ TypeOK'
             /\ IsRecord(caster'[b], "check", u, 1, << >>)
             /\ \A a \in Casters \ {b} : caster'[a] = caster[a]
  <2>1. IsRecord([at |-> "check", user |-> u, i |-> 1, dead |-> << >>],
                 "check", u, 1, << >>)
    BY DEF IsRecord, Rec
  <2>2. PICK r \in Rec : /\ caster' = [caster EXCEPT ![b] = r]
                         /\ IsRecord(r, "check", u, 1, << >>)
    BY <1>2, <2>1 DEF IsRecord, BroadcastLock
  <2>3. caster' \in [Casters -> {Resting} \cup Rec]
    BY <1>1, <2>2
  <2>4. published' \in [Users -> Nat]
    BY <1>2 DEF BroadcastLock, TypeOK
  <2>5. TypeOK'
    BY <1>2, <2>3, <2>4 DEF BroadcastLock, TypeOK, Rec, connVars
  <2> QED
    BY <1>1, <2>2, <2>5
<1>3. ASSUME BroadcastUnlock(b)
      PROVE  /\ TypeOK'
             /\ Looping(b)
             /\ IsRecord(caster'[b], "reap", caster[b].user, caster[b].i, caster[b].dead)
             /\ \A a \in Casters \ {b} : caster'[a] = caster[a]
  <2>1. Looping(b) /\ caster[b] \in Rec
    BY <1>3, CasterTypes DEF BroadcastUnlock, Looping
  <2>2. caster' = [caster EXCEPT ![b] = [caster[b] EXCEPT !.at = "reap"]]
    BY <1>1, <1>3 DEF BroadcastUnlock
  <2>4. IsRecord([caster[b] EXCEPT !.at = "reap"], "reap", caster[b].user,
                 caster[b].i, caster[b].dead)
    BY <2>1, CasterRecords
  <2>5. PICK r \in Rec : /\ caster' = [caster EXCEPT ![b] = r]
                         /\ IsRecord(r, "reap", caster[b].user, caster[b].i,
                                     caster[b].dead)
    BY <2>2, <2>4 DEF IsRecord
  <2>6. caster' \in [Casters -> {Resting} \cup Rec]
    BY <1>1, <2>5
  <2>7. TypeOK'
    BY <1>3, <2>6 DEF BroadcastUnlock, TypeOK, Rec, connVars
  <2> QED
    BY <1>1, <2>1, <2>5, <2>7
<1>4. ASSUME BroadcastReap(b)
      PROVE  /\ TypeOK'
             /\ caster[b] # Resting
             /\ \A a \in Casters \ {b} : caster'[a] = caster[a]
             /\ \/ caster'[b] = Resting /\ UNCHANGED conns
                \/ /\ caster[b].dead # << >> /\ Unregister(Head(caster[b].dead))
                   /\ Head(caster[b].dead) \in Conns
                   /\ IsRecord(caster'[b], "reap", caster[b].user, caster[b].i,
                               Tail(caster[b].dead))
  <2>1. caster[b] # Resting /\ caster[b] \in Rec /\ caster[b].at = "reap"
        /\ caster[b].dead \in Seq(Conns)
    BY <1>4, CasterTypes DEF BroadcastReap, Resting
  <2>2. CASE caster[b].dead = << >>
    <3>1. caster' = [caster EXCEPT ![b] = Resting] /\ UNCHANGED conns
      BY <1>4, <2>2 DEF BroadcastReap
    <3>2. caster' \in [Casters -> {Resting} \cup Rec]
      BY <1>1, <3>1
    <3>3. TypeOK'
      BY <1>4, <3>1, <3>2 DEF BroadcastReap, TypeOK, Rec, connVars
    <3> QED
      BY <1>1, <2>1, <3>1, <3>3
  <2>3. CASE caster[b].dead # << >>
    <3>1. /\ Unregister(Head(caster[b].dead))
          /\ caster' = [caster EXCEPT ![b] = [caster[b] EXCEPT !.dead = Tail(caster[b].dead)]]
      BY <1>1, <1>4, <2>3 DEF BroadcastReap
    <3>2. IsRecord([caster[b] EXCEPT !.dead = Tail(caster[b].dead)], "reap",
                   caster[b].user, caster[b].i, Tail(caster[b].dead))
      BY <2>1, <2>3, CasterRecords
    <3>3. PICK r \in Rec : /\ caster' = [caster EXCEPT ![b] = r]
                           /\ IsRecord(r, "reap", caster[b].user, caster[b].i,
                                       Tail(caster[b].dead))
      BY <3>1, <3>2 DEF IsRecord
    <3>4. caster' \in [Casters -> {Resting} \cup Rec]
      BY <1>1, <3>3
    <3>5. Head(caster[b].dead) \in Conns
      BY <2>1, <2>3
    <3>6. conns' \in [Users -> Seq(Conns)]
      <4>1. \A u \in Users : Without(conns[u], Head(caster[b].dead)) \in Seq(Conns)
        BY WithoutFacts DEF TypeOK
      <4> QED
        BY <3>1, <4>1 DEF Unregister, TypeOK
    <3>7. TypeOK'
      BY <1>4, <3>4, <3>6 DEF BroadcastReap, TypeOK, Rec, connVars
    <3> QED
      BY <1>1, <2>1, <2>3, <3>1, <3>3, <3>5, <3>7
  <2> QED
    BY <2>2, <2>3
<1> QED
  BY <1>2, <1>3, <1>4

-----------------------------------------------------------------------------
(* The lists, the loops on them and the streams. *)

LEMMA Streams ==
    ASSUME TypeOK, NEW c \in Conns
    PROVE  /\ Stream(c) \in Seq(Users \X Nat)
           /\ Len(Stream(c)) \in Nat
           /\ since[c] \in Nat /\ Last(c) \in Nat
<1>1. /\ sent[c] \in Seq(Users \X Nat) /\ payload[c] \in Seq(Users \X Nat)
      /\ events[c] \in Seq(Users \X Nat) /\ since[c] \in Nat
  BY DEF TypeOK
<1>2. Stream(c) \in Seq(Users \X Nat)
  <2>1. \A s, t \in Seq(Users \X Nat) : s \o t \in Seq(Users \X Nat)
    BY ConcatProperties
  <2> QED
    BY <1>1, <2>1 DEF Stream
<1>3. Len(Stream(c)) \in Nat
  BY <1>2, LenProperties
<1> QED
  BY <1>1, <1>2, <1>3 DEF Last

\* What the pumps do beside unregistering touches neither lists nor loops, leaves
\* the stream as it is, and can only close done.
LEMMA PumpsKeepLists ==
    ASSUME TypeOK, Lists, Numbered,
           UNCHANGED <<holder, conns, userOf, caster, published, since>>,
           \A c \in Conns : done[c] => done'[c],
           \A c \in Conns : Stream(c)' = Stream(c)
    PROVE  Lists' /\ Numbered'
<1>1. \A c \in Conns : Last(c)' = Last(c)
  BY DEF Last
<1>2. Numbered'
  BY DEF Numbered
<1>3. Locked' /\ Within' /\ Members'
  BY DEF Lists, Locked, Looping, Within, Members
<1>4. Present'
  BY DEF Lists, Present
<1>5. \A u \in Users : \A i \in DOMAIN conns[u] : conns[u][i] \in Conns
  BY DEF TypeOK
<1>6. Quiet'
  BY <1>1, <1>5 DEF Lists, Quiet, Looping
<1>7. Progress'
  BY <1>1 DEF Lists, Progress, Looping
<1> QED
  BY <1>2, <1>3, <1>4, <1>6, <1>7 DEF Lists

\* Unregistering what is done: the others stay, in their order.
LEMMA UnregisterKeepsLists ==
    ASSUME TypeOK, TypeOK', Lists, Numbered, NEW c \in Conns, done[c], Unregister(c),
           UNCHANGED <<holder, userOf, done, published, since>>,
           \A b \in Casters : Looping(b)' => Looping(b),
           \A d \in Conns : Stream(d)' = Stream(d)
    PROVE  Lists' /\ Numbered'
<1>1. \A d \in Conns : Last(d)' = Last(d)
  BY DEF Last
<1>2. Numbered'
  BY DEF Numbered
<1>3. \A b \in Casters : ~Looping(b) /\ ~Looping(b)' /\ holder # b /\ holder' # b
  BY HubAssumption DEF Lists, Locked, Unregister
<1>4. Locked' /\ Within' /\ Progress'
  BY <1>3 DEF Locked, Within, Progress
<1>5. ASSUME NEW u \in Users
      PROVE  \/ conns'[u] = conns[u]
             \/ \E f \in DOMAIN conns[u] :
                    /\ conns[u][f] = c
                    /\ Len(conns'[u]) = Len(conns[u]) - 1
                    /\ \A i \in DOMAIN conns'[u] :
                        conns'[u][i] = IF i < f THEN conns[u][i] ELSE conns[u][i + 1]
  <2>1. conns'[u] = IF u = userOf[c] THEN Without(conns[u], c) ELSE conns[u]
    BY DEF Unregister, TypeOK
  <2>2. conns[u] \in Seq(Conns)
    BY DEF TypeOK
  <2> QED
    BY <2>1, <2>2, WithoutFacts, SMTT(40)
<1>6. \A u \in Users : conns[u] \in Seq(Conns) /\ conns'[u] \in Seq(Conns)
  BY DEF TypeOK
\* Every entry was one, and every one but c is an entry.
<1>7. ASSUME NEW u \in Users, NEW i \in DOMAIN conns'[u]
      PROVE  \E j \in DOMAIN conns[u] : conns'[u][i] = conns[u][j]
  BY <1>5, <1>6
<1>8. ASSUME NEW u \in Users, NEW j \in DOMAIN conns[u], conns[u][j] # c
      PROVE  \E i \in DOMAIN conns'[u] : conns'[u][i] = conns[u][j]
  <2>1. CASE conns'[u] = conns[u]
    BY <2>1
  <2>2. ASSUME NEW f \in DOMAIN conns[u], conns[u][f] = c,
               Len(conns'[u]) = Len(conns[u]) - 1,
               \A i \in DOMAIN conns'[u] :
                    conns'[u][i] = IF i < f THEN conns[u][i] ELSE conns[u][i + 1]
        PROVE  \E i \in DOMAIN conns'[u] : conns'[u][i] = conns[u][j]
    <3>1. j # f
      BY <1>8, <2>2
    <3>2. CASE j < f
      <4>1. j \in DOMAIN conns'[u]
        BY <1>6, <2>2, <3>2
      <4> QED
        BY <2>2, <3>2, <4>1
    <3>3. CASE j > f
      <4>1. j - 1 \in DOMAIN conns'[u] /\ ~(j - 1 < f) /\ j - 1 + 1 = j
        BY <1>6, <2>2, <3>3
      <4> QED
        BY <2>2, <4>1
    <3> QED
      BY <1>6, <3>1, <3>2, <3>3
  <2> QED
    BY <1>5, <2>1, <2>2
<1>9. Members'
  <2>1. ASSUME NEW u \in Users, NEW i \in DOMAIN conns'[u], NEW j \in DOMAIN conns'[u],
               conns'[u][i] = conns'[u][j]
        PROVE  i = j
    <3>1. CASE conns'[u] = conns[u]
      BY <2>1, <3>1 DEF Lists, Members
    <3>2. ASSUME NEW f \in DOMAIN conns[u],
                 Len(conns'[u]) = Len(conns[u]) - 1,
                 \A k \in DOMAIN conns'[u] :
                    conns'[u][k] = IF k < f THEN conns[u][k] ELSE conns[u][k + 1]
          PROVE  i = j
      <4> DEFINE At(k) == IF k < f THEN k ELSE k + 1
      <4>1. At(i) \in DOMAIN conns[u] /\ At(j) \in DOMAIN conns[u]
        BY <1>6, <3>2
      <4>2. conns[u][At(i)] = conns[u][At(j)]
        BY <2>1, <3>2
      <4>3. At(i) = At(j)
        BY <4>1, <4>2 DEF Lists, Members
      <4> QED
        BY <1>6, <4>3
    <3> QED
      BY <1>5, <3>1, <3>2
  <2>2. \A u \in Users : \A i \in DOMAIN conns'[u] : userOf'[conns'[u][i]] = u
    BY <1>7 DEF Lists, Members
  <2> QED
    BY <2>1, <2>2 DEF Members
<1>10. Present'
  <2> SUFFICES ASSUME NEW d \in Conns, userOf[d] # Nobody, ~done[d]
               PROVE  \E i \in DOMAIN conns'[userOf[d]] : conns'[userOf[d]][i] = d
    BY DEF Present
  <2>1. PICK j \in DOMAIN conns[userOf[d]] : conns[userOf[d]][j] = d
    BY DEF Lists, Present
  <2>2. d # c /\ userOf[d] \in Users
    BY DEF TypeOK
  <2> QED
    BY <1>8, <2>1, <2>2
<1>11. Quiet'
  <2>1. \A u \in Users, d \in Conns : \A i \in DOMAIN conns[u] :
            conns[u][i] = d /\ ~done[d] => Last(d) = published[u]
    BY <1>3 DEF Lists, Quiet, Unregister
  <2>2. \A u \in Users : \A i \in DOMAIN conns[u] : conns[u][i] \in Conns
    BY DEF TypeOK
  <2> QED
    BY <1>1, <1>7, <2>1, <2>2 DEF Quiet
<1> QED
  BY <1>2, <1>4, <1>9, <1>10, <1>11 DEF Lists

\* A connection that registers is last in its user's list, with an empty stream.
LEMMA RegisterKeepsLists ==
    ASSUME HInv, TypeOK', NEW c \in Conns, NEW u \in Users, Register(c, u)
    PROVE  Lists' /\ Numbered'
<1>1. /\ userOf[c] = Nobody /\ Stream(c) = << >> /\ holder = "free"
      /\ conns' = [conns EXCEPT ![u] = Append(conns[u], c)]
      /\ userOf' = [userOf EXCEPT ![c] = u]
      /\ since' = [since EXCEPT ![c] = published[u]]
      /\ UNCHANGED <<holder, done, events, payload, sent, caster, published>>
  BY DEF Register, HInv, Unborn, TypeOK
<1>2. \A d \in Conns : Stream(d)' = Stream(d)
  BY <1>1 DEF Stream
<1>3. TypeOK /\ Lists /\ Numbered
  BY DEF HInv
<1>4. /\ Len(Stream(c)) = 0 /\ Last(c)' = published[u]
      /\ \A d \in Conns \ {c} : Last(d)' = Last(d)
  BY <1>1, <1>2, <1>3 DEF Last, TypeOK
<1>5. Numbered'
  BY <1>1, <1>2, <1>3, <1>4 DEF Numbered, TypeOK
<1>6. \A b \in Casters : ~Looping(b) /\ ~Looping(b)' /\ holder # b
  BY <1>1, <1>3, HubAssumption DEF Lists, Locked, Looping
<1>7. Locked' /\ Within' /\ Progress'
  BY <1>1, <1>6 DEF Locked, Within, Progress
<1>8. /\ \A v \in Users : conns[v] \in Seq(Conns)
      /\ \A v \in Users : \A i \in DOMAIN conns[v] :
            conns[v][i] \in Conns /\ conns[v][i] # c
  BY <1>1, <1>3, HubAssumption DEF TypeOK, Lists, Members
<1>9. /\ Len(conns'[u]) = Len(conns[u]) + 1
      /\ conns'[u][Len(conns[u]) + 1] = c
      /\ DOMAIN conns'[u] = 1 .. Len(conns[u]) + 1
      /\ \A i \in DOMAIN conns[u] : conns'[u][i] = conns[u][i]
      /\ \A v \in Users \ {u} : conns'[v] = conns[v]
  BY <1>1, <1>3, <1>8, SMTT(40) DEF TypeOK
<1>10. Members'
  <2>1. ASSUME NEW v \in Users, NEW i \in DOMAIN conns'[v]
        PROVE  \/ /\ i \in DOMAIN conns[v] /\ conns'[v][i] = conns[v][i]
                  /\ conns[v][i] \in Conns /\ conns[v][i] # c
               \/ v = u /\ i = Len(conns[u]) + 1 /\ conns'[v][i] = c
    BY <1>8, <1>9
  <2>2. ASSUME NEW v \in Users, NEW i \in DOMAIN conns'[v]
        PROVE  userOf'[conns'[v][i]] = v
    BY <1>1, <1>3, <2>1, <2>2, SMTT(40) DEF Lists, Members, TypeOK
  <2>3. ASSUME NEW v \in Users, NEW i \in DOMAIN conns'[v], NEW j \in DOMAIN conns'[v],
               conns'[v][i] = conns'[v][j]
        PROVE  i = j
    <3>1. CASE i \in DOMAIN conns[v] /\ j \in DOMAIN conns[v]
      BY <1>3, <2>1, <2>3, <3>1, <1>8, <1>9 DEF Lists, Members
    <3> QED
      BY <2>1, <2>3, <3>1
  <2> QED
    BY <2>2, <2>3 DEF Members
<1>11. Present'
  <2> SUFFICES ASSUME NEW d \in Conns, userOf'[d] # Nobody, ~done[d]
               PROVE  \E i \in DOMAIN conns'[userOf'[d]] : conns'[userOf'[d]][i] = d
    BY <1>1 DEF Present
  <2>1. CASE d = c
    BY <1>1, <1>3, <1>8, <1>9, <2>1 DEF TypeOK
  <2>2. CASE d # c
    <3>1. userOf'[d] = userOf[d] /\ userOf[d] \in Users
      BY <1>1, <1>3, <2>2 DEF TypeOK
    <3>2. PICK i \in DOMAIN conns[userOf[d]] : conns[userOf[d]][i] = d
      BY <1>3, <3>1 DEF Lists, Present
    <3>3. i \in DOMAIN conns'[userOf[d]] /\ conns'[userOf[d]][i] = d
      BY <1>8, <1>9, <3>1, <3>2
    <3> QED
      BY <3>1, <3>3
  <2> QED
    BY <2>1, <2>2
<1>12. Quiet'
  <2>1. \A v \in Users, d \in Conns : \A i \in DOMAIN conns[v] :
            conns[v][i] = d /\ ~done[d] => Last(d) = published[v]
    BY <1>1, <1>3, <1>6 DEF Lists, Quiet
  <2>2. ASSUME NEW v \in Users, NEW i \in DOMAIN conns'[v],
               NEW d \in Conns, d = conns'[v][i], ~done[d]
        PROVE  Last(d)' = published[v]
    <3>1. CASE i \in DOMAIN conns[v] /\ conns'[v][i] = conns[v][i]
      BY <1>4, <1>8, <2>1, <2>2, <3>1
    <3>2. CASE v = u /\ i = Len(conns[u]) + 1
      BY <1>4, <1>9, <2>2, <3>2
    <3> QED
      BY <1>8, <1>9, <3>1, <3>2
  <2> QED
    BY <1>1, <2>2 DEF Quiet
<1> QED
  BY <1>5, <1>7, <1>10, <1>11, <1>12 DEF Lists

\* A loop begins: its event is one more than everybody listed has.
LEMMA LockKeepsLists ==
    ASSUME TypeOK, TypeOK', Lists, Numbered, NEW b \in Casters, NEW u \in Users,
           BroadcastLock(b, u)
    PROVE  Lists' /\ Numbered'
<1>1. /\ holder = "free" /\ holder' = b
      /\ published' = [published EXCEPT ![u] = @ + 1]
      /\ UNCHANGED <<conns, userOf, done, events, payload, since, sent>>
  BY DEF BroadcastLock, connVars
<1>2. /\ IsRecord(caster'[b], "check", u, 1, << >>)
      /\ \A a \in Casters \ {b} : caster'[a] = caster[a]
  BY OtherSteps
<1>3. \A a \in Casters : ~Looping(a) /\ holder # a
  BY <1>1, HubAssumption DEF Lists, Locked
<1>4. Looping(b)' /\ \A a \in Casters \ {b} : ~Looping(a)'
  BY <1>2, <1>3 DEF Looping, IsRecord
<1>5. \A c \in Conns : Stream(c)' = Stream(c) /\ Last(c)' = Last(c)
  BY <1>1 DEF Last, Stream
<1>6. Numbered' /\ Members' /\ Present' /\ Locked'
  BY <1>1, <1>4, <1>5 DEF Numbered, Lists, Members, Present, Locked
<1>7. \A v \in Users : conns[v] \in Seq(Conns)
  BY DEF TypeOK
<1>8. Within'
  BY <1>1, <1>2, <1>4, <1>7 DEF Within, IsRecord
<1>9. /\ \A v \in Users : \A i \in DOMAIN conns[v] : conns[v][i] \in Conns
      /\ \A v \in Users, d \in Conns : \A i \in DOMAIN conns[v] :
            conns[v][i] = d /\ ~done[d] => Last(d) = published[v]
  <2>1. \A v \in Users, d \in Conns : \A i \in DOMAIN conns[v] :
            conns[v][i] = d /\ ~done[d] => Last(d) = published[v]
    BY <1>1, <1>3 DEF Lists, Quiet
  <2>2. \A v \in Users : \A i \in DOMAIN conns[v] : conns[v][i] \in Conns
    BY DEF TypeOK
  <2> QED
    BY <2>1, <2>2
<1>10. published[u] \in Nat /\ published'[u] = published[u] + 1
       /\ \A v \in Users \ {u} : published'[v] = published[v]
  BY <1>1 DEF TypeOK
<1>11. Quiet'
  BY <1>1, <1>2, <1>4, <1>5, <1>9, <1>10 DEF Quiet, IsRecord
<1>12. Progress'
  BY <1>1, <1>2, <1>4, <1>5, <1>7, <1>9, <1>10 DEF Progress, IsRecord
<1> QED
  BY <1>6, <1>8, <1>11, <1>12 DEF Lists

LEMMA CheckKeepsLists ==
    ASSUME TypeOK, TypeOK', Lists, Numbered, NEW b \in Casters, BroadcastCheck(b)
    PROVE  Lists' /\ Numbered'
<1> DEFINE u == caster[b].user
           i == caster[b].i
           c == Target(b)
<1>1. UNCHANGED <<holder, conns, userOf, done, events, payload, since, sent, published>>
  BY DEF BroadcastCheck, connVars
<1>2. /\ Looping(b) /\ c \in Conns /\ i \in DOMAIN conns[u]
      /\ \A a \in Casters \ {b} : caster'[a] = caster[a]
      /\ \/ /\ done[c]
            /\ caster'[b].at = "check" /\ caster'[b].user = u /\ caster'[b].i = i + 1
         \/ /\ ~done[c]
            /\ caster'[b].at = "send" /\ caster'[b].user = u /\ caster'[b].i = i
  BY CheckStep DEF Lists, IsRecord
<1>3. u \in Users /\ i \in Nat \ {0} /\ conns[u] \in Seq(Conns) /\ conns[u][i] = c
      /\ caster[b].at = "check"
  BY <1>2, CasterTypes DEF TypeOK, Target, BroadcastCheck
<1>4. \A a \in Casters : Looping(a)' <=> Looping(a)
  BY <1>2 DEF Looping
<1>5. \A d \in Conns : Stream(d)' = Stream(d) /\ Last(d)' = Last(d)
  BY <1>1 DEF Last, Stream
<1>6. Numbered' /\ Members' /\ Present' /\ Locked'
  BY <1>1, <1>4, <1>5 DEF Numbered, Lists, Members, Present, Locked
<1>7. \A a \in Casters : caster'[a].user = caster[a].user
  BY <1>2
<1>8. \A v \in Users : \A j \in DOMAIN conns[v] : conns[v][j] \in Conns
  BY DEF TypeOK
<1>9. Quiet'
  BY <1>1, <1>4, <1>5, <1>7, <1>8 DEF Lists, Quiet
<1>10. i <= Len(conns[u])
  BY <1>2, <1>3
<1>11. \A a \in Casters \ {b} : ~Looping(a)
  BY <1>2 DEF Lists, Locked
<1>12. Within'
  <2>1. \A a \in Casters : Looping(a)' => a = b
    BY <1>4, <1>11
  <2>2. /\ caster'[b].i <= Len(conns[u]) + 1
        /\ caster'[b].at = "send" => caster'[b].i <= Len(conns[u])
    BY <1>2, <1>3, <1>10
  <2> QED
    BY <1>1, <1>7, <2>1, <2>2 DEF Within
<1>13. Progress'
  <2> SUFFICES ASSUME NEW j \in DOMAIN conns[u]
               PROVE  LET d == conns[u][j]
                      IN /\ j < caster'[b].i /\ ~done[d] => Last(d) = published[u]
                         /\ \/ j > caster'[b].i /\ ~done[d]
                            \/ j = caster'[b].i /\ (~done[d] \/ caster'[b].at = "send")
                            => Last(d) + 1 = published[u]
    BY <1>1, <1>2, <1>3, <1>4, <1>5, <1>8, <1>11 DEF Progress
  <2>1. LET d == conns[u][j]
        IN /\ j < i /\ ~done[d] => Last(d) = published[u]
           /\ (j > i \/ j = i) /\ ~done[d] => Last(d) + 1 = published[u]
    BY <1>2, <1>3, SMTT(40) DEF Lists, Progress
  <2>2. j \in Nat /\ (j = i => conns[u][j] = c)
    BY <1>3
  <2> QED
    BY <1>2, <1>3, <2>1, <2>2
<1> QED
  BY <1>6, <1>9, <1>12, <1>13 DEF Lists

LEMMA UnlockKeepsLists ==
    ASSUME TypeOK, TypeOK', Lists, Numbered, NEW b \in Casters, BroadcastUnlock(b)
    PROVE  Lists' /\ Numbered'
<1>1. /\ UNCHANGED <<conns, userOf, done, events, payload, since, sent, published>>
      /\ caster[b].i > Len(conns[caster[b].user]) /\ holder' = "free"
  BY DEF BroadcastUnlock, connVars
<1>2. /\ Looping(b) /\ caster'[b].at = "reap" /\ caster[b].user \in Users
      /\ caster[b].i \in Nat
      /\ \A a \in Casters \ {b} : caster'[a] = caster[a]
  BY OtherSteps, CasterTypes DEF IsRecord
<1>3. \A a \in Casters : ~Looping(a)' /\ holder' # a
  BY <1>1, <1>2, HubAssumption DEF Lists, Locked, Looping
<1>4. \A d \in Conns : Stream(d)' = Stream(d) /\ Last(d)' = Last(d)
  BY <1>1 DEF Last, Stream
<1>5. Numbered' /\ Members' /\ Present' /\ Locked' /\ Within' /\ Progress'
  BY <1>1, <1>3, <1>4 DEF Numbered, Lists, Members, Present, Locked, Within, Progress
<1>6. \A v \in Users : conns[v] \in Seq(Conns) /\ \A j \in DOMAIN conns[v] : conns[v][j] \in Conns
  BY DEF TypeOK
<1>7. holder = b /\ holder # "wedged"
  BY <1>2, HubAssumption DEF Lists, Locked
<1>8. ASSUME NEW v \in Users, NEW d \in Conns, NEW j \in DOMAIN conns[v], conns[v][j] = d, ~done[d]
      PROVE  Last(d) = published[v]
  <2>1. CASE v = caster[b].user
    <3>1. j < caster[b].i
      BY <1>1, <1>2, <1>6, <2>1
    <3> QED
      BY <1>2, <1>8, <2>1, <3>1 DEF Lists, Progress
  <2>2. CASE v # caster[b].user
    <3>1. \A a \in Casters : ~(Looping(a) /\ caster[a].user = v)
      BY <1>7, <2>2 DEF Lists, Locked
    <3> QED
      BY <1>7, <1>8, <3>1 DEF Lists, Quiet
  <2> QED
    BY <2>1, <2>2
<1>9. Quiet'
  BY <1>1, <1>4, <1>6, <1>8 DEF Quiet
<1> QED
  BY <1>5, <1>9 DEF Lists

\* A loop is at entry i of u's list, and has queued its event for those before.
LEMMA ProgressMade ==
    ASSUME TypeOK, UNCHANGED <<conns, published>>, NEW b \in Casters, NEW u \in Users,
           NEW i \in Nat, caster'[b].at = "check", caster'[b].user = u, caster'[b].i = i,
           \A a \in Casters : Looping(a)' => a = b,
           \A j \in DOMAIN conns[u] : \A d \in Conns :
                conns[u][j] = d /\ ~done'[d] =>
                    /\ j < i => Last(d)' = published[u]
                    /\ j >= i => Last(d)' + 1 = published[u]
    PROVE  Progress'
<1>1. \A j \in DOMAIN conns[u] : j \in Nat
  BY DEF TypeOK
<1> QED
  BY <1>1 DEF Progress

\* The event goes to the connection at the index, or that is told to stop, or the
\* broadcast panics and nobody gets h.mu any more.
LEMMA SendKeepsLists ==
    ASSUME TypeOK, TypeOK', Lists, Numbered, NEW b \in Casters, BroadcastSend(b)
    PROVE  Lists' /\ Numbered'
<1>1. UNCHANGED <<conns, userOf, payload, since, sent, published>>
  BY DEF BroadcastSend
<1>0. Looping(b) /\ caster[b].user \in Users
  BY SendStep, CasterTypes DEF Lists
<1> PICK c \in Conns : c = Target(b)
  BY SendStep DEF Lists
<1> PICK u \in Users : u = caster[b].user
  BY <1>0
<1> PICK i : i = caster[b].i
  OBVIOUS
<1> PICK e : e = <<u, published[u]>>
  OBVIOUS
<1>2. /\ Looping(b) /\ c \in Conns /\ i \in DOMAIN conns[u] /\ caster[b].at = "send"
      /\ \A a \in Casters \ {b} : caster'[a] = caster[a]
  BY SendStep DEF Lists
<1>3. u \in Users /\ i \in Nat \ {0} /\ conns[u] \in Seq(Conns) /\ conns[u][i] = c
  BY <1>2, CasterTypes DEF TypeOK, Target
<1>4. userOf[c] = u /\ since[c] + Len(Stream(c)) + 1 = published[u]
  <2>1. userOf[c] = u
    BY <1>2, <1>3 DEF Lists, Members
  <2>2. \A j \in DOMAIN conns[u] : j = i => Last(conns[u][j]) + 1 = published[u]
    BY <1>2, <1>3, SMTT(40) DEF Lists, Progress
  <2> QED
    BY <1>2, <1>3, <2>1, <2>2 DEF Last
<1>5. \A v \in Users : \A j \in DOMAIN conns[v] :
        conns[v][j] \in Conns /\ (conns[v][j] = c => v = u /\ j = i)
  <2>1. \A v \in Users : \A j \in DOMAIN conns[v] : conns[v][j] \in Conns
    BY DEF TypeOK
  <2>2. ASSUME NEW v \in Users, NEW j \in DOMAIN conns[v], conns[v][j] = c
        PROVE  v = u /\ j = i
    <3>1. v = u
      BY <1>4, <2>2 DEF Lists, Members
    <3> QED
      BY <1>2, <1>3, <2>2, <3>1 DEF Lists, Members
  <2> QED
    BY <2>1, <2>2
<1>6. \A a \in Casters \ {b} : ~Looping(a) /\ ~Looping(a)'
  BY <1>2 DEF Lists, Locked, Looping
<1>7. \A d \in Conns : Last(d) \in Nat
  BY Streams
<1>8. ASSUME /\ caster'[b].at = "check" /\ caster'[b].user = u /\ caster'[b].i = i + 1
             /\ holder' = holder
      PROVE  Locked' /\ Within' /\ Looping(b)'
  <2>1. Looping(b)' /\ holder' = b
    BY <1>2, <1>8 DEF Lists, Locked, Looping
  <2>2. Within'
    BY <1>1, <1>2, <1>3, <1>6, <1>8 DEF Within
  <2>3. Locked'
    BY <1>6, <1>2, <2>1 DEF Locked, Lists
  <2> QED
    BY <2>1, <2>2, <2>3
\* Of the others at or after the index, none had the event yet.
<1>9. ASSUME NEW j \in DOMAIN conns[u], j # i, NEW d \in Conns, conns[u][j] = d, ~done[d]
      PROVE  /\ j < i + 1 => Last(d) = published[u]
             /\ j >= i + 1 => Last(d) + 1 = published[u]
  <2>1. j \in Nat
    BY <1>3
  <2>2. /\ j < i /\ ~done[d] => Last(d) = published[u]
        /\ j > i /\ ~done[d] => Last(d) + 1 = published[u]
    BY <1>9, <1>2, <1>3 DEF Lists, Progress
  <2> QED
    BY <1>3, <1>9, <2>1, <2>2
<1>10. ASSUME NEW v \in Users, v # u, NEW d \in Conns, NEW j \in DOMAIN conns[v],
              conns[v][j] = d, ~done[d]
       PROVE  Last(d) = published[v]
  <2>1. holder = b
    BY <1>2 DEF Lists, Locked
  <2>2. holder # "wedged" /\ \A a \in Casters : ~(Looping(a) /\ caster[a].user = v)
    BY <1>6, <1>10, <2>1, HubAssumption
  <2> QED
    BY <1>10, <2>2 DEF Lists, Quiet
<1>11. CASE /\ events' = [events EXCEPT ![c] = Append(@, e)]
            /\ IsRecord(caster'[b], "check", u, i + 1, caster[b].dead)
            /\ UNCHANGED <<holder, done>>
  <2>1. e \in Users \X Nat
    BY <1>3 DEF TypeOK
  <2>2. Stream(c)' = Append(Stream(c), e) /\ \A d \in Conns \ {c} : Stream(d)' = Stream(d)
    <3>1. /\ events'[c] = Append(events[c], e)
          /\ \A d \in Conns \ {c} : events'[d] = events[d]
      BY <1>2, <1>11 DEF TypeOK
    <3>2. /\ sent[c] \in Seq(Users \X Nat) /\ payload[c] \in Seq(Users \X Nat)
          /\ events[c] \in Seq(Users \X Nat)
      BY <1>2 DEF TypeOK
    <3>3. sent[c] \o payload[c] \o Append(events[c], e)
            = Append(sent[c] \o payload[c] \o events[c], e)
      <4> DEFINE S == Users \X Nat
             s == sent[c]
             p == payload[c]
             f == events[c]
      <4>1. s \in Seq(S) /\ p \in Seq(S) /\ f \in Seq(S) /\ e \in S
        BY <2>1, <3>2
      <4> HIDE DEF S, s, p, f
      <4>2. s \o p \o Append(f, e) = Append(s \o p \o f, e)
        BY <4>1, StreamSteps
      <4> QED
        BY <4>2 DEF s, p, f
    <3> QED
      BY <1>1, <3>1, <3>3 DEF Stream
  <2>3. Stream(c) \in Seq(Users \X Nat) /\ Len(Stream(c)) \in Nat /\ since[c] \in Nat
        /\ published[u] \in Nat
    BY <1>2, <1>3, Streams DEF TypeOK
  <2>4. /\ Len(Stream(c)') = Len(Stream(c)) + 1
        /\ DOMAIN (Stream(c)') = 1 .. Len(Stream(c)) + 1
        /\ DOMAIN Stream(c) = 1 .. Len(Stream(c))
        /\ \A k \in 1 .. Len(Stream(c)) : Stream(c)'[k] = Stream(c)[k]
        /\ Stream(c)'[Len(Stream(c)) + 1] = e
    BY <2>1, <2>2, <2>3, AppendProperties, LenProperties
  <2>5. Last(c)' = published[u]
    <3>1. Last(c)' = since[c] + Len(Stream(c)')
      BY <1>1 DEF Last
    <3>2. Last(c)' = since[c] + (Len(Stream(c)) + 1)
      BY <2>4, <3>1, Zenon
    <3> QED
      <4> DEFINE n == Len(Stream(c))
                 a == since[c]
                 p == published[u]
                 l == Last(c)'
      <4>1. n \in Nat /\ a \in Nat /\ p \in Nat /\ a + n + 1 = p /\ l = a + (n + 1)
        BY <1>4, <2>3, <3>2, Zenon
      <4> HIDE DEF n, a, p, l
      <4>2. l = p
        BY <4>1
      <4> QED
        BY <4>2 DEF l, p
  <2>6. \A d \in Conns \ {c} : Last(d)' = Last(d)
    BY <1>1, <2>2 DEF Last
  <2>7. Numbered'
    <3>1. ASSUME NEW k \in DOMAIN (Stream(c)')
          PROVE  Stream(c)'[k] = <<userOf[c], since[c] + k>>
      <4>1. CASE k \in 1 .. Len(Stream(c))
        BY <1>2, <2>4, <4>1 DEF Numbered
      <4>2. CASE k = Len(Stream(c)) + 1
        BY <1>4, <2>3, <2>4, <4>2
      <4> QED
        BY <2>3, <2>4, <4>1, <4>2
    <3>2. \A d \in Conns \ {c} : \A k \in DOMAIN (Stream(d)') :
            Stream(d)'[k] = <<userOf[d], since[d] + k>>
      BY <2>2 DEF Numbered
    <3> QED
      BY <1>1, <3>1, <3>2 DEF Numbered
  <2>8. Locked' /\ Within' /\ Looping(b)'
    BY <1>8, <1>11 DEF IsRecord
  <2>9. Members' /\ Present'
    BY <1>1, <1>11 DEF Lists, Members, Present
  <2>10. Quiet'
    <3> SUFFICES ASSUME NEW v \in Users,
                        \A a \in Casters : ~(Looping(a) /\ caster[a].user = v)',
                        NEW j \in DOMAIN conns[v],
                        NEW d \in Conns, d = conns[v][j], ~done[d]
                 PROVE  Last(d)' = published[v]
      BY <1>1, <1>11 DEF Quiet
    <3>1. v # u
      BY <1>11, <2>8 DEF IsRecord
    <3>2. d # c
      BY <1>5, <3>1
    <3> QED
      BY <1>10, <2>6, <3>1, <3>2
  <2>11. Progress'
    <3> SUFFICES ASSUME NEW j \in DOMAIN conns[u], NEW d \in Conns, d = conns[u][j],
                        ~done'[d]
                 PROVE  /\ j < i + 1 => Last(d)' = published[u]
                        /\ j >= i + 1 => Last(d)' + 1 = published[u]
      <4>1. /\ caster'[b].at = "check" /\ caster'[b].user = u /\ caster'[b].i = i + 1
            /\ i + 1 \in Nat
        BY <1>3, <1>11 DEF IsRecord
      <4>2. \A a \in Casters : Looping(a)' => a = b
        BY <1>6
      <4> HIDE DEF Looping
      <4> QED
        BY <1>1, <4>1, <4>2, ProgressMade
    <3>1. CASE j = i
      BY <1>3, <2>5, <3>1
    <3>2. CASE j # i
      <4>1. d # c /\ ~done[d]
        BY <1>3, <1>5, <1>11, <3>2
      <4> QED
        BY <1>9, <2>6, <3>2, <4>1
    <3> QED
      BY <3>1, <3>2
  <2> QED
    BY <2>7, <2>8, <2>9, <2>10, <2>11 DEF Lists
<1>12. CASE /\ done' = [done EXCEPT ![c] = TRUE]
            /\ IsRecord(caster'[b], "check", u, i + 1, Append(caster[b].dead, c))
            /\ UNCHANGED <<holder, events>>
  <2>1. \A d \in Conns : Stream(d)' = Stream(d) /\ Last(d)' = Last(d)
    BY <1>1, <1>12 DEF Stream, Last
  <2>2. \A d \in Conns : done'[d] = (d = c \/ done[d])
    BY <1>2, <1>12 DEF TypeOK
  <2>3. Numbered'
    BY <1>1, <2>1 DEF Numbered
  <2>4. Locked' /\ Within' /\ Looping(b)'
    BY <1>8, <1>12 DEF IsRecord
  <2>5. Members' /\ Present'
    BY <1>1, <2>2 DEF Lists, Members, Present
  <2>6. Quiet'
    <3> SUFFICES ASSUME NEW v \in Users,
                        \A a \in Casters : ~(Looping(a) /\ caster[a].user = v)',
                        NEW j \in DOMAIN conns[v],
                        NEW d \in Conns, d = conns[v][j], ~done'[d]
                 PROVE  Last(d)' = published[v]
      BY <1>1 DEF Quiet
    <3>1. v # u
      BY <1>12, <2>4 DEF IsRecord
    <3> QED
      BY <1>10, <2>1, <2>2, <3>1
  <2>7. Progress'
    <3> SUFFICES ASSUME NEW j \in DOMAIN conns[u], NEW d \in Conns, d = conns[u][j],
                        ~done'[d]
                 PROVE  /\ j < i + 1 => Last(d)' = published[u]
                        /\ j >= i + 1 => Last(d)' + 1 = published[u]
      <4>1. /\ caster'[b].at = "check" /\ caster'[b].user = u /\ caster'[b].i = i + 1
            /\ i + 1 \in Nat
        BY <1>3, <1>12 DEF IsRecord
      <4>2. \A a \in Casters : Looping(a)' => a = b
        BY <1>6
      <4> HIDE DEF Looping
      <4> QED
        BY <1>1, <4>1, <4>2, ProgressMade
    <3>1. CASE j = i
      BY <1>3, <2>2, <3>1
    <3>2. CASE j # i
      BY <1>9, <2>1, <2>2, <3>2
    <3> QED
      BY <3>1, <3>2
  <2> QED
    BY <2>3, <2>4, <2>5, <2>6, <2>7 DEF Lists
<1>13. CASE /\ caster'[b] = Resting /\ holder' = "wedged"
            /\ UNCHANGED <<events, done>>
  <2>1. \A a \in Casters : ~Looping(a)' /\ holder' # a
    BY <1>6, <1>13, HubAssumption DEF Looping, Resting
  <2>2. Locked' /\ Within' /\ Progress' /\ Quiet'
    BY <1>13, <2>1 DEF Locked, Within, Progress, Quiet
  <2>3. Members' /\ Present'
    BY <1>1, <1>13 DEF Lists, Members, Present
  <2>4. \A d \in Conns : Stream(d)' = Stream(d)
    BY <1>1, <1>13 DEF Stream
  <2>5. Numbered'
    BY <1>1, <2>4 DEF Numbered
  <2> QED
    BY <2>2, <2>3, <2>5 DEF Lists
<1> QED
  BY <1>11, <1>12, <1>13, SendStep DEF Lists

-----------------------------------------------------------------------------
(* The pumps. *)

\* No step of a pump but the write changes what its client will have been sent.
LEMMA PumpsKeepStreams ==
    ASSUME HInv, Pumps
    PROVE  /\ UNCHANGED <<holder, conns, userOf, caster, published, since>>
           /\ \A d \in Conns : done[d] => done'[d]
           /\ \A d \in Conns : Stream(d)' = Stream(d)
<1> PICK c \in Conns :
        \/ ReadError(c) \/ ReadPumpOnce(c) \/ ReadPumpClose(c)
        \/ SelectDone(c) \/ PingFails(c) \/ SelectEvent(c)
        \/ WriteSucceeds(c) \/ WriteFails(c) \/ WritePumpOnce(c)
  BY DEF Pumps
<1>1. TypeOK
  BY DEF HInv
<1>2. CASE ReadError(c) \/ ReadPumpClose(c) \/ SelectDone(c) \/ PingFails(c) \/ WriteFails(c)
  <2>1. UNCHANGED <<holder, conns, userOf, caster, published, since, done, sent, payload,
                    events>>
    BY <1>2 DEF ReadError, ReadPumpClose, SelectDone, PingFails, WriteFails, WriteFailsTo,
                WritePumpReturns
  <2> QED
    BY <2>1 DEF Stream
<1>3. CASE ReadPumpOnce(c) \/ WritePumpOnce(c)
  <2>1. /\ UNCHANGED <<holder, conns, userOf, caster, published, since, sent, payload,
                       events>>
        /\ done' = [done EXCEPT ![c] = TRUE]
    BY <1>3 DEF ReadPumpOnce, WritePumpOnce, UseOnce
  <2> QED
    BY <1>1, <2>1 DEF Stream, TypeOK
<1>4. CASE SelectEvent(c)
  <2>1. /\ UNCHANGED <<holder, conns, userOf, caster, published, since, done, sent>>
        /\ payload[c] = << >> /\ events[c] # << >>
        /\ payload'[c] = <<Head(events[c])>> /\ events'[c] = Tail(events[c])
        /\ \A d \in Conns \ {c} : payload'[d] = payload[d] /\ events'[d] = events[d]
    BY <1>1, <1>4 DEF SelectEvent, HInv, Empty, TypeOK
  <2>2. sent[c] \o <<Head(events[c])>> \o Tail(events[c]) = sent[c] \o << >> \o events[c]
    <3> DEFINE S == Users \X Nat
               s == sent[c]
               f == events[c]
    <3>1. s \in Seq(S) /\ f \in Seq(S) /\ << >> \in Seq(S) /\ f # << >>
      BY <1>1, <2>1, EmptySeq DEF TypeOK
    <3> HIDE DEF S, s, f
    <3>2. s \o <<Head(f)>> \o Tail(f) = s \o << >> \o f
      BY <3>1, StreamSteps
    <3> QED
      BY <3>2 DEF s, f
  <2>3. Stream(c)' = Stream(c)
    BY <2>1, <2>2 DEF Stream
  <2> QED
    BY <2>1, <2>3 DEF Stream
<1>5. CASE WriteSucceeds(c)
  <2>1. /\ UNCHANGED <<holder, conns, userOf, caster, published, since, done, events>>
        /\ sent'[c] = sent[c] \o payload[c] /\ payload'[c] = << >>
        /\ \A d \in Conns \ {c} : sent'[d] = sent[d] /\ payload'[d] = payload[d]
    BY <1>1, <1>5 DEF WriteSucceeds, TypeOK
  <2>2. (sent[c] \o payload[c]) \o << >> \o events[c] = sent[c] \o payload[c] \o events[c]
    <3> DEFINE S == Users \X Nat
               s == sent[c]
               p == payload[c]
               f == events[c]
    <3>1. s \in Seq(S) /\ p \in Seq(S) /\ f \in Seq(S)
      BY <1>1 DEF TypeOK
    <3> HIDE DEF S, s, p, f
    <3>2. (s \o p) \o << >> \o f = s \o p \o f
      BY <3>1, StreamSteps
    <3> QED
      BY <3>2 DEF s, p, f
  <2>3. Stream(c)' = Stream(c)
    BY <2>1, <2>2 DEF Stream
  <2> QED
    BY <2>1, <2>3 DEF Stream
<1> QED
  BY <1>2, <1>3, <1>4, <1>5

\* What a pump holds and why it unregisters.
Own == Unborn /\ Empty /\ Doomed

LEMMA PumpsKeepOwn ==
    ASSUME HInv, TypeOK', Pumps
    PROVE  Own'
<1>1. /\ UNCHANGED <<userOf, caster>>
      /\ \A d \in Conns : done[d] => done'[d]
      /\ \A d \in Conns : Stream(d)' = Stream(d)
  BY PumpsKeepStreams
<1> PICK c \in Conns :
        \/ ReadError(c) \/ ReadPumpOnce(c) \/ ReadPumpClose(c)
        \/ SelectDone(c) \/ PingFails(c) \/ SelectEvent(c)
        \/ WriteSucceeds(c) \/ WriteFails(c) \/ WritePumpOnce(c)
  BY DEF Pumps
<1>2. TypeOK /\ Unborn /\ Empty /\ Doomed
  BY DEF HInv
<1>3. /\ \A d \in Conns \ {c} : /\ reader'[d] = reader[d] /\ writer'[d] = writer[d]
                                /\ payload'[d] = payload[d]
      /\ reader'[c] # "unborn" <=> reader[c] # "unborn"
      /\ reader[c] = "unborn" => writer'[c] = "unborn"
      /\ writer'[c] \in {"unborn", "select"} => payload'[c] = << >>
      /\ reader'[c] = "unregister" \/ writer'[c] = "unregister" => done'[c]
  <2>1. CASE ReadError(c)
    BY <1>2, <2>1 DEF ReadError, TypeOK, Unborn, Empty, Doomed
  <2>2. CASE ReadPumpOnce(c)
    BY <1>2, <2>2 DEF ReadPumpOnce, UseOnce, TypeOK, Unborn, Empty, Doomed
  <2>3. CASE ReadPumpClose(c)
    BY <1>2, <2>3 DEF ReadPumpClose, TypeOK, Unborn, Empty, Doomed
  <2>4. CASE SelectDone(c) \/ PingFails(c)
    BY <1>2, <2>4 DEF SelectDone, PingFails, WritePumpReturns, TypeOK, Unborn, Empty, Doomed
  <2>5. CASE SelectEvent(c)
    BY <1>2, <2>5, SMTT(40) DEF SelectEvent, TypeOK, Unborn, Empty, Doomed
  <2>6. CASE WriteSucceeds(c)
    BY <1>2, <2>6 DEF WriteSucceeds, TypeOK, Unborn, Empty, Doomed
  <2>7. CASE WriteFails(c)
    BY <1>2, <2>7 DEF WriteFails, WriteFailsTo, TypeOK, Unborn, Empty, Doomed
  <2>8. CASE WritePumpOnce(c)
    BY <1>2, <2>8 DEF WritePumpOnce, UseOnce, TypeOK, Unborn, Empty, Doomed
  <2> QED
    BY <2>1, <2>2, <2>3, <2>4, <2>5, <2>6, <2>7, <2>8
<1>4. Unborn'
  BY <1>1, <1>2, <1>3 DEF Unborn
<1>5. Empty'
  BY <1>2, <1>3 DEF Empty
<1>6. Doomed'
  <2>1. \A d \in Conns :
            reader'[d] = "unregister" \/ writer'[d] = "unregister" => done'[d]
    BY <1>1, <1>2, <1>3 DEF Doomed
  <2>2. ASSUME NEW b \in Casters, caster[b] # Resting, NEW k \in DOMAIN caster[b].dead
        PROVE  done'[caster[b].dead[k]]
    <3>1. caster[b].dead \in Seq(Conns)
      BY <1>2, <2>2, CasterTypes
    <3>2. caster[b].dead[k] \in Conns
      BY <2>2, <3>1
    <3> QED
      BY <1>1, <1>2, <2>2, <3>2 DEF Doomed
  <2> QED
    BY <1>1, <2>1, <2>2 DEF Doomed
<1> QED
  BY <1>4, <1>5, <1>6 DEF Own

LEMMA ListsKeepOwn ==
    ASSUME HInv, NEW c \in Conns,
           \/ \E u \in Users : Register(c, u)
           \/ ReadPumpUnregister(c) \/ WritePumpUnregister(c)
    PROVE  Own'
<1>1. TypeOK /\ Unborn /\ Empty /\ Doomed
  BY DEF HInv
<1>2. UNCHANGED <<caster, done, sent, payload, events>>
  BY DEF Register, ReadPumpUnregister, WritePumpUnregister, WritePumpReturns
<1>3. \A d \in Conns : Stream(d)' = Stream(d)
  BY <1>2 DEF Stream
<1>4. ASSUME NEW u \in Users, Register(c, u) PROVE Own'
  <2>1. /\ reader' = [reader EXCEPT ![c] = "reading"] /\ reader[c] = "unborn"
        /\ writer' = [writer EXCEPT ![c] = "select"]
        /\ userOf' = [userOf EXCEPT ![c] = u]
    BY <1>4 DEF Register
  <2>2. u # Nobody /\ payload[c] = << >> /\ writer[c] = "unborn"
    BY <1>1, <2>1, HubAssumption DEF Unborn, Empty
  <2>3. Unborn' /\ Empty'
    BY <1>1, <1>2, <1>3, <2>1, <2>2 DEF Unborn, Empty, TypeOK
  <2>4. Doomed'
    BY <1>1, <1>2, <2>1 DEF Doomed, TypeOK
  <2> QED
    BY <2>3, <2>4 DEF Own
<1>5. CASE ReadPumpUnregister(c)
  <2>1. /\ reader' = [reader EXCEPT ![c] = "close"] /\ reader[c] = "unregister"
        /\ UNCHANGED <<writer, userOf>>
    BY <1>5 DEF ReadPumpUnregister
  <2>2. Unborn' /\ Empty'
    BY <1>1, <1>2, <1>3, <2>1 DEF Unborn, Empty, TypeOK
  <2>3. Doomed'
    BY <1>1, <1>2, <2>1 DEF Doomed, TypeOK
  <2> QED
    BY <2>2, <2>3 DEF Own
<1>6. CASE WritePumpUnregister(c)
  <2>1. /\ writer' = [writer EXCEPT ![c] = "gone"] /\ writer[c] = "unregister"
        /\ UNCHANGED <<reader, userOf>>
    BY <1>6 DEF WritePumpUnregister, WritePumpReturns
  <2>2. Unborn' /\ Empty'
    BY <1>1, <1>2, <1>3, <2>1 DEF Unborn, Empty, TypeOK
  <2>3. Doomed'
    BY <1>1, <1>2, <2>1 DEF Doomed, TypeOK
  <2> QED
    BY <2>2, <2>3 DEF Own
<1> QED
  BY <1>4, <1>5, <1>6

\* A broadcast remembers as dead only what it has found or made done.
LEMMA BroadcastKeepsOwn ==
    ASSUME HInv, TypeOK', NEW b \in Casters,
           BroadcastStep(b) \/ \E u \in Users : BroadcastLock(b, u)
    PROVE  Own'
<1>1. TypeOK /\ Unborn /\ Empty /\ Doomed /\ Within /\ Members
  BY DEF HInv, Lists
<1>2. UNCHANGED <<reader, writer, userOf, payload, sent>>
  BY DEF BroadcastStep, BroadcastLock, BroadcastCheck, BroadcastSend, BroadcastUnlock,
         BroadcastReap, connVars
<1>3. Empty'
  BY <1>1, <1>2 DEF Empty
\* The others' dead stay, and stay done.
<1>4. ASSUME \A a \in Casters \ {b} : caster'[a] = caster[a],
             \A d \in Conns : done[d] => done'[d],
             \/ caster'[b] = Resting
             \/ \A k \in DOMAIN caster'[b].dead : done'[caster'[b].dead[k]]
      PROVE  Doomed'
  <2>1. \A d \in Conns :
            reader'[d] = "unregister" \/ writer'[d] = "unregister" => done'[d]
    BY <1>1, <1>2, <1>4 DEF Doomed
  <2>2. ASSUME NEW a \in Casters \ {b}, caster[a] # Resting, NEW k \in DOMAIN caster[a].dead
        PROVE  done'[caster[a].dead[k]]
    <3>1. caster[a].dead \in Seq(Conns)
      BY <1>1, <2>2, CasterTypes
    <3>2. caster[a].dead[k] \in Conns
      BY <2>2, <3>1
    <3> QED
      BY <1>1, <1>4, <2>2, <3>2 DEF Doomed
  <2>3. \A a \in Casters : caster'[a] # Resting =>
            \A k \in DOMAIN caster'[a].dead : done'[caster'[a].dead[k]]
    BY <1>4, <2>2
  <2> QED
    BY <2>1, <2>3 DEF Doomed
<1>5. ASSUME NEW u \in Users, BroadcastLock(b, u) PROVE Own'
  <2>1. UNCHANGED <<events, done>>
    BY <1>5 DEF BroadcastLock, connVars
  <2>2. /\ caster'[b].dead = << >>
        /\ \A a \in Casters \ {b} : caster'[a] = caster[a]
    BY <1>1, <1>5, OtherSteps DEF IsRecord
  <2>3. Doomed'
    BY <1>4, <2>1, <2>2
  <2>4. Unborn'
    BY <1>1, <1>2, <2>1 DEF Unborn, Stream
  <2> QED
    BY <1>3, <2>3, <2>4 DEF Own
<1>6. CASE BroadcastCheck(b)
  <2>1. UNCHANGED <<events, done>>
    BY <1>6 DEF BroadcastCheck, connVars
  <2>2. /\ Looping(b) /\ Target(b) \in Conns
        /\ \A a \in Casters \ {b} : caster'[a] = caster[a]
        /\ \/ /\ done[Target(b)]
              /\ caster'[b].dead = Append(caster[b].dead, Target(b))
           \/ caster'[b].dead = caster[b].dead
    BY <1>1, <1>6, CheckStep DEF IsRecord
  <2>3. /\ caster[b] # Resting /\ caster[b].dead \in Seq(Conns)
        /\ \A k \in DOMAIN caster[b].dead : done[caster[b].dead[k]]
    BY <1>1, <2>2, CasterTypes DEF Doomed
  <2>4. ASSUME NEW k \in DOMAIN caster'[b].dead
        PROVE  done[caster'[b].dead[k]]
    <3>1. CASE /\ done[Target(b)]
               /\ caster'[b].dead = Append(caster[b].dead, Target(b))
      <4>1. \/ caster'[b].dead[k] = Target(b)
            \/ \E j \in DOMAIN caster[b].dead : caster'[b].dead[k] = caster[b].dead[j]
        BY <2>2, <2>3, <3>1, Entries
      <4> QED
        BY <2>3, <3>1, <4>1
    <3>2. CASE caster'[b].dead = caster[b].dead
      BY <2>3, <3>2
    <3> QED
      BY <2>2, <3>1, <3>2
  <2>5. Doomed'
    BY <1>4, <2>1, <2>2, <2>4
  <2>6. Unborn'
    BY <1>1, <1>2, <2>1 DEF Unborn, Stream
  <2> QED
    BY <1>3, <2>5, <2>6 DEF Own
<1>7. CASE BroadcastSend(b)
  <2> PICK c \in Conns : c = Target(b)
    BY <1>1, <1>7, SendStep
  <2>1. /\ Looping(b) /\ caster[b].i \in DOMAIN conns[caster[b].user]
        /\ \A a \in Casters \ {b} : caster'[a] = caster[a]
        /\ \A d \in Conns \ {c} : events'[d] = events[d]
        /\ \/ UNCHANGED done /\ caster'[b].dead = caster[b].dead
           \/ /\ done' = [done EXCEPT ![c] = TRUE]
              /\ caster'[b].dead = Append(caster[b].dead, c)
           \/ UNCHANGED done /\ caster'[b] = Resting
    <3>1. /\ Looping(b) /\ caster[b].i \in DOMAIN conns[caster[b].user]
          /\ \A a \in Casters \ {b} : caster'[a] = caster[a]
      BY <1>1, <1>7, SendStep
    <3>2. \/ /\ events' = [events EXCEPT ![c] =
                        Append(@, <<caster[b].user, published[caster[b].user]>>)]
             /\ UNCHANGED done /\ caster'[b].dead = caster[b].dead
          \/ /\ UNCHANGED events /\ done' = [done EXCEPT ![c] = TRUE]
             /\ caster'[b].dead = Append(caster[b].dead, c)
          \/ UNCHANGED <<events, done>> /\ caster'[b] = Resting
      BY <1>1, <1>7, SendStep DEF IsRecord
    <3>3. \A d \in Conns \ {c} : events'[d] = events[d]
      BY <1>1, <3>2 DEF TypeOK
    <3> QED
      BY <3>1, <3>2, <3>3
  <2>2. /\ caster[b] # Resting /\ caster[b].dead \in Seq(Conns)
        /\ caster[b].user \in Users
        /\ \A k \in DOMAIN caster[b].dead : done[caster[b].dead[k]]
    BY <1>1, <2>1, CasterTypes DEF Doomed
  <2>3. \A d \in Conns : done'[d] \in BOOLEAN /\ (done[d] => done'[d])
    BY <1>1, <2>1 DEF TypeOK
  <2>4. \/ caster'[b] = Resting
        \/ \A k \in DOMAIN caster'[b].dead : done'[caster'[b].dead[k]]
    <3>1. CASE UNCHANGED done /\ caster'[b].dead = caster[b].dead
      BY <2>2, <3>1
    <3>2. CASE /\ done' = [done EXCEPT ![c] = TRUE]
               /\ caster'[b].dead = Append(caster[b].dead, c)
      <4>1. done'[c] /\ \A k \in DOMAIN caster[b].dead : caster[b].dead[k] \in Conns
        BY <1>1, <2>2, <3>2 DEF TypeOK
      <4>2. ASSUME NEW k \in DOMAIN caster'[b].dead
            PROVE  done'[caster'[b].dead[k]]
        <5>1. CASE k \in DOMAIN caster[b].dead
          BY <2>2, <2>3, <3>2, <4>1, <5>1
        <5>2. CASE k = Len(caster[b].dead) + 1
          BY <2>2, <3>2, <4>1, <5>2
        <5> QED
          BY <2>2, <3>2, <5>1, <5>2
      <4> QED
        BY <4>2
    <3> QED
      BY <2>1, <3>1, <3>2
  <2>5. Doomed'
    BY <1>4, <2>1, <2>3, <2>4
  <2>6. reader[c] # "unborn"
    <3>1. userOf[c] = caster[b].user
      BY <1>1, <2>1, <2>2 DEF Members, Target
    <3> QED
      BY <1>1, <2>2, <3>1, HubAssumption DEF Unborn
  <2>7. Unborn'
    BY <1>1, <1>2, <2>1, <2>6 DEF Unborn, Stream
  <2> QED
    BY <1>3, <2>5, <2>7 DEF Own
<1>8. CASE BroadcastUnlock(b)
  <2>1. UNCHANGED <<events, done>>
    BY <1>8 DEF BroadcastUnlock, connVars
  <2>2. /\ Looping(b) /\ caster'[b].dead = caster[b].dead
        /\ \A a \in Casters \ {b} : caster'[a] = caster[a]
    BY <1>1, <1>8, OtherSteps DEF IsRecord
  <2>3. \A k \in DOMAIN caster[b].dead : done[caster[b].dead[k]]
    BY <1>1, <2>2, CasterTypes DEF Doomed
  <2>4. Doomed'
    BY <1>4, <2>1, <2>2, <2>3
  <2>5. Unborn'
    BY <1>1, <1>2, <2>1 DEF Unborn, Stream
  <2> QED
    BY <1>3, <2>4, <2>5 DEF Own
<1>9. CASE BroadcastReap(b)
  <2>1. UNCHANGED <<events, done>>
    BY <1>9 DEF BroadcastReap, connVars
  <2>2. /\ caster[b] # Resting
        /\ \A a \in Casters \ {b} : caster'[a] = caster[a]
        /\ \/ caster'[b] = Resting
           \/ caster[b].dead # << >> /\ caster'[b].dead = Tail(caster[b].dead)
    BY <1>1, <1>9, OtherSteps DEF IsRecord
  <2>3. /\ caster[b].dead \in Seq(Conns)
        /\ \A k \in DOMAIN caster[b].dead : done[caster[b].dead[k]]
    BY <1>1, <2>2, CasterTypes DEF Doomed
  <2>4. \/ caster'[b] = Resting
        \/ \A k \in DOMAIN caster'[b].dead : done[caster'[b].dead[k]]
    <3>1. CASE caster[b].dead # << >> /\ caster'[b].dead = Tail(caster[b].dead)
      <4>1. \A k \in DOMAIN caster'[b].dead :
                \E j \in DOMAIN caster[b].dead : caster'[b].dead[k] = caster[b].dead[j]
        BY <2>3, <3>1, Entries
      <4> QED
        BY <2>3, <4>1
    <3> QED
      BY <2>2, <3>1
  <2>5. Doomed'
    BY <1>4, <2>1, <2>2, <2>4
  <2>6. Unborn'
    BY <1>1, <1>2, <2>1 DEF Unborn, Stream
  <2> QED
    BY <1>3, <2>5, <2>6 DEF Own
<1> QED
  BY <1>5, <1>6, <1>7, <1>8, <1>9 DEF BroadcastStep

-----------------------------------------------------------------------------
LEMMA HInvInit == Init => HInv
<1> SUFFICES ASSUME Init PROVE HInv
  OBVIOUS
<1>1. << >> \in Seq(Conns) /\ << >> \in Seq(Users \X Nat) /\ Len(<< >>) = 0
  BY EmptySeq
<1>2. TypeOK
  <2>1. /\ conns \in [Users -> Seq(Conns)]
        /\ events \in [Conns -> Seq(Users \X Nat)] /\ payload \in [Conns -> Seq(Users \X Nat)]
        /\ sent \in [Conns -> Seq(Users \X Nat)]
        /\ \A c \in Conns : Len(events[c]) <= BufferSize
    BY <1>1, HubAssumption DEF Init
  <2>2. caster \in [Casters -> {Resting} \cup Rec]
    BY DEF Init
  <2> QED
    BY <2>1, <2>2 DEF Init, TypeOK, Rec
<1>3. \A c \in Conns : Stream(c) = << >> \o << >> \o << >> /\ << >> \o << >> = << >>
  BY <1>1, ConcatEmptySeq DEF Init, Stream
<1>4. Numbered
  BY <1>1, <1>3 DEF Numbered
<1>5. \A b \in Casters : ~Looping(b) /\ holder # b
  BY HubAssumption DEF Init, Looping, Resting
<1>6. Lists
  BY <1>1, <1>5, EmptySeq DEF Init, Lists, Locked, Within, Members, Present, Quiet, Progress
<1>7. Unborn /\ Empty /\ Doomed
  BY <1>3 DEF Init, Unborn, Empty, Doomed
<1> QED
  BY <1>2, <1>4, <1>6, <1>7 DEF HInv

LEMMA HInvNext == HInv /\ [Next]_vars => HInv'
<1> SUFFICES ASSUME HInv, [Next]_vars PROVE HInv'
  OBVIOUS
<1>1. TypeOK /\ Lists /\ Numbered /\ Own /\ Within
  BY DEF HInv, Lists, Own
<1> SUFFICES TypeOK' /\ Lists' /\ Numbered' /\ Own'
  BY DEF HInv, Own
<1>2. CASE Pumps
  <2>1. TypeOK'
    BY <1>1, <1>2, TypePumps
  <2> QED
    BY <1>1, <1>2, <2>1, PumpsKeepStreams, PumpsKeepLists, PumpsKeepOwn
<1>3. ASSUME NEW c \in Conns, NEW u \in Users, Register(c, u)
      PROVE  TypeOK' /\ Lists' /\ Numbered' /\ Own'
  BY <1>1, <1>3, TypeLists, RegisterKeepsLists, ListsKeepOwn
<1>4. ASSUME NEW c \in Conns, ReadPumpUnregister(c) \/ WritePumpUnregister(c)
      PROVE  TypeOK' /\ Lists' /\ Numbered' /\ Own'
  <2>1. TypeOK' /\ Own'
    BY <1>1, <1>4, TypeLists, ListsKeepOwn
  <2>2. /\ Unregister(c) /\ done[c]
        /\ UNCHANGED <<holder, userOf, done, published, since, caster, sent, payload, events>>
    BY <1>1, <1>4 DEF Own, Doomed, ReadPumpUnregister, WritePumpUnregister, WritePumpReturns
  <2>3. \A b \in Casters : Looping(b)' => Looping(b)
    BY <2>2 DEF Looping
  <2>4. \A d \in Conns : Stream(d)' = Stream(d)
    BY <2>2 DEF Stream
  <2> QED
    BY <1>1, <2>1, <2>2, <2>3, <2>4, UnregisterKeepsLists
<1>5. ASSUME NEW b \in Casters, NEW u \in Users, BroadcastLock(b, u)
      PROVE  TypeOK' /\ Lists' /\ Numbered' /\ Own'
  BY <1>1, <1>5, OtherSteps, LockKeepsLists, BroadcastKeepsOwn
<1>6. ASSUME NEW b \in Casters, BroadcastStep(b)
      PROVE  TypeOK' /\ Lists' /\ Numbered' /\ Own'
  <2>1. TypeOK'
    BY <1>1, <1>6, CheckStep, SendStep, OtherSteps DEF BroadcastStep
  <2>2. Own'
    BY <1>6, <2>1, BroadcastKeepsOwn
  <2>3. CASE BroadcastCheck(b)
    BY <1>1, <2>1, <2>2, <2>3, CheckKeepsLists
  <2>4. CASE BroadcastSend(b)
    BY <1>1, <2>1, <2>2, <2>4, SendKeepsLists
  <2>5. CASE BroadcastUnlock(b)
    BY <1>1, <2>1, <2>2, <2>5, UnlockKeepsLists
  <2>6. CASE BroadcastReap(b)
    <3>1. UNCHANGED <<holder, userOf, done, published, since, sent, payload, events>>
      BY <2>6 DEF BroadcastReap, connVars
    <3>2. \A d \in Conns : Stream(d)' = Stream(d) /\ Last(d)' = Last(d)
      BY <3>1 DEF Stream, Last
    <3>3. /\ caster[b] # Resting /\ caster[b].at = "reap"
          /\ \A a \in Casters \ {b} : caster'[a] = caster[a]
      BY <1>1, <2>6, OtherSteps DEF BroadcastReap
    <3>4. CASE caster'[b] = Resting /\ UNCHANGED conns
      <4>1. \A a \in Casters : Looping(a)' <=> Looping(a)
        BY <3>3, <3>4 DEF Looping, Resting
      <4>2. \A a \in Casters : Looping(a) => caster'[a] = caster[a]
        BY <3>3 DEF Looping
      <4>3. Lists'
        <5>1. Locked' /\ Members' /\ Present'
          BY <1>1, <3>1, <3>4, <4>1 DEF Lists, Locked, Members, Present
        <5>2. Within'
          BY <1>1, <3>4, <4>1, <4>2 DEF Lists, Within
        <5>3. Quiet'
          BY <1>1, <3>1, <3>2, <3>4, <4>1, <4>2 DEF Lists, Quiet
        <5>4. Progress'
          BY <1>1, <3>1, <3>2, <3>4, <4>1, <4>2 DEF Lists, Progress
        <5> QED
          BY <5>1, <5>2, <5>3, <5>4 DEF Lists
      <4>4. Numbered'
        BY <1>1, <3>1, <3>2 DEF Numbered
      <4> QED
        BY <2>1, <2>2, <4>3, <4>4
    <3>5. CASE /\ caster[b].dead # << >> /\ Unregister(Head(caster[b].dead))
               /\ Head(caster[b].dead) \in Conns
               /\ caster'[b].at = "reap"
      <4>1. \A a \in Casters : Looping(a)' => Looping(a)
        BY <3>3, <3>5 DEF Looping
      <4>2. done[Head(caster[b].dead)]
        <5>1. caster[b].dead \in Seq(Conns)
          BY <1>1, <3>3, CasterTypes
        <5>2. 1 \in DOMAIN caster[b].dead /\ Head(caster[b].dead) = caster[b].dead[1]
          BY <3>5, <5>1
        <5> QED
          BY <1>1, <3>3, <5>2 DEF Own, Doomed
      <4> QED
        BY <1>1, <2>1, <2>2, <3>1, <3>2, <3>5, <4>1, <4>2, UnregisterKeepsLists
    <3> QED
      BY <1>1, <2>6, <3>4, <3>5, OtherSteps DEF IsRecord
  <2> QED
    BY <1>6, <2>3, <2>4, <2>5, <2>6 DEF BroadcastStep
<1>7. CASE UNCHANGED vars
  <2>1. TypeOK'
    BY <1>1, <1>7 DEF vars, connVars, TypeOK
  <2>2. \A d \in Conns : Stream(d)' = Stream(d) /\ Last(d)' = Last(d)
    BY <1>7 DEF vars, connVars, Stream, Last
  <2>3. Lists' /\ Numbered'
    BY <1>1, <1>7, <2>1, <2>2, PumpsKeepLists DEF vars, connVars
  <2>4. Own'
    BY <1>1, <1>7, <2>2 DEF vars, connVars, Own, Unborn, Empty, Doomed
  <2> QED
    BY <2>1, <2>3, <2>4
<1> QED
  BY <1>2, <1>3, <1>4, <1>5, <1>6, <1>7 DEF Next, Pumps, ReadPump, WritePump

LEMMA HInvAlways == Spec => []HInv
BY HInvInit, HInvNext, PTL DEF Spec

\* For any users, connections, broadcasters and buffer size: what a client is
\* written, and what waits for it, is an unbroken run of its user's broadcasts.
THEOREM StreamsAreUnbroken == Spec => []UnbrokenStream
<1>1. HInv => UnbrokenStream
  BY DEF HInv, Numbered, UnbrokenStream
<1> QED
  BY <1>1, HInvAlways, PTL

\* For any users, connections, broadcasters and buffer size: a connection that
\* was not told to stop is listed and, between broadcasts, has everything.
THEOREM NobodyMissesAnything == Spec => []NothingMissed
<1>1. HInv => NothingMissed
  <2> SUFFICES ASSUME HInv, NEW c \in Conns, userOf[c] # Nobody, ~done[c]
               PROVE  /\ Listed(c)
                      /\ holder = "free" => since[c] + Len(Stream(c)) = published[userOf[c]]
    BY DEF NothingMissed
  <2>1. userOf[c] \in Users
    BY DEF HInv, TypeOK
  <2>2. PICK i \in DOMAIN conns[userOf[c]] : conns[userOf[c]][i] = c
    BY DEF HInv, Lists, Present
  <2>3. Listed(c)
    BY <2>1, <2>2 DEF Listed
  <2>4. ASSUME holder = "free"
        PROVE  since[c] + Len(Stream(c)) = published[userOf[c]]
    <3>1. \A b \in Casters : ~Looping(b)
      BY <2>4, HubAssumption DEF HInv, Lists, Locked
    <3>2. Last(c) = published[userOf[c]]
      BY <2>1, <2>2, <2>4, <3>1 DEF HInv, Lists, Quiet
    <3> QED
      BY <3>2 DEF Last
  <2> QED
    BY <2>3, <2>4
<1> QED
  BY <1>1, HInvAlways, PTL
=============================================================================
