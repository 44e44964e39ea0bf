----------------------------- MODULE KeyFailover -----------------------------
(***************************************************************************)
(* The upstream keys of one provider: proxied requests that fail over from *)
(* key to key (proxy/upstream.go), administrators who add, enable, disable *)
(* and delete keys at the same time (service/provider_service.go), and the *)
(* process being restarted.                                                *)
(*                                                                         *)
(* The database pool holds one connection, so each SQL statement is atomic *)
(* and nothing longer is: every statement is one action here.              *)
(***************************************************************************)
EXTENDS Integers, Sequences, FiniteSets

CONSTANTS
    Requests,       \* HTTP requests, each handled once
    Admins,         \* callers of the key-management operations
    Secrets,        \* plaintext keys
    Unreadable,     \* secrets stored under an ENCRYPTION_KEY no longer in use
    NoSecret,       \* providers.api_key_encrypted = ''
    Outcomes,       \* what an upstream may answer in this instance
    MaxId,          \* bound: row ids are 1..MaxId
    MaxRestarts     \* bound: restarts of the process

\* "answer" is a 2xx, or a status no other key would change (400, 404...);
\* "busy" is 429 or 5xx, "auth" is 401 or 403, "neterr" is no response.
AllOutcomes == {"answer", "busy", "auth", "neterr"}

ASSUME ConstantsAssumption ==
    /\ Unreadable \subseteq Secrets
    /\ NoSecret \notin Secrets
    /\ Outcomes \subseteq AllOutcomes
    /\ MaxId \in Nat \ {0}
    /\ MaxRestarts \in Nat

VARIABLES
    exists,     \* is there a row for the provider in table providers?
    legacy,     \* its column api_key_encrypted
    rows,       \* table provider_api_keys: id -> [secret, on]
    nextId,     \* AUTOINCREMENT: ids are never reused
    rr,         \* ProviderService.rr[provider.ID], in memory
    restarts,   \* how often the process was restarted
    pc,         \* where request r is
    snap,       \* the api_key_encrypted in r's copy of the provider
    keys,       \* the []UpstreamKey ListActiveKeys returned to r
    start,      \* startIdx
    pos,        \* i, the loop counter of tryKeys
    lastResp,   \* the attempt whose response r holds, 0 for nil
    open,       \* the attempts of r whose response body is not closed
    last,       \* outcome of the latest attempt of r
    reply,      \* how r's client was answered
    adm,        \* the operation administrator a is in the middle of
    tried,      \* history: the ids r used, in order, with their outcomes
    ticket,     \* history: the cursor value r drew, -1 when none
    refused,    \* history: keys turned off after a 401/403, not enabled since
    overlapped  \* history: the administrators during whose removal someone
                \* else has changed which keys are active, additions aside

reqVars  == <<pc, snap, keys, start, pos, lastResp, open, last, reply, tried,
              ticket>>
rowVars  == <<exists, legacy, rows, nextId, refused, overlapped>>
vars     == <<rowVars, rr, restarts, reqVars, adm>>

Ids == 1 .. MaxId
Idle == [op |-> "idle"]
KeyRecs == [id : {0} \cup Ids, secret : Secrets]

Active(rws) == {id \in DOMAIN rws : rws[id].on}

\* The rows ListActiveKeys returns: active, and decrypted without an error.
Usable(rws) == {id \in Active(rws) : rws[id].secret \notin Unreadable}

\* ORDER BY id.
Ascending(S) == {s \in [1 .. Cardinality(S) -> S] :
                    \A i, j \in 1 .. Cardinality(S) : i < j => s[i] < s[j]}

\* failoverStatus: would another key change the outcome?
FailsOver(out) == out \in {"busy", "auth", "neterr"}

\* keys[(startIdx+i)%len(keys)]; a Go slice counts from 0.
Pick(r) == keys[r][((start[r] + pos[r]) % Len(keys[r])) + 1]

-----------------------------------------------------------------------------
(* A provider is absent, or it was migrated: its row and one key row hold  *)
(* the same ciphertext.                                                    *)
Init ==
    /\ \/ exists = FALSE /\ legacy = NoSecret /\ rows = << >> /\ nextId = 1
       \/ \E s \in Secrets :
            /\ exists = TRUE
            /\ legacy = s
            /\ rows = [id \in {1} |-> [secret |-> s, on |-> TRUE]]
            /\ nextId = 2
    /\ rr = 0
    /\ restarts = 0
    /\ pc = [r \in Requests |-> "resolve"]
    /\ snap = [r \in Requests |-> NoSecret]
    /\ keys = [r \in Requests |-> << >>]
    /\ start = [r \in Requests |-> 0]
    /\ pos = [r \in Requests |-> 0]
    /\ lastResp = [r \in Requests |-> 0]
    /\ open = [r \in Requests |-> {}]
    /\ last = [r \in Requests |-> "none"]
    /\ reply = [r \in Requests |-> "none"]
    /\ adm = [a \in Admins |-> Idle]
    /\ tried = [r \in Requests |-> << >>]
    /\ ticket = [r \in Requests |-> -1]
    /\ refused = {}
    /\ overlapped = {}

-----------------------------------------------------------------------------
(* A proxied request *)

\* GetByKey copies the provider, its legacy ciphertext included; an unknown
\* provider is a 404.
Resolve(r) ==
    /\ pc[r] = "resolve"
    /\ IF exists
         THEN /\ pc' = [pc EXCEPT ![r] = "list"]
              /\ snap' = [snap EXCEPT ![r] = legacy]
              /\ UNCHANGED reply
         ELSE /\ pc' = [pc EXCEPT ![r] = "done"]
              /\ reply' = [reply EXCEPT ![r] = "notfound"]
              /\ UNCHANGED snap
    /\ UNCHANGED <<rowVars, rr, restarts, keys, start, pos, lastResp, open,
                   last, tried, ticket, adm>>

\* SELECT ... WHERE is_active = 1 ORDER BY id.
ListKeys(r) ==
    /\ pc[r] = "list"
    /\ \E ids \in Ascending(Usable(rows)) :
         keys' = [keys EXCEPT ![r] =
                    [i \in DOMAIN ids |-> [id |-> ids[i],
                                           secret |-> rows[ids[i]].secret]]]
    /\ pc' = [pc EXCEPT ![r] = IF Usable(rows) = {} THEN "count" ELSE "draw"]
    /\ UNCHANGED <<rowVars, rr, restarts, snap, start, pos, lastResp, open,
                   last, reply, tried, ticket, adm>>

\* Variant: wait for a key to appear instead of giving up.
CountRowsUntilKey(r) ==
    /\ pc[r] = "count"
    /\ pc' = [pc EXCEPT ![r] = "list"]
    /\ UNCHANGED <<rowVars, rr, restarts, snap, keys, start, pos, lastResp,
                   open, last, reply, tried, ticket, adm>>

\* SELECT COUNT(*): without any row the provider's own ciphertext, as copied
\* by Resolve, is the only key.
CountRows(r) ==
    /\ pc[r] = "count"
    /\ IF DOMAIN rows = {} /\ snap[r] \notin Unreadable \cup {NoSecret}
         THEN /\ keys' = [keys EXCEPT ![r] = <<[id |-> 0, secret |-> snap[r]]>>]
              /\ pc' = [pc EXCEPT ![r] = "draw"]
         ELSE /\ pc' = [pc EXCEPT ![r] = "reply"]
              /\ UNCHANGED keys
    /\ UNCHANGED <<rowVars, rr, restarts, snap, start, pos, lastResp, open,
                   last, reply, tried, ticket, adm>>

\* Variant: the cursor is read and never advanced.
DrawStartStuck(r) ==
    /\ pc[r] = "draw"
    /\ start' = [start EXCEPT ![r] = rr % Len(keys[r])]
    /\ ticket' = [ticket EXCEPT ![r] = rr]
    /\ pc' = [pc EXCEPT ![r] = "try"]
    /\ UNCHANGED <<rowVars, rr, restarts, snap, keys, pos, lastResp, open,
                   last, reply, tried, adm>>

\* NextStartIndex, under rrMu.
DrawStart(r) ==
    /\ pc[r] = "draw"
    /\ start' = [start EXCEPT ![r] = rr % Len(keys[r])]
    /\ rr' = rr + 1
    /\ ticket' = [ticket EXCEPT ![r] = rr]
    /\ pc' = [pc EXCEPT ![r] = "try"]
    /\ UNCHANGED <<rowVars, restarts, snap, keys, pos, lastResp, open, last,
                   reply, tried, adm>>

\* Variant: the loop stops one key short.
AfterAttemptShort(r) == IF pos[r] + 2 < Len(keys[r]) THEN "try" ELSE "reply"

\* Where the loop of tryKeys goes once attempt pos[r] has been dealt with.
AfterAttempt(r) == IF pos[r] + 1 < Len(keys[r]) THEN "try" ELSE "reply"

\* One turn of the loop, until fn(key) has returned: its response is there
\* beside the one of the attempt before.
Attempt(r, out) ==
    /\ pc[r] = "try"
    /\ tried' = [tried EXCEPT ![r] = Append(@, [id |-> Pick(r).id, out |-> out])]
    /\ open' = [open EXCEPT ![r] =
                   IF out = "neterr" THEN @ ELSE @ \cup {Len(tried[r]) + 1}]
    /\ last' = [last EXCEPT ![r] = out]
    /\ pc' = [pc EXCEPT ![r] = "close"]
    /\ UNCHANGED <<rowVars, rr, restarts, snap, keys, start, pos, lastResp,
                   reply, ticket, adm>>

\* resp, what the latest attempt returned; 0 for nil.
NewResp(r) == IF last[r] = "neterr" THEN 0 ELSE Len(tried[r])

\* The rest of the turn, given the bodies it leaves open: what the status or
\* the error asks for.
Judge(r, left) ==
    /\ open' = [open EXCEPT ![r] = left]
    /\ lastResp' = [lastResp EXCEPT ![r] = NewResp(r)]
    /\ pc' = [pc EXCEPT ![r] =
                CASE ~FailsOver(last[r]) -> "reply"
                  [] last[r] = "auth"    -> "deactivate"
                  [] OTHER               -> AfterAttempt(r)]
    /\ pos' = [pos EXCEPT ![r] =
                IF last[r] \in {"busy", "neterr"} THEN @ + 1 ELSE @]
    /\ UNCHANGED <<rowVars, rr, restarts, snap, keys, start, last, reply,
                   tried, ticket, adm>>

\* Variant: the previous response is closed only when there is a new one.
CloseLastKeeping(r) ==
    /\ pc[r] = "close"
    /\ Judge(r, IF NewResp(r) = 0 THEN open[r] ELSE open[r] \ {lastResp[r]})

\* The previous response is drained and closed, whatever the new attempt gave.
CloseLast(r) ==
    /\ pc[r] = "close"
    /\ Judge(r, open[r] \ {lastResp[r]})

Removing(a) == adm[a].op \in {"disable", "delete"}

\* overlapped after a step that may change which keys are active: the removals
\* that are under way.
Overlapping == IF Active(rows') = Active(rows) THEN overlapped
               ELSE overlapped \cup {a \in Admins : Removing(a)}

\* What DeactivateKey changes, given the id of the row to turn off and what is
\* noted as refused.
TurnOff(r, id, noted) ==
    /\ rows' = [k \in DOMAIN rows |->
                   IF k = id THEN [rows[k] EXCEPT !.on = FALSE] ELSE rows[k]]
    /\ refused' = refused \cup noted
    /\ overlapped' = Overlapping
    /\ pos' = [pos EXCEPT ![r] = @ + 1]
    /\ pc' = [pc EXCEPT ![r] = AfterAttempt(r)]
    /\ UNCHANGED <<exists, legacy, nextId, rr, restarts, snap, keys, start,
                   lastResp, open, last, reply, tried, ticket, adm>>

\* Variant: the loop counter is taken for the place of the key in the slice.
DeactivateByCounter(r) ==
    /\ pc[r] = "deactivate"
    /\ LET id == keys[r][pos[r] + 1].id IN
         TurnOff(r, id, IF Pick(r).id = 0 THEN {} ELSE {Pick(r)})

\* Variant: the legacy key is treated like a row.
DeactivateLegacyToo(r) ==
    /\ pc[r] = "deactivate"
    /\ TurnOff(r, Pick(r).id, {Pick(r)})

\* DeactivateKey: nothing for the legacy key, whose id is 0; an UPDATE that
\* may find the row gone otherwise.
Deactivate(r) ==
    /\ pc[r] = "deactivate"
    /\ TurnOff(r, Pick(r).id, IF Pick(r).id = 0 THEN {} ELSE {Pick(r)})

\* The handler relays the response it holds, or writes a 502, and closes the
\* body.
Reply(r) ==
    /\ pc[r] = "reply"
    /\ reply' = [reply EXCEPT ![r] =
                   IF keys[r] = << >> THEN "nokeys"
                   ELSE IF last[r] = "answer" THEN "answered" ELSE "failed"]
    /\ open' = [open EXCEPT ![r] = @ \ {lastResp[r]}]
    /\ pc' = [pc EXCEPT ![r] = "done"]
    /\ UNCHANGED <<rowVars, rr, restarts, snap, keys, start, pos, lastResp,
                   last, tried, ticket, adm>>

-----------------------------------------------------------------------------
(* Key management *)

\* Bound: there is an id left. Whoever waits for one at InsertKey stands for
\* an operation that died between its two statements.
Room == nextId <= MaxId

\* Variant: a new key is written over the row there is.
InsertOver(s) ==
    /\ Room
    /\ rows' = [id \in IF DOMAIN rows = {} THEN {nextId} ELSE DOMAIN rows |->
                  [secret |-> s, on |-> TRUE]]
    /\ nextId' = nextId + 1

\* INSERT INTO provider_api_keys; a new id, active.
Insert(s) ==
    /\ Room
    /\ rows' = [id \in DOMAIN rows \cup {nextId} |->
                  IF id = nextId THEN [secret |-> s, on |-> TRUE]
                                 ELSE rows[id]]
    /\ nextId' = nextId + 1

\* Create, first statement: the provider with its own copy of the key.
CreateProvider(a, s) ==
    /\ adm[a] = Idle
    /\ ~exists /\ Room
    /\ exists' = TRUE
    /\ legacy' = s
    /\ adm' = [adm EXCEPT ![a] = [op |-> "insert", secret |-> s]]
    /\ UNCHANGED <<rows, nextId, refused, overlapped, rr, restarts, reqVars>>

\* Update with an api_key, first statement: it changes the provider only when
\* the caller owns it (WHERE id=? AND user_id=?), and goes on either way.
UpdateProvider(a, s, owner) ==
    /\ adm[a] = Idle
    /\ exists /\ Room
    /\ legacy' = IF owner THEN s ELSE legacy
    /\ adm' = [adm EXCEPT ![a] = [op |-> "insert", secret |-> s]]
    /\ UNCHANGED <<exists, rows, nextId, refused, overlapped, rr, restarts,
                   reqVars>>

\* insertKey, the second statement of Create and of Update.
InsertKey(a) ==
    /\ adm[a].op = "insert"
    /\ Insert(adm[a].secret)
    /\ adm' = [adm EXCEPT ![a] = Idle]
    /\ UNCHANGED <<exists, legacy, refused, overlapped, rr, restarts, reqVars>>

AddKey(a, s) ==
    /\ adm[a] = Idle
    /\ exists
    /\ Insert(s)
    /\ UNCHANGED <<exists, legacy, refused, overlapped, rr, restarts, reqVars,
                   adm>>

\* SetKeyActive(true): one UPDATE, 404 when the row is absent.
EnableKey(a, id) ==
    /\ adm[a] = Idle
    /\ id \in DOMAIN rows
    /\ rows' = [rows EXCEPT ![id].on = TRUE]
    /\ refused' = {k \in refused : k.id # id}
    /\ overlapped' = Overlapping
    /\ UNCHANGED <<exists, legacy, nextId, rr, restarts, reqVars, adm>>

\* SetKeyActive(false) and DeleteKey, first statement: countActiveKeys.
CountActive(a, op, id) ==
    /\ adm[a] = Idle
    /\ exists
    /\ adm' = [adm EXCEPT ![a] = [op |-> op, id |-> id, at |-> "look",
                                  n |-> Cardinality(Active(rows))]]
    /\ UNCHANGED <<rowVars, rr, restarts, reqVars>>

\* Variant: any key that is there may be removed.
LookAtKeyOnly(a) ==
    /\ Removing(a) /\ adm[a].at = "look"
    /\ adm' = [adm EXCEPT ![a] =
                 IF adm[a].id \notin DOMAIN rows
                   THEN Idle ELSE [@ EXCEPT !.at = "exec"]]
    /\ overlapped' = IF adm[a].id \notin DOMAIN rows THEN overlapped \ {a}
                                                    ELSE overlapped
    /\ UNCHANGED <<exists, legacy, rows, nextId, refused, rr, restarts, reqVars>>

\* Second statement: is the key there, is it active, is it the last one? The
\* count is the one read before.
LookAtKey(a) ==
    /\ Removing(a) /\ adm[a].at = "look"
    /\ LET id == adm[a].id
           refuse == id \notin DOMAIN rows \/ (rows[id].on /\ adm[a].n <= 1)
       IN /\ adm' = [adm EXCEPT ![a] =
                       IF refuse THEN Idle ELSE [@ EXCEPT !.at = "exec"]]
          /\ overlapped' = IF refuse THEN overlapped \ {a} ELSE overlapped
    /\ UNCHANGED <<exists, legacy, rows, nextId, refused, rr, restarts, reqVars>>

\* Third statement: the UPDATE or the DELETE.
RemoveKey(a) ==
    /\ Removing(a) /\ adm[a].at = "exec"
    /\ LET id == adm[a].id IN
         rows' = IF adm[a].op = "delete"
                   THEN [k \in DOMAIN rows \ {id} |-> rows[k]]
                   ELSE [k \in DOMAIN rows |->
                           IF k = id THEN [rows[k] EXCEPT !.on = FALSE]
                                     ELSE rows[k]]
    /\ adm' = [adm EXCEPT ![a] = Idle]
    /\ overlapped' = Overlapping \ {a}
    /\ UNCHANGED <<exists, legacy, nextId, refused, rr, restarts, reqVars>>

-----------------------------------------------------------------------------
(* The process is stopped and started again: the tables stay, the cursor    *)
(* and whatever was being handled are gone, a client mid-request gets no    *)
(* answer.                                                                  *)
InProgress(r) == pc[r] \notin {"resolve", "done"}

Restart ==
    /\ restarts < MaxRestarts
    /\ restarts' = restarts + 1
    /\ rr' = 0
    /\ pc' = [r \in Requests |-> IF InProgress(r) THEN "done" ELSE pc[r]]
    /\ reply' = [r \in Requests |-> IF InProgress(r) THEN "lost" ELSE reply[r]]
    /\ open' = [r \in Requests |-> {}]
    /\ adm' = [a \in Admins |-> Idle]
    /\ ticket' = [r \in Requests |-> -1]
    /\ overlapped' = {}
    /\ UNCHANGED <<exists, legacy, rows, nextId, refused, snap, keys, start, pos,
                   lastResp, last, tried>>

-----------------------------------------------------------------------------
RequestStep(r) ==
    \/ Resolve(r) \/ ListKeys(r) \/ CountRows(r) \/ DrawStart(r)
    \/ \E out \in Outcomes : Attempt(r, out)
    \/ CloseLast(r) \/ Deactivate(r) \/ Reply(r)

\* Key operations encrypt with the key in use: what they store is readable.
AdminStep(a) ==
    \/ \E s \in Secrets \ Unreadable :
         \/ CreateProvider(a, s) \/ AddKey(a, s)
         \/ \E owner \in BOOLEAN : UpdateProvider(a, s, owner)
    \/ InsertKey(a)
    \/ \E id \in Ids : EnableKey(a, id)
    \/ \E op \in {"disable", "delete"}, id \in Ids : CountActive(a, op, id)
    \/ LookAtKey(a) \/ RemoveKey(a)

Next ==
    \/ \E r \in Requests : RequestStep(r)
    \/ \E a \in Admins : AdminStep(a)
    \/ Restart

Spec == Init /\ [][Next]_vars

\* Each request runs in a goroutine of its own and the upstream client gives
\* up after its timeout, so a request that can take a step takes it. Nothing
\* is assumed of administrators or restarts.
FairSpec == Spec /\ \A r \in Requests : WF_vars(RequestStep(r))

-----------------------------------------------------------------------------
KeyTableTypeOK ==
    /\ exists \in BOOLEAN
    /\ legacy \in Secrets \cup {NoSecret}
    /\ nextId \in 1 .. MaxId + 1
    /\ DOMAIN rows \subseteq 1 .. nextId - 1
    /\ rows \in [DOMAIN rows -> [secret : Secrets, on : BOOLEAN]]
    /\ refused \subseteq [id : Ids, secret : Secrets]
    /\ overlapped \subseteq Admins

ProcessTypeOK ==
    /\ rr \in Nat
    /\ restarts \in 0 .. MaxRestarts

RequestTypeOK ==
    /\ pc \in [Requests -> {"resolve", "list", "count", "draw", "try",
                            "close", "deactivate", "reply", "done"}]
    /\ snap \in [Requests -> Secrets \cup {NoSecret}]
    /\ keys \in [Requests -> Seq(KeyRecs)]
    /\ start \in [Requests -> Nat]
    /\ pos \in [Requests -> Nat]
    /\ lastResp \in [Requests -> Nat]
    /\ open \in [Requests -> SUBSET Nat]
    /\ last \in [Requests -> AllOutcomes \cup {"none"}]
    /\ reply \in [Requests -> {"none", "notfound", "nokeys", "answered",
                               "failed", "lost"}]
    /\ tried \in [Requests -> Seq([id : {0} \cup Ids, out : AllOutcomes])]
    /\ ticket \in [Requests -> Int]

AdminOps ==
    {Idle}
    \cup [op : {"insert"}, secret : Secrets]
    \cup [op : {"disable", "delete"}, id : Ids, at : {"look", "exec"}, n : Nat]

TypeOK ==
    /\ KeyTableTypeOK
    /\ ProcessTypeOK
    /\ RequestTypeOK
    /\ adm \in [Admins -> AdminOps]

-----------------------------------------------------------------------------
(* Safety *)

\* The response bodies a request holds are the one tryKeys calls lastResp and,
\* while that one is drained and closed, the one that replaces it; none once
\* its client has been answered. Failing over never leaks a connection, and
\* never closes the response that is to be relayed.
NoBodyForgotten ==
    \A r \in Requests :
        open[r] = IF pc[r] = "done" THEN {}
                  ELSE ({lastResp[r]} \cup
                          (IF pc[r] = "close" THEN {NewResp(r)} ELSE {})) \ {0}

\* The key a request tries first.
FirstKey(r) == keys[r][start[r] + 1].id

\* Two requests that were given the same n keys, and drew fewer than n tickets
\* apart, try different keys first, whatever other requests with other keys
\* drew in between: n such draws in a row use each key once.
SpreadStarts ==
    \A r, q \in Requests :
        /\ r # q /\ ticket[r] >= 0 /\ ticket[q] >= ticket[r]
        /\ keys[r] = keys[q]
        /\ ticket[q] - ticket[r] < Len(keys[r])
        => FirstKey(r) # FirstKey(q)

\* A key that an upstream refused with 401 or 403 stays out of the pool until
\* an administrator enables it, whatever requests listed it meanwhile.
RefusedStaysOut ==
    \A k \in refused : k.id \in DOMAIN rows => ~rows[k.id].on

\* When a request comes to turn a key off by its id, the row with that id, if
\* it is still there, holds the secret that was refused: a key deleted and
\* another added in the meantime is never turned off in its place.
DeactivatesRefusedKey ==
    \A r \in Requests :
        pc[r] = "deactivate" /\ Pick(r).id \in DOMAIN rows
            => rows[Pick(r).id].secret = Pick(r).secret

\* Once keys were added, the provider keeps at least one that is active: "cannot
\* deactivate the last active key", "cannot delete the last active key".
PoolKeepsAKey == DOMAIN rows # {} => Active(rows) # {}

\* SetKeyActive and DeleteKey do not take the last active key away: not by
\* themselves, whatever requests, insertions and other administrators do, as
\* long as which keys are active is not changed by others between the count and
\* the removal.
RemovalLeavesAKey ==
    [][\A a \in Admins :
            /\ Removing(a) /\ adm[a].at = "exec" /\ adm'[a] = Idle
            /\ a \notin overlapped
            /\ Active(rows) # {}
            => Active(rows') # {}]_vars

\* A key that was turned off after a 401 or 403 is not active any more ("401
\* key still active" is what the test of it rejects): in particular the
\* provider's own copy of it is not what a later request is given.
RefusedNotFallback ==
    [][\A r \in Requests :
            pc[r] = "count" /\ pc'[r] = "draw"
                => \A k \in refused : k.secret # keys'[r][1].secret]_vars

-----------------------------------------------------------------------------
(* Liveness and refinement *)

\* Every request that reaches the provider is answered, or lost to a restart.
EveryRequestEnds == \A r \in Requests : <>(pc[r] = "done")

\* What the abstract contract calls the pool, the failures and the verdict.
OfferedTo(r) == {keys[r][i].id : i \in DOMAIN keys[r]}
FailedFor(r) == {tried[r][i].id :
                    i \in {j \in DOMAIN tried[r] : FailsOver(tried[r][j].out)}}
VerdictOf(r) ==
    CASE pc[r] = "done" ->
           (CASE reply[r] = "answered" -> "answered"
              [] reply[r] = "failed"   -> "exhausted"
              [] reply[r] = "lost"     -> "lost"
              [] OTHER                 -> "refused")
      [] pc[r] # "done" /\ keys[r] # << >> -> "trying"
      [] OTHER -> "waiting"

Contract == INSTANCE FailoverContract WITH
    KeyIds  <- {0} \cup Ids,
    pool    <- [r \in Requests |-> OfferedTo(r)],
    failed  <- [r \in Requests |-> FailedFor(r)],
    verdict <- [r \in Requests |-> VerdictOf(r)]

\* Every behaviour of the failover loop is one the contract allows: no key is
\* tried twice, the first answer ends the request, and the client is told of a
\* failure only when every key of its pool has failed.
ImplementsContract == Contract!Spec
=============================================================================
