------------------------------ MODULE KeyQuota ------------------------------
(***************************************************************************)
(* The limits of one client API key: Validate reads the usage log and a    *)
(* cached token total (service/apikey_service.go), the request is served,  *)
(* and its usage is logged afterwards (service/usage_service.go). Requests *)
(* run concurrently; each SQL statement and each sync.Map call is atomic.  *)
(*                                                                         *)
(* Time is counted in ticks of tokenCacheTTL (30 seconds). Logs and cached *)
(* totals carry an age or a remaining life, so that time need not end.     *)
(***************************************************************************)
EXTENDS Integers, FiniteSets, FiniteSetsExt

CONSTANTS
    Requests,
    RateLimitRPM,       \* 0: unlimited
    TotalTokenLimit,    \* 0: unlimited
    Amounts,            \* total_tokens a usage log may carry
    DbFaults            \* may a SELECT fail?

ASSUME KeyQuotaAssumption ==
    /\ IsFiniteSet(Requests)
    /\ RateLimitRPM \in Nat
    /\ TotalTokenLimit \in Nat
    /\ Amounts \subseteq Nat
    /\ DbFaults \in BOOLEAN

\* One minute, in ticks; a log older than that is only counted in the total.
Minute == 2
TTL == 1
Old == Minute + 1

VARIABLES
    active,     \* api_keys.is_active
    age,        \* age of the usage log of request r, -1 when not logged
    tokens,     \* its total_tokens
    cached,     \* tokenUsageCache[key]: [total, left], left counting down
    pc,
    total,      \* the token total Validate works with
    verdict,    \* what the client was told
    known,      \* history: tokens in logs whose Log call had returned when
                \* request r arrived
    peak        \* history: most requests ever between their rate check and
                \* their log at one time

vars == <<active, age, tokens, cached, pc, total, verdict, known, peak>>

NoCache == [total |-> 0, left |-> 0]

Init ==
    /\ active = TRUE
    /\ age = [r \in Requests |-> -1]
    /\ tokens = [r \in Requests |-> 0]
    /\ cached = NoCache
    /\ pc = [r \in Requests |-> "arrive"]
    /\ total = [r \in Requests |-> 0]
    /\ verdict = [r \in Requests |-> "none"]
    /\ known = [r \in Requests |-> 0]
    /\ peak = 0

-----------------------------------------------------------------------------
Tokens(R) == MapThenSumSet(LAMBDA r : tokens[r], R)

\* SELECT COALESCE(SUM(total_tokens), 0): rows not inserted yet weigh 0.
Spent == Tokens(Requests)

\* SELECT COUNT(*) ... created_at >= datetime('now', '-1 minute').
LastMinute == {r \in Requests : age[r] \in 0 .. Minute}

\* cached total, not expired: time.Now().Before(ct.expiry).
Fresh(c) == c.left > 0

\* Admitted past the rate check and not in the log yet.
InFlight == {r \in Requests : pc[r] \in {"token", "sum", "store", "serve"}}

Refuse(r, why) ==
    /\ verdict' = [verdict EXCEPT ![r] = why]
    /\ pc' = [pc EXCEPT ![r] = "done"]

-----------------------------------------------------------------------------
\* Validate reads the key's row; a failing query means an invalid key.
ReadKey(r) ==
    /\ pc[r] = "arrive"
    /\ known' = [known EXCEPT ![r] =
                    Tokens({q \in Requests : pc[q] = "done"})]
    /\ \/ /\ active
          /\ pc' = [pc EXCEPT ![r] = "rate"]
          /\ UNCHANGED verdict
       \/ ~active /\ Refuse(r, "inactive")
       \/ DbFaults /\ Refuse(r, "invalid")
    /\ UNCHANGED <<active, age, tokens, cached, total, peak>>

\* Past the rate check; without a token limit the request is served.
Admit(r) ==
    /\ pc' = [pc EXCEPT ![r] = IF TotalTokenLimit > 0 THEN "token" ELSE "serve"]
    /\ peak' = Max({peak, Cardinality(InFlight) + 1})
    /\ UNCHANGED verdict

\* Variant: the limit itself is let through.
CheckRateOffByOne(r) ==
    /\ pc[r] = "rate"
    /\ IF RateLimitRPM > 0 /\ Cardinality(LastMinute) > RateLimitRPM
         THEN Refuse(r, "ratelimited") /\ UNCHANGED peak
         ELSE Admit(r)
    /\ UNCHANGED <<active, age, tokens, cached, total, known>>

\* checkRateLimit; whatever error it returns refuses the request.
CheckRate(r) ==
    /\ pc[r] = "rate"
    /\ \/ /\ RateLimitRPM > 0 => Cardinality(LastMinute) < RateLimitRPM
          /\ Admit(r)
       \/ /\ RateLimitRPM > 0 /\ Cardinality(LastMinute) >= RateLimitRPM
          /\ Refuse(r, "ratelimited")
          /\ UNCHANGED peak
       \/ /\ DbFaults /\ RateLimitRPM > 0
          /\ Refuse(r, "invalid")
          /\ UNCHANGED peak
    /\ UNCHANGED <<active, age, tokens, cached, total, known>>

\* checkTokenLimit, once the total t is known.
Judge(r, t) ==
    /\ total' = [total EXCEPT ![r] = t]
    /\ IF t >= TotalTokenLimit
         THEN Refuse(r, "overtokens")
         ELSE /\ pc' = [pc EXCEPT ![r] = "serve"]
              /\ UNCHANGED verdict

\* getCachedTokenTotal: tokenUsageCache.Load.
LoadCache(r) ==
    /\ pc[r] = "token"
    /\ IF Fresh(cached)
         THEN Judge(r, cached.total)
         ELSE /\ pc' = [pc EXCEPT ![r] = "sum"]
              /\ UNCHANGED <<total, verdict>>
    /\ UNCHANGED <<active, age, tokens, cached, known, peak>>

\* getCachedTokenTotal: SUM over the log; a failing query counts as 0.
SumTokens(r) ==
    /\ pc[r] = "sum"
    /\ \E t \in {Spent} \cup (IF DbFaults THEN {0} ELSE {}) :
         total' = [total EXCEPT ![r] = t]
    /\ pc' = [pc EXCEPT ![r] = "store"]
    /\ UNCHANGED <<active, age, tokens, cached, verdict, known, peak>>

\* getCachedTokenTotal: tokenUsageCache.Store, whatever happened since.
StoreCache(r) ==
    /\ pc[r] = "store"
    /\ cached' = [total |-> total[r], left |-> TTL]
    /\ Judge(r, total[r])
    /\ UNCHANGED <<active, age, tokens, known, peak>>

\* The request was served and Log inserts its row, or the handler returned on
\* a path that logs nothing.
InsertLog(r) ==
    /\ pc[r] = "serve"
    /\ verdict' = [verdict EXCEPT ![r] = "served"]
    /\ \/ \E n \in Amounts :
            /\ age' = [age EXCEPT ![r] = 0]
            /\ tokens' = [tokens EXCEPT ![r] = n]
            /\ pc' = [pc EXCEPT ![r] = "invalidate"]
       \/ /\ pc' = [pc EXCEPT ![r] = "done"]
          /\ UNCHANGED <<age, tokens>>
    /\ UNCHANGED <<active, cached, total, known, peak>>

\* Variant: the cached total is brought up to date instead of dropped.
InvalidateByAdding(r) ==
    /\ pc[r] = "invalidate"
    /\ cached' = [cached EXCEPT !.total = @ + tokens[r]]
    /\ pc' = [pc EXCEPT ![r] = "done"]
    /\ UNCHANGED <<active, age, tokens, total, verdict, known, peak>>

\* InvalidateTokenCache, after the INSERT; Log returns.
Invalidate(r) ==
    /\ pc[r] = "invalidate"
    /\ cached' = NoCache
    /\ pc' = [pc EXCEPT ![r] = "done"]
    /\ UNCHANGED <<active, age, tokens, total, verdict, known, peak>>

\* APIKeyService.Delete.
Delete ==
    /\ active
    /\ active' = FALSE
    /\ UNCHANGED <<age, tokens, cached, pc, total, verdict, known, peak>>

\* Variant: a cached total is never too old.
TickWithoutExpiry ==
    /\ age' = [r \in Requests |->
                 IF age[r] \in 0 .. Minute THEN age[r] + 1 ELSE age[r]]
    /\ UNCHANGED <<active, tokens, cached, pc, total, verdict, known, peak>>

\* The clock of the program and of the database.
Tick ==
    /\ age' = [r \in Requests |->
                 IF age[r] \in 0 .. Minute THEN age[r] + 1 ELSE age[r]]
    /\ cached' = IF cached.left > 1 THEN [cached EXCEPT !.left = @ - 1]
                                    ELSE NoCache
    /\ UNCHANGED <<active, tokens, pc, total, verdict, known, peak>>

-----------------------------------------------------------------------------
RequestStep(r) ==
    \/ ReadKey(r) \/ CheckRate(r) \/ LoadCache(r) \/ SumTokens(r)
    \/ StoreCache(r) \/ InsertLog(r) \/ Invalidate(r)

Next == (\E r \in Requests : RequestStep(r)) \/ Delete \/ Tick

Spec == Init /\ [][Next]_vars

\* Time passes, and a handler that can go on goes on.
FairSpec ==
    Spec /\ WF_vars(Tick) /\ \A r \in Requests : WF_vars(RequestStep(r))

-----------------------------------------------------------------------------
TypeOK ==
    /\ active \in BOOLEAN
    /\ age \in [Requests -> -1 .. Old]
    /\ tokens \in [Requests -> Nat]
    /\ cached \in [total : Nat, left : 0 .. TTL]
    /\ pc \in [Requests -> {"arrive", "rate", "token", "sum", "store", "serve",
                            "invalidate", "done"}]
    /\ total \in [Requests -> Nat]
    /\ verdict \in [Requests -> {"none", "invalid", "inactive", "ratelimited",
                                 "overtokens", "served"}]
    /\ known \in [Requests -> Nat]
    /\ peak \in 0 .. Cardinality(Requests)

-----------------------------------------------------------------------------
\* The check of the rate and the log of the request are far apart, so requests
\* in progress together may exceed the limit, but by no more than their number:
\* never are there more logs in a minute than the limit, less one, plus the
\* most requests that were ever in progress together.
OvershootBounded ==
    RateLimitRPM > 0 => Cardinality(LastMinute) <= RateLimitRPM - 1 + peak

\* The variables have their types; stale or not, a total that Validate works
\* with never exceeds what was really logged: no client is refused for tokens
\* it did not use.
NeverOvercharged ==
    /\ TypeOK
    /\ \A r \in Requests : total[r] <= Spent
    /\ Fresh(cached) => cached.total <= Spent

\* The cache is "eventually consistent": once requests stop being logged, a
\* total still taken from the cache is the right one.
EventuallyConsistent == <>[](Fresh(cached) => cached.total = Spent)

\* "Log must invalidate the cache so Validate observes the new total": the
\* total a request is judged by includes every log whose Log call had returned
\* when the request arrived.
JudgedOnKnownUsage ==
    \A r \in Requests :
        TotalTokenLimit > 0 /\ pc[r] \in {"store", "serve"} => total[r] >= known[r]
=============================================================================
