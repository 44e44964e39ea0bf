------------------------- MODULE KeyFailoverProofs -------------------------
(***************************************************************************)
(* Proofs about KeyFailover, for any number of requests, administrators,   *)
(* secrets, row ids and restarts: types, refused keys, response bodies;    *)
(* then that starts are spread, that no removal empties the pool unless it *)
(* is overlapped, and that the loop implements FailoverContract.           *)
(***************************************************************************)
EXTENDS KeyFailover, FiniteSetTheorems, TLAPS

LEMMA ModBound ==
    ASSUME NEW m \in Nat, NEW n \in Nat \ {0}
    PROVE  m % n \in Nat /\ m % n < n
OBVIOUS

\* The table is finite, so COUNT(*) is a number.
LEMMA FiniteRows ==
    ASSUME TypeOK
    PROVE  /\ IsFiniteSet(DOMAIN rows)
           /\ \A S \in SUBSET DOMAIN rows : IsFiniteSet(S) /\ Cardinality(S) \in Nat
<1>1. IsFiniteSet(1 .. nextId - 1)
  <2>1. nextId - 1 \in Int
    BY ConstantsAssumption DEF TypeOK, KeyTableTypeOK
  <2> QED
    BY <2>1, FS_Interval
<1>2. IsFiniteSet(DOMAIN rows)
  BY <1>1, FS_Subset DEF TypeOK, KeyTableTypeOK
<1> QED
  BY <1>2, FS_Subset, FS_CardinalityType

\* ListActiveKeys returns a sequence of keys whose ids are ids of usable rows.
LEMMA ListedKeys ==
    ASSUME TypeOK, NEW ids \in Ascending(Usable(rows))
    PROVE  /\ DOMAIN ids = 1 .. Cardinality(Usable(rows))
           /\ Cardinality(Usable(rows)) \in Nat
           /\ \A i \in DOMAIN ids : ids[i] \in Usable(rows)
           /\ [i \in DOMAIN ids |-> [id |-> ids[i], secret |-> rows[ids[i]].secret]]
                \in Seq(KeyRecs)
<1>1. Usable(rows) \subseteq DOMAIN rows
  BY DEF Usable, Active
<1>2. Cardinality(Usable(rows)) \in Nat
  BY <1>1, FiniteRows
<1>3. /\ DOMAIN ids = 1 .. Cardinality(Usable(rows))
      /\ \A i \in DOMAIN ids : ids[i] \in Usable(rows)
  BY DEF Ascending
<1>4. \A i \in DOMAIN ids :
        [id |-> ids[i], secret |-> rows[ids[i]].secret] \in KeyRecs
  BY <1>1, <1>3, ConstantsAssumption DEF TypeOK, KeyTableTypeOK, KeyRecs, Ids
<1> DEFINE ks == [i \in DOMAIN ids |-> [id |-> ids[i],
                                        secret |-> rows[ids[i]].secret]]
<1>5. ks \in [1 .. Cardinality(Usable(rows)) -> KeyRecs]
  BY <1>3, <1>4
<1>6. ks \in Seq(KeyRecs)
  BY <1>2, <1>5
<1> QED
  BY <1>2, <1>3, <1>6

\* The key tryKeys picks is one of the keys it was given.
LEMMA PickIsListed ==
    ASSUME TypeOK, NEW r \in Requests, keys[r] # << >>
    PROVE  /\ ((start[r] + pos[r]) % Len(keys[r])) + 1 \in DOMAIN keys[r]
           /\ Pick(r) \in KeyRecs
<1>1. keys[r] \in Seq(KeyRecs) /\ Len(keys[r]) \in Nat \ {0}
  BY DEF TypeOK, RequestTypeOK
<1>2. start[r] + pos[r] \in Nat
  BY DEF TypeOK, RequestTypeOK
<1>3. (start[r] + pos[r]) % Len(keys[r]) \in 0 .. Len(keys[r]) - 1
  BY <1>1, <1>2
<1> QED
  BY <1>1, <1>3 DEF Pick

-----------------------------------------------------------------------------
(* Typing. NextStartIndex and the choice of a key divide by the number of   *)
(* keys, so that typing is inductive only with the fact that a request that *)
(* draws a ticket or tries a key has one.                                   *)

Choosing(r) == pc[r] \in {"draw", "try", "close", "deactivate"}

HasKeys == \A r \in Requests : Choosing(r) => keys[r] # << >>

TInv == TypeOK /\ HasKeys

LEMMA TInvInit == Init => TInv
<1> SUFFICES ASSUME Init PROVE TInv
  OBVIOUS
<1>1. KeyTableTypeOK
  <2>1. CASE rows = << >> /\ legacy = NoSecret /\ exists = FALSE /\ nextId = 1
    <3>1. DOMAIN rows = {}
      BY <2>1
    <3>2. rows \in [DOMAIN rows -> [secret : Secrets, on : BOOLEAN]]
      BY <2>1, <3>1
    <3>3. nextId \in 1 .. MaxId + 1 /\ refused = {}
      BY <2>1, ConstantsAssumption DEF Init
    <3> QED
      BY <2>1, <3>1, <3>2, <3>3 DEF KeyTableTypeOK, Init
  <2>2. ASSUME NEW s \in Secrets, exists = TRUE, legacy = s, nextId = 2,
               rows = [id \in {1} |-> [secret |-> s, on |-> TRUE]]
        PROVE  KeyTableTypeOK
    <3>1. DOMAIN rows = {1} /\ 1 .. nextId - 1 = {1}
      BY <2>2
    <3>2. rows \in [DOMAIN rows -> [secret : Secrets, on : BOOLEAN]]
      BY <2>2
    <3>3. nextId \in 1 .. MaxId + 1 /\ refused = {}
      BY <2>2, ConstantsAssumption DEF Init
    <3> QED
      BY <2>2, <3>1, <3>2, <3>3 DEF KeyTableTypeOK, Init
  <2> QED
    BY <2>1, <2>2 DEF Init
<1>2. ProcessTypeOK
  BY ConstantsAssumption DEF Init, ProcessTypeOK
<1>3. RequestTypeOK
  BY DEF Init, RequestTypeOK
<1>4. adm \in [Admins -> AdminOps]
  BY DEF Init, AdminOps
<1>5. HasKeys
  BY DEF Init, HasKeys, Choosing
<1> QED
  BY <1>1, <1>2, <1>3, <1>4, <1>5 DEF TInv, TypeOK

\* A step of a request keeps the types.
LEMMA TInvRequest ==
    ASSUME TInv, NEW r \in Requests, RequestStep(r)
    PROVE  TInv'
<1> USE DEF TInv
<1>1. CASE Resolve(r)
  <2>1. KeyTableTypeOK' /\ ProcessTypeOK' /\ adm' \in [Admins -> AdminOps]
    BY <1>1 DEF Resolve, TypeOK, KeyTableTypeOK, ProcessTypeOK, rowVars
  <2>2. RequestTypeOK'
    <3>1. legacy \in Secrets \cup {NoSecret}
      BY DEF TypeOK, KeyTableTypeOK
    <3>2. snap' \in [Requests -> Secrets \cup {NoSecret}]
      <4>1. snap' = [snap EXCEPT ![r] = legacy] \/ snap' = snap
        BY <1>1, Zenon DEF Resolve
      <4> QED
        BY <3>1, <4>1 DEF TypeOK, RequestTypeOK
    <3>3. reply' \in [Requests -> {"none", "notfound", "nokeys", "answered",
                                  "failed", "lost"}]
      BY <1>1 DEF Resolve, TypeOK, RequestTypeOK
    <3>4. pc' \in [Requests -> {"resolve", "list", "count", "draw", "try",
                               "close", "deactivate", "reply", "done"}]
      <4>1. pc' = [pc EXCEPT ![r] = "list"] \/ pc' = [pc EXCEPT ![r] = "done"]
        BY <1>1, Zenon DEF Resolve
      <4> QED
        BY <4>1 DEF TypeOK, RequestTypeOK
    <3> QED
      BY <1>1, <3>2, <3>3, <3>4 DEF Resolve, TypeOK, RequestTypeOK
  <2>3. HasKeys'
    BY <1>1 DEF Resolve, HasKeys, Choosing, TypeOK, RequestTypeOK
  <2> QED
    BY <2>1, <2>2, <2>3 DEF TypeOK
<1>2. CASE ListKeys(r)
  <2>1. KeyTableTypeOK' /\ ProcessTypeOK' /\ adm' \in [Admins -> AdminOps]
    BY <1>2 DEF ListKeys, TypeOK, KeyTableTypeOK, ProcessTypeOK, rowVars
  <2>2. PICK ids \in Ascending(Usable(rows)) :
          keys' = [keys EXCEPT ![r] =
                     [i \in DOMAIN ids |-> [id |-> ids[i],
                                            secret |-> rows[ids[i]].secret]]]
    BY <1>2 DEF ListKeys
  <2>3. [i \in DOMAIN ids |-> [id |-> ids[i], secret |-> rows[ids[i]].secret]]
          \in Seq(KeyRecs)
    BY ListedKeys
  <2>4. keys' \in [Requests -> Seq(KeyRecs)]
    BY <2>2, <2>3 DEF TypeOK, RequestTypeOK
  <2>5. RequestTypeOK'
    BY <1>2, <2>4 DEF ListKeys, TypeOK, RequestTypeOK
  <2>6. ASSUME Usable(rows) # {}
        PROVE  [i \in DOMAIN ids |-> [id |-> ids[i], secret |-> rows[ids[i]].secret]]
                 # << >>
    <3>1. DOMAIN ids = 1 .. Cardinality(Usable(rows))
      BY ListedKeys
    <3>2. Usable(rows) \subseteq DOMAIN rows
      BY DEF Usable, Active
    <3>3. Cardinality(Usable(rows)) \in Nat \ {0}
      BY <2>6, <3>2, FiniteRows, FS_EmptySet
    <3>4. 1 \in DOMAIN ids
      BY <3>1, <3>3
    <3> QED
      BY <3>4
  <2>7. HasKeys'
    BY <1>2, <2>2, <2>6 DEF ListKeys, HasKeys, Choosing, TypeOK, RequestTypeOK
  <2> QED
    BY <2>1, <2>5, <2>7 DEF TypeOK
<1>3. CASE CountRows(r)
  <2>1. KeyTableTypeOK' /\ ProcessTypeOK' /\ adm' \in [Admins -> AdminOps]
    BY <1>3 DEF CountRows, TypeOK, KeyTableTypeOK, ProcessTypeOK, rowVars
  <2>2. snap[r] \in Secrets \cup {NoSecret}
    BY DEF TypeOK, RequestTypeOK
  <2>3. snap[r] \notin Unreadable \cup {NoSecret}
          => <<[id |-> 0, secret |-> snap[r]]>> \in Seq(KeyRecs)
    BY <2>2 DEF KeyRecs
  <2>4. RequestTypeOK'
    <3>1. keys' \in [Requests -> Seq(KeyRecs)]
      BY <1>3, <2>3 DEF CountRows, TypeOK, RequestTypeOK
    <3>2. pc' \in [Requests -> {"resolve", "list", "count", "draw", "try",
                               "close", "deactivate", "reply", "done"}]
      BY <1>3, ZenonT(40) DEF CountRows, TypeOK, RequestTypeOK
    <3> QED
      BY <1>3, <3>1, <3>2 DEF CountRows, TypeOK, RequestTypeOK
  <2>5. HasKeys'
    <3>1. <<[id |-> 0, secret |-> snap[r]]>> # << >>
      OBVIOUS
    <3> QED
      BY <1>3, <3>1 DEF CountRows, HasKeys, Choosing, TypeOK, RequestTypeOK
  <2> QED
    BY <2>1, <2>4, <2>5 DEF TypeOK
<1>4. CASE DrawStart(r)
  <2>1. keys[r] # << >> /\ keys[r] \in Seq(KeyRecs)
    BY <1>4 DEF DrawStart, HasKeys, Choosing, TypeOK, RequestTypeOK
  <2>2. rr % Len(keys[r]) \in Nat
    <3>1. Len(keys[r]) \in Nat \ {0}
      BY <2>1
    <3>2. rr \in Nat
      BY DEF TypeOK, ProcessTypeOK
    <3> QED
      BY <3>1, <3>2, ModBound
  <2>3. KeyTableTypeOK' /\ ProcessTypeOK' /\ adm' \in [Admins -> AdminOps]
    BY <1>4 DEF DrawStart, TypeOK, KeyTableTypeOK, ProcessTypeOK, rowVars
  <2>4. RequestTypeOK'
    <3>1. start' \in [Requests -> Nat]
      BY <1>4, <2>2 DEF DrawStart, TypeOK, RequestTypeOK
    <3>2. ticket' \in [Requests -> Int]
      BY <1>4 DEF DrawStart, TypeOK, ProcessTypeOK, RequestTypeOK
    <3>3. pc' \in [Requests -> {"resolve", "list", "count", "draw", "try",
                               "close", "deactivate", "reply", "done"}]
      BY <1>4 DEF DrawStart, TypeOK, RequestTypeOK
    <3> QED
      BY <1>4, <3>1, <3>2, <3>3 DEF DrawStart, TypeOK, RequestTypeOK
  <2>5. HasKeys'
    BY <1>4, <2>1 DEF DrawStart, HasKeys, Choosing, TypeOK, RequestTypeOK
  <2> QED
    BY <2>3, <2>4, <2>5 DEF TypeOK
<1>5. ASSUME NEW out \in Outcomes, Attempt(r, out)
      PROVE  TInv'
  <2>1. keys[r] # << >>
    BY <1>5 DEF Attempt, HasKeys, Choosing
  <2>2. Pick(r) \in KeyRecs
    BY <2>1, PickIsListed
  <2>3. out \in AllOutcomes
    BY ConstantsAssumption
  <2>4. KeyTableTypeOK' /\ ProcessTypeOK' /\ adm' \in [Admins -> AdminOps]
    BY <1>5 DEF Attempt, TypeOK, KeyTableTypeOK, ProcessTypeOK, rowVars
  <2>5. tried[r] \in Seq([id : {0} \cup Ids, out : AllOutcomes])
    BY DEF TypeOK, RequestTypeOK
  <2>6. [id |-> Pick(r).id, out |-> out] \in [id : {0} \cup Ids, out : AllOutcomes]
    BY <2>2, <2>3 DEF KeyRecs
  <2>7. Append(tried[r], [id |-> Pick(r).id, out |-> out])
          \in Seq([id : {0} \cup Ids, out : AllOutcomes])
    BY <2>5, <2>6
  <2>8. tried' \in [Requests -> Seq([id : {0} \cup Ids, out : AllOutcomes])]
    BY <1>5, <2>7 DEF Attempt, TypeOK, RequestTypeOK
  <2>9. Len(tried[r]) + 1 \in Nat
    BY <2>5
  <2>10. open' \in [Requests -> SUBSET Nat]
    BY <1>5, <2>9 DEF Attempt, TypeOK, RequestTypeOK
  <2>11. pc' \in [Requests -> {"resolve", "list", "count", "draw", "try",
                               "close", "deactivate", "reply", "done"}]
    BY <1>5 DEF Attempt, TypeOK, RequestTypeOK
  <2>12. last' \in [Requests -> AllOutcomes \cup {"none"}]
    BY <1>5, <2>3 DEF Attempt, TypeOK, RequestTypeOK
  <2>13. RequestTypeOK'
    BY <1>5, <2>8, <2>10, <2>11, <2>12 DEF Attempt, TypeOK, RequestTypeOK
  <2>14. HasKeys'
    BY <1>5, <2>1 DEF Attempt, HasKeys, Choosing, TypeOK, RequestTypeOK
  <2> QED
    BY <2>4, <2>13, <2>14 DEF TypeOK
<1>8. CASE CloseLast(r)
  <2>1. keys[r] # << >>
    BY <1>8 DEF CloseLast, HasKeys, Choosing
  <2>2. KeyTableTypeOK' /\ ProcessTypeOK' /\ adm' \in [Admins -> AdminOps]
    BY <1>8 DEF CloseLast, Judge, TypeOK, KeyTableTypeOK, ProcessTypeOK, rowVars
  <2>3. tried[r] \in Seq([id : {0} \cup Ids, out : AllOutcomes])
    BY DEF TypeOK, RequestTypeOK
  <2>4. NewResp(r) \in Nat
    BY <2>3 DEF NewResp
  <2>5. open' \in [Requests -> SUBSET Nat] /\ lastResp' \in [Requests -> Nat]
    BY <1>8, <2>4 DEF CloseLast, Judge, TypeOK, RequestTypeOK
  <2>6. pc' \in [Requests -> {"resolve", "list", "count", "draw", "try",
                              "close", "deactivate", "reply", "done"}]
    BY <1>8 DEF CloseLast, Judge, AfterAttempt, TypeOK, RequestTypeOK
  <2>7. pos' \in [Requests -> Nat]
    BY <1>8 DEF CloseLast, Judge, TypeOK, RequestTypeOK
  <2>8. RequestTypeOK'
    BY <1>8, <2>5, <2>6, <2>7 DEF CloseLast, Judge, TypeOK, RequestTypeOK
  <2>9. HasKeys'
    BY <1>8, <2>1 DEF CloseLast, Judge, HasKeys, Choosing, TypeOK, RequestTypeOK
  <2> QED
    BY <2>2, <2>8, <2>9 DEF TypeOK
<1>6. CASE Deactivate(r)
  <2>1. keys[r] # << >>
    BY <1>6 DEF Deactivate, TurnOff, HasKeys, Choosing
  <2>2. Pick(r) \in KeyRecs
    BY <2>1, PickIsListed
  <2>3. KeyTableTypeOK'
    <3>1. DOMAIN rows' = DOMAIN rows
      BY <1>6 DEF Deactivate, TurnOff
    <3>2. \A k \in DOMAIN rows : rows[k] \in [secret : Secrets, on : BOOLEAN]
      BY DEF TypeOK, KeyTableTypeOK
    <3>3. \A k \in DOMAIN rows : rows'[k] \in [secret : Secrets, on : BOOLEAN]
      BY <1>6, <3>2 DEF Deactivate, TurnOff
    <3>4. rows' \in [DOMAIN rows -> [secret : Secrets, on : BOOLEAN]]
      BY <1>6, <3>3 DEF Deactivate, TurnOff
    <3>5. refused' \subseteq [id : Ids, secret : Secrets]
      BY <1>6, <2>2 DEF Deactivate, TurnOff, TypeOK, KeyTableTypeOK, KeyRecs
    <3>6. overlapped' \subseteq Admins
      BY <1>6 DEF Deactivate, TurnOff, Overlapping, TypeOK, KeyTableTypeOK
    <3> QED
      BY <1>6, <3>1, <3>4, <3>5, <3>6 DEF Deactivate, TurnOff, TypeOK,
         KeyTableTypeOK
  <2>4. ProcessTypeOK' /\ adm' \in [Admins -> AdminOps]
    BY <1>6 DEF Deactivate, TurnOff, TypeOK, ProcessTypeOK
  <2>5. RequestTypeOK'
    <3>1. pc' \in [Requests -> {"resolve", "list", "count", "draw", "try",
                               "close", "deactivate", "reply", "done"}]
      BY <1>6 DEF Deactivate, TurnOff, AfterAttempt, TypeOK, RequestTypeOK
    <3>2. pos' \in [Requests -> Nat]
      BY <1>6 DEF Deactivate, TurnOff, TypeOK, RequestTypeOK
    <3> QED
      BY <1>6, <3>1, <3>2 DEF Deactivate, TurnOff, TypeOK, RequestTypeOK
  <2>6. HasKeys'
    BY <1>6, <2>1 DEF Deactivate, TurnOff, HasKeys, Choosing, TypeOK, RequestTypeOK
  <2> QED
    BY <2>3, <2>4, <2>5, <2>6 DEF TypeOK
<1>7. CASE Reply(r)
  <2>1. KeyTableTypeOK' /\ ProcessTypeOK' /\ adm' \in [Admins -> AdminOps]
    BY <1>7 DEF Reply, TypeOK, KeyTableTypeOK, ProcessTypeOK, rowVars
  <2>2. RequestTypeOK'
    BY <1>7 DEF Reply, TypeOK, RequestTypeOK
  <2>3. HasKeys'
    BY <1>7 DEF Reply, HasKeys, Choosing, TypeOK, RequestTypeOK
  <2> QED
    BY <2>1, <2>2, <2>3 DEF TypeOK
<1> QED
  BY <1>1, <1>2, <1>3, <1>4, <1>5, <1>6, <1>7, <1>8 DEF RequestStep

\* A step of an administrator keeps the types.
LEMMA TInvAdmin ==
    ASSUME TInv, NEW a \in Admins, AdminStep(a)
    PROVE  TInv'
<1> USE DEF TInv
<1>1. ASSUME NEW s \in Secrets, CreateProvider(a, s)
      PROVE  TInv'
  <2>1. adm' \in [Admins -> AdminOps]
    BY <1>1 DEF CreateProvider, TypeOK, AdminOps
  <2>2. KeyTableTypeOK' /\ ProcessTypeOK'
    BY <1>1 DEF CreateProvider, TypeOK, KeyTableTypeOK, ProcessTypeOK
  <2>3. RequestTypeOK' /\ HasKeys'
    BY <1>1 DEF CreateProvider, reqVars, TypeOK, RequestTypeOK, HasKeys, Choosing
  <2> QED
    BY <2>1, <2>2, <2>3 DEF TypeOK
<1>2. ASSUME NEW s \in Secrets, NEW owner \in BOOLEAN, UpdateProvider(a, s, owner)
      PROVE  TInv'
  <2>1. adm' \in [Admins -> AdminOps]
    BY <1>2 DEF UpdateProvider, TypeOK, AdminOps
  <2>2. KeyTableTypeOK' /\ ProcessTypeOK'
    BY <1>2 DEF UpdateProvider, TypeOK, KeyTableTypeOK, ProcessTypeOK
  <2>3. RequestTypeOK' /\ HasKeys'
    BY <1>2 DEF UpdateProvider, reqVars, TypeOK, RequestTypeOK, HasKeys, Choosing
  <2> QED
    BY <2>1, <2>2, <2>3 DEF TypeOK
<1>3. ASSUME NEW s \in Secrets, Insert(s),
             UNCHANGED <<exists, legacy, refused, overlapped>>
      PROVE  KeyTableTypeOK'
  <2>1. nextId' \in 1 .. MaxId + 1 /\ nextId' - 1 = nextId
    BY <1>3, ConstantsAssumption DEF Insert, Room, TypeOK, KeyTableTypeOK
  <2>2. DOMAIN rows' = DOMAIN rows \cup {nextId}
    BY <1>3 DEF Insert
  <2>3. DOMAIN rows' \subseteq 1 .. nextId' - 1
    BY <2>1, <2>2 DEF TypeOK, KeyTableTypeOK
  <2>4. \A id \in DOMAIN rows' : rows'[id] \in [secret : Secrets, on : BOOLEAN]
    BY <1>3 DEF Insert, TypeOK, KeyTableTypeOK
  <2>5. rows' \in [DOMAIN rows' -> [secret : Secrets, on : BOOLEAN]]
    BY <1>3, <2>4 DEF Insert
  <2> QED
    BY <1>3, <2>1, <2>3, <2>5 DEF TypeOK, KeyTableTypeOK
<1>4. CASE InsertKey(a)
  <2>1. adm' \in [Admins -> AdminOps]
    BY <1>4 DEF InsertKey, TypeOK, AdminOps
  <2>2. adm[a].secret \in Secrets
    BY <1>4 DEF InsertKey, TypeOK, AdminOps, Idle
  <2>3. KeyTableTypeOK'
    BY <1>3, <1>4, <2>2 DEF InsertKey
  <2>4. ProcessTypeOK' /\ RequestTypeOK' /\ HasKeys'
    BY <1>4 DEF InsertKey, reqVars, TypeOK, ProcessTypeOK, RequestTypeOK,
                HasKeys, Choosing
  <2> QED
    BY <2>1, <2>3, <2>4 DEF TypeOK
<1>5. ASSUME NEW s \in Secrets, AddKey(a, s)
      PROVE  TInv'
  <2>1. KeyTableTypeOK'
    BY <1>3, <1>5 DEF AddKey
  <2>2. ProcessTypeOK' /\ RequestTypeOK' /\ HasKeys'
    BY <1>5 DEF AddKey, reqVars, TypeOK, ProcessTypeOK, RequestTypeOK,
                HasKeys, Choosing
  <2> QED
    BY <1>5, <2>1, <2>2 DEF AddKey, TypeOK
<1>6. ASSUME NEW id \in Ids, EnableKey(a, id)
      PROVE  TInv'
  <2>1. KeyTableTypeOK'
    <3>1. rows' \in [DOMAIN rows -> [secret : Secrets, on : BOOLEAN]]
      BY <1>6 DEF EnableKey, TypeOK, KeyTableTypeOK
    <3>2. DOMAIN rows' = DOMAIN rows
      BY <1>6 DEF EnableKey
    <3>3. overlapped' \subseteq Admins
      BY <1>6 DEF EnableKey, Overlapping, TypeOK, KeyTableTypeOK
    <3> QED
      BY <1>6, <3>1, <3>2, <3>3 DEF EnableKey, TypeOK, KeyTableTypeOK
  <2>2. ProcessTypeOK' /\ RequestTypeOK' /\ HasKeys'
    BY <1>6 DEF EnableKey, reqVars, TypeOK, ProcessTypeOK, RequestTypeOK,
                HasKeys, Choosing
  <2> QED
    BY <1>6, <2>1, <2>2 DEF EnableKey, TypeOK
<1>7. ASSUME NEW op \in {"disable", "delete"}, NEW id \in Ids, CountActive(a, op, id)
      PROVE  TInv'
  <2>1. Cardinality(Active(rows)) \in Nat
    BY FiniteRows DEF Active
  <2>2. adm' \in [Admins -> AdminOps]
    BY <1>7, <2>1 DEF CountActive, TypeOK, AdminOps
  <2>3. KeyTableTypeOK' /\ ProcessTypeOK'
    BY <1>7 DEF CountActive, rowVars, TypeOK, KeyTableTypeOK, ProcessTypeOK
  <2>4. RequestTypeOK' /\ HasKeys'
    BY <1>7 DEF CountActive, reqVars, TypeOK, RequestTypeOK, HasKeys, Choosing
  <2> QED
    BY <2>2, <2>3, <2>4 DEF TypeOK
<1>8. CASE LookAtKey(a)
  <2>1. adm' \in [Admins -> AdminOps]
    BY <1>8 DEF LookAtKey, Removing, TypeOK, AdminOps, Idle
  <2>2. KeyTableTypeOK' /\ ProcessTypeOK'
    BY <1>8 DEF LookAtKey, TypeOK, KeyTableTypeOK, ProcessTypeOK
  <2>3. RequestTypeOK' /\ HasKeys'
    BY <1>8 DEF LookAtKey, reqVars, TypeOK, RequestTypeOK, HasKeys, Choosing
  <2> QED
    BY <2>1, <2>2, <2>3 DEF TypeOK
<1>9. CASE RemoveKey(a)
  <2>1. DOMAIN rows' \subseteq DOMAIN rows
    BY <1>9 DEF RemoveKey
  <2>2. \A k \in DOMAIN rows : rows[k] \in [secret : Secrets, on : BOOLEAN]
    BY DEF TypeOK, KeyTableTypeOK
  <2>3. \A k \in DOMAIN rows' : rows'[k] \in [secret : Secrets, on : BOOLEAN]
    BY <1>9, <2>2 DEF RemoveKey
  <2>4. rows' \in [DOMAIN rows' -> [secret : Secrets, on : BOOLEAN]]
    BY <1>9, <2>3 DEF RemoveKey
  <2>5. KeyTableTypeOK'
    <3>1. overlapped' \subseteq Admins
      BY <1>9 DEF RemoveKey, Overlapping, TypeOK, KeyTableTypeOK
    <3> QED
      BY <1>9, <2>1, <2>4, <3>1 DEF RemoveKey, TypeOK, KeyTableTypeOK
  <2>6. adm' \in [Admins -> AdminOps]
    BY <1>9 DEF RemoveKey, TypeOK, AdminOps
  <2>7. ProcessTypeOK' /\ RequestTypeOK' /\ HasKeys'
    BY <1>9 DEF RemoveKey, reqVars, TypeOK, ProcessTypeOK, RequestTypeOK,
                HasKeys, Choosing
  <2> QED
    BY <2>5, <2>6, <2>7 DEF TypeOK
<1> QED
  BY <1>1, <1>2, <1>4, <1>5, <1>6, <1>7, <1>8, <1>9 DEF AdminStep

LEMMA TInvRestart == ASSUME TInv, Restart PROVE TInv'
<1> USE DEF TInv
<1>1. KeyTableTypeOK'
  BY DEF Restart, TypeOK, KeyTableTypeOK
<1>2. ProcessTypeOK'
  BY ConstantsAssumption DEF Restart, TypeOK, ProcessTypeOK
<1>3. RequestTypeOK'
  <2>1. pc' \in [Requests -> {"resolve", "list", "count", "draw", "try",
                              "close", "deactivate", "reply", "done"}]
    BY DEF Restart, TypeOK, RequestTypeOK
  <2>2. reply' \in [Requests -> {"none", "notfound", "nokeys", "answered",
                                 "failed", "lost"}]
    BY DEF Restart, TypeOK, RequestTypeOK
  <2>3. open' \in [Requests -> SUBSET Nat] /\ ticket' \in [Requests -> Int]
    BY DEF Restart
  <2> QED
    BY <2>1, <2>2, <2>3 DEF Restart, TypeOK, RequestTypeOK
<1>4. adm' \in [Admins -> AdminOps]
  BY DEF Restart, AdminOps
<1>5. HasKeys'
  BY DEF Restart, HasKeys, Choosing, InProgress, TypeOK, RequestTypeOK
<1> QED
  BY <1>1, <1>2, <1>3, <1>4, <1>5 DEF TypeOK

LEMMA TInvNext == TInv /\ [Next]_vars => TInv'
<1> SUFFICES ASSUME TInv, [Next]_vars PROVE TInv'
  OBVIOUS
<1>1. CASE UNCHANGED vars
  BY <1>1 DEF vars, rowVars, reqVars, TInv, TypeOK, KeyTableTypeOK,
              ProcessTypeOK, RequestTypeOK, HasKeys, Choosing
<1> QED
  BY <1>1, TInvRequest, TInvAdmin, TInvRestart DEF Next

\* Every variable keeps its type, and a request that draws a start index or
\* tries a key has a key to try: len(keys) is never the zero that it would
\* divide by (NextStartIndex, tryKeys).
THEOREM TypeCorrect == Spec => [](TypeOK /\ HasKeys)
<1>1. TInv => TypeOK /\ HasKeys
  BY DEF TInv
<1> QED
  BY <1>1, TInvInit, TInvNext, PTL DEF Spec

-----------------------------------------------------------------------------
(* Safety. Row ids are never reused, so a key a request holds, or one that  *)
(* was refused, is the row with its id or no row at all. That is what makes *)
(* the two properties about DeactivateKey inductive.                        *)

Provenance ==
    \A r \in Requests : \A i \in DOMAIN keys[r] :
        /\ keys[r][i].id < nextId
        /\ keys[r][i].id \in DOMAIN rows
             => rows[keys[r][i].id].secret = keys[r][i].secret

RefusedOff ==
    \A k \in refused :
        k.id < nextId /\ (k.id \in DOMAIN rows => ~rows[k.id].on)

\* The responses are numbered by attempts, and the one that replaces another
\* is a later one.
Bodies ==
    \A r \in Requests :
        /\ pc[r] = "resolve" => lastResp[r] = 0
        /\ pc[r] # "close" => lastResp[r] <= Len(tried[r])
        /\ pc[r] = "close" => lastResp[r] < Len(tried[r])
        /\ open[r] = IF pc[r] = "done" THEN {}
                     ELSE ({lastResp[r]} \cup
                             (IF pc[r] = "close" THEN {NewResp(r)} ELSE {})) \ {0}

SInv == TInv /\ Provenance /\ RefusedOff /\ Bodies

\* No step gives an id that was used before to another row.
LEMMA RowsKeepSecrets ==
    ASSUME TInv, [Next]_vars
    PROVE  /\ nextId \in Int /\ nextId' \in Int /\ nextId <= nextId'
           /\ \A id \in DOMAIN rows' : id < nextId =>
                id \in DOMAIN rows /\ rows'[id].secret = rows[id].secret
<1>1. nextId \in Int
  BY ConstantsAssumption DEF TInv, TypeOK, KeyTableTypeOK
<1>2. CASE UNCHANGED <<rows, nextId>>
  BY <1>1, <1>2
<1>3. ASSUME NEW s, Insert(s)
      PROVE  /\ nextId' = nextId + 1
             /\ \A id \in DOMAIN rows' : id < nextId =>
                  id \in DOMAIN rows /\ rows'[id].secret = rows[id].secret
  BY <1>1, <1>3 DEF Insert
<1>4. ASSUME NEW a \in Admins, AdminStep(a), ~UNCHANGED <<rows, nextId>>
      PROVE  \/ \E s : Insert(s)
             \/ \E id \in Ids : EnableKey(a, id)
             \/ RemoveKey(a)
  BY <1>4 DEF AdminStep, CreateProvider, UpdateProvider, InsertKey, AddKey,
              CountActive, LookAtKey, rowVars
<1>5. ASSUME NEW r \in Requests, RequestStep(r), ~UNCHANGED <<rows, nextId>>
      PROVE  Deactivate(r)
  BY <1>5 DEF RequestStep, Resolve, ListKeys, CountRows, DrawStart, Attempt, CloseLast, Judge,
              Reply, rowVars
<1>6. ASSUME NEW r \in Requests, Deactivate(r)
      PROVE  /\ nextId' = nextId
             /\ \A id \in DOMAIN rows' :
                  id \in DOMAIN rows /\ rows'[id].secret = rows[id].secret
  <2>1. \A id \in DOMAIN rows : rows[id] \in [secret : Secrets, on : BOOLEAN]
    BY DEF TInv, TypeOK, KeyTableTypeOK
  <2> QED
    BY <1>6, <2>1 DEF Deactivate, TurnOff
<1>7. ASSUME NEW a \in Admins, RemoveKey(a)
      PROVE  /\ nextId' = nextId
             /\ \A id \in DOMAIN rows' :
                  id \in DOMAIN rows /\ rows'[id].secret = rows[id].secret
  <2>1. \A id \in DOMAIN rows : rows[id] \in [secret : Secrets, on : BOOLEAN]
    BY DEF TInv, TypeOK, KeyTableTypeOK
  <2> QED
    BY <1>7, <2>1 DEF RemoveKey
<1>8. ASSUME NEW a \in Admins, NEW id \in Ids, EnableKey(a, id)
      PROVE  /\ nextId' = nextId
             /\ \A k \in DOMAIN rows' :
                  k \in DOMAIN rows /\ rows'[k].secret = rows[k].secret
  <2>1. \A k \in DOMAIN rows : rows[k] \in [secret : Secrets, on : BOOLEAN]
    BY DEF TInv, TypeOK, KeyTableTypeOK
  <2> QED
    BY <1>8, <2>1 DEF EnableKey
<1>9. Restart => UNCHANGED <<rows, nextId>>
  BY DEF Restart
<1>10. UNCHANGED vars => UNCHANGED <<rows, nextId>>
  BY DEF vars, rowVars
<1> QED
  BY <1>1, <1>2, <1>3, <1>4, <1>5, <1>6, <1>7, <1>8, <1>9, <1>10 DEF Next

LEMMA SInvInit == Init => SInv
<1> SUFFICES ASSUME Init PROVE SInv
  OBVIOUS
<1>1. Provenance /\ RefusedOff /\ Bodies
  BY DEF Init, Provenance, RefusedOff, Bodies, NewResp
<1> QED
  BY <1>1, TInvInit DEF SInv

\* What a request is given by ListActiveKeys is what the table holds then.
LEMMA ProvenanceStep ==
    ASSUME SInv, [Next]_vars
    PROVE  Provenance'
<1> USE DEF SInv
<1>1. SUFFICES ASSUME NEW r \in Requests, NEW i \in DOMAIN keys'[r]
               PROVE  /\ keys'[r][i].id < nextId'
                      /\ keys'[r][i].id \in DOMAIN rows'
                           => rows'[keys'[r][i].id].secret = keys'[r][i].secret
  BY DEF Provenance
<1>2. nextId \in 1 .. MaxId + 1 /\ DOMAIN rows \subseteq 1 .. nextId - 1
  BY DEF TInv, TypeOK, KeyTableTypeOK
<1>3. CASE keys'[r] = keys[r]
  <2>1. keys[r][i].id \in Int
    <3>1. keys[r] \in Seq(KeyRecs) /\ i \in DOMAIN keys[r]
      BY <1>3 DEF TInv, TypeOK, RequestTypeOK
    <3>2. keys[r][i] \in KeyRecs
      BY <3>1
    <3> QED
      BY <3>2, ConstantsAssumption DEF KeyRecs, Ids
  <2>2. /\ keys[r][i].id < nextId
        /\ keys[r][i].id \in DOMAIN rows
             => rows[keys[r][i].id].secret = keys[r][i].secret
    BY <1>3 DEF Provenance
  <2> QED
    BY <1>3, <2>1, <2>2, RowsKeepSecrets
<1>4. CASE ListKeys(r)
  <2>1. PICK ids \in Ascending(Usable(rows)) :
          keys' = [keys EXCEPT ![r] =
                     [j \in DOMAIN ids |-> [id |-> ids[j],
                                            secret |-> rows[ids[j]].secret]]]
    BY <1>4 DEF ListKeys
  <2>2. keys'[r] = [j \in DOMAIN ids |-> [id |-> ids[j],
                                          secret |-> rows[ids[j]].secret]]
    BY <2>1 DEF TInv, TypeOK, RequestTypeOK
  <2>3. ids[i] \in DOMAIN rows
    BY <2>2, ListedKeys DEF TInv, Usable, Active
  <2>4. keys'[r][i] = [id |-> ids[i], secret |-> rows[ids[i]].secret]
    BY <2>2
  <2>5. UNCHANGED <<rows, nextId>>
    BY <1>4 DEF ListKeys, rowVars
  <2> QED
    BY <1>2, <2>3, <2>4, <2>5, ConstantsAssumption
<1>5. CASE CountRows(r) /\ keys'[r] # keys[r]
  <2>1. keys'[r] = <<[id |-> 0, secret |-> snap[r]]>>
    BY <1>5 DEF CountRows, TInv, TypeOK, RequestTypeOK
  <2>2. i = 1 /\ keys'[r][i].id = 0
    BY <2>1
  <2>3. UNCHANGED <<rows, nextId>>
    BY <1>5 DEF CountRows, rowVars
  <2> QED
    BY <1>2, <2>2, <2>3, ConstantsAssumption
<1>6. ASSUME keys'[r] # keys[r]
      PROVE  ListKeys(r) \/ CountRows(r)
  <2>1. ASSUME NEW q \in Requests, RequestStep(q)
        PROVE  ListKeys(r) \/ CountRows(r)
    BY <1>6, <2>1 DEF RequestStep, Resolve, ListKeys, CountRows, DrawStart,
                      Attempt, CloseLast, Judge, Deactivate, TurnOff, Reply, TInv, TypeOK, RequestTypeOK
  <2>2. ASSUME NEW a \in Admins, AdminStep(a)
        PROVE  FALSE
    BY <1>6, <2>2 DEF AdminStep, CreateProvider, UpdateProvider, InsertKey,
                      AddKey, EnableKey, CountActive, LookAtKey, RemoveKey, reqVars
  <2>3. ~Restart /\ ~UNCHANGED vars
    BY <1>6 DEF Restart, vars, reqVars
  <2> QED
    BY <2>1, <2>2, <2>3 DEF Next
<1> QED
  BY <1>3, <1>4, <1>5, <1>6

\* Only EnableKey turns a row that was used before on again.
LEMMA RefusedOffStep ==
    ASSUME SInv, [Next]_vars
    PROVE  RefusedOff'
<1> USE DEF SInv
<1>1. nextId \in 1 .. MaxId + 1 /\ DOMAIN rows \subseteq 1 .. nextId - 1
  BY DEF TInv, TypeOK, KeyTableTypeOK
<1>2. \A id \in DOMAIN rows : rows[id] \in [secret : Secrets, on : BOOLEAN]
  BY DEF TInv, TypeOK, KeyTableTypeOK
<1>3. \A k \in refused : k.id \in Int
  BY ConstantsAssumption DEF TInv, TypeOK, KeyTableTypeOK, Ids
<1>4. CASE UNCHANGED <<rows, nextId, refused>>
  BY <1>4 DEF RefusedOff
<1>5. ASSUME NEW r \in Requests, Deactivate(r)
      PROVE  RefusedOff'
  <2>1. keys[r] # << >>
    BY <1>5 DEF Deactivate, TurnOff, TInv, HasKeys, Choosing
  <2>2. Pick(r).id < nextId
    BY <2>1, PickIsListed DEF Pick, Provenance, TInv
  <2>3. \A id \in DOMAIN rows' :
          /\ id \in DOMAIN rows
          /\ ~rows[id].on => ~rows'[id].on
          /\ id = Pick(r).id => ~rows'[id].on
    BY <1>5, <1>2 DEF Deactivate, TurnOff
  <2>4. \A k \in refused' : k \in refused \/ k = Pick(r)
    BY <1>5 DEF Deactivate, TurnOff
  <2> QED
    BY <1>5, <2>2, <2>3, <2>4 DEF Deactivate, TurnOff, RefusedOff
<1>6. ASSUME NEW s, Insert(s), UNCHANGED refused
      PROVE  RefusedOff'
  BY <1>1, <1>3, <1>6, ConstantsAssumption DEF Insert, RefusedOff
<1>7. ASSUME NEW a \in Admins, NEW id \in Ids, EnableKey(a, id)
      PROVE  RefusedOff'
  BY <1>2, <1>7 DEF EnableKey, RefusedOff
<1>8. ASSUME NEW a \in Admins, RemoveKey(a)
      PROVE  RefusedOff'
  <2>1. \A id \in DOMAIN rows' : id \in DOMAIN rows /\ (~rows[id].on => ~rows'[id].on)
    BY <1>2, <1>8 DEF RemoveKey
  <2> QED
    BY <1>8, <2>1 DEF RemoveKey, RefusedOff
<1>9. ASSUME NEW a \in Admins, AdminStep(a), ~UNCHANGED <<rows, nextId, refused>>
      PROVE  \/ \E s : Insert(s) /\ UNCHANGED refused
             \/ \E id \in Ids : EnableKey(a, id)
             \/ RemoveKey(a)
  BY <1>9 DEF AdminStep, CreateProvider, UpdateProvider, InsertKey, AddKey,
              CountActive, LookAtKey, rowVars
<1>10. ASSUME NEW r \in Requests, RequestStep(r), ~UNCHANGED <<rows, nextId, refused>>
       PROVE  Deactivate(r)
  BY <1>10 DEF RequestStep, Resolve, ListKeys, CountRows, DrawStart, Attempt, CloseLast, Judge,
               Reply, rowVars
<1>11. Restart \/ UNCHANGED vars => UNCHANGED <<rows, nextId, refused>>
  BY DEF Restart, vars, rowVars
<1> QED
  BY <1>4, <1>5, <1>6, <1>7, <1>8, <1>9, <1>10, <1>11 DEF Next

\* A request holds the body of its latest response, and of the one before it
\* while that is being closed.
LEMMA BodiesStep ==
    ASSUME SInv, [Next]_vars
    PROVE  Bodies'
<1> USE DEF SInv
<1>0. /\ TInv /\ Bodies
      /\ \A r \in Requests : Len(tried[r]) \in Nat /\ lastResp[r] \in Nat
  <2>1. ASSUME NEW r \in Requests PROVE Len(tried[r]) \in Nat /\ lastResp[r] \in Nat
    <3>1. tried[r] \in Seq([id : {0} \cup Ids, out : AllOutcomes])
      BY DEF TInv, TypeOK, RequestTypeOK
    <3>2. lastResp[r] \in Nat
      BY DEF TInv, TypeOK, RequestTypeOK
    <3> QED
      BY <3>1, <3>2
  <2> QED
    BY <2>1
<1> DEFINE BodyOf(r) ==
             /\ pc[r] = "resolve" => lastResp[r] = 0
             /\ pc[r] # "close" => lastResp[r] <= Len(tried[r])
             /\ pc[r] = "close" => lastResp[r] < Len(tried[r])
             /\ open[r] = IF pc[r] = "done" THEN {}
                          ELSE ({lastResp[r]} \cup
                                  (IF pc[r] = "close" THEN {NewResp(r)} ELSE {})) \ {0}
           Same(r) == /\ pc'[r] = pc[r] /\ open'[r] = open[r] /\ last'[r] = last[r]
                      /\ lastResp'[r] = lastResp[r] /\ tried'[r] = tried[r]
<1>1. ASSUME NEW q \in Requests, Same(q) PROVE BodyOf(q)'
  BY <1>1 DEF Bodies, NewResp
<1>2. ASSUME NEW r \in Requests, NEW out \in Outcomes, Attempt(r, out)
      PROVE  Bodies'
  <2>1. /\ pc[r] = "try" /\ pc'[r] = "close" /\ last'[r] = out
        /\ lastResp'[r] = lastResp[r]
        /\ tried'[r] = Append(tried[r], [id |-> Pick(r).id, out |-> out])
        /\ open'[r] = IF out = "neterr" THEN open[r]
                      ELSE open[r] \cup {Len(tried[r]) + 1}
    BY <1>2 DEF Attempt, TInv, TypeOK, RequestTypeOK
  <2>2. Len(tried'[r]) = Len(tried[r]) + 1
    <3>1. tried[r] \in Seq([id : {0} \cup Ids, out : AllOutcomes])
      BY DEF TInv, TypeOK, RequestTypeOK
    <3> QED
      BY <2>1, <3>1
  <2>3. NewResp(r)' = IF out = "neterr" THEN 0 ELSE Len(tried[r]) + 1
    BY <2>1, <2>2 DEF NewResp
  <2>4. open[r] = {lastResp[r]} \ {0} /\ lastResp[r] <= Len(tried[r])
    BY <2>1 DEF Bodies
  <2>5. BodyOf(r)'
    BY <1>0, <2>1, <2>2, <2>3, <2>4
  <2>6. \A q \in Requests \ {r} : Same(q)
    BY <1>2 DEF Attempt, TInv, TypeOK, RequestTypeOK
  <2> QED
    BY <1>1, <2>5, <2>6 DEF Bodies
<1>3. ASSUME NEW r \in Requests, CloseLast(r)
      PROVE  Bodies'
  <2>1. /\ pc[r] = "close" /\ pc'[r] \notin {"close", "done", "resolve"}
        /\ lastResp'[r] = NewResp(r) /\ tried'[r] = tried[r]
        /\ open'[r] = open[r] \ {lastResp[r]}
    BY <1>3 DEF CloseLast, Judge, AfterAttempt, TInv, TypeOK, RequestTypeOK
  <2>2. /\ lastResp[r] < Len(tried[r])
        /\ open[r] = {lastResp[r], NewResp(r)} \ {0}
    BY <2>1 DEF Bodies
  <2>3. NewResp(r) \in {0, Len(tried[r])}
    BY DEF NewResp
  <2>4. open'[r] = {lastResp'[r]} \ {0} /\ lastResp'[r] <= Len(tried'[r])
    BY <1>0, <2>1, <2>2, <2>3
  <2>5. BodyOf(r)'
    BY <2>1, <2>4
  <2>6. \A q \in Requests \ {r} : Same(q)
    BY <1>3 DEF CloseLast, Judge, TInv, TypeOK, RequestTypeOK
  <2> QED
    BY <1>1, <2>5, <2>6 DEF Bodies
<1>4. ASSUME NEW r \in Requests, Reply(r)
      PROVE  Bodies'
  <2>1. /\ pc[r] = "reply" /\ pc'[r] = "done" /\ open'[r] = open[r] \ {lastResp[r]}
        /\ lastResp'[r] = lastResp[r] /\ tried'[r] = tried[r]
    BY <1>4 DEF Reply, TInv, TypeOK, RequestTypeOK
  <2>2. open[r] = {lastResp[r]} \ {0} /\ lastResp[r] <= Len(tried[r])
    BY <2>1 DEF Bodies
  <2>3. BodyOf(r)'
    BY <2>1, <2>2
  <2>4. \A q \in Requests \ {r} : Same(q)
    BY <1>4 DEF Reply, TInv, TypeOK, RequestTypeOK
  <2> QED
    BY <1>1, <2>3, <2>4 DEF Bodies
<1>5. ASSUME NEW r \in Requests, Resolve(r)
      PROVE  Bodies'
  <2>1. /\ pc[r] = "resolve" /\ pc'[r] \in {"list", "done"}
        /\ open'[r] = open[r] /\ lastResp'[r] = lastResp[r] /\ tried'[r] = tried[r]
    BY <1>5 DEF Resolve, TInv, TypeOK, RequestTypeOK
  <2>2. lastResp[r] = 0
    BY <1>0, <2>1 DEF Bodies
  <2>3. BodyOf(r)'
    BY <1>0, <2>1, <2>2 DEF Bodies
  <2>4. \A q \in Requests \ {r} : Same(q)
    BY <1>5 DEF Resolve, TInv, TypeOK, RequestTypeOK
  <2> QED
    BY <1>1, <2>3, <2>4 DEF Bodies
<1>6. ASSUME NEW r \in Requests,
             ListKeys(r) \/ CountRows(r) \/ DrawStart(r) \/ Deactivate(r)
      PROVE  Bodies'
  <2>1. UNCHANGED <<open, lastResp, last, tried>>
    BY <1>6 DEF ListKeys, CountRows, DrawStart, Deactivate, TurnOff
  <2>2. /\ pc[r] \notin {"close", "done"}
        /\ pc'[r] \notin {"close", "done", "resolve"}
    BY <1>6 DEF ListKeys, CountRows, DrawStart, Deactivate, TurnOff, AfterAttempt,
                TInv, TypeOK, RequestTypeOK
  <2>3. \A q \in Requests \ {r} : pc'[q] = pc[q]
    BY <1>6 DEF ListKeys, CountRows, DrawStart, Deactivate, TurnOff, TInv, TypeOK,
                RequestTypeOK
  <2>4. BodyOf(r)'
    BY <2>1, <2>2 DEF Bodies
  <2>5. \A q \in Requests \ {r} : Same(q)
    BY <2>1, <2>3
  <2> QED
    BY <1>1, <2>4, <2>5 DEF Bodies
<1>7. ASSUME NEW a \in Admins, AdminStep(a)
      PROVE  UNCHANGED <<pc, open, lastResp, last, tried>>
  BY <1>7 DEF AdminStep, CreateProvider, UpdateProvider, InsertKey, AddKey,
              EnableKey, CountActive, LookAtKey, RemoveKey, reqVars
<1>8. CASE Restart
  <2>1. ASSUME NEW q \in Requests PROVE BodyOf(q)'
    <3>1. /\ open'[q] = {} /\ lastResp'[q] = lastResp[q] /\ tried'[q] = tried[q]
          /\ pc'[q] = IF InProgress(q) THEN "done" ELSE pc[q]
      BY <1>8 DEF Restart
    <3>2. pc'[q] = "done" \/ (pc[q] = "resolve" /\ pc'[q] = "resolve")
      BY <3>1 DEF InProgress
    <3>3. lastResp[q] <= Len(tried[q])
      <4>1. lastResp[q] \in Nat /\ Len(tried[q]) \in Nat
        BY <1>0
      <4>2. lastResp[q] <= Len(tried[q]) \/ lastResp[q] < Len(tried[q])
        BY <1>0 DEF Bodies
      <4> QED
        BY <4>1, <4>2
    <3>4. pc[q] = "resolve" => lastResp[q] = 0
      BY <1>0 DEF Bodies
    <3> QED
      BY <3>1, <3>2, <3>3, <3>4
  <2> QED
    BY <2>1 DEF Bodies
<1>9. CASE UNCHANGED <<pc, open, lastResp, last, tried>>
  BY <1>1, <1>9 DEF Bodies
<1>10. UNCHANGED vars => UNCHANGED <<pc, open, lastResp, last, tried>>
  BY DEF vars, reqVars
<1> QED
  BY <1>2, <1>3, <1>4, <1>5, <1>6, <1>7, <1>8, <1>9, <1>10 DEF Next, RequestStep

LEMMA SInvNext == SInv /\ [Next]_vars => SInv'
  BY TInvNext, ProvenanceStep, RefusedOffStep, BodiesStep DEF SInv

LEMMA Invariance == Spec => []SInv
  BY SInvInit, SInvNext, PTL DEF Spec

\* A key refused with 401 or 403 stays out of the pool until an administrator
\* enables it (DeactivateKey, provider_service.go).
THEOREM RefusedKeysStayOut == Spec => []RefusedStaysOut
<1>1. SInv => RefusedStaysOut
  BY DEF SInv, RefusedOff, RefusedStaysOut
<1> QED
  BY <1>1, Invariance, PTL

\* DeactivateKey never turns off a row that holds another secret than the one
\* the upstream refused, whatever was deleted and added while the upstream was
\* answering.
THEOREM RightKeyDeactivated == Spec => []DeactivatesRefusedKey
<1>1. ASSUME SInv PROVE DeactivatesRefusedKey
  <2>1. SUFFICES ASSUME NEW r \in Requests, pc[r] = "deactivate",
                        Pick(r).id \in DOMAIN rows
                 PROVE  rows[Pick(r).id].secret = Pick(r).secret
    BY DEF DeactivatesRefusedKey
  <2>2. keys[r] # << >>
    BY <1>1, <2>1 DEF SInv, TInv, HasKeys, Choosing
  <2>3. ((start[r] + pos[r]) % Len(keys[r])) + 1 \in DOMAIN keys[r]
    BY <1>1, <2>2, PickIsListed DEF SInv, TInv
  <2> QED
    BY <1>1, <2>1, <2>3 DEF SInv, Provenance, Pick
<1> QED
  BY <1>1, Invariance, PTL

\* Failing over leaks no response body: what is open is the latest response
\* and, while it is drained and closed, the one before it; all are closed when
\* the client has its answer (tryKeys and its callers).
THEOREM NoBodyLeaks == Spec => []NoBodyForgotten
<1>1. SInv => NoBodyForgotten
  BY DEF SInv, Bodies, NoBodyForgotten
<1> QED
  BY <1>1, Invariance, PTL

-----------------------------------------------------------------------------
(* Tickets. A restart takes all of them back with the cursor, so that those *)
(* still out are distinct, and below the cursor.                            *)

\* Two numbers less than n apart differ modulo n.
LEMMA CloseDiffer ==
    ASSUME NEW n \in Nat \ {0}, NEW a \in Nat, NEW b \in Nat, a < b, b - a < n
    PROVE  a % n # b % n
<1>1. SUFFICES ASSUME a % n = b % n PROVE FALSE
  OBVIOUS
<1> DEFINE k == a \div n
           l == b \div n
<1>2. k \in Int /\ a = (n * k) + (a % n)
  OBVIOUS
<1>3. l \in Int /\ b = (n * l) + (b % n)
  OBVIOUS
<1>4. a % n \in Int
  OBVIOUS
<1> HIDE DEF k, l
<1>5. n * (l - k) = b - a
  BY <1>1, <1>2, <1>3, <1>4
<1>6. l - k >= 1
  BY <1>2, <1>3, <1>5
<1>7. n * (l - k) >= n
  BY <1>2, <1>3, <1>6
<1> QED
  BY <1>5, <1>7

\* A request that has drawn a ticket starts where it says, in the keys it was
\* given before.
Drew(r) ==
    ticket[r] >= 0 =>
        /\ pc[r] \in {"try", "close", "deactivate", "reply", "done"}
        /\ ticket[r] < rr /\ keys[r] # << >> /\ start[r] = ticket[r] % Len(keys[r])

DInv ==
    /\ TInv
    /\ \A r \in Requests : Drew(r)
    /\ \A r, q \in Requests : r # q /\ ticket[r] >= 0 => ticket[r] # ticket[q]

LEMMA DInvNext == DInv /\ [Next]_vars => DInv'
<1> SUFFICES ASSUME DInv, [Next]_vars PROVE DInv'
  OBVIOUS
<1>1. TInv'
  BY TInvNext DEF DInv
<1>2. /\ rr \in Nat /\ ticket \in [Requests -> Int]
      /\ DOMAIN keys = Requests /\ DOMAIN start = Requests /\ DOMAIN pc = Requests
  BY DEF DInv, TInv, TypeOK, ProcessTypeOK, RequestTypeOK
<1>3. CASE UNCHANGED <<rr, keys, start, ticket, pc>>
  BY <1>1, <1>3 DEF DInv, Drew
<1>4. CASE Restart
  <2>1. \A r \in Requests : ticket'[r] = -1
    BY <1>4 DEF Restart
  <2> QED
    BY <1>1, <2>1 DEF DInv, Drew
<1>5. ASSUME NEW r \in Requests, DrawStart(r) PROVE DInv'
  <2>1. /\ ticket'[r] = rr /\ rr' = rr + 1 /\ start'[r] = rr % Len(keys[r])
        /\ keys' = keys /\ pc'[r] = "try" /\ keys[r] # << >>
        /\ \A q \in Requests \ {r} :
              ticket'[q] = ticket[q] /\ start'[q] = start[q] /\ pc'[q] = pc[q]
    BY <1>2, <1>5 DEF DrawStart, DInv, TInv, HasKeys, Choosing
  <2>2. Drew(r)'
    BY <1>2, <2>1 DEF Drew
  <2>3. ASSUME NEW q \in Requests \ {r}
        PROVE  Drew(q)' /\ ticket'[q] # ticket'[r]
    BY <1>2, <2>1 DEF DInv, Drew
  <2> QED
    BY <1>1, <1>2, <2>1, <2>2, <2>3 DEF DInv
<1>6. ASSUME NEW r \in Requests,
             \/ Resolve(r) \/ ListKeys(r) \/ CountRows(r) \/ Deactivate(r) \/ Reply(r)
             \/ CloseLast(r)
             \/ \E out \in Outcomes : Attempt(r, out)
      PROVE  DInv'
  <2>1. UNCHANGED <<rr, start, ticket>>
    BY <1>6 DEF Resolve, ListKeys, CountRows, Deactivate, TurnOff, Reply, Attempt,
       CloseLast, Judge
  <2>2. \A q \in Requests \ {r} : keys'[q] = keys[q] /\ pc'[q] = pc[q]
    BY <1>2, <1>6 DEF Resolve, ListKeys, CountRows, Deactivate, TurnOff, Reply, Attempt,
       CloseLast, Judge
  <2>3. \/ pc[r] \in {"resolve", "list", "count"}
        \/ /\ keys' = keys
           /\ pc'[r] \in {"try", "close", "deactivate", "reply", "done"}
    BY <1>2, <1>6 DEF Resolve, ListKeys, CountRows, Deactivate, TurnOff, Reply, Attempt,
       CloseLast, Judge,
                      AfterAttempt
  <2>4. Drew(r)'
    BY <2>1, <2>3 DEF DInv, Drew
  <2>5. ASSUME NEW q \in Requests \ {r} PROVE Drew(q)'
    BY <2>1, <2>2 DEF DInv, Drew
  <2> QED
    BY <1>1, <2>1, <2>4, <2>5 DEF DInv
<1>7. ASSUME NEW a \in Admins, AdminStep(a)
      PROVE  UNCHANGED <<rr, keys, start, ticket, pc>>
  BY <1>7 DEF AdminStep, CreateProvider, UpdateProvider, InsertKey, AddKey, EnableKey,
              CountActive, LookAtKey, RemoveKey, reqVars
<1>8. UNCHANGED vars => UNCHANGED <<rr, keys, start, ticket, pc>>
  BY DEF vars, reqVars
<1> QED
  BY <1>3, <1>4, <1>5, <1>6, <1>7, <1>8 DEF Next, RequestStep

-----------------------------------------------------------------------------
(* The pool. Insertions only add active keys, so that what the statements of *)
(* a removal have found stays true enough unless others change which keys    *)
(* are active, and `overlapped` says when they have.                         *)

\* A handler that has counted has counted no more active keys than there are;
\* one that will remove an active key has counted more than one. The key was in
\* the table, so that no insertion will give its id to another.
Counted(a) ==
    Removing(a) =>
        /\ adm[a].at = "exec" => adm[a].id < nextId
        /\ a \notin overlapped =>
             /\ adm[a].n <= Cardinality(Active(rows))
             /\ adm[a].at = "exec" /\ adm[a].id \in Active(rows) => adm[a].n > 1

PInv == TInv /\ \A a \in Admins : Counted(a)

LEMMA RemovalTypes ==
    ASSUME TInv, NEW a \in Admins, Removing(a)
    PROVE  /\ adm[a] \in [op : {"disable", "delete"}, id : Ids,
                          at : {"look", "exec"}, n : Nat]
           /\ adm[a].n \in Nat /\ adm[a].id \in Nat /\ adm[a] # Idle
<1>1. adm[a] \in AdminOps
  BY DEF TInv, TypeOK
<1>2. adm[a] \in [op : {"disable", "delete"}, id : Ids, at : {"look", "exec"},
                  n : Nat]
  BY <1>1 DEF Removing, AdminOps, Idle
<1>3. adm[a] # Idle
  BY <1>2 DEF Idle
<1> QED
  BY <1>2, <1>3, ConstantsAssumption DEF Ids

\* The active keys are finitely many, before and after a step.
LEMMA ActiveFinite ==
    ASSUME TInv, TInv'
    PROVE  /\ IsFiniteSet(Active(rows)) /\ Cardinality(Active(rows)) \in Nat
           /\ IsFiniteSet(Active(rows')) /\ Cardinality(Active(rows')) \in Nat
<1>1. nextId - 1 \in Int /\ nextId' - 1 \in Int
  BY ConstantsAssumption DEF TInv, TypeOK, KeyTableTypeOK
<1>2. IsFiniteSet(1 .. nextId - 1) /\ IsFiniteSet(1 .. nextId' - 1)
  BY <1>1, FS_Interval
<1>3. Active(rows) \subseteq 1 .. nextId - 1 /\ Active(rows') \subseteq 1 .. nextId' - 1
  BY DEF Active, TInv, TypeOK, KeyTableTypeOK
<1>4. IsFiniteSet(Active(rows)) /\ IsFiniteSet(Active(rows'))
  BY <1>2, <1>3, FS_Subset
<1> QED
  BY <1>4, FS_CardinalityType

\* What a handler has found is still so after a step that leaves it alone, and
\* by which the active keys gain a new one at most unless it is overlapped.
LEMMA CountedFrame ==
    ASSUME PInv, TInv', NEW b \in Admins, adm'[b] = adm[b], nextId <= nextId',
           b \in overlapped => b \in overlapped',
           b \notin overlapped' =>
              /\ Active(rows) \subseteq Active(rows')
              /\ Active(rows') \subseteq Active(rows) \cup {nextId}
    PROVE  Counted(b)'
<1> SUFFICES ASSUME Removing(b)
             PROVE  /\ adm[b].at = "exec" => adm[b].id < nextId'
                    /\ b \notin overlapped' =>
                         /\ adm[b].n <= Cardinality(Active(rows'))
                         /\ adm[b].at = "exec" /\ adm[b].id \in Active(rows')
                              => adm[b].n > 1
  BY DEF Counted, Removing, Active
<1>1. TInv /\ nextId \in Nat /\ nextId' \in Nat
  BY ConstantsAssumption DEF PInv, TInv, TypeOK, KeyTableTypeOK
<1>2. adm[b].n \in Nat /\ adm[b].id \in Nat
  BY <1>1, RemovalTypes
<1>3. adm[b].at = "exec" => adm[b].id < nextId
  BY DEF PInv, Counted
<1>4. ASSUME b \notin overlapped'
      PROVE  /\ adm[b].n <= Cardinality(Active(rows'))
             /\ adm[b].at = "exec" /\ adm[b].id \in Active(rows') => adm[b].n > 1
  <2>1. /\ adm[b].n <= Cardinality(Active(rows))
        /\ adm[b].at = "exec" /\ adm[b].id \in Active(rows) => adm[b].n > 1
    BY <1>4 DEF PInv, Counted
  <2>2. Cardinality(Active(rows)) <= Cardinality(Active(rows'))
    BY <1>1, <1>4, ActiveFinite, FS_Subset
  <2>3. adm[b].n <= Cardinality(Active(rows'))
    BY <1>1, <1>2, <2>1, <2>2, ActiveFinite
  <2>4. ASSUME adm[b].at = "exec", adm[b].id \in Active(rows')
        PROVE  adm[b].id \in Active(rows)
    BY <1>1, <1>2, <1>3, <1>4, <2>4
  <2> QED
    BY <2>1, <2>3, <2>4
<1> QED
  BY <1>1, <1>2, <1>3, <1>4

\* A step that may turn a key on or off, or delete one: whoever is removing a
\* key meanwhile is overlapped, or the active keys are the same.
LEMMA OverlapFrame ==
    ASSUME PInv, TInv', NEW b \in Admins, adm'[b] = adm[b], nextId' = nextId,
           b \in Overlapping => b \in overlapped'
    PROVE  Counted(b)'
<1>1. nextId <= nextId'
  BY ConstantsAssumption DEF PInv, TInv, TypeOK, KeyTableTypeOK
<1>2. CASE Active(rows') = Active(rows)
  BY <1>1, <1>2, CountedFrame DEF Overlapping
<1>3. CASE Active(rows') # Active(rows)
  <2>1. b \in overlapped => b \in overlapped'
    BY <1>3 DEF Overlapping
  <2>2. CASE Removing(b)
    <3>1. b \in overlapped'
      BY <1>3, <2>2 DEF Overlapping
    <3> QED
      BY <1>1, <2>1, <3>1, CountedFrame
  <2>3. CASE ~Removing(b)
    BY <2>3 DEF Counted, Removing
  <2> QED
    BY <2>2, <2>3
<1> QED
  BY <1>2, <1>3

LEMMA PInvInit == Init => PInv
<1> SUFFICES ASSUME Init PROVE PInv
  OBVIOUS
<1>1. \A a \in Admins : ~Removing(a)
  BY DEF Init, Idle, Removing
<1> QED
  BY <1>1, TInvInit DEF PInv, Counted

LEMMA PInvAdmin ==
    ASSUME PInv, TInv', NEW a \in Admins, AdminStep(a), NEW b \in Admins
    PROVE  Counted(b)'
<1>1. /\ adm \in [Admins -> AdminOps] /\ TInv
      /\ nextId \in Nat /\ nextId' \in Nat
  BY ConstantsAssumption DEF PInv, TInv, TypeOK, KeyTableTypeOK
<1>2. ASSUME rows' = rows, nextId' = nextId, overlapped' = overlapped, adm'[b] = adm[b]
      PROVE  Counted(b)'
  BY <1>1, <1>2, CountedFrame
<1>3. ASSUME ~Removing(b)' PROVE Counted(b)'
  BY <1>3 DEF Counted
<1>4. adm'[b] = Idle => ~Removing(b)'
  BY DEF Idle, Removing
<1>5. ASSUME NEW s, CreateProvider(a, s) \/ \E owner \in BOOLEAN : UpdateProvider(a, s, owner)
      PROVE  Counted(b)'
  <2>1. /\ rows' = rows /\ nextId' = nextId /\ overlapped' = overlapped
        /\ adm' = [adm EXCEPT ![a] = [op |-> "insert", secret |-> s]]
    BY <1>5 DEF CreateProvider, UpdateProvider
  <2>2. CASE a = b
    <3>1. adm'[b].op = "insert"
      BY <1>1, <2>1, <2>2
    <3> QED
      BY <1>3, <3>1 DEF Removing
  <2>3. CASE a # b
    BY <1>1, <1>2, <2>1, <2>3
  <2> QED
    BY <2>2, <2>3
<1>6. ASSUME NEW s, Insert(s), overlapped' = overlapped, adm'[b] = adm[b]
      PROVE  Counted(b)'
  <2>1. nextId' = nextId + 1
    BY <1>6 DEF Insert
  <2>2. nextId \notin DOMAIN rows
    BY <1>1 DEF TInv, TypeOK, KeyTableTypeOK
  <2>3. /\ Active(rows) \subseteq Active(rows')
        /\ Active(rows') \subseteq Active(rows) \cup {nextId}
    BY <1>6, <2>2 DEF Insert, Active
  <2> QED
    BY <1>1, <1>6, <2>1, <2>3, CountedFrame
<1>7. CASE InsertKey(a)
  <2>1. CASE a = b
    BY <1>1, <1>3, <1>4, <1>7, <2>1 DEF InsertKey
  <2>2. CASE a # b
    BY <1>1, <1>6, <1>7, <2>2 DEF InsertKey
  <2> QED
    BY <2>1, <2>2
<1>8. ASSUME NEW s, AddKey(a, s) PROVE Counted(b)'
  BY <1>6, <1>8 DEF AddKey
<1>9. ASSUME NEW id \in Ids, EnableKey(a, id) PROVE Counted(b)'
  BY <1>9, OverlapFrame DEF EnableKey
<1>10. ASSUME NEW o \in {"disable", "delete"}, NEW id \in Ids, CountActive(a, o, id)
       PROVE  Counted(b)'
  <2>1. /\ rows' = rows /\ nextId' = nextId /\ overlapped' = overlapped
        /\ adm' = [adm EXCEPT ![a] = [op |-> o, id |-> id, at |-> "look",
                                      n |-> Cardinality(Active(rows))]]
    BY <1>10 DEF CountActive, rowVars
  <2>2. CASE a = b
    <3>1. adm'[b].n = Cardinality(Active(rows')) /\ adm'[b].at = "look"
      BY <1>1, <2>1, <2>2
    <3>2. adm'[b].n <= Cardinality(Active(rows'))
      BY <1>1, <3>1, ActiveFinite
    <3> QED
      BY <3>1, <3>2 DEF Counted, Active
  <2>3. CASE a # b
    BY <1>1, <1>2, <2>1, <2>3
  <2> QED
    BY <2>2, <2>3
<1>11. CASE LookAtKey(a)
  <2> DEFINE id == adm[a].id
             refuse == id \notin DOMAIN rows \/ (rows[id].on /\ adm[a].n <= 1)
  <2>1. /\ rows' = rows /\ nextId' = nextId /\ Removing(a)
        /\ adm' = [adm EXCEPT ![a] =
                     IF refuse THEN Idle ELSE [adm[a] EXCEPT !.at = "exec"]]
        /\ overlapped' = IF refuse THEN overlapped \ {a} ELSE overlapped
    BY <1>11 DEF LookAtKey
  <2>2. CASE a # b
    <3>1. adm'[b] = adm[b] /\ (b \in overlapped <=> b \in overlapped')
      BY <1>1, <2>1, <2>2
    <3> QED
      BY <1>1, <2>1, <3>1, CountedFrame
  <2>3. CASE a = b /\ refuse
    BY <1>1, <1>3, <1>4, <2>1, <2>3
  <2>4. CASE a = b /\ ~refuse
    <3>1. adm[b] \in [op : {"disable", "delete"}, id : Ids, at : {"look", "exec"}, n : Nat]
          /\ adm[b].n \in Nat
      BY <1>1, <2>1, <2>4, RemovalTypes
    <3>2. adm'[b] = [adm[b] EXCEPT !.at = "exec"] /\ overlapped' = overlapped
      BY <1>1, <2>1, <2>4
    <3>3. adm'[b].id = adm[b].id /\ adm'[b].n = adm[b].n
      BY <3>1, <3>2
    <3>4. adm[b].id < nextId
      <4>1. adm[b].id \in DOMAIN rows
        BY <2>4
      <4> QED
        BY <1>1, <4>1 DEF TInv, TypeOK, KeyTableTypeOK
    <3>5. b \notin overlapped => adm[b].n <= Cardinality(Active(rows))
      BY <2>1, <2>4 DEF PInv, Counted
    <3>6. adm[b].id \in Active(rows) => adm[b].n > 1
      BY <2>4, <3>1 DEF Active
    <3> QED
      BY <2>1, <3>2, <3>3, <3>4, <3>5, <3>6 DEF Counted, Active
  <2> QED
    BY <2>2, <2>3, <2>4
<1>12. CASE RemoveKey(a)
  <2>1. nextId' = nextId /\ adm' = [adm EXCEPT ![a] = Idle] /\ overlapped' = Overlapping \ {a}
    BY <1>12 DEF RemoveKey
  <2>2. CASE a = b
    BY <1>1, <1>3, <1>4, <2>1, <2>2
  <2>3. CASE a # b
    <3>1. adm'[b] = adm[b] /\ (b \in Overlapping => b \in overlapped')
      BY <1>1, <2>1, <2>3
    <3> QED
      BY <2>1, <3>1, OverlapFrame
  <2> QED
    BY <2>2, <2>3
<1> QED
  BY <1>5, <1>7, <1>8, <1>9, <1>10, <1>11, <1>12 DEF AdminStep

LEMMA PInvNext == PInv /\ [Next]_vars => PInv'
<1> SUFFICES ASSUME PInv, [Next]_vars, NEW b \in Admins PROVE Counted(b)'
  BY TInvNext DEF PInv
<1>1. TInv'
  BY TInvNext DEF PInv
<1>2. ASSUME NEW r \in Requests, RequestStep(r) PROVE Counted(b)'
  <2>1. CASE Deactivate(r)
    BY <1>1, <2>1, OverlapFrame DEF Deactivate, TurnOff
  <2>2. CASE ~Deactivate(r)
    <3>1. UNCHANGED <<rowVars, adm>>
      BY <1>2, <2>2 DEF RequestStep, Resolve, ListKeys, CountRows, DrawStart, Attempt,
                        CloseLast, Judge, Reply
    <3> QED
      BY <3>1 DEF rowVars, PInv, Counted, Removing, Active
  <2> QED
    BY <2>1, <2>2
<1>3. CASE Restart
  <2>1. adm'[b] = Idle
    BY <1>3 DEF Restart
  <2> QED
    BY <2>1 DEF Counted, Removing, Idle
<1>4. CASE UNCHANGED vars
  BY <1>4 DEF vars, rowVars, PInv, Counted, Removing, Active
<1> QED
  BY <1>1, <1>2, <1>3, <1>4, PInvAdmin DEF Next

\* "cannot deactivate the last active key" and "cannot delete the last active key"
\* (SetKeyActive, DeleteKey): whatever requests, refusals, restarts, insertions
\* and other administrators come between the statements, a removal takes the
\* last active key away only when others have changed which keys are active
\* since it counted them.
THEOREM NoRemovalEmptiesThePool == Spec => RemovalLeavesAKey
<1>1. ASSUME PInv, [Next]_vars, NEW a \in Admins,
             Removing(a), adm[a].at = "exec", adm'[a] = Idle, a \notin overlapped,
             Active(rows) # {}
      PROVE  Active(rows') # {}
  <2>1. TInv /\ TInv'
    BY <1>1, TInvNext DEF PInv
  <2>2. adm \in [Admins -> AdminOps] /\ adm[a] # Idle
    BY <1>1, <2>1, RemovalTypes DEF TInv, TypeOK
  <2>3. RemoveKey(a) \/ UNCHANGED rows
    <3>1. ASSUME NEW b \in Admins, AdminStep(b), b # a PROVE FALSE
      BY <1>1, <2>2, <3>1 DEF AdminStep, CreateProvider, UpdateProvider, InsertKey,
         AddKey, EnableKey, CountActive, LookAtKey, RemoveKey
    <3>2. AdminStep(a) => RemoveKey(a)
      BY <1>1, <2>2 DEF AdminStep, CreateProvider, UpdateProvider, InsertKey,
         AddKey, EnableKey, CountActive, LookAtKey, Removing
    <3>3. ASSUME NEW r \in Requests, RequestStep(r) PROVE FALSE
      <4>1. UNCHANGED adm
        BY <3>3 DEF RequestStep, Resolve, ListKeys, CountRows, DrawStart, Attempt,
           CloseLast, Judge, Deactivate, TurnOff, Reply
      <4> QED
        BY <1>1, <2>2, <4>1
    <3>4. Restart \/ UNCHANGED vars => UNCHANGED rows
      BY DEF Restart, vars, rowVars
    <3> QED
      BY <1>1, <3>1, <3>2, <3>3, <3>4 DEF Next
  <2>4. CASE UNCHANGED rows
    BY <1>1, <2>4
  <2>5. CASE RemoveKey(a)
    <3> DEFINE id == adm[a].id
    <3>1. \E k \in Active(rows) : k # id
      <4>1. CASE id \in Active(rows)
        <5>1. adm[a].n > 1 /\ adm[a].n <= Cardinality(Active(rows)) /\ adm[a].n \in Nat
          BY <1>1, <2>1, <4>1, RemovalTypes DEF PInv, Counted
        <5>2. Cardinality(Active(rows)) # 1
          BY <2>1, <5>1, ActiveFinite
        <5>3. Active(rows) # {id}
          BY <5>2, FS_Singleton
        <5> QED
          BY <4>1, <5>3
      <4>2. CASE id \notin Active(rows)
        BY <1>1, <4>2
      <4> QED
        BY <4>1, <4>2
    <3>2. PICK k \in Active(rows) : k # id
      BY <3>1
    <3>3. k \in Active(rows')
      BY <2>5, <3>2 DEF RemoveKey, Active
    <3> QED
      BY <3>3
  <2> QED
    BY <2>3, <2>4, <2>5
<1>2. PInv /\ [Next]_vars => [\A a \in Admins :
            /\ Removing(a) /\ adm[a].at = "exec" /\ adm'[a] = Idle
            /\ a \notin overlapped
            /\ Active(rows) # {}
            => Active(rows') # {}]_vars
  BY <1>1
<1> QED
  BY <1>2, PInvInit, PInvNext, PTL DEF Spec, RemovalLeavesAKey

-----------------------------------------------------------------------------
(* The keys are visited in a ring. *)

LEMMA RingStep ==
    ASSUME NEW n \in Nat \ {0}, NEW s \in 0 .. n - 1, NEW i \in 0 .. n - 1
    PROVE  (s + i) % n = IF s + i < n THEN s + i ELSE s + i - n
<1>1. CASE s + i < n
  BY <1>1
<1>2. CASE s + i >= n
  <2>1. s + i = 1 * n + (s + i - n) /\ s + i - n \in 0 .. n - 1
    BY <1>2
  <2> QED
    BY <2>1
<1> QED
  BY <1>1, <1>2

\* n consecutive steps of a ring of n visit every position once.
LEMMA RingVisitsAll ==
    ASSUME NEW n \in Nat \ {0}, NEW s \in 0 .. n - 1
    PROVE  /\ \A i, j \in 0 .. n - 1 : (s + i) % n = (s + j) % n => i = j
           /\ \A k \in 0 .. n - 1 : \E i \in 0 .. n - 1 : (s + i) % n = k
<1>1. ASSUME NEW i \in 0 .. n - 1, NEW j \in 0 .. n - 1, (s + i) % n = (s + j) % n
      PROVE  i = j
  <2>1. (s + i) % n = IF s + i < n THEN s + i ELSE s + i - n
    BY RingStep
  <2>2. (s + j) % n = IF s + j < n THEN s + j ELSE s + j - n
    BY RingStep
  <2> QED
    BY <1>1, <2>1, <2>2
<1>2. ASSUME NEW k \in 0 .. n - 1
      PROVE  \E i \in 0 .. n - 1 : (s + i) % n = k
  <2> DEFINE i == IF s <= k THEN k - s ELSE k - s + n
  <2>1. i \in 0 .. n - 1
    OBVIOUS
  <2>2. (s + i) % n = k
    <3>1. (s + i) % n = IF s + i < n THEN s + i ELSE s + i - n
      BY <2>1, RingStep
    <3> QED
      BY <3>1
  <2> QED
    BY <2>1, <2>2
<1> QED
  BY <1>1, <1>2

-----------------------------------------------------------------------------
(* What the loop of tryKeys has done so far. *)

Distinct(r) ==
    \A i, j \in DOMAIN keys[r] : keys[r][i].id = keys[r][j].id => i = j

\* The attempts made are the first ones of the ring.
Path(r) ==
    /\ start[r] < Len(keys[r])
    /\ Len(tried[r]) <= Len(keys[r])
    /\ \A i \in 1 .. Len(tried[r]) :
         tried[r][i].id = keys[r][((start[r] + (i - 1)) % Len(keys[r])) + 1].id

FailedUpTo(r, m) == \A i \in 1 .. m : FailsOver(tried[r][i].out)

Loop(r) ==
    /\ Distinct(r)
    /\ pc[r] \in {"resolve", "list", "count"} => keys[r] = << >>
    /\ pc[r] \in {"resolve", "list", "count", "draw"}
         => tried[r] = << >> /\ pos[r] = 0
    /\ pc[r] = "try" =>
         /\ Path(r)
         /\ pos[r] = Len(tried[r]) /\ pos[r] < Len(keys[r])
         /\ FailedUpTo(r, Len(tried[r]))
    /\ pc[r] = "close" =>
         /\ Path(r)
         /\ Len(tried[r]) = pos[r] + 1
         /\ FailedUpTo(r, Len(tried[r]) - 1)
         /\ last[r] = tried[r][Len(tried[r])].out /\ last[r] \in AllOutcomes
    /\ pc[r] = "deactivate" =>
         /\ Path(r)
         /\ Len(tried[r]) = pos[r] + 1
         /\ FailedUpTo(r, Len(tried[r]))
         /\ last[r] = "auth"
    /\ pc[r] = "reply" /\ keys[r] = << >> => tried[r] = << >>
    /\ pc[r] = "reply" /\ keys[r] # << >> =>
         /\ Path(r)
         /\ \/ /\ last[r] = "answer"
               /\ Len(tried[r]) > 0
               /\ tried[r][Len(tried[r])].out = "answer"
               /\ FailedUpTo(r, Len(tried[r]) - 1)
            \/ /\ last[r] # "answer"
               /\ Len(tried[r]) = Len(keys[r])
               /\ FailedUpTo(r, Len(tried[r]))

LInv == TInv /\ \A r \in Requests : Loop(r)

LEMMA LInvInit == Init => LInv
<1> SUFFICES ASSUME Init, NEW r \in Requests PROVE Loop(r)
  BY TInvInit DEF LInv
<1>1. keys[r] = << >> /\ tried[r] = << >> /\ pos[r] = 0 /\ pc[r] = "resolve"
  BY DEF Init
<1> QED
  BY <1>1 DEF Loop, Distinct

\* What request r keeps of the loop depends on its own variables only.
LEMMA LoopFrame ==
    ASSUME NEW r \in Requests, Loop(r),
           pc'[r] = pc[r], keys'[r] = keys[r], start'[r] = start[r],
           pos'[r] = pos[r], tried'[r] = tried[r], last'[r] = last[r]
    PROVE  Loop(r)'
BY DEF Loop, Distinct, Path, FailedUpTo

LEMMA OthersFrame ==
    ASSUME TInv, NEW r \in Requests, RequestStep(r), NEW q \in Requests \ {r}
    PROVE  /\ pc'[q] = pc[q] /\ keys'[q] = keys[q] /\ start'[q] = start[q]
           /\ pos'[q] = pos[q] /\ tried'[q] = tried[q] /\ last'[q] = last[q]
           /\ reply'[q] = reply[q]
<1> DEFINE Same == /\ pc'[q] = pc[q] /\ keys'[q] = keys[q]
                   /\ start'[q] = start[q] /\ pos'[q] = pos[q]
                   /\ tried'[q] = tried[q] /\ last'[q] = last[q]
                   /\ reply'[q] = reply[q]
<1>1. Resolve(r) => Same
  BY DEF Resolve, TInv, TypeOK, RequestTypeOK
<1>2. ListKeys(r) => Same
  BY DEF ListKeys, TInv, TypeOK, RequestTypeOK
<1>3. CountRows(r) => Same
  BY DEF CountRows, TInv, TypeOK, RequestTypeOK
<1>4. DrawStart(r) => Same
  BY DEF DrawStart, TInv, TypeOK, RequestTypeOK
<1>5. \A out \in Outcomes : Attempt(r, out) => Same
  BY DEF Attempt, TInv, TypeOK, RequestTypeOK
<1>8. CloseLast(r) => Same
  BY DEF CloseLast, Judge, TInv, TypeOK, RequestTypeOK
<1>6. Deactivate(r) => Same
  BY DEF Deactivate, TurnOff, TInv, TypeOK, RequestTypeOK
<1>7. Reply(r) => Same
  BY DEF Reply, TInv, TypeOK, RequestTypeOK
<1> QED
  BY <1>1, <1>2, <1>3, <1>4, <1>5, <1>6, <1>7, <1>8 DEF RequestStep

-----------------------------------------------------------------------------
(* The loop invariant is kept. *)

LEMMA TriedIsDistinct ==
    ASSUME TInv, NEW r \in Requests, Distinct(r), Path(r), keys[r] # << >>
    PROVE  /\ \A i, j \in 1 .. Len(tried[r]) :
                tried[r][i].id = tried[r][j].id => i = j
           /\ pos[r] = Len(tried[r]) /\ pos[r] < Len(keys[r]) =>
                \A i \in 1 .. Len(tried[r]) : tried[r][i].id # Pick(r).id
<1> DEFINE n == Len(keys[r])
           at(i) == ((start[r] + i) % n) + 1
<1>1. /\ keys[r] \in Seq(KeyRecs) /\ n \in Nat \ {0} /\ DOMAIN keys[r] = 1 .. n
      /\ tried[r] \in Seq([id : {0} \cup Ids, out : AllOutcomes])
      /\ Len(tried[r]) \in Nat
      /\ start[r] \in 0 .. n - 1
  <2>1. keys[r] \in Seq(KeyRecs) /\ start[r] \in Nat
    BY DEF TInv, TypeOK, RequestTypeOK
  <2>2. tried[r] \in Seq([id : {0} \cup Ids, out : AllOutcomes])
    BY DEF TInv, TypeOK, RequestTypeOK
  <2>3. n \in Nat \ {0} /\ DOMAIN keys[r] = 1 .. n
    BY <2>1
  <2>4. start[r] < n
    BY DEF Path
  <2> QED
    BY <2>1, <2>2, <2>3, <2>4
<1>2. \A i \in 0 .. n - 1 : (start[r] + i) % n \in 0 .. n - 1
  BY <1>1
<1>3. \A i \in 0 .. n - 1 : at(i) \in DOMAIN keys[r]
  BY <1>1, <1>2, SMTT(40)
<1>4. ASSUME NEW i \in 0 .. n - 1, NEW j \in 0 .. n - 1,
             keys[r][at(i)].id = keys[r][at(j)].id
      PROVE  i = j
  <2>1. at(i) = at(j)
    BY <1>3, <1>4 DEF Distinct
  <2>2. (start[r] + i) % n = (start[r] + j) % n
    BY <1>2, <2>1
  <2> QED
    BY <1>1, <2>2, RingVisitsAll
<1>5. \A i \in 1 .. Len(tried[r]) :
         i - 1 \in 0 .. n - 1 /\ tried[r][i].id = keys[r][at(i - 1)].id
  <2>1. \A i \in 1 .. Len(tried[r]) : tried[r][i].id = keys[r][at(i - 1)].id
    BY DEF Path
  <2>2. Len(tried[r]) <= n
    BY DEF Path
  <2> QED
    BY <1>1, <2>1, <2>2
<1>6. ASSUME NEW i \in 1 .. Len(tried[r]), NEW j \in 1 .. Len(tried[r]),
             tried[r][i].id = tried[r][j].id
      PROVE  i = j
  <2>1. i - 1 = j - 1
    BY <1>4, <1>5, <1>6
  <2> QED
    BY <1>1, <2>1
<1>7. ASSUME pos[r] = Len(tried[r]), pos[r] < n,
             NEW i \in 1 .. Len(tried[r]), tried[r][i].id = Pick(r).id
      PROVE  FALSE
  <2>1. Pick(r).id = keys[r][at(pos[r])].id /\ pos[r] \in 0 .. n - 1
    BY <1>1, <1>7 DEF Pick
  <2>2. i - 1 = pos[r]
    BY <1>4, <1>5, <1>7, <2>1
  <2> QED
    BY <1>1, <1>7, <2>2
<1> QED
  BY <1>6, <1>7

LEMMA ListedAreDistinct ==
    ASSUME TInv, NEW r \in Requests, ListKeys(r)
    PROVE  Distinct(r)' /\ (Usable(rows) = {} => keys'[r] = << >>)
<1>1. PICK ids \in Ascending(Usable(rows)) :
        keys' = [keys EXCEPT ![r] =
                   [i \in DOMAIN ids |-> [id |-> ids[i],
                                          secret |-> rows[ids[i]].secret]]]
  BY DEF ListKeys
<1>2. keys'[r] = [i \in DOMAIN ids |-> [id |-> ids[i],
                                       secret |-> rows[ids[i]].secret]]
  BY <1>1 DEF TInv, TypeOK, RequestTypeOK
<1>3. /\ DOMAIN ids = 1 .. Cardinality(Usable(rows))
      /\ Cardinality(Usable(rows)) \in Nat
      /\ \A i \in DOMAIN ids : ids[i] \in Usable(rows)
  BY ListedKeys DEF TInv
<1>4. \A i \in DOMAIN ids : ids[i] \in Int
  BY <1>3 DEF Usable, Active, TInv, TypeOK, KeyTableTypeOK
<1>5. \A i, j \in DOMAIN ids : i < j => ids[i] < ids[j]
  BY <1>3 DEF Ascending
<1>6. \A i, j \in DOMAIN ids : ids[i] = ids[j] => i = j
  BY <1>3, <1>4, <1>5
<1>7. Distinct(r)'
  BY <1>2, <1>6 DEF Distinct
<1>8. Usable(rows) = {} => DOMAIN ids = {}
  BY <1>3, FS_EmptySet
<1> QED
  BY <1>2, <1>7, <1>8

LEMMA LoopRequest ==
    ASSUME LInv, NEW r \in Requests, RequestStep(r)
    PROVE  Loop(r)'
<1> USE DEF LInv, TInv
<1>0. Loop(r) /\ TInv'
  BY TInvRequest
<1> DEFINE n == Len(keys[r])
<1>t. /\ keys[r] \in Seq(KeyRecs) /\ n \in Nat
      /\ tried[r] \in Seq([id : {0} \cup Ids, out : AllOutcomes])
      /\ Len(tried[r]) \in Nat /\ pos[r] \in Nat /\ start[r] \in Nat
  <2>1. keys[r] \in Seq(KeyRecs) /\ pos[r] \in Nat /\ start[r] \in Nat
    BY DEF TypeOK, RequestTypeOK
  <2>2. tried[r] \in Seq([id : {0} \cup Ids, out : AllOutcomes])
    BY DEF TypeOK, RequestTypeOK
  <2> QED
    BY <2>1, <2>2
<1>1. CASE Resolve(r)
  <2>1. /\ keys'[r] = keys[r] /\ tried'[r] = tried[r] /\ pos'[r] = pos[r]
        /\ pc[r] = "resolve" /\ pc'[r] \in {"list", "done"}
    BY <1>1 DEF Resolve, TypeOK, RequestTypeOK
  <2> QED
    BY <1>0, <2>1 DEF Loop, Distinct
<1>2. CASE ListKeys(r)
  <2>1. /\ tried'[r] = tried[r] /\ pos'[r] = pos[r] /\ pc[r] = "list"
        /\ pc'[r] = IF Usable(rows) = {} THEN "count" ELSE "draw"
    BY <1>2 DEF ListKeys, TypeOK, RequestTypeOK
  <2>2. Distinct(r)' /\ (Usable(rows) = {} => keys'[r] = << >>)
    BY <1>2, ListedAreDistinct
  <2> QED
    BY <1>0, <2>1, <2>2 DEF Loop
<1>3. CASE CountRows(r)
  <2>1. /\ tried'[r] = tried[r] /\ pos'[r] = pos[r] /\ pc[r] = "count"
        /\ tried[r] = << >> /\ pos[r] = 0 /\ keys[r] = << >>
    BY <1>0, <1>3 DEF CountRows, Loop
  <2>2. \/ pc'[r] = "draw" /\ keys'[r] = <<[id |-> 0, secret |-> snap[r]]>>
        \/ pc'[r] = "reply" /\ keys'[r] = keys[r]
    BY <1>3 DEF CountRows, TypeOK, RequestTypeOK
  <2>3. Distinct(r)'
    BY <2>1, <2>2 DEF Distinct
  <2> QED
    BY <2>1, <2>2, <2>3 DEF Loop
<1>4. CASE DrawStart(r)
  <2>1. n \in Nat \ {0}
    BY <1>4, <1>t DEF DrawStart, HasKeys, Choosing
  <2>2. /\ start'[r] = rr % n /\ pc'[r] = "try" /\ keys'[r] = keys[r]
        /\ tried'[r] = tried[r] /\ pos'[r] = pos[r]
        /\ tried[r] = << >> /\ pos[r] = 0
    BY <1>0, <1>4 DEF DrawStart, Loop, TypeOK, RequestTypeOK
  <2>3. start'[r] < n
    BY <2>1, <2>2, ModBound DEF TypeOK, ProcessTypeOK
  <2>4. Path(r)' /\ FailedUpTo(r, Len(tried[r]))'
    BY <2>1, <2>2, <2>3 DEF Path, FailedUpTo
  <2> QED
    BY <1>0, <2>1, <2>2, <2>4 DEF Loop, Distinct, FailedUpTo
<1>5. ASSUME NEW out \in Outcomes, Attempt(r, out)
      PROVE  Loop(r)'
  <2> DEFINE m == Len(tried[r])
             new == [id |-> Pick(r).id, out |-> out]
  <2>1. n \in Nat \ {0} /\ pc[r] = "try" /\ Path(r) /\ pos[r] = m /\ m < n
        /\ FailedUpTo(r, m) /\ Distinct(r)
    BY <1>0, <1>5, <1>t DEF Attempt, Loop
  <2>2. keys'[r] = keys[r] /\ start'[r] = start[r] /\ last'[r] = out
    BY <1>5 DEF Attempt, TypeOK, RequestTypeOK
  <2>3. tried'[r] = Append(tried[r], new)
    BY <1>5 DEF Attempt, TypeOK, RequestTypeOK
  <2>4. /\ Len(tried'[r]) = m + 1 /\ tried'[r][m + 1] = new
        /\ \A i \in 1 .. m : tried'[r][i] = tried[r][i]
    BY <1>t, <2>3
  <2>5. Path(r)'
    <3>1. new.id = keys[r][((start[r] + m) % n) + 1].id
      BY <2>1 DEF Pick
    <3>2. \A i \in 1 .. m + 1 :
             tried'[r][i].id = keys[r][((start[r] + (i - 1)) % n) + 1].id
      <4> SUFFICES ASSUME NEW i \in 1 .. m + 1
                   PROVE  tried'[r][i].id = keys[r][((start[r] + (i - 1)) % n) + 1].id
        OBVIOUS
      <4>1. CASE i \in 1 .. m
        BY <2>1, <2>4, <4>1 DEF Path
      <4>2. CASE i = m + 1
        <5>1. i - 1 = m
          BY <1>t, <4>2
        <5> QED
          BY <2>4, <3>1, <4>2, <5>1
      <4> QED
        BY <1>t, <4>1, <4>2
    <3> QED
      BY <1>t, <2>1, <2>2, <2>4, <3>2 DEF Path
  <2>6. FailedUpTo(r, Len(tried[r]) - 1)'
    <3>1. \A i \in 1 .. m : FailsOver(tried'[r][i].out)
      BY <2>1, <2>4 DEF FailedUpTo
    <3>2. Len(tried'[r]) - 1 = m
      BY <1>t, <2>4
    <3> QED
      BY <3>1, <3>2 DEF FailedUpTo, FailsOver
  <2>7. Distinct(r)'
    BY <2>1, <2>2 DEF Distinct
  <2>8. pc'[r] = "close" /\ pos'[r] = pos[r] /\ out \in AllOutcomes
    BY <1>5, ConstantsAssumption DEF Attempt, TypeOK, RequestTypeOK
  <2>9. /\ Len(tried'[r]) = pos'[r] + 1
        /\ last'[r] = tried'[r][Len(tried'[r])].out /\ last'[r] \in AllOutcomes
    BY <2>1, <2>2, <2>4, <2>8
  <2> QED
    BY <2>5, <2>6, <2>7, <2>8, <2>9 DEF Loop
<1>8. CASE CloseLast(r)
  <2> DEFINE m == Len(tried[r])
             out == last[r]
  <2>1. /\ n \in Nat \ {0} /\ pc[r] = "close" /\ Path(r) /\ m = pos[r] + 1 /\ m <= n
        /\ FailedUpTo(r, m - 1) /\ Distinct(r)
        /\ out = tried[r][m].out /\ out \in AllOutcomes
    BY <1>0, <1>8, <1>t DEF CloseLast, Loop, Path
  <2>2. /\ keys'[r] = keys[r] /\ start'[r] = start[r] /\ tried'[r] = tried[r]
        /\ last'[r] = last[r]
    BY <1>8 DEF CloseLast, Judge
  <2>3. Path(r)' /\ Distinct(r)' /\ FailedUpTo(r, m - 1)'
    BY <2>1, <2>2 DEF Path, Distinct, FailedUpTo
  <2>4. FailsOver(out) => FailedUpTo(r, m)'
    <3> SUFFICES ASSUME FailsOver(out), NEW i \in 1 .. m
                 PROVE  FailsOver(tried'[r][i].out)
      BY <2>2 DEF FailedUpTo, FailsOver
    <3>1. i \in 1 .. m - 1 \/ i = m
      BY <1>t
    <3> QED
      BY <2>1, <2>2, <3>1 DEF FailedUpTo
  <2>5. /\ ~FailsOver(out) => pc'[r] = "reply"
        /\ out = "auth" => pc'[r] = "deactivate" /\ pos'[r] = pos[r]
        /\ FailsOver(out) /\ out # "auth" =>
             pc'[r] = AfterAttempt(r) /\ pos'[r] = pos[r] + 1
    <3>1. pc'[r] = CASE ~FailsOver(out) -> "reply"
                     [] out = "auth"    -> "deactivate"
                     [] OTHER           -> AfterAttempt(r)
      BY <1>8 DEF CloseLast, Judge, TypeOK, RequestTypeOK
    <3>2. pos'[r] = IF out \in {"busy", "neterr"} THEN pos[r] + 1 ELSE pos[r]
      BY <1>8 DEF CloseLast, Judge, TypeOK, RequestTypeOK
    <3>3. out = "auth" => FailsOver(out)
      BY DEF FailsOver
    <3>4. FailsOver(out) /\ out # "auth" => out \in {"busy", "neterr"}
      BY DEF FailsOver
    <3>5. ~FailsOver(out) => pc'[r] = "reply"
      BY <3>1 DEF FailsOver
    <3>6. out = "auth" => pc'[r] = "deactivate" /\ pos'[r] = pos[r]
      BY <3>1, <3>2, <3>3
    <3>7. FailsOver(out) /\ out # "auth" => pc'[r] = AfterAttempt(r)
      BY <3>1
    <3> QED
      BY <3>2, <3>4, <3>5, <3>6, <3>7
  <2>6. CASE ~FailsOver(out)
    <3>1. out = "answer" /\ pc'[r] = "reply" /\ m > 0
      BY <1>t, <2>1, <2>5, <2>6 DEF AllOutcomes, FailsOver
    <3> QED
      BY <2>1, <2>2, <2>3, <3>1 DEF Loop
  <2>7. CASE out = "auth"
    <3>1. FailsOver(out) /\ pc'[r] = "deactivate" /\ pos'[r] = pos[r]
      BY <2>5, <2>7 DEF FailsOver
    <3> QED
      BY <2>1, <2>2, <2>3, <2>4, <2>7, <3>1 DEF Loop
  <2>8. CASE FailsOver(out) /\ out # "auth"
    <3>1. /\ pos'[r] = m /\ out # "answer"
          /\ pc'[r] = IF m < n THEN "try" ELSE "reply"
      BY <2>1, <2>5, <2>8 DEF AfterAttempt, FailsOver
    <3>2. CASE m < n
      BY <2>1, <2>2, <2>3, <2>4, <2>8, <3>1, <3>2 DEF Loop
    <3>3. CASE ~(m < n)
      <4>1. m = n /\ keys'[r] # << >>
        BY <1>t, <2>1, <2>2, <3>3
      <4> QED
        BY <2>1, <2>2, <2>3, <2>4, <2>8, <3>1, <3>3, <4>1 DEF Loop
    <3> QED
      BY <3>2, <3>3
  <2> QED
    BY <2>6, <2>7, <2>8
<1>6. CASE Deactivate(r)
  <2>1. /\ keys'[r] = keys[r] /\ start'[r] = start[r] /\ last'[r] = last[r]
        /\ tried'[r] = tried[r] /\ pos'[r] = pos[r] + 1
        /\ pc'[r] = IF pos[r] + 1 < n THEN "try" ELSE "reply"
    BY <1>6 DEF Deactivate, TurnOff, AfterAttempt, TypeOK, RequestTypeOK
  <2>2. /\ pc[r] = "deactivate" /\ Path(r) /\ Len(tried[r]) = pos[r] + 1
        /\ FailedUpTo(r, Len(tried[r])) /\ last[r] = "auth" /\ Distinct(r)
    BY <1>0, <1>6 DEF Deactivate, Loop
  <2>3. Path(r)' /\ Distinct(r)' /\ FailedUpTo(r, Len(tried[r]))'
    BY <2>1, <2>2 DEF Path, Distinct, FailedUpTo
  <2>4. CASE pos[r] + 1 < n
    BY <2>1, <2>2, <2>3, <2>4 DEF Loop
  <2>5. CASE ~(pos[r] + 1 < n)
    <3>1. Len(tried'[r]) = Len(keys'[r]) /\ keys'[r] # << >>
      BY <1>t, <2>1, <2>2, <2>5 DEF Path
    <3> QED
      BY <2>1, <2>2, <2>3, <2>5, <3>1 DEF Loop
  <2> QED
    BY <2>4, <2>5
<1>7. CASE Reply(r)
  <2>1. keys'[r] = keys[r] /\ pc'[r] = "done"
    BY <1>7 DEF Reply, TypeOK, RequestTypeOK
  <2> QED
    BY <1>0, <2>1 DEF Loop, Distinct
<1> QED
  BY <1>1, <1>2, <1>3, <1>4, <1>5, <1>6, <1>7, <1>8 DEF RequestStep

LEMMA AdminFrame ==
    ASSUME NEW a \in Admins, AdminStep(a)
    PROVE  UNCHANGED reqVars
BY DEF AdminStep, CreateProvider, UpdateProvider, InsertKey, AddKey, EnableKey,
       CountActive, LookAtKey, RemoveKey, reqVars

LEMMA LInvNext == LInv /\ [Next]_vars => LInv'
<1> SUFFICES ASSUME LInv, [Next]_vars, NEW q \in Requests PROVE Loop(q)'
  BY TInvNext DEF LInv
<1>1. ASSUME NEW r \in Requests, RequestStep(r) PROVE Loop(q)'
  <2>1. CASE q = r
    BY <1>1, <2>1, LoopRequest
  <2>2. CASE q # r
    <3>1. q \in Requests \ {r} /\ TInv /\ Loop(q)
      BY <2>2 DEF LInv
    <3> QED
      BY <1>1, <3>1, OthersFrame, LoopFrame
  <2> QED
    BY <2>1, <2>2
<1>2. ASSUME UNCHANGED reqVars PROVE Loop(q)'
  <2>1. Loop(q)
    BY DEF LInv
  <2> QED
    BY <1>2, <2>1, LoopFrame DEF reqVars
<1>3. CASE Restart
  <2>1. /\ keys'[q] = keys[q] /\ tried'[q] = tried[q] /\ pos'[q] = pos[q]
        /\ pc'[q] \in {"resolve", "done"} /\ (pc'[q] = "resolve" => pc[q] = "resolve")
    BY <1>3 DEF Restart, InProgress, LInv, TInv, TypeOK, RequestTypeOK
  <2> QED
    BY <2>1 DEF LInv, Loop, Distinct
<1> QED
  BY <1>1, <1>2, <1>3, AdminFrame DEF Next, vars

\* NextStartIndex spreads the load: requests that draw close to each other and
\* were given the same keys try different ones first.
THEOREM StartsAreSpread == Spec => []SpreadStarts
<1>1. Init => DInv
  <2> SUFFICES ASSUME Init PROVE DInv
    OBVIOUS
  <2>1. \A r \in Requests : ticket[r] = -1
    BY DEF Init
  <2> QED
    BY <2>1, TInvInit DEF DInv, Drew
<1>2. ASSUME DInv, LInv PROVE SpreadStarts
  <2> SUFFICES ASSUME NEW r \in Requests, NEW q \in Requests,
                      r # q, ticket[r] >= 0, ticket[q] >= ticket[r],
                      keys[r] = keys[q], ticket[q] - ticket[r] < Len(keys[r])
               PROVE  FirstKey(r) # FirstKey(q)
    BY DEF SpreadStarts
  <2> DEFINE n == Len(keys[r])
  <2>1. ticket[r] \in Nat /\ ticket[q] \in Nat /\ keys[r] \in Seq(KeyRecs)
    BY <1>2 DEF DInv, TInv, TypeOK, RequestTypeOK
  <2>2. ticket[r] < ticket[q]
    BY <1>2, <2>1 DEF DInv
  <2>3. start[r] = ticket[r] % n /\ start[q] = ticket[q] % n /\ keys[r] # << >>
    BY <1>2, <2>1 DEF DInv, Drew
  <2>4. n \in Nat \ {0} /\ DOMAIN keys[r] = 1 .. n
    BY <2>1, <2>3
  <2>5. start[r] # start[q]
    BY <2>1, <2>2, <2>3, <2>4, CloseDiffer
  <2>6. start[r] \in 0 .. n - 1 /\ start[q] \in 0 .. n - 1
    <3>1. ticket[r] % n \in Nat /\ ticket[r] % n < n
      BY <2>1, <2>4, ModBound
    <3>2. ticket[q] % n \in Nat /\ ticket[q] % n < n
      BY <2>1, <2>4, ModBound
    <3> QED
      BY <2>3, <2>4, <3>1, <3>2
  <2>7. start[r] + 1 \in DOMAIN keys[r] /\ start[q] + 1 \in DOMAIN keys[r]
    BY <2>4, <2>6
  <2>8. Distinct(r)
    BY <1>2 DEF LInv, Loop
  <2> QED
    BY <2>5, <2>6, <2>7, <2>8 DEF FirstKey, Distinct
<1> QED
  BY <1>1, <1>2, DInvNext, LInvInit, LInvNext, PTL DEF Spec

-----------------------------------------------------------------------------
(* Steps of the loop are steps of the contract. *)

View(r) == <<OfferedTo(r), FailedFor(r), VerdictOf(r)>>

\* What the contract sees of a request is made of these variables of its own.
LEMMA ViewFrame ==
    ASSUME NEW q \in Requests, pc'[q] = pc[q], keys'[q] = keys[q],
           tried'[q] = tried[q], reply'[q] = reply[q]
    PROVE  /\ OfferedTo(q)' = OfferedTo(q)
           /\ FailedFor(q)' = FailedFor(q)
           /\ VerdictOf(q)' = VerdictOf(q)
<1>1. OfferedTo(q)' = OfferedTo(q)
  BY DEF OfferedTo
<1>2. FailedFor(q)' = FailedFor(q)
  BY DEF FailedFor, FailsOver
<1>3. VerdictOf(q)' = VerdictOf(q)
  BY DEF VerdictOf
<1> QED
  BY <1>1, <1>2, <1>3

\* The verdict, by where the request is.
LEMMA Verdicts ==
    ASSUME NEW r \in Requests
    PROVE  /\ pc[r] # "done" /\ keys[r] # << >> => VerdictOf(r) = "trying"
           /\ pc[r] # "done" /\ keys[r] = << >> => VerdictOf(r) = "waiting"
           /\ pc[r] = "done" /\ reply[r] = "answered" => VerdictOf(r) = "answered"
           /\ pc[r] = "done" /\ reply[r] = "failed" => VerdictOf(r) = "exhausted"
           /\ pc[r] = "done" /\ reply[r] = "lost" => VerdictOf(r) = "lost"
           /\ pc[r] = "done" /\ reply[r] \in {"nokeys", "notfound"}
                => VerdictOf(r) = "refused"
BY DEF VerdictOf

LEMMA VerdictsNext ==
    ASSUME NEW r \in Requests
    PROVE  /\ pc'[r] # "done" /\ keys'[r] # << >> => VerdictOf(r)' = "trying"
           /\ pc'[r] # "done" /\ keys'[r] = << >> => VerdictOf(r)' = "waiting"
           /\ pc'[r] = "done" /\ reply'[r] = "answered" => VerdictOf(r)' = "answered"
           /\ pc'[r] = "done" /\ reply'[r] = "failed" => VerdictOf(r)' = "exhausted"
           /\ pc'[r] = "done" /\ reply'[r] = "lost" => VerdictOf(r)' = "lost"
           /\ pc'[r] = "done" /\ reply'[r] \in {"nokeys", "notfound"}
                => VerdictOf(r)' = "refused"
BY DEF VerdictOf

\* After a whole turn of the ring in which every attempt failed, the keys that
\* failed are the keys that were offered.
LEMMA AllKeysFailed ==
    ASSUME TInv, NEW r \in Requests, keys[r] # << >>, Path(r),
           Len(tried[r]) = Len(keys[r]), FailedUpTo(r, Len(tried[r]))
    PROVE  FailedFor(r) = OfferedTo(r)
<1> DEFINE n == Len(keys[r])
           at(i) == ((start[r] + i) % n) + 1
<1>1. keys[r] \in Seq(KeyRecs) /\ start[r] \in Nat
  BY DEF TInv, TypeOK, RequestTypeOK
<1>2. tried[r] \in Seq([id : {0} \cup Ids, out : AllOutcomes])
  BY DEF TInv, TypeOK, RequestTypeOK
<1>3. n \in Nat \ {0} /\ DOMAIN keys[r] = 1 .. n /\ DOMAIN tried[r] = 1 .. n
  BY <1>1, <1>2
<1>4. start[r] \in 0 .. n - 1
  BY <1>1, <1>3 DEF Path
<1>5. \A i \in 1 .. n : tried[r][i].id = keys[r][at(i - 1)].id
  BY DEF Path
<1>6. \A i \in 0 .. n - 1 : (start[r] + i) % n \in 0 .. n - 1
  BY <1>3, <1>4, SMTT(40)
<1>7. {j \in DOMAIN tried[r] : FailsOver(tried[r][j].out)} = 1 .. n
  BY <1>3 DEF FailedUpTo
<1>8. FailedFor(r) = {tried[r][i].id : i \in 1 .. n}
  BY <1>7 DEF FailedFor
<1>9. ASSUME NEW i \in 1 .. n PROVE tried[r][i].id \in OfferedTo(r)
  <2>1. i - 1 \in 0 .. n - 1
    BY <1>3
  <2>2. at(i - 1) \in DOMAIN keys[r]
    BY <1>3, <1>6, <2>1
  <2> QED
    BY <1>5, <2>2 DEF OfferedTo
<1>10. ASSUME NEW k \in DOMAIN keys[r] PROVE \E i \in 1 .. n : tried[r][i].id = keys[r][k].id
  <2>1. k - 1 \in 0 .. n - 1
    BY <1>3
  <2>2. PICK i \in 0 .. n - 1 : (start[r] + i) % n = k - 1
    <3>1. \A p \in 0 .. n - 1 : \E i \in 0 .. n - 1 : (start[r] + i) % n = p
      BY <1>3, <1>4, RingVisitsAll
    <3> QED
      BY <2>1, <3>1
  <2>3. i + 1 \in 1 .. n /\ (i + 1) - 1 = i /\ at(i) = k
    BY <1>3, <2>2
  <2>4. tried[r][i + 1].id = keys[r][k].id
    BY <1>5, <2>3
  <2> QED
    BY <2>3, <2>4
<1> QED
  BY <1>8, <1>9, <1>10 DEF OfferedTo

\* Before the last attempt is counted, the key it used has not failed.
LEMMA AnsweringKeyIsLeft ==
    ASSUME TInv, NEW r \in Requests, keys[r] # << >>, Path(r), Distinct(r),
           Len(tried[r]) > 0, tried[r][Len(tried[r])].out = "answer"
    PROVE  OfferedTo(r) \ FailedFor(r) # {}
<1> DEFINE n == Len(keys[r])
           m == Len(tried[r])
           at(i) == ((start[r] + i) % n) + 1
<1>1. keys[r] \in Seq(KeyRecs) /\ start[r] \in Nat
  BY DEF TInv, TypeOK, RequestTypeOK
<1>2. tried[r] \in Seq([id : {0} \cup Ids, out : AllOutcomes])
  BY DEF TInv, TypeOK, RequestTypeOK
<1>3. /\ n \in Nat \ {0} /\ DOMAIN keys[r] = 1 .. n
      /\ m \in Nat /\ m \in 1 .. m /\ m - 1 \in 0 .. n - 1 /\ DOMAIN tried[r] = 1 .. m
  BY <1>1, <1>2 DEF Path
<1>4. tried[r][m].id = keys[r][at(m - 1)].id
  BY <1>3 DEF Path
<1>5. at(m - 1) \in DOMAIN keys[r]
  <2>0. start[r] \in 0 .. n - 1
    <3>1. start[r] < n
      BY DEF Path
    <3> QED
      BY <1>1, <1>3, <3>1
  <2>1. start[r] + (m - 1) \in Nat /\ n \in Nat \ {0}
    BY <1>3, <2>0
  <2>2. (start[r] + (m - 1)) % n \in Nat /\ (start[r] + (m - 1)) % n < n
    BY <2>1, ModBound
  <2> QED
    BY <1>3, <2>2
<1>6. tried[r][m].id \in OfferedTo(r)
  BY <1>4, <1>5 DEF OfferedTo
<1>7. tried[r][m].id \notin FailedFor(r)
  <2> SUFFICES ASSUME NEW i \in DOMAIN tried[r], FailsOver(tried[r][i].out),
                      tried[r][i].id = tried[r][m].id
               PROVE  FALSE
    BY DEF FailedFor
  <2>1. i = m
    BY <1>3, TriedIsDistinct
  <2> QED
    BY <2>1 DEF FailsOver
<1> QED
  BY <1>6, <1>7

\* One attempt adds the key that failed, a key of the pool that had not, or
\* changes nothing the contract sees.
LEMMA AttemptAdds ==
    ASSUME LInv, NEW r \in Requests, NEW out \in Outcomes, Attempt(r, out)
    PROVE  /\ OfferedTo(r)' = OfferedTo(r)
           /\ VerdictOf(r) = "trying" /\ VerdictOf(r)' = "trying"
           /\ FailsOver(out) =>
                /\ Pick(r).id \in OfferedTo(r) \ FailedFor(r)
                /\ FailedFor(r)' = FailedFor(r) \cup {Pick(r).id}
           /\ ~FailsOver(out) => FailedFor(r)' = FailedFor(r)
<1> DEFINE m == Len(tried[r])
           new == [id |-> Pick(r).id, out |-> out]
<1>1. TInv /\ Loop(r) /\ pc[r] = "try" /\ keys[r] # << >>
  BY DEF LInv, TInv, HasKeys, Choosing, Attempt
<1>2. Path(r) /\ Distinct(r) /\ pos[r] = m /\ pos[r] < Len(keys[r])
  BY <1>1 DEF Loop
<1>3. tried[r] \in Seq([id : {0} \cup Ids, out : AllOutcomes])
  BY <1>1 DEF TInv, TypeOK, RequestTypeOK
<1>4. keys'[r] = keys[r] /\ tried'[r] = Append(tried[r], new)
  BY <1>1 DEF Attempt, TInv, TypeOK, RequestTypeOK
<1>5. pc'[r] # "done"
  BY <1>1 DEF Attempt, TInv, TypeOK, RequestTypeOK
<1>6. OfferedTo(r)' = OfferedTo(r)
  BY <1>4 DEF OfferedTo
<1>7. VerdictOf(r) = "trying" /\ VerdictOf(r)' = "trying"
  BY <1>1, <1>4, <1>5, Verdicts, VerdictsNext
<1>8. /\ DOMAIN tried[r] = 1 .. m /\ m \in Nat
      /\ DOMAIN tried'[r] = 1 .. m + 1 /\ tried'[r][m + 1] = new
      /\ \A i \in 1 .. m : tried'[r][i] = tried[r][i]
  BY <1>3, <1>4
<1>9. \A i : i \in DOMAIN tried'[r] <=> i \in DOMAIN tried[r] \/ i = m + 1
  BY <1>8
<1>10. Pick(r).id \in OfferedTo(r)
  BY <1>1, PickIsListed DEF TInv, Pick, OfferedTo
<1>11. Pick(r).id \notin FailedFor(r)
  BY <1>1, <1>2, <1>8, TriedIsDistinct DEF FailedFor
<1>12. FailedFor(r)' = {tried'[r][i].id :
                          i \in {j \in DOMAIN tried'[r] : FailsOver(tried'[r][j].out)}}
  BY DEF FailedFor, FailsOver
<1>13. ASSUME FailsOver(out) PROVE FailedFor(r)' = FailedFor(r) \cup {Pick(r).id}
  <2>1. {j \in DOMAIN tried'[r] : FailsOver(tried'[r][j].out)}
          = {j \in DOMAIN tried[r] : FailsOver(tried[r][j].out)} \cup {m + 1}
    BY <1>8, <1>9, <1>13
  <2> QED
    BY <1>8, <1>12, <2>1 DEF FailedFor
<1>14. ASSUME ~FailsOver(out) PROVE FailedFor(r)' = FailedFor(r)
  <2>1. {j \in DOMAIN tried'[r] : FailsOver(tried'[r][j].out)}
          = {j \in DOMAIN tried[r] : FailsOver(tried[r][j].out)}
    BY <1>8, <1>9, <1>14
  <2> QED
    BY <1>8, <1>12, <2>1 DEF FailedFor
<1> QED
  BY <1>6, <1>7, <1>10, <1>11, <1>13, <1>14

-----------------------------------------------------------------------------
(* The refinement. *)

\* A step of one request that gives the contract's variables new values for it
\* changes them for it alone.
LEMMA OnlyItsView ==
    ASSUME LInv, NEW r \in Requests, RequestStep(r)
    PROVE  /\ [q \in Requests |-> OfferedTo(q)]'
                = [[q \in Requests |-> OfferedTo(q)] EXCEPT ![r] = OfferedTo(r)']
           /\ [q \in Requests |-> FailedFor(q)]'
                = [[q \in Requests |-> FailedFor(q)] EXCEPT ![r] = FailedFor(r)']
           /\ [q \in Requests |-> VerdictOf(q)]'
                = [[q \in Requests |-> VerdictOf(q)] EXCEPT ![r] = VerdictOf(r)']
<1>1. ASSUME NEW q \in Requests \ {r}
      PROVE  /\ OfferedTo(q)' = OfferedTo(q)
             /\ FailedFor(q)' = FailedFor(q)
             /\ VerdictOf(q)' = VerdictOf(q)
  BY <1>1, OthersFrame, ViewFrame DEF LInv
<1> QED
  BY <1>1

LEMMA PoolOfKeyIds ==
    ASSUME TInv, NEW r \in Requests
    PROVE  /\ OfferedTo(r) \subseteq {0} \cup Ids
           /\ keys[r] # << >> => OfferedTo(r) # {}
<1>1. keys[r] \in Seq(KeyRecs)
  BY DEF TInv, TypeOK, RequestTypeOK
<1>2. \A i \in DOMAIN keys[r] : keys[r][i].id \in {0} \cup Ids
  <2>1. \A i \in DOMAIN keys[r] : keys[r][i] \in KeyRecs
    BY <1>1
  <2> QED
    BY <2>1 DEF KeyRecs
<1>3. keys[r] # << >> => 1 \in DOMAIN keys[r]
  BY <1>1
<1> QED
  BY <1>2, <1>3 DEF OfferedTo

LEMMA RequestRefines ==
    ASSUME LInv, NEW r \in Requests, RequestStep(r)
    PROVE  Contract!Next \/ UNCHANGED Contract!vars
<1> DEFINE P == [q \in Requests |-> OfferedTo(q)]
           F == [q \in Requests |-> FailedFor(q)]
           V == [q \in Requests |-> VerdictOf(q)]
<1>0. TInv /\ Loop(r)
  BY DEF LInv
<1>1. /\ P' = [P EXCEPT ![r] = OfferedTo(r)'] /\ P[r] = OfferedTo(r)
      /\ F' = [F EXCEPT ![r] = FailedFor(r)'] /\ F[r] = FailedFor(r)
      /\ V' = [V EXCEPT ![r] = VerdictOf(r)'] /\ V[r] = VerdictOf(r)
  BY OnlyItsView
<1>2. ASSUME OfferedTo(r)' = OfferedTo(r), FailedFor(r)' = FailedFor(r),
             VerdictOf(r)' = VerdictOf(r)
      PROVE  UNCHANGED Contract!vars
  <2>1. P' = P /\ F' = F /\ V' = V
    BY <1>1, <1>2
  <2> QED
    BY <2>1 DEF Contract!vars
<1>3. ASSUME keys'[r] = keys[r], tried'[r] = tried[r]
      PROVE  OfferedTo(r)' = OfferedTo(r) /\ FailedFor(r)' = FailedFor(r)
  BY <1>3 DEF OfferedTo, FailedFor, FailsOver
<1>4. ASSUME OfferedTo(r)' = OfferedTo(r), FailedFor(r)' = FailedFor(r),
             VerdictOf(r) = "waiting", VerdictOf(r)' = "refused"
      PROVE  Contract!Refuse(r)
  BY <1>1, <1>4 DEF Contract!Refuse
<1>5. ASSUME keys[r] = << >>, keys'[r] # << >>, pc[r] # "done", pc'[r] # "done",
             tried'[r] = tried[r]
      PROVE  Contract!Next
  <2>1. VerdictOf(r) = "waiting" /\ VerdictOf(r)' = "trying"
    BY <1>5, Verdicts, VerdictsNext
  <2>2. OfferedTo(r)' \subseteq {0} \cup Ids /\ OfferedTo(r)' # {}
    <3>1. TInv'
      BY <1>0, TInvRequest
    <3>2. keys'[r] \in Seq(KeyRecs)
      BY <3>1 DEF TInv, TypeOK, RequestTypeOK, KeyRecs, Ids
    <3>3. \A i \in DOMAIN keys'[r] : keys'[r][i].id \in {0} \cup Ids
      <4>1. \A i \in DOMAIN keys'[r] : keys'[r][i] \in KeyRecs
        BY <3>2
      <4> QED
        BY <4>1 DEF KeyRecs
    <3>4. 1 \in DOMAIN keys'[r]
      BY <1>5, <3>2
    <3> QED
      BY <3>3, <3>4 DEF OfferedTo
  <2>3. FailedFor(r)' = FailedFor(r)
    BY <1>5 DEF FailedFor, FailsOver
  <2>4. F' = F
    BY <1>1, <2>3
  <2>5. Contract!Offer(r, OfferedTo(r)')
    BY <1>1, <2>1, <2>2, <2>4 DEF Contract!Offer
  <2> QED
    BY <2>2, <2>5 DEF Contract!Next
<1>6. CASE Resolve(r)
  <2>1. keys'[r] = keys[r] /\ tried'[r] = tried[r] /\ keys[r] = << >> /\ pc[r] = "resolve"
    BY <1>0, <1>6 DEF Resolve, Loop
  <2>2. \/ pc'[r] = "list"
        \/ pc'[r] = "done" /\ reply'[r] = "notfound"
    BY <1>0, <1>6 DEF Resolve, TInv, TypeOK, RequestTypeOK
  <2>3. VerdictOf(r) = "waiting" /\ VerdictOf(r)' \in {"waiting", "refused"}
    BY <2>1, <2>2, Verdicts, VerdictsNext
  <2> QED
    BY <1>2, <1>3, <1>4, <2>1, <2>3 DEF Contract!Next
<1>7. CASE ListKeys(r) \/ CountRows(r)
  <2>1. /\ tried'[r] = tried[r] /\ keys[r] = << >>
        /\ pc[r] # "done" /\ pc'[r] # "done"
    BY <1>0, <1>7 DEF ListKeys, CountRows, Loop, TInv, TypeOK, RequestTypeOK
  <2>2. CASE keys'[r] # << >>
    BY <1>5, <2>1, <2>2
  <2>3. CASE keys'[r] = << >>
    <3>1. VerdictOf(r)' = VerdictOf(r)
      BY <2>1, <2>3, Verdicts, VerdictsNext
    <3> QED
      BY <1>2, <1>3, <2>1, <2>3, <3>1
  <2> QED
    BY <2>2, <2>3
<1>8. CASE DrawStart(r) \/ CloseLast(r) \/ Deactivate(r)
  <2>1. /\ tried'[r] = tried[r] /\ keys'[r] = keys[r]
        /\ pc[r] # "done" /\ pc'[r] # "done"
    BY <1>0, <1>8 DEF DrawStart, CloseLast, Judge, Deactivate, TurnOff, AfterAttempt,
                      TInv, TypeOK, RequestTypeOK
  <2>2. VerdictOf(r)' = VerdictOf(r)
    BY <2>1, Verdicts, VerdictsNext
  <2> QED
    BY <1>2, <1>3, <2>1, <2>2
<1>9. ASSUME NEW out \in Outcomes, Attempt(r, out)
      PROVE  Contract!Next \/ UNCHANGED Contract!vars
  <2>1. CASE FailsOver(out)
    <3>1. /\ Pick(r).id \in OfferedTo(r) \ FailedFor(r)
          /\ FailedFor(r)' = FailedFor(r) \cup {Pick(r).id}
          /\ OfferedTo(r)' = OfferedTo(r)
          /\ VerdictOf(r) = "trying" /\ VerdictOf(r)' = "trying"
      BY <1>9, <2>1, AttemptAdds
    <3>2. P' = P /\ V' = V
      BY <1>1, <3>1
    <3>3. Contract!Fail(r, Pick(r).id)
      BY <1>1, <3>1, <3>2 DEF Contract!Fail
    <3>4. Pick(r).id \in {0} \cup Ids
      BY <1>0, <3>1, PoolOfKeyIds
    <3> QED
      BY <3>3, <3>4 DEF Contract!Next
  <2>2. CASE ~FailsOver(out)
    BY <1>2, <1>9, <2>2, AttemptAdds
  <2> QED
    BY <2>1, <2>2
<1>10. CASE Reply(r)
  <2>1. /\ keys'[r] = keys[r] /\ tried'[r] = tried[r]
        /\ pc[r] = "reply" /\ pc'[r] = "done"
    BY <1>0, <1>10 DEF Reply, TInv, TypeOK, RequestTypeOK
  <2>2. /\ keys[r] = << >> => reply'[r] = "nokeys"
        /\ keys[r] # << >> /\ last[r] = "answer" => reply'[r] = "answered"
        /\ keys[r] # << >> /\ last[r] # "answer" => reply'[r] = "failed"
    BY <1>0, <1>10 DEF Reply, TInv, TypeOK, RequestTypeOK
  <2>3. OfferedTo(r)' = OfferedTo(r) /\ FailedFor(r)' = FailedFor(r)
    BY <1>3, <2>1
  <2>4. P' = P /\ F' = F
    BY <1>1, <2>3
  <2>5. CASE keys[r] = << >>
    <3>1. VerdictOf(r) = "waiting" /\ VerdictOf(r)' = "refused"
      BY <2>1, <2>2, <2>5, Verdicts, VerdictsNext
    <3> QED
      BY <1>4, <2>3, <3>1 DEF Contract!Next
  <2>6. CASE keys[r] # << >> /\ last[r] = "answer"
    <3>1. VerdictOf(r) = "trying" /\ VerdictOf(r)' = "answered"
      BY <2>1, <2>2, <2>6, Verdicts, VerdictsNext
    <3>2. OfferedTo(r) \ FailedFor(r) # {}
      BY <1>0, <2>1, <2>6, AnsweringKeyIsLeft DEF Loop
    <3>3. Contract!Answer(r)
      BY <1>1, <2>4, <3>1, <3>2 DEF Contract!Answer
    <3> QED
      BY <3>3 DEF Contract!Next
  <2>7. CASE keys[r] # << >> /\ last[r] # "answer"
    <3>1. VerdictOf(r) = "trying" /\ VerdictOf(r)' = "exhausted"
      BY <2>1, <2>2, <2>7, Verdicts, VerdictsNext
    <3>2. FailedFor(r) = OfferedTo(r)
      BY <1>0, <2>1, <2>7, AllKeysFailed DEF Loop
    <3>3. Contract!Exhaust(r)
      BY <1>1, <2>4, <3>1, <3>2 DEF Contract!Exhaust
    <3> QED
      BY <3>3 DEF Contract!Next
  <2> QED
    BY <2>5, <2>6, <2>7
<1> QED
  BY <1>6, <1>7, <1>8, <1>9, <1>10 DEF RequestStep

LEMMA RestartRefines ==
    ASSUME LInv, Restart
    PROVE  Contract!Next
<1> DEFINE P == [q \in Requests |-> OfferedTo(q)]
           F == [q \in Requests |-> FailedFor(q)]
           V == [q \in Requests |-> VerdictOf(q)]
           R == {q \in Requests : InProgress(q)}
<1>1. keys' = keys /\ tried' = tried
  BY DEF Restart
<1>2. P' = P /\ F' = F
  BY <1>1 DEF OfferedTo, FailedFor, FailsOver
<1>3. ASSUME NEW q \in Requests
      PROVE  /\ q \in R => V[q] \in {"waiting", "trying"} /\ V'[q] = "lost"
             /\ q \notin R => V'[q] = V[q] /\ V[q] # "trying"
  <2>1. Loop(q) /\ TInv
    BY DEF LInv
  <2>2. CASE InProgress(q)
    <3>1. pc[q] # "done" /\ pc'[q] = "done" /\ reply'[q] = "lost"
      BY <2>2 DEF Restart, InProgress
    <3> QED
      BY <2>2, <3>1, Verdicts, VerdictsNext
  <2>3. CASE ~InProgress(q)
    <3>1. pc'[q] = pc[q] /\ reply'[q] = reply[q] /\ pc[q] \in {"resolve", "done"}
      BY <2>1, <2>3 DEF Restart, InProgress
    <3>2. V'[q] = V[q]
      BY <1>1, <3>1, ViewFrame
    <3>3. CASE pc[q] = "resolve"
      BY <2>1, <2>3, <3>2, <3>3, Verdicts DEF Loop
    <3>4. CASE pc[q] = "done"
      BY <2>3, <3>2, <3>4 DEF VerdictOf
    <3> QED
      BY <3>1, <3>3, <3>4
  <2> QED
    BY <2>2, <2>3
<1>4. V' = [q \in Requests |-> IF q \in R THEN "lost" ELSE V[q]]
  BY <1>3
<1>5. \A q \in R : V[q] \in {"waiting", "trying"}
  BY <1>3
<1>6. \A q \in Requests : V[q] = "trying" => q \in R
  BY <1>3
<1>7. Contract!Lose(R)
  BY <1>2, <1>4, <1>5, <1>6 DEF Contract!Lose
<1> QED
  BY <1>7 DEF Contract!Next

LEMMA StepRefines == LInv /\ [Next]_vars => [Contract!Next]_Contract!vars
<1> SUFFICES ASSUME LInv, [Next]_vars
             PROVE  Contract!Next \/ UNCHANGED Contract!vars
  OBVIOUS
<1>1. ASSUME UNCHANGED reqVars PROVE UNCHANGED Contract!vars
  <2>1. \A q \in Requests : /\ OfferedTo(q)' = OfferedTo(q)
                            /\ FailedFor(q)' = FailedFor(q)
                            /\ VerdictOf(q)' = VerdictOf(q)
    BY <1>1, ViewFrame DEF reqVars
  <2> QED
    BY <2>1 DEF Contract!vars
<1> QED
  BY <1>1, RequestRefines, AdminFrame, RestartRefines DEF Next, vars

LEMMA InitRefines == Init => Contract!Init
<1> SUFFICES ASSUME Init PROVE Contract!Init
  OBVIOUS
<1>1. ASSUME NEW q \in Requests
      PROVE  OfferedTo(q) = {} /\ FailedFor(q) = {} /\ VerdictOf(q) = "waiting"
  <2>1. keys[q] = << >> /\ tried[q] = << >> /\ pc[q] = "resolve"
    BY DEF Init
  <2>2. OfferedTo(q) = {} /\ FailedFor(q) = {}
    BY <2>1 DEF OfferedTo, FailedFor
  <2> QED
    BY <2>1, <2>2, Verdicts
<1> QED
  BY <1>1 DEF Contract!Init

\* tryKeys keeps the promise of the contract for pools and requests of any
\* number, whatever administrators do and whenever the process restarts: no
\* request tries a key twice, the first answer ends it, and its client is told
\* of a failure only when every key of its pool has failed.
THEOREM LoopImplementsContract == Spec => ImplementsContract
<1>1. Init => LInv /\ Contract!Init
  BY LInvInit, InitRefines
<1>2. LInv /\ [Next]_vars => LInv' /\ [Contract!Next]_Contract!vars
  BY LInvNext, StepRefines
<1> QED
  BY <1>1, <1>2, PTL DEF Spec, ImplementsContract, Contract!Spec
=============================================================================
