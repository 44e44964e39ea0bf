--------------------------- MODULE DispatchProofs ---------------------------
(***************************************************************************)
(* Proofs about Dispatch, for any number of accounts, requests, providers, *)
(* models and sessions of the administrator: where a request may be sent,  *)
(* that it reaches the provider it names or the one its model was imported *)
(* from, and that the price an administrator has set survives syncs and    *)
(* the edits of others.                                                    *)
(***************************************************************************)
EXTENDS Dispatch, FiniteSetTheorems, TLAPS

(* What each of the queries of a request has established still holds of     *)
(* some moment since the request came in, whatever the administrator did    *)
(* between them: usable only grows, and always includes the present.        *)

Fields == {"at", "user", "via", "key", "model", "row", "prov"}

Shape ==
    /\ DOMAIN issued = {"id", "row"} /\ issued.id \in 0 .. MaxIds
    /\ DOMAIN providers \subseteq 1 .. issued.id
    /\ DOMAIN req = Requests /\ DOMAIN usable = Requests
    /\ \A r \in Requests : DOMAIN req[r] = Fields /\ usable[r].active \subseteq 1 .. MaxIds

Now(r) ==
    /\ Allowed(access, req[r].user) \subseteq usable[r].allowed
    /\ \A id \in DOMAIN providers : providers[id].active => id \in usable[r].active

\* The provider is chosen from "count" on, and was asked about after "check".
Chosen(r) == req[r].at \in {"count", "check", "model", "reroute", "send"} \/ Sent(r)
Cleared(r) == req[r].at \in {"model", "reroute", "send"} \/ Sent(r)

Grounds(r) ==
    /\ req[r].at \notin {"new", "done"} => Now(r)
    /\ req[r].at = "source" /\ req[r].row.src = None => req[r].row.prov \in usable[r].active
    /\ Chosen(r) => req[r].prov \in usable[r].active
    /\ Cleared(r) => req[r].prov \in usable[r].allowed

DInv == Shape /\ \A r \in Requests : Grounds(r)

\* The administrator does something that no request depends on ...
LEMMA Unseen ==
    ASSUME DInv, UNCHANGED <<providers, access, req, usable>>,
           DOMAIN issued' = {"id", "row"}, issued'.id = issued.id
    PROVE  DInv'
BY DEF DInv, Shape, Grounds, Now, Chosen, Cleared, Sent, Allowed

\* ... or changes a provider or an access list.
LEMMA Observed ==
    ASSUME DInv, Observe, req' = req,
           DOMAIN issued' = {"id", "row"}, issued'.id \in 0 .. MaxIds,
           DOMAIN providers' \subseteq 1 .. issued'.id
    PROVE  DInv'
<1>1. DOMAIN usable' = Requests
  BY DEF Observe
<1>2. ASSUME NEW r \in Requests
      PROVE  /\ usable'[r].active \subseteq 1 .. MaxIds
             /\ usable[r].active \subseteq usable'[r].active
             /\ usable[r].allowed \subseteq usable'[r].allowed
             /\ req[r].at \notin {"new", "done"} => Now(r)'
  <2>1. CASE req[r].at \in {"new", "done"}
    BY <2>1 DEF Observe, DInv, Shape
  <2>2. CASE req[r].at \notin {"new", "done"}
    <3>1. usable'[r] = [ allowed |-> usable[r].allowed \cup Allowed(access', req[r].user),
                         active  |-> usable[r].active
                                       \cup {id \in DOMAIN providers' : providers'[id].active} ]
      BY <2>2 DEF Observe
    <3>2. DOMAIN providers' \subseteq 1 .. MaxIds
      BY DispatchAssumption
    <3> QED
      BY <3>1, <3>2 DEF Now, DInv, Shape, Allowed
  <2> QED
    BY <2>1, <2>2
<1>3. Shape'
  BY <1>1, <1>2 DEF DInv, Shape
<1>4. ASSUME NEW r \in Requests PROVE Grounds(r)'
  BY <1>2 DEF DInv, Grounds, Chosen, Cleared, Sent
<1> QED
  BY <1>3, <1>4 DEF DInv

\* A request goes on, with its provider and its grounds.
LEMMA Moves ==
    ASSUME DInv, NEW r \in Requests, NEW job, DOMAIN job = Fields,
           req' = [req EXCEPT ![r] = job], UNCHANGED <<usable, providers, access, issued>>,
           req[r].at \notin {"new", "done"}, job.user = req[r].user,
           job.at = "source" /\ job.row.src = None => job.row.prov \in usable[r].active,
           job.at \in {"count", "check", "model", "reroute", "send", "done"}
             => job.prov \in usable[r].active,
           job.at \in {"model", "reroute", "send", "done"} => job.prov \in usable[r].allowed
    PROVE  DInv'
<1>1. req'[r] = job /\ \A q \in Requests \ {r} : req'[q] = req[q]
  BY DEF DInv, Shape
<1>2. Shape'
  BY <1>1 DEF DInv, Shape
<1>3. Now(r)'
  BY <1>1 DEF DInv, Grounds, Now, Allowed
<1>4. Grounds(r)'
  BY <1>1, <1>3 DEF Grounds, Chosen, Cleared, Sent
<1>5. ASSUME NEW q \in Requests \ {r} PROVE Grounds(q)'
  BY <1>1 DEF DInv, Grounds, Now, Chosen, Cleared, Sent, Allowed
<1> QED
  BY <1>2, <1>4, <1>5 DEF DInv

\* A request is refused.
LEMMA Refused ==
    ASSUME DInv, NEW r \in Requests, Refuse(r), UNCHANGED <<providers, access, issued>>
    PROVE  DInv'
<1> DEFINE job == [NoReq EXCEPT !.at = "done"]
<1>0. DOMAIN job = Fields /\ job.at = "done" /\ job.prov = 0
  BY DEF NoReq, Fields
<1> HIDE DEF job
<1>1. /\ req' = [req EXCEPT ![r] = job]
      /\ usable' = [usable EXCEPT ![r] = Nothing]
  BY DEF Refuse, job
<1>2. /\ req'[r] = job /\ usable'[r] = Nothing /\ Nothing.active = {}
      /\ DOMAIN req' = Requests /\ DOMAIN usable' = Requests
      /\ \A q \in Requests \ {r} : req'[q] = req[q] /\ usable'[q] = usable[q]
  BY <1>1 DEF DInv, Shape, Nothing
<1>3. Shape'
  BY <1>0, <1>2 DEF DInv, Shape
<1>4. Grounds(r)'
  BY <1>0, <1>2 DEF Grounds, Chosen, Cleared, Sent
<1>5. ASSUME NEW q \in Requests \ {r} PROVE Grounds(q)'
  BY <1>2 DEF DInv, Grounds, Now, Chosen, Cleared, Sent, Allowed
<1> QED
  BY <1>3, <1>4, <1>5 DEF DInv

\* A request comes in: what it may use now is written down.
LEMMA Arrives ==
    ASSUME DInv, NEW r \in Requests, Arrive(r)
    PROVE  DInv'
<1>1. UNCHANGED <<providers, access, issued>>
  BY DEF Arrive, catalogue
<1>2. PICK u \in Users, k \in Asked, m \in Models, via \in {"body", "path"} :
        req' = [req EXCEPT ![r] =
                  [NoReq EXCEPT !.at = IF via = "body" THEN "find" ELSE "provider",
                                !.user = u, !.via = via, !.key = k, !.model = m]]
  BY DEF Arrive
<1>3. /\ DOMAIN req' = Requests /\ DOMAIN req'[r] = Fields
      /\ req'[r].at \in {"find", "provider"}
      /\ \A q \in Requests \ {r} : req'[q] = req[q]
  BY <1>2 DEF DInv, Shape, NoReq, Fields
<1>4. usable' = [usable EXCEPT ![r] =
                   [ allowed |-> Allowed(access, req'[r].user),
                     active  |-> {id \in DOMAIN providers : Active(id)} ]]
  BY DEF Arrive
<1>5. /\ DOMAIN usable' = Requests
      /\ usable'[r].allowed = Allowed(access, req'[r].user)
      /\ usable'[r].active = {id \in DOMAIN providers : Active(id)}
      /\ \A q \in Requests \ {r} : usable'[q] = usable[q]
  BY <1>4 DEF DInv, Shape
<1>6. Shape'
  BY <1>1, <1>3, <1>5, DispatchAssumption DEF DInv, Shape
<1>7. Now(r)'
  BY <1>1, <1>5 DEF Now, Active, Allowed
<1>8. Grounds(r)'
  BY <1>3, <1>7 DEF Grounds, Chosen, Cleared, Sent
<1>9. ASSUME NEW q \in Requests \ {r} PROVE Grounds(q)'
  BY <1>1, <1>3, <1>5 DEF DInv, Grounds, Now, Chosen, Cleared, Sent, Allowed
<1> QED
  BY <1>6, <1>8, <1>9 DEF DInv

LEMMA RequestsKeep ==
    ASSUME DInv, NEW r \in Requests, RequestStep(r)
    PROVE  DInv'
<1> DOMAIN req[r] = Fields /\ DOMAIN req = Requests
  BY DEF DInv, Shape
<1> USE DEF Quiet, catalogue, To, Ask
<1>1. ASSUME FindModel(r) PROVE DInv'
  <2>0. UNCHANGED <<providers, access, issued>> /\ req[r].at = "find"
    BY <1>1 DEF FindModel
  <2>1. ASSUME NEW i \in FindByFullID(req[r].key, req[r].model),
               To(r, [req[r] EXCEPT !.at = "source", !.row = rows[i]])
        PROVE  DInv'
    <3> DEFINE job == [req[r] EXCEPT !.at = "source", !.row = rows[i]]
    <3>1. DOMAIN job = Fields /\ job.at = "source" /\ job.row = rows[i] /\ job.user = req[r].user
      BY DEF Fields
    <3>2. rows[i].prov \in usable[r].active
      BY <2>0 DEF FindByFullID, Active, DInv, Grounds, Now
    <3>3. req' = [req EXCEPT ![r] = job] /\ UNCHANGED usable
      BY <2>1
    <3> HIDE DEF job
    <3> QED
      BY <2>0, <3>1, <3>2, <3>3, Moves
  <2> QED
    BY <1>1, <2>0, <2>1, Refused DEF FindModel
<1>2. ASSUME FindProvider(r) PROVE DInv'
  <2>0. UNCHANGED <<providers, access, issued>> /\ req[r].at = "source"
    BY <1>2 DEF FindProvider
  <2>1. ASSUME NEW id, id \in usable[r].active, Ask(r, "count", id) PROVE DInv'
    <3> DEFINE job == [req[r] EXCEPT !.at = "count", !.prov = id]
    <3>1. DOMAIN job = Fields /\ job.at = "count" /\ job.prov = id /\ job.user = req[r].user
      BY DEF Fields
    <3>2. req' = [req EXCEPT ![r] = job] /\ UNCHANGED usable
      BY <2>1
    <3> HIDE DEF job
    <3> QED
      BY <2>0, <2>1, <3>1, <3>2, Moves
  <2>2. \A id \in ByKey(req[r].row.src) : id \in usable[r].active
    BY <2>0 DEF ByKey, IdsOf, Active, DInv, Grounds, Now
  <2>3. req[r].row.src = None => req[r].row.prov \in usable[r].active
    BY <2>0 DEF DInv, Grounds
  <2> QED
    BY <1>2, <2>0, <2>1, <2>2, <2>3, Refused DEF FindProvider
<1>3. ASSUME PathProvider(r) PROVE DInv'
  <2>0. UNCHANGED <<providers, access, issued>> /\ req[r].at = "provider"
    BY <1>3 DEF PathProvider
  <2>1. ASSUME NEW id \in ByKey(req[r].key), Ask(r, "count", id) PROVE DInv'
    <3> DEFINE job == [req[r] EXCEPT !.at = "count", !.prov = id]
    <3>1. DOMAIN job = Fields /\ job.at = "count" /\ job.prov = id /\ job.user = req[r].user
      BY DEF Fields
    <3>2. req' = [req EXCEPT ![r] = job] /\ UNCHANGED usable
      BY <2>1
    <3>3. id \in usable[r].active
      BY <2>0 DEF ByKey, IdsOf, Active, DInv, Grounds, Now
    <3> HIDE DEF job
    <3> QED
      BY <2>0, <3>1, <3>2, <3>3, Moves
  <2> QED
    BY <1>3, <2>0, <2>1, Refused DEF PathProvider
<1>4. ASSUME PathModel(r) PROVE DInv'
  <2>0. /\ UNCHANGED <<providers, access, issued>> /\ req[r].at = "model"
        /\ req[r].prov \in usable[r].active \cap usable[r].allowed
    BY <1>4 DEF PathModel, DInv, Grounds, Chosen, Cleared
  <2>1. ASSUME NEW at \in {"send", "reroute"}, NEW row,
               To(r, [req[r] EXCEPT !.at = at, !.row = row])
        PROVE  DInv'
    <3> DEFINE job == [req[r] EXCEPT !.at = at, !.row = row]
    <3>1. DOMAIN job = Fields /\ job.at = at /\ job.prov = req[r].prov /\ job.user = req[r].user
      BY DEF Fields
    <3>2. req' = [req EXCEPT ![r] = job] /\ UNCHANGED usable
      BY <2>1
    <3> HIDE DEF job
    <3> QED
      BY <2>0, <3>1, <3>2, Moves
  <2>2. ASSUME To(r, [req[r] EXCEPT !.at = "send"]) PROVE DInv'
    <3> DEFINE job == [req[r] EXCEPT !.at = "send"]
    <3>1. DOMAIN job = Fields /\ job.at = "send" /\ job.prov = req[r].prov /\ job.user = req[r].user
      BY DEF Fields
    <3>2. req' = [req EXCEPT ![r] = job] /\ UNCHANGED usable
      BY <2>2
    <3> HIDE DEF job
    <3> QED
      BY <2>0, <3>1, <3>2, Moves
  <2> QED
    BY <1>4, <2>1, <2>2 DEF PathModel
<1>5. ASSUME Reroute(r) PROVE DInv'
  <2>0. /\ UNCHANGED <<providers, access, issued>> /\ req[r].at = "reroute"
        /\ req[r].prov \in usable[r].active \cap usable[r].allowed
    BY <1>5 DEF Reroute, DInv, Grounds, Chosen, Cleared
  <2>1. ASSUME To(r, [req[r] EXCEPT !.at = "send"]) PROVE DInv'
    <3> DEFINE job == [req[r] EXCEPT !.at = "send"]
    <3>1. DOMAIN job = Fields /\ job.at = "send" /\ job.prov = req[r].prov /\ job.user = req[r].user
      BY DEF Fields
    <3>2. req' = [req EXCEPT ![r] = job] /\ UNCHANGED usable
      BY <2>1
    <3> HIDE DEF job
    <3> QED
      BY <2>0, <3>1, <3>2, Moves
  <2>2. ASSUME NEW id \in ByKey(req[r].row.src), Ask(r, "count", id) PROVE DInv'
    <3> DEFINE job == [req[r] EXCEPT !.at = "count", !.prov = id]
    <3>1. DOMAIN job = Fields /\ job.at = "count" /\ job.prov = id /\ job.user = req[r].user
      BY DEF Fields
    <3>2. req' = [req EXCEPT ![r] = job] /\ UNCHANGED usable
      BY <2>2
    <3>3. id \in usable[r].active
      BY <2>0 DEF ByKey, IdsOf, Active, DInv, Grounds, Now
    <3> HIDE DEF job
    <3> QED
      BY <2>0, <3>1, <3>2, <3>3, Moves
  <2> QED
    BY <1>5, <2>1, <2>2 DEF Reroute
<1>6. ASSUME CountAccess(r) PROVE DInv'
  <2>0. /\ UNCHANGED <<providers, access, issued>> /\ req[r].at = "count"
        /\ req[r].prov \in usable[r].active /\ req[r].prov \in 1 .. MaxIds
    BY <1>6 DEF CountAccess, DInv, Shape, Grounds, Chosen
  <2>1. access[req[r].user] = {} => req[r].prov \in usable[r].allowed
    BY <2>0 DEF DInv, Grounds, Now, Allowed
  <2>2. PICK at \in {"check", "model", "send"} :
          /\ To(r, [req[r] EXCEPT !.at = at])
          /\ at # "check" => access[req[r].user] = {}
    BY <1>6 DEF CountAccess, Onward
  <2> DEFINE job == [req[r] EXCEPT !.at = at]
  <2>3. DOMAIN job = Fields /\ job.at = at /\ job.prov = req[r].prov /\ job.user = req[r].user
    BY DEF Fields
  <2>4. req' = [req EXCEPT ![r] = job] /\ UNCHANGED usable
    BY <2>2
  <2> HIDE DEF job
  <2> QED
    BY <2>0, <2>1, <2>2, <2>3, <2>4, Moves, ZenonT(40)
<1>7. ASSUME CheckAccess(r) PROVE DInv'
  <2>0. /\ UNCHANGED <<providers, access, issued>> /\ req[r].at = "check"
        /\ req[r].prov \in usable[r].active /\ req[r].prov \in 1 .. MaxIds
    BY <1>7 DEF CheckAccess, DInv, Shape, Grounds, Chosen
  <2>1. CASE req[r].prov \in access[req[r].user]
    <3>1. req[r].prov \in usable[r].allowed
      BY <2>0, <2>1 DEF DInv, Grounds, Now, Allowed
    <3>2. PICK at \in {"model", "send"} : To(r, [req[r] EXCEPT !.at = at])
      BY <1>7, <2>1 DEF CheckAccess, Onward
    <3> DEFINE job == [req[r] EXCEPT !.at = at]
    <3>3. DOMAIN job = Fields /\ job.at = at /\ job.prov = req[r].prov /\ job.user = req[r].user
      BY DEF Fields
    <3>4. req' = [req EXCEPT ![r] = job] /\ UNCHANGED usable
      BY <3>2
    <3> HIDE DEF job
    <3> QED
      BY <2>0, <3>1, <3>2, <3>3, <3>4, Moves
  <2>2. CASE req[r].prov \notin access[req[r].user]
    BY <1>7, <2>0, <2>2, Refused DEF CheckAccess
  <2> QED
    BY <2>1, <2>2
<1>8. ASSUME Send(r) PROVE DInv'
  <2>0. /\ UNCHANGED <<providers, access, issued>> /\ req[r].at = "send"
        /\ req[r].prov \in usable[r].active \cap usable[r].allowed
    BY <1>8 DEF Send, DInv, Grounds, Chosen, Cleared
  <2>1. ASSUME To(r, [req[r] EXCEPT !.at = "done", !.row = None]) PROVE DInv'
    <3> DEFINE job == [req[r] EXCEPT !.at = "done", !.row = None]
    <3>1. DOMAIN job = Fields /\ job.at = "done" /\ job.prov = req[r].prov /\ job.user = req[r].user
      BY DEF Fields
    <3>2. req' = [req EXCEPT ![r] = job] /\ UNCHANGED usable
      BY <2>1
    <3> HIDE DEF job
    <3> QED
      BY <2>0, <3>1, <3>2, Moves
  <2> QED
    BY <1>8, <2>0, <2>1, Refused DEF Send
<1> QED
  BY <1>1, <1>2, <1>3, <1>4, <1>5, <1>6, <1>7, <1>8 DEF RequestStep

LEMMA InsertsKeepIds ==
    ASSUME DInv, NEW id, NEW m, NEW k, NEW src, NEW manual, NEW price,
           Inserted(id, m, k, src, manual, price)
    PROVE  DOMAIN issued' = {"id", "row"} /\ issued'.id = issued.id
BY DEF Inserted, DInv, Shape

LEMMA AdminBegins ==
    ASSUME DInv, NEW s \in Sessions, AdminBegin(s)
    PROVE  DInv'
<1> DOMAIN issued = {"id", "row"} /\ issued.id \in 0 .. MaxIds /\ MaxIds \in Nat
  BY DispatchAssumption DEF DInv, Shape
<1>1. CASE CreateProvider(s)
  <2>1. /\ issued' = [issued EXCEPT !.id = issued.id + 1] /\ issued.id < MaxIds
        /\ DOMAIN providers' = DOMAIN providers \cup {issued.id + 1}
    BY <1>1 DEF CreateProvider
  <2>2. /\ DOMAIN issued' = {"id", "row"} /\ issued'.id \in 0 .. MaxIds
        /\ DOMAIN providers' \subseteq 1 .. issued'.id
    BY <2>1 DEF DInv, Shape
  <2>3. Observe /\ req' = req
    BY <1>1 DEF CreateProvider
  <2> QED
    BY <2>2, <2>3, Observed
<1>2. CASE SetAccess(s)
  BY <1>2, Observed DEF SetAccess, DInv, Shape
<1>3. CASE DeleteModels(s) \/ DeleteModel(s)
  BY <1>3, Unseen DEF DeleteModels, DeleteModel
<1>4. CASE UpdateRead(s) \/ SyncRead(s) \/ CreateModelRead(s) \/ EditModelRead(s)
  BY <1>4, Unseen DEF UpdateRead, SyncRead, CreateModelRead, EditModelRead, catalogue, history
<1> QED
  BY <1>1, <1>2, <1>3, <1>4 DEF AdminBegin

LEMMA AdminSteps ==
    ASSUME DInv, NEW s \in Sessions, AdminStep(s)
    PROVE  DInv'
<1> DOMAIN issued = {"id", "row"} /\ issued.id \in 0 .. MaxIds
  BY DEF DInv, Shape
<1>1. CASE UpdateWrite(s)
  <2>1. DOMAIN providers' = DOMAIN providers
    BY <1>1 DEF UpdateWrite
  <2> QED
    BY <1>1, <2>1, Observed DEF UpdateWrite, DInv, Shape
<1>2. CASE DeleteProvider(s)
  <2>1. DOMAIN providers' \subseteq DOMAIN providers
    BY <1>2 DEF DeleteProvider, Drop, Restrict
  <2> QED
    BY <1>2, <2>1, Observed DEF DeleteProvider, DInv, Shape
<1>3. CASE ImportInsert(s) \/ SyncInsert(s) \/ CreateModelInsert(s)
  BY <1>3, InsertsKeepIds, Unseen DEF ImportInsert, SyncInsert, CreateModelInsert
<1>4. CASE ImportLook(s) \/ SyncFetch(s) \/ SyncType(s)
  BY <1>4, Unseen DEF ImportLook, SyncFetch, SyncType, catalogue, history
<1>5. CASE UpdateReplace(s) \/ SyncBegin(s) \/ SyncCommit(s) \/ SyncFail(s) \/ EditModelWrite(s)
  BY <1>5, Unseen DEF UpdateReplace, SyncBegin, SyncCommit, SyncFail, EditModelWrite, history
<1> QED
  BY <1>1, <1>2, <1>3, <1>4, <1>5 DEF AdminStep

LEMMA DInvInit == Init => DInv
<1> SUFFICES ASSUME Init PROVE DInv
  OBVIOUS
<1>1. DOMAIN issued = {"id", "row"} /\ issued.id = 3
  BY DEF Init
<1>2. DOMAIN providers = 1 .. 3
  BY DEF Init
<1>3. ASSUME NEW r \in Requests
      PROVE  /\ DOMAIN req[r] = Fields /\ req[r].at = "new" /\ req[r].prov = 0
             /\ usable[r].active = {}
  BY DEF Init, NoReq, Nothing, Fields
<1>4. Shape
  BY <1>1, <1>2, <1>3, DispatchAssumption DEF Init, Shape
<1>5. ASSUME NEW r \in Requests PROVE Grounds(r)
  BY <1>3 DEF Grounds, Chosen, Cleared, Sent
<1> QED
  BY <1>4, <1>5 DEF DInv

\* SentWhereAllowed: a request goes to a provider its account was allowed to
\* use, and that was active, at some moment since the request came in.
THEOREM RequestsGoWhereAllowed == Spec => []SentWhereAllowed
<1>1. DInv /\ [Next]_vars => DInv'
  <2> SUFFICES ASSUME DInv, [Next]_vars PROVE DInv'
    OBVIOUS
  <2>1. CASE UNCHANGED vars
    BY <2>1, Unseen DEF DInv, Shape, vars, catalogue, history
  <2>2. CASE Next
    BY <2>2, AdminBegins, AdminSteps, Arrives, RequestsKeep DEF Next
  <2> QED
    BY <2>1, <2>2
<1>2. DInv => SentWhereAllowed
  BY DEF DInv, Grounds, Chosen, Cleared, SentWhereAllowed
<1> QED
  BY <1>1, <1>2, DInvInit, PTL DEF Spec

-----------------------------------------------------------------------------
(* Sent as named. The key of an id is never another one, and every model    *)
(* row - those of the table, those a transaction would bring back, those a  *)
(* request holds - has the key of its provider and was once inserted.       *)

RowFields == {"prov", "model", "key", "src", "manual", "price"}
OpFields  == {"at", "id", "key", "model", "on", "price", "row", "list", "old"}

Typed ==
    /\ DOMAIN issued = {"id", "row"} /\ issued.id \in 0 .. MaxIds /\ issued.row \in Nat
    /\ access \in [Users -> SUBSET (1 .. MaxIds)]
    /\ tx.by \in Sessions \cup {0}
    /\ edits \in 0 .. MaxEdits
    /\ DOMAIN op = Sessions /\ DOMAIN req = Requests
    /\ \A r \in Requests : DOMAIN req[r] = Fields

Registry ==
    /\ DOMAIN keyOf = 0 .. MaxIds
    /\ DOMAIN providers \subseteq 1 .. issued.id
    /\ \A id \in DOMAIN providers :
          DOMAIN providers[id] = {"key", "active"} /\ providers[id].key = keyOf[id]
    /\ \A i, j \in DOMAIN providers : providers[i].key = providers[j].key => i = j

\* Row numbers were issued, and a provider has a model once.
Sparse(t, n) ==
    /\ DOMAIN t \subseteq 1 .. n
    /\ \A i \in DOMAIN t : DOMAIN t[i] = RowFields
    /\ \A i, j \in DOMAIN t : t[i].prov = t[j].prov /\ t[i].model = t[j].model => i = j

\* The rows are those of a provider, under its key, and were inserted.
Routed(t, n, K, R) ==
    \A i \in DOMAIN t :
        /\ t[i].prov \in 1 .. n /\ t[i].key = K[t[i].prov]
        /\ <<t[i].key, t[i].model, t[i].src>> \in R

Table(t) == Sparse(t, issued.row) /\ Routed(t, issued.id, keyOf, routes)

\* A handler that will insert models knows a provider and its key.
Inserting == {"import", "insert", "update", "relist", "replace", "fetch", "type", "sync", "price", "create"}
Informed(job) ==
    /\ DOMAIN job = OpFields
    /\ job.at \in Inserting => job.id \in 1 .. issued.id /\ job.key = keyOf[job.id]

\* The row a request has found, and the provider it was led to.
Found(job) ==
    job.at \in {"source", "reroute"} =>
        /\ job.row.prov \in 1 .. issued.id /\ keyOf[job.row.prov] = job.key
        /\ <<job.key, job.model, job.row.src>> \in routes
Led(job) ==
    (\/ job.at \in {"count", "check", "model", "reroute", "send"}
     \/ job.at = "done" /\ job.prov # 0) =>
        /\ job.prov \in 1 .. issued.id
        /\ keyOf[job.prov] = job.key \/ <<job.key, job.model, keyOf[job.prov]>> \in routes

NInv ==
    /\ Typed /\ Registry
    /\ Table(rows) /\ (tx.by # 0 => Table(tx.saved))
    /\ \A s \in Sessions : Informed(op[s])
    /\ \A r \in Requests : Found(req[r]) /\ Led(req[r])

\* Ids, their keys and the routes are only ever added to.
Grows ==
    /\ DOMAIN issued' = {"id", "row"} /\ issued'.id \in 0 .. MaxIds /\ issued'.row \in Nat
    /\ issued.id <= issued'.id /\ issued.row <= issued'.row
    /\ \A id \in 1 .. issued.id : keyOf'[id] = keyOf[id]
    /\ routes \subseteq routes'

\* Nothing is issued.
LEMMA GrowsByNothing == Typed /\ UNCHANGED <<issued, keyOf, routes>> => Grows
BY DispatchAssumption DEF Typed, Grows

\* A table is as well formed as before when ids and routes are added.
LEMMA TablesStay ==
    ASSUME Typed, Grows, NEW t, Table(t)
    PROVE  Sparse(t, issued'.row) /\ Routed(t, issued'.id, keyOf', routes')
BY DispatchAssumption DEF Typed, Grows, Table, Sparse, Routed

\* Rows go away.
LEMMA FewerRows ==
    ASSUME NEW t, NEW S, NEW n, NEW k, NEW K, NEW R, Sparse(t, n), Routed(t, k, K, R)
    PROVE  Sparse(Drop(t, S), n) /\ Routed(Drop(t, S), k, K, R)
<1>1. /\ DOMAIN Drop(t, S) \subseteq DOMAIN t
      /\ \A i \in DOMAIN Drop(t, S) : Drop(t, S)[i] = t[i]
  BY DEF Drop, Restrict
<1> QED
  BY <1>1 DEF Sparse, Routed

\* So is what a session remembers ...
LEMMA OpsStay ==
    ASSUME NInv, Grows, NEW s \in Sessions, op'[s] = op[s]
    PROVE  Informed(op[s])'
BY DispatchAssumption DEF NInv, Typed, Grows, Informed

\* ... and what a request holds.
LEMMA RequestsStay ==
    ASSUME NInv, Grows, NEW r \in Requests, req'[r] = req[r]
    PROVE  (Found(req[r]) /\ Led(req[r]))'
<1>1. /\ Found(req[r]) /\ Led(req[r])
      /\ issued.id \in Nat /\ issued'.id \in Nat /\ issued.id <= issued'.id
  BY DispatchAssumption DEF NInv, Typed, Grows
<1>2. \A id \in 1 .. issued.id : id \in 1 .. issued'.id /\ keyOf'[id] = keyOf[id]
  BY <1>1 DEF Grows
<1>3. Found(req[r])'
  BY <1>1, <1>2 DEF Found, Grows
<1>4. Led(req[r])'
  BY <1>1, <1>2 DEF Led, Grows
<1> QED
  BY <1>3, <1>4

\* A session has done something to the tables and goes on with a job.
LEMMA SessionMoves ==
    ASSUME NInv, Grows, NEW s \in Sessions, NEW job,
           Registry', Table(rows)', tx'.by # 0 => Table(tx.saved)',
           access' \in [Users -> SUBSET (1 .. MaxIds)],
           tx'.by \in Sessions \cup {0}, edits' \in 0 .. MaxEdits,
           req' = req, op' = [op EXCEPT ![s] = job],
           DOMAIN job = OpFields,
           job.at \in Inserting => job.id \in 1 .. issued'.id /\ job.key = keyOf'[job.id]
    PROVE  NInv'
<1>1. Typed'
  BY DEF NInv, Typed, Grows
<1>2. Informed(op[s])'
  BY DEF NInv, Typed, Informed
<1>3. ASSUME NEW q \in Sessions \ {s} PROVE Informed(op[q])'
  <2>1. op'[q] = op[q]
    BY DEF NInv, Typed
  <2> QED
    BY <2>1, OpsStay
<1>4. ASSUME NEW r \in Requests PROVE (Found(req[r]) /\ Led(req[r]))'
  BY RequestsStay
<1> QED
  BY <1>1, <1>2, <1>3, <1>4 DEF NInv

\* The same when no table changes.
LEMMA SessionMovesOnly ==
    ASSUME NInv, NEW s \in Sessions, NEW job, UNCHANGED <<catalogue, req, keyOf, routes>>,
           edits' \in 0 .. MaxEdits, op' = [op EXCEPT ![s] = job],
           DOMAIN job = OpFields,
           job.at \in Inserting => job.id \in 1 .. issued.id /\ job.key = keyOf[job.id]
    PROVE  NInv'
<1>1. Grows
  BY GrowsByNothing DEF NInv, catalogue
<1>2. /\ Registry' /\ Table(rows)' /\ (tx'.by # 0 => Table(tx.saved)')
      /\ access' \in [Users -> SUBSET (1 .. MaxIds)] /\ tx'.by \in Sessions \cup {0}
  BY DEF NInv, Typed, Registry, Table, catalogue
<1> QED
  BY <1>1, <1>2, SessionMoves DEF catalogue

\* An INSERT of a model under the key of its provider.
LEMMA InsertsWell ==
    ASSUME NInv, NEW id \in 1 .. issued.id, NEW m, NEW src, NEW manual, NEW price,
           Inserted(id, m, keyOf[id], src, manual, price), UNCHANGED <<providers, tx, keyOf>>
    PROVE  /\ Grows /\ Registry' /\ Table(rows)'
           /\ tx'.by # 0 => Table(tx.saved)'
<1> DEFINE k == keyOf[id]
           n == issued.row + 1
<1>0. /\ issued.id \in 0 .. MaxIds /\ issued.row \in Nat /\ DOMAIN issued = {"id", "row"}
      /\ MaxIds \in Nat
  BY DispatchAssumption DEF NInv, Typed
<1>1. CASE \E r \in DOMAIN rows : rows[r].prov = id /\ rows[r].model = m
  <2>1. rows' = rows /\ routes' = routes /\ issued' = [issued EXCEPT !.row = issued.row]
    BY <1>1 DEF Inserted, InsertRow
  <2>2. issued'.id = issued.id /\ issued'.row = issued.row /\ DOMAIN issued' = {"id", "row"}
    BY <1>0, <2>1
  <2>3. Grows
    BY <1>0, <2>1, <2>2 DEF Grows
  <2> QED
    BY <2>1, <2>2, <2>3 DEF NInv, Registry, Table
<1>2. CASE ~\E r \in DOMAIN rows : rows[r].prov = id /\ rows[r].model = m
  <2> DEFINE new == [prov |-> id, model |-> m, key |-> k, src |-> src,
                     manual |-> manual, price |-> price]
  <2>1. rows' = [r \in DOMAIN rows \cup {n} |-> IF r = n THEN new ELSE rows[r]]
    BY <1>2 DEF Inserted, InsertRow
  <2>2. n \notin DOMAIN rows /\ n \in DOMAIN rows'
    BY <1>0, <2>1 DEF NInv, Table, Sparse
  <2>3. issued' = [issued EXCEPT !.row = issued.row + 1] /\ routes' = routes \cup {<<k, m, src>>}
    BY <2>2 DEF Inserted
  <2>4. issued'.id = issued.id /\ issued'.row = n /\ DOMAIN issued' = {"id", "row"}
    BY <1>0, <2>3
  <2>5. Grows
    BY <1>0, <2>3, <2>4 DEF Grows
  <2>6. Registry'
    BY <2>4 DEF NInv, Registry
  <2>7. tx'.by # 0 => Table(tx.saved)'
    BY <2>5, TablesStay DEF NInv, Table
  <2>8. /\ rows'[n] = new /\ DOMAIN rows' = DOMAIN rows \cup {n}
        /\ \A r \in DOMAIN rows : rows'[r] = rows[r]
    BY <2>1, <2>2
  <2>9. Sparse(rows, n) /\ Routed(rows, issued.id, keyOf, routes')
    BY <2>5, <2>4, TablesStay DEF NInv, Table
  <2>10. /\ DOMAIN new = RowFields /\ new.prov = id /\ new.model = m /\ new.key = k
         /\ new.src = src
    BY DEF RowFields
  <2> HIDE DEF new
  <2>11. Sparse(rows', n)
    <3>1. DOMAIN rows' \subseteq 1 .. n
      BY <1>0, <2>8, <2>9 DEF Sparse
    <3>2. ASSUME NEW i \in DOMAIN rows' PROVE DOMAIN rows'[i] = RowFields
      BY <2>8, <2>9, <2>10 DEF Sparse
    <3>3. ASSUME NEW i \in DOMAIN rows', NEW j \in DOMAIN rows',
                 rows'[i].prov = rows'[j].prov, rows'[i].model = rows'[j].model
          PROVE  i = j
      BY <1>2, <2>8, <2>9, <2>10, <3>3 DEF Sparse
    <3> QED
      BY <3>1, <3>2, <3>3 DEF Sparse
  <2>12. Routed(rows', issued.id, keyOf, routes')
    BY <2>3, <2>8, <2>9, <2>10 DEF Routed
  <2> QED
    BY <2>4, <2>5, <2>6, <2>7, <2>11, <2>12 DEF Table
<1> QED
  BY <1>1, <1>2

-----------------------------------------------------------------------------
(* The administrator.                                                       *)

\* The operation of an idle session.
LEMMA NoOpIdles == DOMAIN NoOp = OpFields /\ NoOp.at = "idle" /\ "idle" \notin Inserting
BY DEF NoOp, OpFields, Inserting

\* A provider is created under a new id.
LEMMA ProviderBegins ==
    ASSUME NInv, NEW s \in Sessions, CreateProvider(s)
    PROVE  NInv'
<1>1. PICK k \in Keys, list \in SUBSET (RealKeys \X Models) :
        /\ IdsOf(k) = {}
        /\ LET id == issued.id + 1 IN
           /\ providers' = [i \in DOMAIN providers \cup {id} |->
                               IF i = id THEN [key |-> k, active |-> TRUE] ELSE providers[i]]
           /\ issued' = [issued EXCEPT !.id = id]
           /\ keyOf' = [keyOf EXCEPT ![id] = k]
           /\ Begin(s, IF list = {} THEN NoOp
                       ELSE [NoOp EXCEPT !.at = "import", !.id = id, !.key = k, !.list = list])
  BY DEF CreateProvider
<1> DEFINE id == issued.id + 1
           job == IF list = {} THEN NoOp
                  ELSE [NoOp EXCEPT !.at = "import", !.id = id, !.key = k, !.list = list]
<1>2. /\ issued.id < MaxIds /\ UNCHANGED <<rows, access, tx, req, routes>>
      /\ Begin(s, job)
  BY <1>1 DEF CreateProvider
<1>3. /\ issued.id \in Nat /\ MaxIds \in Nat /\ issued.row \in Nat /\ DOMAIN issued = {"id", "row"}
      /\ DOMAIN keyOf = 0 .. MaxIds /\ DOMAIN providers \subseteq 1 .. issued.id
  BY DispatchAssumption DEF NInv, Typed, Registry
<1>4. /\ issued'.id = id /\ issued'.row = issued.row /\ DOMAIN issued' = {"id", "row"}
      /\ keyOf'[id] = k /\ DOMAIN keyOf' = 0 .. MaxIds
      /\ \A i \in 1 .. issued.id : keyOf'[i] = keyOf[i]
  BY <1>1, <1>2, <1>3
<1>5. Grows
  BY <1>2, <1>3, <1>4 DEF Grows
<1>6. Table(rows)' /\ (tx'.by # 0 => Table(tx.saved)')
  BY <1>2, <1>5, TablesStay DEF NInv, Table
<1>7. Registry'
  <2> DEFINE new == [key |-> k, active |-> TRUE]
  <2>1. /\ DOMAIN providers' = DOMAIN providers \cup {id} /\ id \notin DOMAIN providers
        /\ providers'[id] = new
        /\ \A i \in DOMAIN providers : providers'[i] = providers[i]
    BY <1>1, <1>3
  <2>2. DOMAIN new = {"key", "active"} /\ new.key = k
    OBVIOUS
  <2>3. \A i \in DOMAIN providers : providers[i].key # k
    BY <1>1 DEF IdsOf
  <2> HIDE DEF new
  <2>4. DOMAIN providers' \subseteq 1 .. issued'.id
    BY <1>3, <1>4, <2>1
  <2>5. ASSUME NEW i \in DOMAIN providers'
        PROVE  DOMAIN providers'[i] = {"key", "active"} /\ providers'[i].key = keyOf'[i]
    BY <1>3, <1>4, <2>1, <2>2 DEF NInv, Registry
  <2>6. ASSUME NEW i \in DOMAIN providers', NEW j \in DOMAIN providers',
               providers'[i].key = providers'[j].key
        PROVE  i = j
    BY <2>1, <2>2, <2>3, <2>6 DEF NInv, Registry
  <2> QED
    BY <1>4, <2>4, <2>5, <2>6 DEF Registry
<1>8. DOMAIN job = OpFields /\ (job.at \in Inserting => job.id = id /\ job.key = k)
  <2>1. CASE list = {}
    BY <2>1, NoOpIdles
  <2>2. CASE list # {}
    BY <2>2 DEF NoOp, OpFields
  <2> QED
    BY <2>1, <2>2
<1> HIDE DEF job
<1>9. op' = [op EXCEPT ![s] = job] /\ edits' \in 0 .. MaxEdits
  BY <1>2, DispatchAssumption DEF Begin, NInv, Typed
<1>10. id \in 1 .. issued'.id
  BY <1>3, <1>4
<1>11. access' \in [Users -> SUBSET (1 .. MaxIds)] /\ tx'.by \in Sessions \cup {0}
  BY <1>2 DEF NInv, Typed
<1> QED
  BY <1>2, <1>4, <1>5, <1>6, <1>7, <1>8, <1>9, <1>10, <1>11, SessionMoves

\* An operation is counted when it begins.
LEMMA EditsCount ==
    ASSUME NInv, NEW s \in Sessions, NEW job, Begin(s, job)
    PROVE  edits' \in 0 .. MaxEdits /\ op' = [op EXCEPT ![s] = job]
BY DispatchAssumption DEF Begin, NInv, Typed

\* Every operation a session begins keeps the invariant ...
LEMMA SessionBegins ==
    ASSUME NInv, NEW s \in Sessions, AdminBegin(s)
    PROVE  NInv'
<1> NoOp.at = "idle" /\ DOMAIN NoOp = OpFields /\ "idle" \notin Inserting
  BY NoOpIdles
<1>0. \A id \in DOMAIN providers : id \in 1 .. issued.id /\ providers[id].key = keyOf[id]
  BY DEF NInv, Registry
<1>1. CASE CreateProvider(s)
  BY <1>1, ProviderBegins
<1>2. CASE UpdateRead(s)
  <2>1. PICK id \in DOMAIN providers, on \in BOOLEAN, list \in SUBSET (RealKeys \X Models),
             at \in {"update", "relist"} :
          Begin(s, [NoOp EXCEPT !.at = at, !.id = id, !.key = providers[id].key,
                                !.on = on, !.list = list])
    BY <1>2 DEF UpdateRead
  <2> DEFINE job == [NoOp EXCEPT !.at = at, !.id = id, !.key = providers[id].key,
                                 !.on = on, !.list = list]
  <2>2. DOMAIN job = OpFields /\ job.id = id /\ job.key = providers[id].key
    BY DEF NoOp, OpFields
  <2>3. edits' \in 0 .. MaxEdits /\ op' = [op EXCEPT ![s] = job]
    BY <2>1, EditsCount
  <2>4. UNCHANGED <<catalogue, req, keyOf, routes>>
    BY <1>2 DEF UpdateRead, history
  <2> HIDE DEF job
  <2> QED
    BY <1>0, <2>2, <2>3, <2>4, SessionMovesOnly
<1>3. CASE SyncRead(s)
  <2>1. PICK id \in DOMAIN providers :
          Begin(s, [NoOp EXCEPT !.at = "fetch", !.id = id, !.key = providers[id].key])
    BY <1>3 DEF SyncRead
  <2> DEFINE job == [NoOp EXCEPT !.at = "fetch", !.id = id, !.key = providers[id].key]
  <2>2. DOMAIN job = OpFields /\ job.id = id /\ job.key = providers[id].key
    BY DEF NoOp, OpFields
  <2>3. edits' \in 0 .. MaxEdits /\ op' = [op EXCEPT ![s] = job]
    BY <2>1, EditsCount
  <2>4. UNCHANGED <<catalogue, req, keyOf, routes>>
    BY <1>3 DEF SyncRead, history
  <2> HIDE DEF job
  <2> QED
    BY <1>0, <2>2, <2>3, <2>4, SessionMovesOnly
<1>4. CASE CreateModelRead(s)
  <2>1. PICK id \in DOMAIN providers, m \in Models, price \in {Zero, Own} :
          Begin(s, [NoOp EXCEPT !.at = "create", !.id = id, !.key = providers[id].key,
                                !.model = m, !.price = price])
    BY <1>4 DEF CreateModelRead
  <2> DEFINE job == [NoOp EXCEPT !.at = "create", !.id = id, !.key = providers[id].key,
                                 !.model = m, !.price = price]
  <2>2. DOMAIN job = OpFields /\ job.id = id /\ job.key = providers[id].key
    BY DEF NoOp, OpFields
  <2>3. edits' \in 0 .. MaxEdits /\ op' = [op EXCEPT ![s] = job]
    BY <2>1, EditsCount
  <2>4. UNCHANGED <<catalogue, req, keyOf, routes>>
    BY <1>4 DEF CreateModelRead, history
  <2> HIDE DEF job
  <2> QED
    BY <1>0, <2>2, <2>3, <2>4, SessionMovesOnly
<1>5. CASE EditModelRead(s)
  <2>1. PICK r \in DOMAIN rows, new \in BOOLEAN :
          Begin(s, [NoOp EXCEPT !.at = "edit", !.row = r, !.on = new,
                                !.price = IF new THEN Own ELSE rows[r].price])
    BY <1>5 DEF EditModelRead
  <2> DEFINE job == [NoOp EXCEPT !.at = "edit", !.row = r, !.on = new,
                                 !.price = IF new THEN Own ELSE rows[r].price]
  <2>2. DOMAIN job = OpFields /\ job.at \notin Inserting
    BY DEF NoOp, OpFields, Inserting
  <2>3. edits' \in 0 .. MaxEdits /\ op' = [op EXCEPT ![s] = job]
    BY <2>1, EditsCount
  <2>4. UNCHANGED <<catalogue, req, keyOf, routes>>
    BY <1>5 DEF EditModelRead, history
  <2> HIDE DEF job
  <2> QED
    BY <2>2, <2>3, <2>4, SessionMovesOnly
<1>6. CASE SetAccess(s)
  <2>1. UNCHANGED <<providers, rows, issued, tx, req, keyOf, routes>> /\ Begin(s, NoOp)
    BY <1>6 DEF SetAccess
  <2>2. PICK u \in Users, ids \in SUBSET (1 .. MaxIds) :
          access' = [access EXCEPT ![u] = ids]
    BY <1>6 DEF SetAccess
  <2>4. access' \in [Users -> SUBSET (1 .. MaxIds)]
    BY <2>2 DEF NInv, Typed
  <2>5. Grows /\ Registry' /\ Table(rows)' /\ (tx'.by # 0 => Table(tx.saved)')
        /\ tx'.by \in Sessions \cup {0}
    BY <2>1, GrowsByNothing DEF NInv, Typed, Registry, Table
  <2> QED
    BY <2>1, <2>4, <2>5, EditsCount, SessionMoves
<1>7. ASSUME NEW S, NEW job, rows' = Drop(rows, S), Begin(s, job),
             UNCHANGED <<providers, issued, access, tx, req, keyOf, routes>>,
             DOMAIN job = OpFields, job.at \notin Inserting
      PROVE  NInv'
  <2>1. Grows
    BY <1>7, GrowsByNothing DEF NInv
  <2>2. Registry' /\ Table(rows)' /\ (tx'.by # 0 => Table(tx.saved)')
    BY <1>7, FewerRows DEF NInv, Registry, Table
  <2>3. tx'.by \in Sessions \cup {0} /\ access' \in [Users -> SUBSET (1 .. MaxIds)]
    BY <1>7 DEF NInv, Typed
  <2> QED
    BY <1>7, <2>1, <2>2, <2>3, EditsCount, SessionMoves
<1>8. CASE DeleteModels(s)
  <2>1. PICK id \in DOMAIN providers :
          /\ rows' = Drop(rows, RowsOf(id))
          /\ Begin(s, [NoOp EXCEPT !.at = "delete", !.id = id])
    BY <1>8 DEF DeleteModels
  <2> DEFINE job == [NoOp EXCEPT !.at = "delete", !.id = id]
  <2>2. DOMAIN job = OpFields /\ job.at \notin Inserting
    BY DEF NoOp, OpFields, Inserting
  <2>3. UNCHANGED <<providers, issued, access, tx, req, keyOf, routes>>
    BY <1>8 DEF DeleteModels
  <2> HIDE DEF job
  <2> QED
    BY <1>7, <2>1, <2>2, <2>3 DEF job
<1>9. CASE DeleteModel(s)
  <2>1. PICK r \in DOMAIN rows : rows' = Drop(rows, {r})
    BY <1>9 DEF DeleteModel
  <2>2. Begin(s, NoOp) /\ UNCHANGED <<providers, issued, access, tx, req, keyOf, routes>>
    BY <1>9 DEF DeleteModel
  <2> QED
    BY <1>7, <2>1, <2>2
<1> QED
  BY <1>1, <1>2, <1>3, <1>4, <1>5, <1>6, <1>8, <1>9 DEF AdminBegin

\* ... and so does every later statement of it ...
LEMMA SessionSteps ==
    ASSUME NInv, NEW s \in Sessions, AdminStep(s)
    PROVE  NInv'
<1>0. /\ DOMAIN op[s] = OpFields
      /\ op[s].at \in Inserting => op[s].id \in 1 .. issued.id /\ op[s].key = keyOf[op[s].id]
      /\ NoOp.at = "idle" /\ DOMAIN NoOp = OpFields /\ "idle" \notin Inserting
      /\ access \in [Users -> SUBSET (1 .. MaxIds)] /\ tx.by \in Sessions \cup {0}
      /\ edits \in 0 .. MaxEdits
  BY NoOpIdles DEF NInv, Typed, Informed
\* Only the session goes on.
<1>1. ASSUME NEW job, Go(s, job), UNCHANGED <<catalogue, req, keyOf, routes>>,
             DOMAIN job = OpFields,
             job.at \in Inserting => job.id \in 1 .. issued.id /\ job.key = keyOf[job.id]
      PROVE  NInv'
  BY <1>0, <1>1, SessionMovesOnly DEF Go
\* It goes on, and the tables have changed.
<1>2. ASSUME NEW job, Go(s, job), Grows, Registry', Table(rows)', tx'.by # 0 => Table(tx.saved)',
             UNCHANGED <<access, req>>, tx'.by \in Sessions \cup {0},
             DOMAIN job = OpFields,
             job.at \in Inserting => job.id \in 1 .. issued.id /\ job.key = keyOf[job.id]
      PROVE  NInv'
  <2>1. job.at \in Inserting => job.id \in 1 .. issued'.id /\ job.key = keyOf'[job.id]
    BY <1>2, DispatchAssumption DEF Grows, NInv, Typed
  <2> QED
    BY <1>0, <1>2, <2>1, SessionMoves DEF Go
\* It goes on to another step with what it knows, or has replied.
<1>3. ASSUME NEW at
      PROVE  /\ DOMAIN [op[s] EXCEPT !.at = at] = OpFields
             /\ [op[s] EXCEPT !.at = at].at = at
             /\ [op[s] EXCEPT !.at = at].id = op[s].id
             /\ [op[s] EXCEPT !.at = at].key = op[s].key
  BY <1>0 DEF OpFields
<1> DEFINE Onwards ==
      \E job : /\ Go(s, job) /\ DOMAIN job = OpFields
               /\ job.at \in Inserting => job.id = op[s].id /\ job.key = op[s].key
<1>on. ASSUME NEW at, Go(s, NoOp) \/ Go(s, [op[s] EXCEPT !.at = at]) PROVE Onwards
  <2>1. CASE Go(s, NoOp)
    BY <1>0, <2>1
  <2>2. CASE Go(s, [op[s] EXCEPT !.at = at])
    BY <1>3, <2>2
  <2> QED
    BY <1>on, <2>1, <2>2
<1>4. CASE ImportLook(s)
  <2>0. op[s].at = "import" /\ UNCHANGED <<catalogue, req, keyOf, routes>>
    BY <1>4 DEF ImportLook, history
  <2>1. CASE Reply(s)
    BY <1>0, <1>1, <2>0, <2>1 DEF Reply
  <2>2. ASSUME NEW list, Go(s, [op[s] EXCEPT !.list = list]) PROVE NInv'
    <3> DEFINE job == [op[s] EXCEPT !.list = list]
    <3>1. DOMAIN job = OpFields /\ job.at = "import" /\ job.id = op[s].id /\ job.key = op[s].key
      BY <1>0, <2>0 DEF OpFields
    <3>2. Go(s, job)
      BY <2>2
    <3> HIDE DEF job
    <3> QED
      BY <1>0, <1>1, <2>0, <3>1, <3>2 DEF Inserting
  <2>3. ASSUME NEW list, NEW row, NEW model, NEW price,
               Go(s, [op[s] EXCEPT !.at = "insert", !.list = list, !.row = row,
                                   !.model = model, !.price = price])
        PROVE  NInv'
    <3> DEFINE job == [op[s] EXCEPT !.at = "insert", !.list = list, !.row = row,
                                    !.model = model, !.price = price]
    <3>1. DOMAIN job = OpFields /\ job.id = op[s].id /\ job.key = op[s].key
      BY <1>0 DEF OpFields
    <3>2. Go(s, job)
      BY <2>3
    <3> HIDE DEF job
    <3> QED
      BY <1>0, <1>1, <2>0, <3>1, <3>2 DEF Inserting
  <2> QED
    BY <1>4, <2>1, <2>2, <2>3 DEF ImportLook
<1>5. CASE ImportInsert(s)
  <2>1. /\ op[s].at = "insert" /\ Go(s, [op[s] EXCEPT !.at = "import"])
        /\ Inserted(op[s].id, op[s].model, op[s].key, op[s].row, FALSE, op[s].price)
        /\ UNCHANGED <<providers, access, tx, req, keyOf>>
    BY <1>5 DEF ImportInsert, Step
  <2>2. op[s].id \in 1 .. issued.id /\ op[s].key = keyOf[op[s].id]
    BY <1>0, <2>1 DEF Inserting
  <2>3. Grows /\ Registry' /\ Table(rows)' /\ (tx'.by # 0 => Table(tx.saved)')
    BY <2>1, <2>2, InsertsWell
  <2> DEFINE job == [op[s] EXCEPT !.at = "import"]
  <2>4. DOMAIN job = OpFields /\ job.id = op[s].id /\ job.key = op[s].key
    BY <1>3
  <2>5. Go(s, job) /\ tx'.by \in Sessions \cup {0}
    BY <1>0, <2>1
  <2> HIDE DEF job
  <2> QED
    BY <1>2, <2>1, <2>2, <2>3, <2>4, <2>5
<1>6. ASSUME NEW S, rows' = Drop(rows, S), UNCHANGED <<providers, issued, keyOf, routes>>
      PROVE  Grows /\ Registry' /\ Table(rows)'
  <2>1. Grows
    BY <1>6, GrowsByNothing DEF NInv
  <2>2. Registry' /\ Table(rows)'
    BY <1>6, FewerRows DEF NInv, Registry, Table
  <2> QED
    BY <2>1, <2>2
<1>7. ASSUME UNCHANGED <<rows, tx, issued, keyOf, routes>>,
             DOMAIN providers' \subseteq DOMAIN providers,
             \A id \in DOMAIN providers' :
                /\ DOMAIN providers'[id] = DOMAIN providers[id]
                /\ providers'[id].key = providers[id].key
      PROVE  Grows /\ Registry' /\ Table(rows)' /\ (tx'.by # 0 => Table(tx.saved)')
  <2>1. Grows
    BY <1>7, GrowsByNothing DEF NInv
  <2>2. Registry'
    BY <1>7 DEF NInv, Registry
  <2> QED
    BY <1>7, <2>1, <2>2 DEF NInv, Table
<1>8. CASE UpdateWrite(s)
  <2>1. /\ op[s].at \in {"update", "relist"} /\ UNCHANGED <<rows, issued, access, tx, req, keyOf, routes>>
        /\ Go(s, NoOp) \/ Go(s, [op[s] EXCEPT !.at = "replace"])
    BY <1>8 DEF UpdateWrite, Reply, Step
  <2>2. /\ DOMAIN providers' = DOMAIN providers
        /\ \A id \in DOMAIN providers :
              DOMAIN providers'[id] = DOMAIN providers[id] /\ providers'[id].key = providers[id].key
    <3>1. \A id \in DOMAIN providers : DOMAIN providers[id] = {"key", "active"}
      BY DEF NInv, Registry
    <3>2. CASE op[s].id \in DOMAIN providers
      <4>1. providers' = [providers EXCEPT ![op[s].id].active = op[s].on]
        BY <1>8, <3>2 DEF UpdateWrite
      <4> QED
        BY <3>1, <4>1
    <3>3. CASE op[s].id \notin DOMAIN providers
      BY <1>8, <3>3 DEF UpdateWrite
    <3> QED
      BY <3>2, <3>3
  <2>3. Grows /\ Registry' /\ Table(rows)' /\ (tx'.by # 0 => Table(tx.saved)')
    BY <1>7, <2>1, <2>2
  <2>4. PICK job : /\ Go(s, job) /\ DOMAIN job = OpFields
                   /\ job.at \in Inserting => job.id = op[s].id /\ job.key = op[s].key
    BY <1>on, <2>1
  <2>5. op[s].id \in 1 .. issued.id /\ op[s].key = keyOf[op[s].id]
    BY <1>0, <2>1 DEF Inserting
  <2> QED
    BY <1>0, <1>2, <2>1, <2>3, <2>4, <2>5
<1>9. CASE UpdateReplace(s)
  <2>1. /\ op[s].at = "replace" /\ UNCHANGED <<providers, issued, access, tx, req, keyOf, routes>>
        /\ rows' = Drop(rows, RowsOf(op[s].id))
        /\ Go(s, NoOp) \/ Go(s, [op[s] EXCEPT !.at = "import"])
    BY <1>9 DEF UpdateReplace, Reply, Step
  <2>2. Grows /\ Registry' /\ Table(rows)'
    BY <1>6, <2>1
  <2>3. tx'.by # 0 => Table(tx.saved)'
    BY <2>1 DEF NInv, Table
  <2>4. PICK job : /\ Go(s, job) /\ DOMAIN job = OpFields
                   /\ job.at \in Inserting => job.id = op[s].id /\ job.key = op[s].key
    BY <1>on, <2>1
  <2>5. op[s].id \in 1 .. issued.id /\ op[s].key = keyOf[op[s].id]
    BY <1>0, <2>1 DEF Inserting
  <2> QED
    BY <1>0, <1>2, <2>1, <2>2, <2>3, <2>4, <2>5
<1>10. CASE DeleteProvider(s)
  <2>1. /\ UNCHANGED <<rows, issued, access, tx, req, keyOf, routes>> /\ Go(s, NoOp)
        /\ providers' = Drop(providers, {op[s].id})
    BY <1>10 DEF DeleteProvider, Reply
  <2>2. /\ DOMAIN providers' \subseteq DOMAIN providers
        /\ \A id \in DOMAIN providers' : providers'[id] = providers[id]
    BY <2>1 DEF Drop, Restrict
  <2>3. Grows /\ Registry' /\ Table(rows)' /\ (tx'.by # 0 => Table(tx.saved)')
    BY <1>7, <2>1, <2>2
  <2> QED
    BY <1>0, <1>2, <2>1, <2>3
<1>11. CASE SyncFetch(s)
  <2>0. op[s].at = "fetch" /\ UNCHANGED <<catalogue, req, keyOf, routes>>
    BY <1>11 DEF SyncFetch, history
  <2>1. CASE Reply(s)
    BY <1>0, <1>1, <2>0, <2>1 DEF Reply
  <2>2. ASSUME NEW list, Go(s, [op[s] EXCEPT !.at = "type", !.list = list]) PROVE NInv'
    <3> DEFINE job == [op[s] EXCEPT !.at = "type", !.list = list]
    <3>1. DOMAIN job = OpFields /\ job.id = op[s].id /\ job.key = op[s].key
      BY <1>0 DEF OpFields
    <3>2. Go(s, job)
      BY <2>2
    <3> HIDE DEF job
    <3> QED
      BY <1>0, <1>1, <2>0, <3>1, <3>2 DEF Inserting
  <2> QED
    BY <1>11, <2>1, <2>2 DEF SyncFetch
<1>12. CASE SyncType(s)
  <2>1. /\ op[s].at = "type" /\ UNCHANGED <<catalogue, req, keyOf, routes>>
        /\ Go(s, NoOp) \/ Go(s, [op[s] EXCEPT !.at = "sync"])
    BY <1>12 DEF SyncType, Reply, Step, history
  <2>2. PICK job : /\ Go(s, job) /\ DOMAIN job = OpFields
                   /\ job.at \in Inserting => job.id = op[s].id /\ job.key = op[s].key
    BY <1>on, <2>1
  <2>3. op[s].id \in 1 .. issued.id /\ op[s].key = keyOf[op[s].id]
    BY <1>0, <2>1 DEF Inserting
  <2> QED
    BY <1>1, <2>1, <2>2, <2>3
<1>13. CASE SyncBegin(s)
  <2>1. /\ op[s].at = "sync" /\ UNCHANGED <<providers, issued, access, req, keyOf, routes>>
        /\ tx' = [by |-> s, saved |-> rows]
        /\ rows' = Drop(rows, {r \in RowsOf(op[s].id) : ~rows[r].manual})
        /\ Go(s, [op[s] EXCEPT !.at = "price", !.old = Remembered(op[s].id)])
    BY <1>13 DEF SyncBegin, history
  <2>2. Grows /\ Registry' /\ Table(rows)'
    BY <1>6, <2>1
  <2>3. Table(tx.saved)' /\ tx'.by \in Sessions \cup {0}
    BY <2>1 DEF NInv, Table
  <2> DEFINE job == [op[s] EXCEPT !.at = "price", !.old = Remembered(op[s].id)]
  <2>4. DOMAIN job = OpFields /\ job.id = op[s].id /\ job.key = op[s].key
    BY <1>0 DEF OpFields
  <2>5. Go(s, job)
    BY <2>1
  <2> HIDE DEF job
  <2>6. op[s].id \in 1 .. issued.id /\ op[s].key = keyOf[op[s].id]
    BY <1>0, <2>1 DEF Inserting
  <2> QED
    BY <1>2, <2>1, <2>2, <2>3, <2>4, <2>5, <2>6
<1>14. CASE SyncInsert(s)
  <2>1. op[s].at = "price" /\ UNCHANGED <<providers, access, tx, req, keyOf>>
    BY <1>14 DEF SyncInsert
  <2>2. PICK m, price, list :
          /\ Inserted(op[s].id, m, op[s].key, None, FALSE, price)
          /\ Go(s, [op[s] EXCEPT !.list = list])
    BY <1>14 DEF SyncInsert
  <2>3. op[s].id \in 1 .. issued.id /\ op[s].key = keyOf[op[s].id]
    BY <1>0, <2>1 DEF Inserting
  <2>4. Grows /\ Registry' /\ Table(rows)' /\ (tx'.by # 0 => Table(tx.saved)')
    BY <2>1, <2>2, <2>3, InsertsWell
  <2> DEFINE job == [op[s] EXCEPT !.list = list]
  <2>5. DOMAIN job = OpFields /\ job.id = op[s].id /\ job.key = op[s].key
    BY <1>0 DEF OpFields
  <2>6. Go(s, job) /\ tx'.by \in Sessions \cup {0}
    BY <1>0, <2>1, <2>2
  <2> HIDE DEF job
  <2> QED
    BY <1>2, <2>1, <2>3, <2>4, <2>5, <2>6
<1>15. CASE SyncCommit(s)
  <2>1. /\ UNCHANGED <<providers, rows, issued, access, req, keyOf, routes>>
        /\ tx' = NoTx /\ Go(s, NoOp)
    BY <1>15 DEF SyncCommit, Reply
  <2>2. Grows /\ Registry' /\ Table(rows)' /\ tx'.by = 0
    BY <2>1, GrowsByNothing DEF NInv, Registry, Table, NoTx
  <2> QED
    BY <1>0, <1>2, <2>1, <2>2
<1>16. CASE SyncFail(s)
  <2>1. /\ UNCHANGED <<providers, issued, access, req, keyOf, routes>>
        /\ Go(s, NoOp)
        /\ \/ Free /\ UNCHANGED <<rows, tx>>
           \/ rows' = tx.saved /\ tx' = NoTx /\ tx.by = s
    BY <1>16 DEF SyncFail, Reply, history
  <2>2. s # 0
    BY DispatchAssumption, FS_CardinalityType
  <2>3. Grows /\ Registry' /\ Table(rows)' /\ tx'.by = 0
    BY <2>1, <2>2, GrowsByNothing DEF NInv, Registry, Table, NoTx, Free
  <2> QED
    BY <1>0, <1>2, <2>1, <2>3
<1>17. CASE CreateModelInsert(s)
  <2>1. op[s].at = "create" /\ Go(s, NoOp) /\ UNCHANGED <<providers, access, tx, req, keyOf>>
    BY <1>17 DEF CreateModelInsert, Reply
  <2>2. PICK price : Inserted(op[s].id, op[s].model, op[s].key, None, TRUE, price)
    BY <1>17 DEF CreateModelInsert
  <2>3. op[s].id \in 1 .. issued.id /\ op[s].key = keyOf[op[s].id]
    BY <1>0, <2>1 DEF Inserting
  <2>4. Grows /\ Registry' /\ Table(rows)' /\ (tx'.by # 0 => Table(tx.saved)')
    BY <2>1, <2>2, <2>3, InsertsWell
  <2> QED
    BY <1>0, <1>2, <2>1, <2>4
<1>18. CASE EditModelWrite(s)
  <2>1. Go(s, NoOp) /\ UNCHANGED <<providers, issued, access, tx, req, keyOf, routes>>
    BY <1>18 DEF EditModelWrite, Reply
  <2>2. /\ DOMAIN rows' = DOMAIN rows
        /\ \A i \in DOMAIN rows :
              /\ DOMAIN rows'[i] = RowFields /\ rows'[i].prov = rows[i].prov
              /\ rows'[i].model = rows[i].model /\ rows'[i].key = rows[i].key
              /\ rows'[i].src = rows[i].src
    <3>1. \A i \in DOMAIN rows : DOMAIN rows[i] = RowFields
      BY DEF NInv, Table, Sparse
    <3>2. CASE op[s].row \in DOMAIN rows
      <4>1. rows' = [rows EXCEPT ![op[s].row].price = op[s].price]
        BY <1>18, <3>2 DEF EditModelWrite
      <4> QED
        BY <3>1, <4>1 DEF RowFields
    <3>3. CASE op[s].row \notin DOMAIN rows
      BY <1>18, <3>1, <3>3 DEF EditModelWrite
    <3> QED
      BY <3>2, <3>3
  <2>3. Table(rows)'
    <3>1. Sparse(rows', issued.row)
      BY <2>2 DEF NInv, Table, Sparse
    <3>2. Routed(rows', issued.id, keyOf, routes)
      BY <2>2 DEF NInv, Table, Routed
    <3> QED
      BY <2>1, <3>1, <3>2 DEF Table
  <2>4. Grows /\ Registry' /\ (tx'.by # 0 => Table(tx.saved)')
    BY <2>1, GrowsByNothing DEF NInv, Registry, Table
  <2> QED
    BY <1>0, <1>2, <2>1, <2>3, <2>4
<1> QED
  BY <1>4, <1>5, <1>8, <1>9, <1>10, <1>11, <1>12, <1>13, <1>14, <1>15, <1>16, <1>17, <1>18
  DEF AdminStep

-----------------------------------------------------------------------------
(* The requests.                                                            *)

\* A request goes on with what it was told.
LEMMA RequestMoves ==
    ASSUME NInv, NEW r \in Requests, NEW job, DOMAIN job = Fields, Found(job), Led(job),
           req' = [req EXCEPT ![r] = job], UNCHANGED <<catalogue, edits, op, keyOf, routes>>
    PROVE  NInv'
<1>1. Grows
  BY GrowsByNothing DEF NInv, catalogue
<1>2. req'[r] = job /\ DOMAIN req' = Requests /\ \A q \in Requests \ {r} : req'[q] = req[q]
  BY DEF NInv, Typed
<1>3. Typed'
  BY <1>2 DEF NInv, Typed, catalogue
<1>4. Registry' /\ Table(rows)' /\ (tx'.by # 0 => Table(tx.saved)')
  BY DEF NInv, Registry, Table, catalogue
<1>5. ASSUME NEW s \in Sessions PROVE Informed(op[s])'
  BY <1>1, OpsStay
<1>6. (Found(req[r]) /\ Led(req[r]))'
  BY <1>2 DEF Found, Led, catalogue
<1>7. ASSUME NEW q \in Requests \ {r} PROVE (Found(req[q]) /\ Led(req[q]))'
  BY <1>1, <1>2, RequestsStay
<1> QED
  BY <1>3, <1>4, <1>5, <1>6, <1>7 DEF NInv

\* ... and every step of a request.
LEMMA RequestSteps ==
    ASSUME NInv, NEW r \in Requests, Arrive(r) \/ RequestStep(r)
    PROVE  NInv'
<1>0. DOMAIN req[r] = Fields /\ Found(req[r]) /\ Led(req[r])
  BY DEF NInv, Typed
<1>1. \A id \in DOMAIN providers : id \in 1 .. issued.id /\ providers[id].key = keyOf[id]
  BY DEF NInv, Registry
<1>2. UNCHANGED <<catalogue, edits, op, keyOf, routes>>
  BY DEF RequestStep, Arrive, Quiet, FindModel, FindProvider, PathProvider, PathModel, Reroute,
     CountAccess, CheckAccess, Send
<1>3. ASSUME Refuse(r) PROVE NInv'
  <2> DEFINE job == [NoReq EXCEPT !.at = "done"]
  <2>1. DOMAIN job = Fields /\ job.at = "done" /\ job.prov = 0
    BY DEF NoReq, Fields
  <2>2. req' = [req EXCEPT ![r] = job]
    BY <1>3 DEF Refuse
  <2> HIDE DEF job
  <2> QED
    BY <1>2, <2>1, <2>2, RequestMoves DEF Found, Led
\* A request goes on to at, towards the provider it has.
<1>4. ASSUME NEW at, To(r, [req[r] EXCEPT !.at = at]), at \notin {"source", "reroute"}, Chosen(r)
      PROVE  NInv'
  <2> DEFINE job == [req[r] EXCEPT !.at = at]
  <2>1. /\ DOMAIN job = Fields /\ job.at = at /\ job.prov = req[r].prov
        /\ job.key = req[r].key /\ job.model = req[r].model
    BY <1>0 DEF Fields
  <2>2. req' = [req EXCEPT ![r] = job]
    BY <1>4 DEF To
  <2> HIDE DEF job
  <2>3. Found(job) /\ Led(job)
    BY <1>0, <1>4, <2>1 DEF Found, Led, Chosen, Sent
  <2> QED
    BY <1>2, <2>1, <2>2, <2>3, RequestMoves
\* A request is led to a provider.
<1>5. ASSUME NEW id \in 1 .. issued.id, Ask(r, "count", id),
             keyOf[id] = req[r].key \/ <<req[r].key, req[r].model, keyOf[id]>> \in routes
      PROVE  NInv'
  <2> DEFINE job == [req[r] EXCEPT !.at = "count", !.prov = id]
  <2>1. /\ DOMAIN job = Fields /\ job.at = "count" /\ job.prov = id
        /\ job.key = req[r].key /\ job.model = req[r].model
    BY <1>0 DEF Fields
  <2>2. req' = [req EXCEPT ![r] = job]
    BY <1>5 DEF Ask, To
  <2> HIDE DEF job
  <2>3. Found(job) /\ Led(job)
    BY <1>5, <2>1 DEF Found, Led
  <2> QED
    BY <1>2, <2>1, <2>2, <2>3, RequestMoves
\* A row that is found has the key and the model that were asked for.
<1>6. ASSUME NEW i \in FindByFullID(req[r].key, req[r].model)
      PROVE  /\ rows[i].prov \in 1 .. issued.id /\ keyOf[rows[i].prov] = req[r].key
             /\ <<req[r].key, req[r].model, rows[i].src>> \in routes
  BY <1>6 DEF FindByFullID, NInv, Table, Routed
<1>7. ASSUME NEW i \in FindByFullID(req[r].key, req[r].model),
             NEW at \in {"source", "reroute", "send"}, at = "source" \/ Chosen(r),
             To(r, [req[r] EXCEPT !.at = at, !.row = rows[i]])
      PROVE  NInv'
  <2> DEFINE job == [req[r] EXCEPT !.at = at, !.row = rows[i]]
  <2>1. /\ DOMAIN job = Fields /\ job.at = at /\ job.row = rows[i] /\ job.prov = req[r].prov
        /\ job.key = req[r].key /\ job.model = req[r].model
    BY <1>0 DEF Fields
  <2>2. req' = [req EXCEPT ![r] = job]
    BY <1>7 DEF To
  <2> HIDE DEF job
  <2>3. Found(job)
    BY <1>6, <2>1 DEF Found
  <2>4. Led(job)
    BY <1>0, <1>7, <2>1 DEF Led, Chosen, Sent
  <2> QED
    BY <1>2, <2>1, <2>2, <2>3, <2>4, RequestMoves
<1>8. CASE Arrive(r)
  <2>1. PICK u \in Users, k \in Asked, m \in Models, via \in {"body", "path"} :
          req' = [req EXCEPT ![r] =
                    [NoReq EXCEPT !.at = IF via = "body" THEN "find" ELSE "provider",
                                  !.user = u, !.via = via, !.key = k, !.model = m]]
    BY <1>8 DEF Arrive
  <2> DEFINE job == [NoReq EXCEPT !.at = IF via = "body" THEN "find" ELSE "provider",
                                  !.user = u, !.via = via, !.key = k, !.model = m]
  <2>2. DOMAIN job = Fields /\ job.at \in {"find", "provider"}
    BY DEF NoReq, Fields
  <2>3. req' = [req EXCEPT ![r] = job]
    BY <2>1
  <2> HIDE DEF job
  <2> QED
    BY <1>2, <2>2, <2>3, RequestMoves DEF Found, Led
<1>9. CASE FindModel(r)
  BY <1>3, <1>7, <1>9 DEF FindModel
<1>10. CASE FindProvider(r)
  <2>1. /\ req[r].row.prov \in 1 .. issued.id /\ keyOf[req[r].row.prov] = req[r].key
        /\ <<req[r].key, req[r].model, req[r].row.src>> \in routes
    BY <1>0, <1>10 DEF FindProvider, Found
  <2>2. CASE req[r].row.src = None
    BY <1>3, <1>5, <1>10, <2>1, <2>2 DEF FindProvider
  <2>3. CASE req[r].row.src # None
    <3>1. \A id \in ByKey(req[r].row.src) : id \in 1 .. issued.id /\ keyOf[id] = req[r].row.src
      BY <1>1 DEF ByKey, IdsOf
    <3> QED
      BY <1>3, <1>5, <1>10, <2>1, <2>3, <3>1 DEF FindProvider
  <2> QED
    BY <2>2, <2>3
<1>11. CASE PathProvider(r)
  <2>1. \A id \in ByKey(req[r].key) : id \in 1 .. issued.id /\ keyOf[id] = req[r].key
    BY <1>1 DEF ByKey, IdsOf
  <2> QED
    BY <1>3, <1>5, <1>11, <2>1 DEF PathProvider
<1>12. CASE PathModel(r)
  <2>1. Chosen(r)
    BY <1>12 DEF PathModel, Chosen
  <2>2. CASE To(r, [req[r] EXCEPT !.at = "send"])
    BY <1>4, <2>1, <2>2
  <2>3. ASSUME NEW i \in FindByFullID(req[r].key, req[r].model),
               To(r, [req[r] EXCEPT !.at = IF rows[i].src = None THEN "send" ELSE "reroute",
                                    !.row = rows[i]])
        PROVE  NInv'
    <3>1. CASE rows[i].src = None
      <4>1. To(r, [req[r] EXCEPT !.at = "send", !.row = rows[i]])
        BY <2>3, <3>1
      <4> QED
        BY <1>7, <2>1, <4>1
    <3>2. CASE rows[i].src # None
      <4>1. To(r, [req[r] EXCEPT !.at = "reroute", !.row = rows[i]])
        BY <2>3, <3>2
      <4> QED
        BY <1>7, <2>1, <4>1
    <3> QED
      BY <3>1, <3>2
  <2> QED
    BY <1>12, <2>2, <2>3 DEF PathModel
<1>13. CASE Reroute(r)
  <2>1. /\ <<req[r].key, req[r].model, req[r].row.src>> \in routes /\ Chosen(r)
    BY <1>0, <1>13 DEF Reroute, Found, Chosen
  <2>2. \A id \in ByKey(req[r].row.src) : id \in 1 .. issued.id /\ keyOf[id] = req[r].row.src
    BY <1>1 DEF ByKey, IdsOf
  <2> QED
    BY <1>4, <1>5, <1>13, <2>1, <2>2 DEF Reroute
<1>14. CASE CountAccess(r)
  <2>1. Chosen(r) /\ \E at \in {"check", "model", "send"} : To(r, [req[r] EXCEPT !.at = at])
    BY <1>14 DEF CountAccess, Onward, Chosen
  <2> QED
    BY <1>4, <2>1
<1>15. CASE CheckAccess(r)
  <2>1. /\ Chosen(r)
        /\ Refuse(r) \/ \E at \in {"model", "send"} : To(r, [req[r] EXCEPT !.at = at])
    BY <1>15 DEF CheckAccess, Onward, Chosen
  <2> QED
    BY <1>3, <1>4, <2>1
<1>16. CASE Send(r)
  <2>1. Chosen(r) /\ (Refuse(r) \/ To(r, [req[r] EXCEPT !.at = "done", !.row = None]))
    BY <1>16 DEF Send, Chosen
  <2>2. ASSUME To(r, [req[r] EXCEPT !.at = "done", !.row = None]) PROVE NInv'
    <3> DEFINE job == [req[r] EXCEPT !.at = "done", !.row = None]
    <3>1. /\ DOMAIN job = Fields /\ job.at = "done" /\ job.prov = req[r].prov
          /\ job.key = req[r].key /\ job.model = req[r].model
      BY <1>0 DEF Fields
    <3>2. req' = [req EXCEPT ![r] = job]
      BY <2>2 DEF To
    <3> HIDE DEF job
    <3>3. Found(job) /\ Led(job)
      BY <1>0, <2>1, <3>1 DEF Found, Led, Chosen, Sent
    <3> QED
      BY <1>2, <3>1, <3>2, <3>3, RequestMoves
  <2> QED
    BY <1>3, <2>1, <2>2
<1> QED
  BY <1>8, <1>9, <1>10, <1>11, <1>12, <1>13, <1>14, <1>15, <1>16 DEF RequestStep

-----------------------------------------------------------------------------

\* The invariant holds at the start.
LEMMA NInvInit == Init => NInv
<1> SUFFICES ASSUME Init PROVE NInv
  OBVIOUS
<1> DEFINE a == CHOOSE k \in RealKeys : TRUE
           b == CHOOSE k \in RealKeys : k # a
           c == CHOOSE k \in CustomKeys : TRUE
           m == CHOOSE n \in Models : TRUE
<1>1. /\ providers = <<[key |-> a, active |-> TRUE], [key |-> b, active |-> TRUE],
                       [key |-> c, active |-> TRUE]>>
      /\ rows = << [prov |-> 1, model |-> m, key |-> a, src |-> None,
                    manual |-> FALSE, price |-> Zero],
                   [prov |-> 2, model |-> m, key |-> b, src |-> None,
                    manual |-> TRUE, price |-> Zero],
                   [prov |-> 3, model |-> m, key |-> c, src |-> a,
                    manual |-> FALSE, price |-> Zero] >>
      /\ keyOf = [id \in 0 .. MaxIds |->
                     CASE id = 1 -> a [] id = 2 -> b [] id = 3 -> c [] OTHER -> None]
      /\ routes = {<<a, m, None>>, <<b, m, None>>, <<c, m, a>>}
  BY DEF Init
<1>2. a \in RealKeys /\ b \in RealKeys /\ c \in CustomKeys /\ a # b /\ a # c /\ b # c
  <2>1. CustomKeys # {} /\ RealKeys \cap CustomKeys = {}
    BY DispatchAssumption
  <2>2. a \in RealKeys /\ \E k \in RealKeys : k # a
    BY DispatchAssumption
  <2>3. c \in CustomKeys
    BY <2>1
  <2> QED
    BY <2>1, <2>2, <2>3
<1> HIDE DEF a, b, c, m
<1>3. issued.id = 3 /\ issued.row = 3 /\ DOMAIN issued = {"id", "row"}
  BY DEF Init
<1>4. keyOf[1] = a /\ keyOf[2] = b /\ keyOf[3] = c /\ DOMAIN keyOf = 0 .. MaxIds
  BY <1>1, DispatchAssumption
<1>5. Typed
  <2>1. access \in [Users -> SUBSET (1 .. MaxIds)]
    BY DispatchAssumption DEF Init
  <2>2. \A r \in Requests : DOMAIN req[r] = Fields
    BY DEF Init, NoReq, Fields
  <2>3. tx.by = 0 /\ edits \in 0 .. MaxEdits
    BY DispatchAssumption DEF Init, NoTx
  <2> QED
    BY <1>3, <2>1, <2>2, <2>3, DispatchAssumption DEF Init, Typed
<1>6. Registry
  <2>1. /\ DOMAIN providers = 1 .. 3
        /\ providers[1].key = a /\ providers[2].key = b /\ providers[3].key = c
        /\ \A i \in 1 .. 3 : DOMAIN providers[i] = {"key", "active"}
    BY <1>1
  <2> QED
    BY <1>2, <1>3, <1>4, <2>1 DEF Registry
<1>7. Table(rows)
  <2>1. /\ DOMAIN rows = 1 .. 3
        /\ rows[1].prov = 1 /\ rows[2].prov = 2 /\ rows[3].prov = 3
        /\ rows[1].key = a /\ rows[2].key = b /\ rows[3].key = c
        /\ rows[1].src = None /\ rows[2].src = None /\ rows[3].src = a
        /\ \A i \in 1 .. 3 : DOMAIN rows[i] = RowFields /\ rows[i].model = m
    BY <1>1 DEF RowFields
  <2>2. Sparse(rows, 3)
    BY <2>1 DEF Sparse
  <2>3. Routed(rows, 3, keyOf, routes)
    BY <1>1, <1>4, <2>1 DEF Routed
  <2> QED
    BY <1>3, <2>2, <2>3 DEF Table
<1>8. tx.by = 0 /\ \A s \in Sessions : Informed(op[s])
  BY NoOpIdles DEF Init, NoTx, Informed
<1>9. ASSUME NEW r \in Requests PROVE Found(req[r]) /\ Led(req[r])
  BY DEF Init, NoReq, Found, Led
<1> QED
  BY <1>5, <1>6, <1>7, <1>8, <1>9 DEF NInv

\* The invariant holds in every state.
LEMMA NInvAlways == Spec => []NInv
<1>1. NInv /\ [Next]_vars => NInv'
  <2> SUFFICES ASSUME NInv, [Next]_vars PROVE NInv'
    OBVIOUS
  <2>1. CASE UNCHANGED vars
    <3>1. UNCHANGED <<catalogue, edits, op, req, keyOf, routes>>
      BY <2>1 DEF vars, history
    <3> QED
      BY <3>1 DEF NInv, Typed, Registry, Table, Informed, Found, Led, catalogue
  <2>2. CASE Next
    BY <2>2, SessionBegins, SessionSteps, RequestSteps DEF Next
  <2> QED
    BY <2>1, <2>2
<1> QED
  BY <1>1, NInvInit, PTL DEF Spec

\* SentAsNamed: a request for key/model reaches a provider of that key, or of the
\* key from which a custom provider of that key once imported that model,
\* whatever the administrator deletes, creates again or replaces meanwhile.
THEOREM RequestsGoWhereNamed == Spec => []SentAsNamed
<1>1. NInv => SentAsNamed
  <2> SUFFICES ASSUME NInv PROVE SentAsNamed
    OBVIOUS
  <2>1. TypeOK
    BY DEF NInv, Typed, Registry, Table, Sparse, TypeOK
  <2>2. ASSUME NEW r \in Requests, Sent(r)
        PROVE  \/ keyOf[req[r].prov] = req[r].key
               \/ <<req[r].key, req[r].model, keyOf[req[r].prov]>> \in routes
    BY <2>2 DEF NInv, Led, Sent
  <2> QED
    BY <2>1, <2>2 DEF SentAsNamed
<1> QED
  BY <1>1, NInvAlways, PTL

-----------------------------------------------------------------------------
(* Prices. While a sync holds the connection the rows need not have the     *)
(* price: it is in the rows to roll back to, and in what the sync remembers *)
(* for the models it has still to insert.                                   *)

Names(row, x) == row.prov = x[1] /\ row.model = x[2]
Missing(t, x) == \A i \in DOMAIN t : ~Names(t[i], x)
HasOwn(t, x)  == \E i \in DOMAIN t : Names(t[i], x) /\ t[i].price = Own

\* The table t has every price that was agreed.
Kept(t, A) == \A x \in DOMAIN A : A[x] = Own => HasOwn(t, x)

\* An edit writes back a row it has read; if its price was agreed before, it
\* is what the edit has read or what it sets.
Reads(job, n) == job.at = "edit" => job.row \in 1 .. n /\ (job.on => job.price = Own)
Agrees(job, t, A) ==
    job.at = "edit" /\ job.row \in DOMAIN t =>
        \A x \in DOMAIN A : Names(t[job.row], x) /\ A[x] = Own => job.price = Own

\* A sync has the price in the table, or will insert the model with it, or will
\* leave the model out.
Settles(job, t, A) ==
    \A x \in DOMAIN A : A[x] = Own =>
        \/ HasOwn(t, x)
        \/ /\ Missing(t, x) /\ x[1] = job.id
           /\ x[2] \in job.list => x[2] \in DOMAIN job.old /\ job.old[x[2]] = Own

PInv ==
    /\ DOMAIN agreed = (1 .. MaxIds) \X Models
    /\ \A s \in Sessions : Reads(op[s], issued.row) /\ Agrees(op[s], rows, agreed)
    /\ Free => Kept(rows, agreed)
    /\ ~Free => /\ op[tx.by].at = "price" /\ Kept(tx.saved, agreed)
                /\ Settles(op[tx.by], rows, agreed)
                /\ \A s \in Sessions : Agrees(op[s], tx.saved, agreed)

\* What NInv says that matters for the prices.
LEMMA Basics ==
    ASSUME NInv
    PROVE  /\ issued.row \in Nat /\ DOMAIN op = Sessions /\ tx.by \in Sessions \cup {0}
           /\ 0 \notin Sessions
           /\ \A s \in Sessions : DOMAIN op[s] = OpFields
           /\ Sparse(rows, issued.row)
           /\ tx.by # 0 => Sparse(tx.saved, issued.row)
<1>1. 0 \notin Sessions
  BY DispatchAssumption, FS_CardinalityType
<1> QED
  BY <1>1 DEF NInv, Typed, Table, Informed

\* No row is inserted.
LEMMA NoneIssued ==
    ASSUME NInv, issued' = issued
    PROVE  issued'.row \in Nat /\ issued.row <= issued'.row
BY Basics

\* What an INSERT OR IGNORE does to the table.
LEMMA InsertAdds ==
    ASSUME NInv, NEW id, NEW m, NEW k, NEW src, NEW manual, NEW price,
           Inserted(id, m, k, src, manual, price)
    PROVE  /\ issued'.row \in Nat /\ issued.row <= issued'.row
           /\ \A i \in DOMAIN rows : i \in DOMAIN rows' /\ rows'[i] = rows[i]
           /\ \/ /\ rows' = rows /\ ~Missing(rows, <<id, m>>)
              \/ /\ rows' # rows /\ Missing(rows, <<id, m>>)
                 /\ DOMAIN rows' = DOMAIN rows \cup {issued.row + 1}
                 /\ issued'.row = issued.row + 1
                 /\ rows'[issued.row + 1].prov = id /\ rows'[issued.row + 1].model = m
                 /\ rows'[issued.row + 1].price = price
<1> DEFINE n == issued.row + 1
<1>0. issued.row \in Nat /\ DOMAIN issued = {"id", "row"} /\ n \notin DOMAIN rows
  BY Basics DEF NInv, Typed, Sparse
<1>1. CASE \E r \in DOMAIN rows : rows[r].prov = id /\ rows[r].model = m
  <2>1. rows' = rows /\ issued' = [issued EXCEPT !.row = issued.row]
    BY <1>1 DEF Inserted, InsertRow
  <2>2. issued'.row = issued.row
    BY <1>0, <2>1
  <2> QED
    BY <1>0, <1>1, <2>1, <2>2 DEF Missing, Names
<1>2. CASE ~\E r \in DOMAIN rows : rows[r].prov = id /\ rows[r].model = m
  <2> DEFINE new == [prov |-> id, model |-> m, key |-> k, src |-> src,
                     manual |-> manual, price |-> price]
  <2>1. rows' = [r \in DOMAIN rows \cup {n} |-> IF r = n THEN new ELSE rows[r]]
    BY <1>2 DEF Inserted, InsertRow
  <2>2. /\ rows'[n] = new /\ DOMAIN rows' = DOMAIN rows \cup {n} /\ rows' # rows
        /\ \A r \in DOMAIN rows : rows'[r] = rows[r]
    BY <1>0, <2>1
  <2>3. issued' = [issued EXCEPT !.row = issued.row + 1]
    BY <2>2 DEF Inserted
  <2>4. issued'.row = n
    BY <1>0, <2>3
  <2>5. new.prov = id /\ new.model = m /\ new.price = price
    OBVIOUS
  <2> HIDE DEF new
  <2> QED
    BY <1>0, <1>2, <2>2, <2>4, <2>5 DEF Missing, Names
<1> QED
  BY <1>1, <1>2

\* A session does something while nobody holds the connection.
LEMMA FreeMoves ==
    ASSUME NInv, PInv, Free, tx' = tx, NEW s \in Sessions, NEW job,
           op' = [op EXCEPT ![s] = job], DOMAIN agreed' = DOMAIN agreed,
           issued'.row \in Nat, issued.row <= issued'.row, Kept(rows', agreed'),
           Reads(job, issued'.row), Agrees(job, rows', agreed'),
           \A t \in Sessions \ {s} : Agrees(op[t], rows', agreed')
    PROVE  PInv'
<1>1. op'[s] = job /\ \A t \in Sessions \ {s} : op'[t] = op[t]
  BY Basics
<1>2. ASSUME NEW t \in Sessions PROVE Reads(op'[t], issued'.row) /\ Agrees(op'[t], rows', agreed')
  BY <1>1, Basics DEF PInv, Reads
<1> QED
  BY <1>2 DEF PInv, Free

\* A session, other than one that holds the connection, goes on without an edit.
LEMMA JobMoves ==
    ASSUME NInv, PInv, NEW s \in Sessions, NEW job, tx.by # s,
           op' = [op EXCEPT ![s] = job], UNCHANGED <<rows, tx, agreed>>, issued'.row = issued.row,
           job.at # "edit"
    PROVE  PInv'
<1>1. op'[s] = job /\ \A t \in Sessions \ {s} : op'[t] = op[t]
  BY Basics
<1>2. ASSUME NEW t \in Sessions
      PROVE  /\ Reads(op'[t], issued'.row) /\ Agrees(op'[t], rows', agreed')
             /\ ~Free => Agrees(op'[t], tx'.saved, agreed')
  BY <1>1 DEF PInv, Reads, Agrees
<1>3. tx.by # 0 => op'[tx.by] = op[tx.by]
  BY <1>1, Basics
<1> QED
  BY <1>2, <1>3 DEF PInv, Free

\* Rows go away, and with them what was agreed for them.
LEMMA RowsGo ==
    ASSUME NInv, PInv, Free, UNCHANGED <<tx, issued>>, NEW s \in Sessions, NEW job,
           op' = [op EXCEPT ![s] = job], job.at # "edit",
           NEW S, rows' = Drop(rows, S), DOMAIN agreed' = DOMAIN agreed,
           \A x \in DOMAIN agreed : agreed'[x] = Own =>
               /\ agreed[x] = Own
               /\ \A i \in S \cap DOMAIN rows : ~Names(rows[i], x)
    PROVE  PInv'
<1>1. /\ DOMAIN rows' = DOMAIN rows \ S
      /\ \A i \in DOMAIN rows' : rows'[i] = rows[i]
  BY DEF Drop, Restrict
<1>2. Kept(rows', agreed')
  BY <1>1 DEF PInv, Kept, HasOwn
<1>3. \A t \in Sessions : Agrees(op[t], rows', agreed')
  BY <1>1 DEF PInv, Agrees
<1>4. Reads(job, issued'.row) /\ Agrees(job, rows', agreed')
  BY DEF Reads, Agrees
<1> QED
  BY <1>2, <1>3, <1>4, NoneIssued, FreeMoves

\* A model is imported: nothing was agreed for one that was not there.
LEMMA PriceImport ==
    ASSUME NInv, PInv, NEW s \in Sessions, ImportInsert(s)
    PROVE  PInv'
<1> DEFINE job == [op[s] EXCEPT !.at = "import"]
<1>1. /\ Free /\ UNCHANGED <<tx, agreed>> /\ op' = [op EXCEPT ![s] = job]
      /\ Inserted(op[s].id, op[s].model, op[s].key, op[s].row, FALSE, op[s].price)
  BY DEF ImportInsert, Step, Go
<1>2. job.at = "import"
  BY Basics DEF OpFields
<1> HIDE DEF job
<1>3. /\ issued'.row \in Nat /\ issued.row <= issued'.row
      /\ DOMAIN rows' \subseteq DOMAIN rows \cup {issued.row + 1}
      /\ \A i \in DOMAIN rows : i \in DOMAIN rows' /\ rows'[i] = rows[i]
  BY <1>1, InsertAdds
<1>4. Kept(rows', agreed')
  BY <1>1, <1>3 DEF PInv, Kept, HasOwn
<1>5. ASSUME NEW t \in Sessions PROVE Agrees(op[t], rows', agreed')
  BY <1>1, <1>3, Basics DEF PInv, Agrees, Reads
<1>6. Reads(job, issued'.row) /\ Agrees(job, rows', agreed')
  BY <1>2 DEF Reads, Agrees
<1> QED
  BY <1>1, <1>3, <1>4, <1>5, <1>6, FreeMoves

\* The administrator adds a model.
LEMMA PriceCreate ==
    ASSUME NInv, PInv, NEW s \in Sessions, CreateModelInsert(s)
    PROVE  PInv'
<1>1. Free /\ UNCHANGED tx /\ op' = [op EXCEPT ![s] = NoOp] /\ op[s].at = "create"
  BY DEF CreateModelInsert, Reply, Go
<1>8. PICK found \in {Zero, Published} :
        Inserted(op[s].id, op[s].model, op[s].key, None, TRUE,
                 IF op[s].price = Zero THEN found ELSE op[s].price)
  BY DEF CreateModelInsert
<1>2. PICK manual, price :
        /\ Inserted(op[s].id, op[s].model, op[s].key, None, manual, price)
        /\ op[s].price = Own => price = Own
  <2>1. op[s].price = Own => (IF op[s].price = Zero THEN found ELSE op[s].price) = Own
    BY DEF Own, Zero
  <2> QED
    BY <1>8, <2>1
<1> DEFINE y == <<op[s].id, op[s].model>>
           n == issued.row + 1
<1>3. /\ issued'.row \in Nat /\ issued.row <= issued'.row
      /\ \A i \in DOMAIN rows : i \in DOMAIN rows' /\ rows'[i] = rows[i]
      /\ \/ rows' = rows
         \/ /\ Missing(rows, y) /\ DOMAIN rows' = DOMAIN rows \cup {n}
            /\ rows'[n].prov = op[s].id /\ rows'[n].model = op[s].model /\ rows'[n].price = price
  BY <1>2, InsertAdds, SMTT(40)
<1>4. Reads(NoOp, issued'.row) /\ Agrees(NoOp, rows', agreed')
  BY DEF NoOp, Reads, Agrees
<1>5. CASE rows' = rows
  <2>1. agreed' = agreed
    BY <1>5 DEF CreateModelInsert
  <2> QED
    BY <1>1, <1>3, <1>4, <1>5, <2>1, FreeMoves DEF PInv
<1>6. CASE rows' # rows
  <2>1. /\ Missing(rows, y) /\ DOMAIN rows' = DOMAIN rows \cup {n}
        /\ Names(rows'[n], y) /\ rows'[n].price = price
    <3>1. /\ Missing(rows, y) /\ DOMAIN rows' = DOMAIN rows \cup {n}
          /\ rows'[n].prov = op[s].id /\ rows'[n].model = op[s].model /\ rows'[n].price = price
      BY <1>3, <1>6
    <3> QED
      BY <3>1 DEF Names
  <2>2. agreed' = [agreed EXCEPT ![y] = IF op[s].price = Own THEN Own ELSE Zero]
    BY <1>6 DEF CreateModelInsert
  <2>3. /\ DOMAIN agreed' = DOMAIN agreed
        /\ \A x \in DOMAIN agreed : x # y => agreed'[x] = agreed[x]
        /\ y \in DOMAIN agreed => (agreed'[y] = Own => op[s].price = Own)
    BY <2>2 DEF Own, Zero
  <2>4. Kept(rows', agreed')
    <3> SUFFICES ASSUME NEW x \in DOMAIN agreed, agreed'[x] = Own PROVE HasOwn(rows', x)
      BY <2>3 DEF Kept
    <3>1. CASE x = y
      BY <1>2, <2>1, <2>3, <3>1 DEF HasOwn
    <3>2. CASE x # y
      BY <1>3, <2>3, <3>2, <1>1 DEF PInv, Kept, HasOwn
    <3> QED
      BY <3>1, <3>2
  <2>5. ASSUME NEW t \in Sessions PROVE Agrees(op[t], rows', agreed')
    <3> SUFFICES ASSUME op[t].at = "edit", op[t].row \in DOMAIN rows', NEW x \in DOMAIN agreed,
                        Names(rows'[op[t].row], x), agreed'[x] = Own
                 PROVE  op[t].price = Own
      BY <2>3 DEF Agrees
    <3>1. op[t].row \in 1 .. issued.row
      BY DEF PInv, Reads
    <3>2. op[t].row \in DOMAIN rows /\ rows'[op[t].row] = rows[op[t].row]
      BY <1>3, <2>1, <3>1, Basics
    <3>3. x # y
      BY <2>1, <3>2 DEF Missing
    <3> QED
      BY <2>3, <3>2, <3>3 DEF PInv, Agrees
  <2> QED
    BY <1>1, <1>3, <1>4, <2>3, <2>4, <2>5, FreeMoves
<1> QED
  BY <1>5, <1>6

\* An edit is written.
LEMMA PriceEdit ==
    ASSUME NInv, PInv, NEW s \in Sessions, EditModelWrite(s)
    PROVE  PInv'
<1>1. Free /\ UNCHANGED <<tx, issued>> /\ op' = [op EXCEPT ![s] = NoOp] /\ op[s].at = "edit"
  BY DEF EditModelWrite, Reply, Go
<1>2. Reads(NoOp, issued'.row) /\ Agrees(NoOp, rows', agreed')
  BY DEF NoOp, Reads, Agrees
<1> DEFINE r == op[s].row
<1>3. CASE r \notin DOMAIN rows
  <2>1. UNCHANGED <<rows, agreed>>
    BY <1>3 DEF EditModelWrite
  <2> QED
    BY <1>1, <1>2, <2>1, NoneIssued, FreeMoves DEF PInv
<1>4. CASE r \in DOMAIN rows
  <2> DEFINE y == <<rows[r].prov, rows[r].model>>
  <2>1. /\ rows' = [rows EXCEPT ![r].price = op[s].price]
        /\ agreed' = IF op[s].on /\ ~Overlapped(s, r) THEN [agreed EXCEPT ![y] = Own] ELSE agreed
    BY <1>4 DEF EditModelWrite
  <2>2. /\ DOMAIN rows' = DOMAIN rows /\ rows'[r].price = op[s].price
        /\ \A i \in DOMAIN rows : rows'[i].prov = rows[i].prov /\ rows'[i].model = rows[i].model
        /\ \A i \in DOMAIN rows : i # r => rows'[i] = rows[i]
    <3>1. \A i \in DOMAIN rows : DOMAIN rows[i] = RowFields
      BY Basics DEF Sparse
    <3> QED
      BY <1>4, <2>1, <3>1 DEF RowFields
  <2>3. /\ DOMAIN agreed' = DOMAIN agreed
        /\ \A x \in DOMAIN agreed : agreed'[x] = Own /\ agreed[x] # Own =>
               x = y /\ op[s].on /\ ~Overlapped(s, r)
    BY <2>1
  <2>4. \A x \in DOMAIN agreed : Names(rows[r], x) => x = y
    BY DEF PInv, Names
  <2>5. ASSUME NEW x \in DOMAIN agreed, Names(rows[r], x), agreed'[x] = Own
        PROVE  op[s].price = Own
    BY <1>1, <1>4, <2>3, <2>5 DEF PInv, Reads, Agrees
  <2>6. Kept(rows', agreed')
    <3> SUFFICES ASSUME NEW x \in DOMAIN agreed, agreed'[x] = Own PROVE HasOwn(rows', x)
      BY <2>3 DEF Kept
    <3>1. CASE Names(rows[r], x)
      <4>1. op[s].price = Own
        BY <2>5, <3>1
      <4> QED
        BY <1>4, <2>2, <3>1, <4>1 DEF HasOwn, Names
    <3>2. CASE ~Names(rows[r], x)
      <4>1. x # y
        BY <3>2 DEF Names
      <4>2. HasOwn(rows, x)
        BY <1>1, <2>3, <4>1 DEF PInv, Kept
      <4> QED
        BY <2>2, <3>2, <4>2 DEF HasOwn
    <3> QED
      BY <3>1, <3>2
  <2>7. ASSUME NEW t \in Sessions \ {s} PROVE Agrees(op[t], rows', agreed')
    <3> SUFFICES ASSUME op[t].at = "edit", op[t].row \in DOMAIN rows, NEW x \in DOMAIN agreed,
                        Names(rows[op[t].row], x), agreed'[x] = Own
                 PROVE  op[t].price = Own
      BY <2>2, <2>3 DEF Agrees, Names
    <3>1. CASE agreed[x] = Own
      BY <3>1 DEF PInv, Agrees
    <3>2. CASE agreed[x] # Own
      <4>1. x = y /\ ~Overlapped(s, r)
        BY <2>3, <3>2
      <4>2. rows[op[t].row].prov = rows[r].prov /\ rows[op[t].row].model = rows[r].model
        BY <4>1 DEF Names
      <4>3. op[t].row = r
        BY <1>4, <4>2, Basics DEF Sparse
      <4> QED
        BY <4>1, <4>3 DEF Overlapped
    <3> QED
      BY <3>1, <3>2
  <2> QED
    BY <1>1, <1>2, <2>3, <2>6, <2>7, NoneIssued, FreeMoves
<1> QED
  BY <1>3, <1>4

-----------------------------------------------------------------------------
(* A sync.                                                                  *)

\* A sync begins: what is deleted is remembered.
LEMMA PriceSyncBegin ==
    ASSUME NInv, PInv, NEW s \in Sessions, SyncBegin(s)
    PROVE  PInv'
<1> DEFINE id == op[s].id
           synced == {r \in RowsOf(id) : ~rows[r].manual}
           job == [op[s] EXCEPT !.at = "price", !.old = Remembered(id)]
<1>1. /\ Free /\ UNCHANGED <<issued, agreed>> /\ tx' = [by |-> s, saved |-> rows]
      /\ rows' = Drop(rows, synced) /\ op' = [op EXCEPT ![s] = job]
  BY DEF SyncBegin, Go, history
<1>2. job.at = "price" /\ job.id = id /\ job.old = Remembered(id)
  BY Basics DEF OpFields
<1> HIDE DEF job
<1>3. tx'.by = s /\ tx'.saved = rows /\ s # 0
  BY <1>1, Basics
<1>4. op'[s] = job /\ \A t \in Sessions \ {s} : op'[t] = op[t]
  BY <1>1, Basics
<1>5. /\ DOMAIN rows' = DOMAIN rows \ synced
      /\ \A i \in DOMAIN rows' : rows'[i] = rows[i]
  BY <1>1 DEF Drop, Restrict
<1>6. Settles(job, rows', agreed)
  <2> SUFFICES ASSUME NEW x \in DOMAIN agreed, agreed[x] = Own, ~HasOwn(rows', x)
               PROVE  /\ Missing(rows', x) /\ x[1] = id
                      /\ x[2] \in DOMAIN Remembered(id) /\ Remembered(id)[x[2]] = Own
    BY <1>2 DEF Settles
  <2>1. PICK i \in DOMAIN rows : Names(rows[i], x) /\ rows[i].price = Own
    BY <1>1 DEF PInv, Kept, HasOwn
  <2>2. i \in synced
    BY <1>5, <2>1 DEF HasOwn
  <2>3. \A j \in DOMAIN rows : Names(rows[j], x) => j = i
    BY <2>1, Basics DEF Sparse, Names
  <2>4. Missing(rows', x)
    BY <1>5, <2>2, <2>3 DEF Missing
  <2>5. x[1] = id /\ x[2] = rows[i].model
    BY <2>1, <2>2 DEF Names, RowsOf
  <2>6. (CHOOSE r \in synced : rows[r].model = x[2]) = i
    <3>1. \A r \in synced : rows[r].model = x[2] => r = i
      BY <2>3, <2>5 DEF RowsOf, Names
    <3> QED
      BY <2>2, <2>5, <3>1
  <2>7. x[2] \in DOMAIN Remembered(id) /\ Remembered(id)[x[2]] = rows[i].price
    BY <2>2, <2>5, <2>6 DEF Remembered
  <2> QED
    BY <2>1, <2>4, <2>5, <2>7
<1>7. ASSUME NEW t \in Sessions
      PROVE  /\ Reads(op'[t], issued'.row)
             /\ Agrees(op'[t], rows', agreed') /\ Agrees(op'[t], rows, agreed')
  BY <1>1, <1>2, <1>4, <1>5, ZenonT(40) DEF PInv, Reads, Agrees
<1> QED
  BY <1>1, <1>2, <1>3, <1>4, <1>6, <1>7 DEF PInv, Free

\* A sync inserts one model of its list.
LEMMA PriceSyncInsert ==
    ASSUME NInv, PInv, NEW s \in Sessions, SyncInsert(s)
    PROVE  PInv'
<1>1. PICK m, price :
        /\ m \in op[s].list
        /\ m \in DOMAIN op[s].old => price = op[s].old[m]
        /\ Inserted(op[s].id, m, op[s].key, None, FALSE, price)
        /\ op' = [op EXCEPT ![s] = [op[s] EXCEPT !.list = op[s].list \ {m}]]
  BY DEF SyncInsert, Go
<1>2. op[s].at = "price" /\ tx.by = s /\ s # 0 /\ UNCHANGED <<tx, agreed>>
  BY Basics DEF SyncInsert
<1> DEFINE job == [op[s] EXCEPT !.list = op[s].list \ {m}]
           n == issued.row + 1
           y == <<op[s].id, m>>
<1>3. /\ job.at = "price" /\ job.id = op[s].id /\ job.old = op[s].old
      /\ job.list = op[s].list \ {m}
  BY <1>2, Basics DEF OpFields
<1>4. op' = [op EXCEPT ![s] = job]
  BY <1>1
<1> HIDE DEF job
<1>5. op'[s] = job /\ \A t \in Sessions \ {s} : op'[t] = op[t]
  BY <1>4, Basics
<1>6. /\ issued'.row \in Nat /\ issued.row <= issued'.row
      /\ \A i \in DOMAIN rows : i \in DOMAIN rows' /\ rows'[i] = rows[i]
      /\ \/ rows' = rows /\ ~Missing(rows, y)
         \/ /\ DOMAIN rows' = DOMAIN rows \cup {n}
            /\ rows'[n].prov = op[s].id /\ rows'[n].model = m /\ rows'[n].price = price
  BY <1>1, InsertAdds
<1>7. Settles(job, rows', agreed)
  <2> SUFFICES ASSUME NEW x \in DOMAIN agreed, agreed[x] = Own, ~HasOwn(rows', x)
               PROVE  /\ Missing(rows', x) /\ x[1] = op[s].id
                      /\ x[2] \in op[s].list \ {m}
                            => x[2] \in DOMAIN op[s].old /\ op[s].old[x[2]] = Own
    BY <1>3 DEF Settles
  <2>1. ~HasOwn(rows, x)
    BY <1>6 DEF HasOwn
  <2>2. /\ Missing(rows, x) /\ x[1] = op[s].id
        /\ x[2] \in op[s].list => x[2] \in DOMAIN op[s].old /\ op[s].old[x[2]] = Own
    BY <1>2, <2>1 DEF PInv, Free, Settles
  <2>3. CASE x[2] = m
    <3>1. ~(rows' = rows /\ ~Missing(rows, y))
      BY <2>2, <2>3 DEF Missing, Names
    <3>2. n \in DOMAIN rows' /\ Names(rows'[n], x) /\ rows'[n].price = price
      BY <1>6, <2>2, <2>3, <3>1 DEF Names
    <3>3. price = Own
      BY <1>1, <2>2, <2>3
    <3> QED
      BY <3>2, <3>3 DEF HasOwn
  <2>4. CASE x[2] # m
    <3>1. \A i \in DOMAIN rows' : i \notin DOMAIN rows => rows'[i].model = m
      BY <1>6
    <3> QED
      BY <1>6, <2>2, <2>4, <3>1 DEF Missing, Names
  <2> QED
    BY <2>3, <2>4
<1>8. ASSUME NEW t \in Sessions
      PROVE  /\ Reads(op'[t], issued'.row)
             /\ Agrees(op'[t], rows', agreed') /\ Agrees(op'[t], tx.saved, agreed')
  <2>1. CASE t = s
    BY <1>3, <1>5, <2>1 DEF Reads, Agrees
  <2>2. CASE t # s
    <3>1. op'[t] = op[t] /\ Reads(op[t], issued.row)
      BY <1>5, <2>2 DEF PInv
    <3>2. Reads(op[t], issued'.row)
      BY <1>6, <3>1, Basics DEF Reads
    <3>3. Agrees(op[t], rows', agreed')
      BY <1>2, <1>6, <3>1, Basics DEF PInv, Reads, Agrees
    <3> QED
      BY <1>2, <3>1, <3>2, <3>3 DEF PInv, Free
  <2> QED
    BY <2>1, <2>2
<1> QED
  BY <1>2, <1>3, <1>5, <1>7, <1>8 DEF PInv, Free

\* A sync commits, or fails and rolls back.
LEMMA PriceSyncEnd ==
    ASSUME NInv, PInv, NEW s \in Sessions, SyncCommit(s) \/ SyncFail(s), ~Free
    PROVE  PInv'
<1>1. /\ tx.by = s /\ s # 0 /\ tx' = NoTx /\ issued' = issued
      /\ op' = [op EXCEPT ![s] = NoOp]
  BY Basics DEF SyncCommit, SyncFail, Reply, Go, Free
<1>2. tx'.by = 0
  BY <1>1 DEF NoTx
<1>3. op'[s] = NoOp /\ \A t \in Sessions \ {s} : op'[t] = op[t]
  BY <1>1, Basics
<1>4. NoOp.at # "edit"
  BY DEF NoOp
<1>5. CASE SyncCommit(s)
  <2>1. /\ rows' = rows
        /\ agreed' = [x \in DOMAIN agreed |-> IF RowFor(x[1], x[2]) = {} THEN Zero ELSE agreed[x]]
    BY <1>5 DEF SyncCommit
  <2>2. /\ DOMAIN agreed' = DOMAIN agreed
        /\ \A x \in DOMAIN agreed : agreed'[x] = Own => agreed[x] = Own /\ RowFor(x[1], x[2]) # {}
    BY <2>1 DEF Own, Zero
  <2>3. Kept(rows', agreed')
    <3> SUFFICES ASSUME NEW x \in DOMAIN agreed, agreed'[x] = Own PROVE HasOwn(rows, x)
      BY <2>1, <2>2 DEF Kept
    <3>1. ~Missing(rows, x)
      BY <2>2 DEF RowFor, RowsOf, Missing, Names
    <3> QED
      BY <1>1, <2>2, <3>1 DEF PInv, Free, Settles
  <2>4. ASSUME NEW t \in Sessions PROVE Reads(op'[t], issued'.row) /\ Agrees(op'[t], rows', agreed')
    BY <1>1, <1>3, <1>4, <2>1, <2>2 DEF PInv, Reads, Agrees
  <2> QED
    BY <1>2, <2>2, <2>3, <2>4 DEF PInv, Free
<1>6. CASE SyncFail(s)
  <2>1. rows' = tx.saved /\ agreed' = agreed
    BY <1>6 DEF SyncFail, history, Free
  <2>2. Kept(rows', agreed')
    BY <1>1, <2>1 DEF PInv, Free
  <2>3. ASSUME NEW t \in Sessions PROVE Reads(op'[t], issued'.row) /\ Agrees(op'[t], rows', agreed')
    BY <1>1, <1>3, <1>4, <2>1 DEF PInv, Free, Reads, Agrees
  <2> QED
    BY <1>2, <2>1, <2>2, <2>3 DEF PInv, Free
<1> QED
  BY <1>5, <1>6

-----------------------------------------------------------------------------

\* Every operation a session begins keeps the prices ...
LEMMA PriceBegins ==
    ASSUME NInv, PInv, NEW s \in Sessions, AdminBegin(s)
    PROVE  PInv'
<1>0. Free /\ tx.by # s
  BY Basics DEF AdminBegin, CreateProvider, UpdateRead, DeleteModels, SetAccess, SyncRead,
     CreateModelRead, EditModelRead, DeleteModel, Free
<1>1. CASE CreateProvider(s) \/ UpdateRead(s) \/ SetAccess(s) \/ SyncRead(s) \/ CreateModelRead(s)
  <2>1. UNCHANGED <<rows, tx, agreed>>
    BY <1>1 DEF CreateProvider, UpdateRead, SetAccess, SyncRead, CreateModelRead, catalogue, history
  <2>2. issued'.row = issued.row
    BY <1>1 DEF CreateProvider, UpdateRead, SetAccess, SyncRead, CreateModelRead, catalogue,
       NInv, Typed
  <2>3. PICK job : op' = [op EXCEPT ![s] = job] /\ job.at # "edit"
    <3>1. CASE CreateProvider(s)
      <4>1. PICK k \in Keys, list \in SUBSET (RealKeys \X Models) :
              Begin(s, IF list = {} THEN NoOp
                       ELSE [NoOp EXCEPT !.at = "import", !.id = issued.id + 1, !.key = k,
                                         !.list = list])
        BY <3>1 DEF CreateProvider
      <4> DEFINE job == IF list = {} THEN NoOp
                         ELSE [NoOp EXCEPT !.at = "import", !.id = issued.id + 1, !.key = k,
                                           !.list = list]
      <4>2. job.at # "edit" /\ op' = [op EXCEPT ![s] = job]
        BY <4>1 DEF NoOp, Begin
      <4> HIDE DEF job
      <4> QED
        BY <4>2
    <3>2. CASE UpdateRead(s)
      <4>1. PICK id \in DOMAIN providers, on \in BOOLEAN, list \in SUBSET (RealKeys \X Models),
                 at \in {"update", "relist"} :
              Begin(s, [NoOp EXCEPT !.at = at, !.id = id, !.key = providers[id].key,
                       !.on = on, !.list = list])
        BY <3>2 DEF UpdateRead
      <4> DEFINE job == [NoOp EXCEPT !.at = at, !.id = id, !.key = providers[id].key,
                         !.on = on, !.list = list]
      <4>2. job.at # "edit" /\ op' = [op EXCEPT ![s] = job]
        BY <4>1 DEF NoOp, Begin
      <4> HIDE DEF job
      <4> QED
        BY <4>2
    <3>3. CASE SetAccess(s)
      <4>1. op' = [op EXCEPT ![s] = NoOp]
        BY <3>3 DEF SetAccess, Begin
      <4>2. NoOp.at # "edit"
        BY DEF NoOp
      <4> QED
        BY <4>1, <4>2
    <3>4. CASE SyncRead(s)
      <4>1. PICK id \in DOMAIN providers :
              Begin(s, [NoOp EXCEPT !.at = "fetch", !.id = id, !.key = providers[id].key])
        BY <3>4 DEF SyncRead
      <4> DEFINE job == [NoOp EXCEPT !.at = "fetch", !.id = id, !.key = providers[id].key]
      <4>2. job.at # "edit" /\ op' = [op EXCEPT ![s] = job]
        BY <4>1 DEF NoOp, Begin
      <4> HIDE DEF job
      <4> QED
        BY <4>2
    <3>5. CASE CreateModelRead(s)
      <4>1. PICK id \in DOMAIN providers, m \in Models, price \in {Zero, Own} :
              Begin(s, [NoOp EXCEPT !.at = "create", !.id = id, !.key = providers[id].key,
                       !.model = m, !.price = price])
        BY <3>5 DEF CreateModelRead
      <4> DEFINE job == [NoOp EXCEPT !.at = "create", !.id = id, !.key = providers[id].key,
                         !.model = m, !.price = price]
      <4>2. job.at # "edit" /\ op' = [op EXCEPT ![s] = job]
        BY <4>1 DEF NoOp, Begin
      <4> HIDE DEF job
      <4> QED
        BY <4>2
    <3> QED
      BY <1>1, <3>1, <3>2, <3>3, <3>4, <3>5
  <2> QED
    BY <1>0, <2>1, <2>2, <2>3, JobMoves
<1>2. CASE EditModelRead(s)
  <2>1. PICK r \in DOMAIN rows, new \in BOOLEAN :
          op' = [op EXCEPT ![s] = [NoOp EXCEPT !.at = "edit", !.row = r, !.on = new,
                                               !.price = IF new THEN Own ELSE rows[r].price]]
    BY <1>2 DEF EditModelRead, Begin
  <2> DEFINE job == [NoOp EXCEPT !.at = "edit", !.row = r, !.on = new,
                                 !.price = IF new THEN Own ELSE rows[r].price]
  <2>2. /\ job.row = r /\ job.on = new
        /\ job.price = IF new THEN Own ELSE rows[r].price
    BY DEF NoOp
  <2>3. op' = [op EXCEPT ![s] = job] /\ UNCHANGED <<rows, tx, issued, agreed>>
    BY <1>2, <2>1 DEF EditModelRead, catalogue, history
  <2> HIDE DEF job
  <2>4. Reads(job, issued.row)
    BY <2>2, Basics DEF Reads, Sparse
  <2>5. Agrees(job, rows, agreed)
    <3> SUFFICES ASSUME NEW x \in DOMAIN agreed, Names(rows[r], x), agreed[x] = Own
                 PROVE  job.price = Own
      BY <2>2 DEF Agrees
    <3>1. PICK i \in DOMAIN rows : Names(rows[i], x) /\ rows[i].price = Own
      BY <1>0 DEF PInv, Kept, HasOwn
    <3>2. i = r
      BY <3>1, Basics DEF Sparse, Names
    <3> QED
      BY <2>2, <3>1, <3>2
  <2>6. Kept(rows, agreed) /\ \A t \in Sessions : Agrees(op[t], rows, agreed)
    BY <1>0 DEF PInv
  <2> QED
    BY <1>0, <2>3, <2>4, <2>5, <2>6, NoneIssued, FreeMoves
<1>3. CASE DeleteModels(s)
  <2>1. PICK id \in DOMAIN providers :
          /\ rows' = Drop(rows, RowsOf(id))
          /\ agreed' = [x \in DOMAIN agreed |-> IF x[1] = id THEN Zero ELSE agreed[x]]
          /\ op' = [op EXCEPT ![s] = [NoOp EXCEPT !.at = "delete", !.id = id]]
    BY <1>3 DEF DeleteModels, Begin
  <2>2. UNCHANGED <<tx, issued>>
    BY <1>3 DEF DeleteModels
  <2>3. /\ DOMAIN agreed' = DOMAIN agreed
        /\ \A x \in DOMAIN agreed : agreed'[x] = Own =>
               agreed[x] = Own /\ \A i \in RowsOf(id) \cap DOMAIN rows : ~Names(rows[i], x)
    BY <2>1 DEF RowsOf, Names, Own, Zero
  <2> DEFINE job == [NoOp EXCEPT !.at = "delete", !.id = id]
  <2>4. job.at # "edit" /\ op' = [op EXCEPT ![s] = job]
    BY <2>1 DEF NoOp
  <2> HIDE DEF job
  <2> QED
    BY <1>0, <2>1, <2>2, <2>3, <2>4, RowsGo
<1>4. CASE DeleteModel(s)
  <2>1. PICK r \in DOMAIN rows :
          /\ rows' = Drop(rows, {r})
          /\ agreed' = [agreed EXCEPT ![<<rows[r].prov, rows[r].model>>] = Zero]
    BY <1>4 DEF DeleteModel
  <2>2. op' = [op EXCEPT ![s] = NoOp] /\ UNCHANGED <<tx, issued>> /\ NoOp.at # "edit"
    BY <1>4 DEF DeleteModel, Begin, NoOp
  <2>3. \A x \in DOMAIN agreed : Names(rows[r], x) => x = <<rows[r].prov, rows[r].model>>
    BY DEF PInv, Names
  <2>4. /\ DOMAIN agreed' = DOMAIN agreed
        /\ \A x \in DOMAIN agreed : agreed'[x] = Own =>
               agreed[x] = Own /\ \A i \in {r} \cap DOMAIN rows : ~Names(rows[i], x)
    BY <2>1, <2>3 DEF Own, Zero
  <2> QED
    BY <1>0, <2>1, <2>2, <2>4, RowsGo
<1> QED
  BY <1>1, <1>2, <1>3, <1>4 DEF AdminBegin

\* ... and so does every later statement of it.
LEMMA PriceSteps ==
    ASSUME NInv, PInv, NEW s \in Sessions, AdminStep(s)
    PROVE  PInv'
<1>0. DOMAIN op[s] = OpFields /\ NoOp.at # "edit" /\ s # 0
  BY Basics DEF NoOp
<1>1. CASE \/ ImportLook(s) \/ UpdateWrite(s) \/ DeleteProvider(s) \/ SyncFetch(s) \/ SyncType(s)
           \/ SyncFail(s) /\ Free
  <2>1. UNCHANGED <<rows, tx, agreed>> /\ issued' = issued
    BY <1>0, <1>1 DEF ImportLook, UpdateWrite, DeleteProvider, SyncFetch, SyncType, SyncFail,
       catalogue, history, Free
  <2>2. tx.by # s
    BY <1>0, <1>1 DEF ImportLook, UpdateWrite, DeleteProvider, SyncFetch, SyncType, Free, PInv
  <2>3. PICK job : op' = [op EXCEPT ![s] = job] /\ job.at # "edit"
    <3>1. CASE Reply(s)
      BY <1>0, <3>1 DEF Reply, Go
    <3>2. ASSUME NEW at, at # "edit", Step(s, at)
          PROVE  op' = [op EXCEPT ![s] = [op[s] EXCEPT !.at = at]]
                 /\ [op[s] EXCEPT !.at = at].at # "edit"
      BY <1>0, <3>2 DEF Step, Go, OpFields
    <3>3. ASSUME NEW list, op[s].at # "edit", Go(s, [op[s] EXCEPT !.list = list])
          PROVE  op' = [op EXCEPT ![s] = [op[s] EXCEPT !.list = list]]
                 /\ [op[s] EXCEPT !.list = list].at # "edit"
      BY <1>0, <3>3 DEF Go, OpFields
    <3>4. ASSUME NEW list, NEW row, NEW model, NEW price,
                 Go(s, [op[s] EXCEPT !.at = "insert", !.list = list, !.row = row,
                                     !.model = model, !.price = price])
          PROVE  \E job : op' = [op EXCEPT ![s] = job] /\ job.at # "edit"
      <4> DEFINE job == [op[s] EXCEPT !.at = "insert", !.list = list, !.row = row,
                                      !.model = model, !.price = price]
      <4>1. job.at # "edit" /\ op' = [op EXCEPT ![s] = job]
        BY <1>0, <3>4 DEF Go, OpFields
      <4> HIDE DEF job
      <4> QED
        BY <4>1
    <3>5. ASSUME NEW list, Go(s, [op[s] EXCEPT !.at = "type", !.list = list])
          PROVE  \E job : op' = [op EXCEPT ![s] = job] /\ job.at # "edit"
      <4> DEFINE job == [op[s] EXCEPT !.at = "type", !.list = list]
      <4>1. job.at # "edit" /\ op' = [op EXCEPT ![s] = job]
        BY <1>0, <3>5 DEF Go, OpFields
      <4> HIDE DEF job
      <4> QED
        BY <4>1
    <3>6. CASE ImportLook(s)
      <4>1. op[s].at # "edit"
        BY <3>6 DEF ImportLook
      <4> QED
        BY <3>1, <3>3, <3>4, <3>6, <4>1 DEF ImportLook
    <3>7. CASE UpdateWrite(s) \/ DeleteProvider(s)
      <4>1. Reply(s) \/ Step(s, "replace")
        BY <3>7 DEF UpdateWrite, DeleteProvider
      <4> QED
        BY <3>1, <3>2, <4>1
    <3>8. CASE SyncFetch(s)
      BY <3>1, <3>5, <3>8 DEF SyncFetch
    <3>9. CASE SyncType(s)
      <4>1. Reply(s) \/ Step(s, "sync")
        BY <3>9 DEF SyncType
      <4> QED
        BY <3>1, <3>2, <4>1
    <3>10. CASE SyncFail(s)
      BY <3>1, <3>10 DEF SyncFail
    <3> QED
      BY <1>1, <3>6, <3>7, <3>8, <3>9, <3>10
  <2> QED
    BY <2>1, <2>2, <2>3, JobMoves
<1>2. CASE UpdateReplace(s)
  <2>1. /\ Free /\ UNCHANGED <<tx, issued>> /\ rows' = Drop(rows, RowsOf(op[s].id))
        /\ agreed' = [x \in DOMAIN agreed |-> IF x[1] = op[s].id THEN Zero ELSE agreed[x]]
        /\ Go(s, NoOp) \/ Go(s, [op[s] EXCEPT !.at = "import"])
    BY <1>2 DEF UpdateReplace, Reply, Step
  <2>2. /\ DOMAIN agreed' = DOMAIN agreed
        /\ \A x \in DOMAIN agreed : agreed'[x] = Own =>
               agreed[x] = Own /\ \A i \in RowsOf(op[s].id) \cap DOMAIN rows : ~Names(rows[i], x)
    BY <2>1 DEF RowsOf, Names, Own, Zero
  <2>3. CASE Go(s, NoOp)
    BY <1>0, <2>1, <2>2, <2>3, RowsGo DEF Go
  <2>4. CASE Go(s, [op[s] EXCEPT !.at = "import"])
    <3> DEFINE job == [op[s] EXCEPT !.at = "import"]
    <3>1. job.at # "edit" /\ op' = [op EXCEPT ![s] = job]
      BY <1>0, <2>4 DEF Go, OpFields
    <3> HIDE DEF job
    <3> QED
      BY <2>1, <2>2, <3>1, RowsGo
  <2> QED
    BY <2>1, <2>3, <2>4
<1>3. CASE SyncCommit(s)
  <2>1. ~Free
    BY <1>0, <1>3 DEF SyncCommit, Free
  <2> QED
    BY <1>3, <2>1, PriceSyncEnd
<1>4. CASE SyncFail(s) /\ ~Free
  BY <1>4, PriceSyncEnd
<1> QED
  BY <1>1, <1>2, <1>3, <1>4, PriceImport, PriceCreate, PriceEdit, PriceSyncBegin, PriceSyncInsert
  DEF AdminStep

\* No price is agreed at the start.
LEMMA PInvInit == Init => PInv
<1> SUFFICES ASSUME Init PROVE PInv
  OBVIOUS
<1>1. /\ DOMAIN agreed = (1 .. MaxIds) \X Models
      /\ \A x \in DOMAIN agreed : agreed[x] # Own
  BY DEF Init, Own, Zero
<1>2. tx.by = 0 /\ \A s \in Sessions : op[s].at = "idle"
  BY DEF Init, NoTx, NoOp
<1> QED
  BY <1>1, <1>2 DEF PInv, Free, Kept, Reads, Agrees

\* PriceKept: a price the administrator has set holds as long as its model does,
\* through every sync and every edit that did not overlap with the setting of it.
THEOREM PricesAreKept == Spec => []PriceKept
<1>1. PInv /\ NInv /\ [Next]_vars => PInv'
  <2> SUFFICES ASSUME PInv, NInv, [Next]_vars PROVE PInv'
    OBVIOUS
  <2>1. CASE UNCHANGED <<catalogue, op, agreed>>
    BY <2>1 DEF PInv, Free, catalogue
  <2>2. ASSUME NEW r \in Requests, Arrive(r) \/ RequestStep(r)
        PROVE  UNCHANGED <<catalogue, op, agreed>>
    BY <2>2 DEF RequestStep, Arrive, Quiet, FindModel, FindProvider, PathProvider, PathModel,
       Reroute, CountAccess, CheckAccess, Send
  <2>3. CASE UNCHANGED vars
    BY <2>1, <2>3 DEF vars, history
  <2> QED
    BY <2>1, <2>2, <2>3, PriceBegins, PriceSteps DEF Next
<1>2. PInv => PriceKept
  <2> SUFFICES ASSUME PInv, Free, NEW x \in DOMAIN agreed, agreed[x] = Own
               PROVE  \E r \in RowFor(x[1], x[2]) : rows[r].price = Own
    BY DEF PriceKept
  <2> QED
    BY DEF PInv, Kept, HasOwn, Names, RowFor, RowsOf
<1> QED
  BY <1>1, <1>2, PInvInit, NInvAlways, PTL DEF Spec

=============================================================================
