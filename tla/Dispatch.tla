------------------------------ MODULE Dispatch ------------------------------
(***************************************************************************)
(* The catalogue and the requests that are routed by it: providers, models *)
(* and access lists as the administrator's handlers change them            *)
(* (ProviderService, ModelService, AuthService.SetUserProviders), and the  *)
(* proxy handlers that look a model up, pick its provider and ask whether  *)
(* the account may use it (resolveDispatch and HandlePathRouted).          *)
(*                                                                         *)
(* The pool has one connection: a statement is one step, and no statement  *)
(* of another handler runs while SyncFromProvider holds the connection in  *)
(* its transaction, which lasts as long as it looks prices up.             *)
(*                                                                         *)
(* There is one administrator account, with a session per browser, so the  *)
(* user_id conditions of the statements always hold.  Foreign keys are not *)
(* enforced by the driver: no row goes away with the row it refers to.     *)
(* Whether a provider is a custom one goes with its key: that an           *)
(* administrator changes the type of a row is not modelled.                *)
(***************************************************************************)
EXTENDS Naturals, FiniteSets, Sequences, Functions

CONSTANTS
    Users,
    Sessions,      \* 1 .. n, what the administrator does at the same time
    Requests,
    RealKeys,      \* provider keys of real providers
    CustomKeys,    \* and of custom ones, which only name models of others
    Models,
    None,
    Lists,         \* bound: the access lists at the start
    Asked,         \* bound: the provider keys that requests name
    MaxIds,        \* bound: provider rows ever inserted
    MaxRows,       \* bound: model rows ever inserted
    MaxEdits,      \* bound: operations of the administrator
    DbFaults       \* may a statement of a transaction fail?

Keys == RealKeys \cup CustomKeys

ASSUME DispatchAssumption ==
    /\ RealKeys \cap CustomKeys = {}
    /\ (\E j, k \in RealKeys : j # k) /\ CustomKeys # {} /\ Models # {}
    /\ None \notin RealKeys \cup CustomKeys \cup Models \cup Users
    /\ IsFiniteSet(Sessions) /\ Sessions = 1 .. Cardinality(Sessions)
    /\ Asked \subseteq Keys /\ Lists \subseteq SUBSET (1 .. 3)
    /\ MaxIds \in Nat /\ MaxIds >= 3 /\ MaxRows \in Nat /\ MaxEdits \in Nat
    /\ DbFaults \in BOOLEAN

\* The prices that matter: none, the published one, the administrator's own.
Zero == 0
Published == 1
Own == 2

VARIABLES
    providers,     \* id -> [key, active], the rows that exist
    rows,          \* models: id -> [prov, model, key, src, manual, price]
    issued,        \* [id, row]: the last ids given out, never given again
    access,        \* user_providers: user -> ids
    tx,            \* [by, saved]: who holds the connection, what to roll back to
    edits,         \* operations begun (bound)
    op,            \* session -> what its handler is doing and remembers
    req,           \* request -> the same for a proxy handler
    keyOf,         \* history: the key of every provider id ever issued
    routes,        \* history: <<key, model, src>> of every row ever inserted
    usable,        \* history: per request, the ids its account might use, and
                   \* the ids that were active, at some moment since it came
    agreed         \* history: <<id, model>> -> the own price set last, if any

catalogue == <<providers, rows, issued, access, tx>>
history == <<keyOf, routes, usable, agreed>>
vars == <<catalogue, edits, op, req, history>>

NoOp == [at |-> "idle", id |-> 0, key |-> None, model |-> None, on |-> FALSE,
         price |-> Zero, row |-> 0, list |-> {}, old |-> <<>>]
NoReq == [at |-> "new", user |-> None, via |-> None, key |-> None, model |-> None,
          row |-> None, prov |-> 0]

Free == tx.by = 0
NoTx == [by |-> 0, saved |-> <<>>]

-----------------------------------------------------------------------------
(* The statements.                                                         *)

Active(id) == id \in DOMAIN providers /\ providers[id].active
IdsOf(k)   == {id \in DOMAIN providers : providers[id].key = k}
RowsOf(id) == {r \in DOMAIN rows : rows[r].prov = id}
RowFor(id, m) == {r \in RowsOf(id) : rows[r].model = m}

\* GetByKey filters on is_active, GetByID does not.
ByKey(k) == {id \in IdsOf(k) : Active(id)}

\* Variant: the model is found by its name alone.
FindByName(k, m) ==
    {r \in DOMAIN rows : rows[r].model = m /\ Active(rows[r].prov)}

\* FindByFullID: the row of that provider key and model, its provider active.
FindByFullID(k, m) ==
    {r \in DOMAIN rows : rows[r].key = k /\ rows[r].model = m /\ Active(rows[r].prov)}

Allowed(acl, u) == {id \in 1 .. MaxIds : acl[u] = {} \/ id \in acl[u]}

Drop(f, S) == Restrict(f, DOMAIN f \ S)

\* INSERT OR IGNORE INTO models: UNIQUE(provider_id, model_id).
InsertRow(table, id, m, k, src, manual, price) ==
    IF \E r \in DOMAIN table : table[r].prov = id /\ table[r].model = m
    THEN table
    ELSE LET n == issued.row + 1
         IN [r \in DOMAIN table \cup {n} |->
                IF r = n THEN [prov |-> id, model |-> m, key |-> k, src |-> src,
                               manual |-> manual, price |-> price]
                ELSE table[r]]

Inserted(id, m, k, src, manual, price) ==
    /\ issued.row < MaxRows
    /\ rows' = InsertRow(rows, id, m, k, src, manual, price)
    /\ issued' = [issued EXCEPT !.row = IF rows' = rows THEN @ ELSE @ + 1]
    /\ routes' = IF rows' = rows THEN routes ELSE routes \cup {<<k, m, src>>}

\* What every request in flight may use from now on.
Observe ==
    usable' = [r \in Requests |->
        IF req[r].at \in {"new", "done"} THEN usable[r]
        ELSE [ allowed |-> usable[r].allowed \cup Allowed(access', req[r].user),
               active  |-> usable[r].active \cup {id \in DOMAIN providers' : providers'[id].active} ]]

-----------------------------------------------------------------------------
(* The administrator's operations.                                         *)

\* Sessions are alike, so the first that is idle begins.
Begin(s, job) ==
    /\ op[s].at = "idle" /\ edits < MaxEdits
    /\ \A t \in 1 .. s - 1 : op[t].at # "idle"
    /\ edits' = edits + 1
    /\ op' = [op EXCEPT ![s] = job]

Go(s, job) == op' = [op EXCEPT ![s] = job] /\ UNCHANGED edits
Step(s, at) == Go(s, [op[s] EXCEPT !.at = at])
Reply(s) == Go(s, NoOp)

\* ProviderService.Create: the row; a second one with the key is refused.  A
\* custom provider goes on to import the models it is made of.
CreateProvider(s) ==
    /\ Free /\ issued.id < MaxIds
    /\ \E k \in Keys, list \in SUBSET (RealKeys \X Models) :
          /\ IdsOf(k) = {}
          /\ (k \in RealKeys => list = {}) /\ Cardinality(list) <= 1
          /\ LET id == issued.id + 1 IN
             /\ providers' = [i \in DOMAIN providers \cup {id} |->
                                 IF i = id THEN [key |-> k, active |-> TRUE] ELSE providers[i]]
             /\ issued' = [issued EXCEPT !.id = id]
             /\ keyOf' = [keyOf EXCEPT ![id] = k]
             /\ Begin(s, IF list = {} THEN NoOp
                         ELSE [NoOp EXCEPT !.at = "import", !.id = id, !.key = k, !.list = list])
    /\ UNCHANGED <<rows, access, tx, req, routes, agreed>>
    /\ Observe

\* importSourceModels, one name: the source model is looked up ...
ImportLook(s) ==
    /\ op[s].at = "import" /\ Free
    /\ \/ /\ op[s].list = {} /\ Reply(s)
       \/ \E e \in op[s].list :
             LET found == FindByFullID(e[1], e[2])
                 rest == op[s].list \ {e}
             IN \/ found = {} /\ Go(s, [op[s] EXCEPT !.list = rest])
                \/ \E r \in found :
                      Go(s, [op[s] EXCEPT !.at = "insert", !.list = rest, !.row = e[1],
                                          !.model = e[2], !.price = rows[r].price])
    /\ UNCHANGED <<catalogue, req, history>>

\* ... and inserted under the custom provider; a conflict is passed over.
ImportInsert(s) ==
    /\ op[s].at = "insert" /\ Free
    /\ Inserted(op[s].id, op[s].model, op[s].key, op[s].row, FALSE, op[s].price)
    /\ Step(s, "import")
    /\ UNCHANGED <<providers, access, tx, req, keyOf, usable, agreed>>

\* ProviderService.Update: the row is read, and written back with the field
\* that changes.  A custom provider may be given a new list of sources, the
\* empty one too.
UpdateRead(s) ==
    /\ Free
    /\ \E id \in DOMAIN providers, on \in BOOLEAN, list \in SUBSET (RealKeys \X Models),
          at \in {"update", "relist"} :
          /\ at = "relist" => providers[id].key \in CustomKeys
          /\ (at = "update" => list = {}) /\ Cardinality(list) <= 1
          /\ Begin(s, [NoOp EXCEPT !.at = at, !.id = id, !.key = providers[id].key,
                                   !.on = on, !.list = list])
    /\ UNCHANGED <<catalogue, req, history>>

UpdateWrite(s) ==
    /\ op[s].at \in {"update", "relist"} /\ Free
    /\ providers' = IF op[s].id \in DOMAIN providers
                    THEN [providers EXCEPT ![op[s].id].active = op[s].on] ELSE providers
    /\ IF op[s].at = "update" THEN Reply(s) ELSE Step(s, "replace")
    /\ UNCHANGED <<rows, issued, access, tx, req, keyOf, routes, agreed>>
    /\ Observe

\* With a new list of sources a custom provider's models are all replaced.
UpdateReplace(s) ==
    /\ op[s].at = "replace" /\ Free
    /\ rows' = Drop(rows, RowsOf(op[s].id))
    /\ agreed' = [x \in DOMAIN agreed |-> IF x[1] = op[s].id THEN Zero ELSE agreed[x]]
    /\ IF op[s].id \in DOMAIN providers THEN Step(s, "import") ELSE Reply(s)
    /\ UNCHANGED <<providers, issued, access, tx, req, keyOf, routes, usable>>

\* ProviderService.Delete: the models, then the provider.  Access lists keep
\* the id.
DeleteModels(s) ==
    /\ Free
    /\ \E id \in DOMAIN providers :
          /\ rows' = Drop(rows, RowsOf(id))
          /\ agreed' = [x \in DOMAIN agreed |-> IF x[1] = id THEN Zero ELSE agreed[x]]
          /\ Begin(s, [NoOp EXCEPT !.at = "delete", !.id = id])
    /\ UNCHANGED <<providers, issued, access, tx, req, keyOf, routes, usable>>

DeleteProvider(s) ==
    /\ op[s].at = "delete" /\ Free
    /\ providers' = Drop(providers, {op[s].id})
    /\ Reply(s)
    /\ UNCHANGED <<rows, issued, access, tx, req, keyOf, routes, agreed>>
    /\ Observe

\* SetUserProviders: one transaction.  Nobody asks whether the ids exist.
SetAccess(s) ==
    /\ Free
    /\ \E u \in Users, ids \in SUBSET (1 .. MaxIds) :
          access' = [access EXCEPT ![u] = ids]
    /\ Begin(s, NoOp)
    /\ UNCHANGED <<providers, rows, issued, tx, req, keyOf, routes, agreed>>
    /\ Observe

-----------------------------------------------------------------------------
(* SyncProviderModels: the provider's own list replaces what was synced.   *)

SyncRead(s) ==
    /\ Free
    /\ \E id \in DOMAIN providers :
          Begin(s, [NoOp EXCEPT !.at = "fetch", !.id = id, !.key = providers[id].key])
    /\ UNCHANGED <<catalogue, req, history>>

\* FetchModelsFromProvider: a custom provider has no list, which is no error.
SyncFetch(s) ==
    /\ op[s].at = "fetch"
    /\ \/ Reply(s)
       \/ \E list \in SUBSET Models :
             /\ op[s].key \in CustomKeys => list = {}
             /\ Go(s, [op[s] EXCEPT !.at = "type", !.list = list])
    /\ UNCHANGED <<catalogue, req, history>>

SyncType(s) ==
    /\ op[s].at = "type" /\ Free
    /\ IF op[s].id \in DOMAIN providers THEN Step(s, "sync") ELSE Reply(s)
    /\ UNCHANGED <<catalogue, req, history>>

\* Variant: the prices of the rows that go away are not remembered.
RememberedNone(id) == <<>>

\* existingPrices: the models that are not new.
Remembered(id) ==
    LET synced == {r \in RowsOf(id) : ~rows[r].manual}
    IN [m \in {rows[r].model : r \in synced} |-> rows[CHOOSE r \in synced : rows[r].model = m].price]

\* Begin, the prices that exist, and the DELETE.
SyncBegin(s) ==
    /\ op[s].at = "sync" /\ Free
    /\ tx' = [by |-> s, saved |-> rows]
    /\ rows' = Drop(rows, {r \in RowsOf(op[s].id) : ~rows[r].manual})
    /\ Go(s, [op[s] EXCEPT !.at = "price", !.old = Remembered(op[s].id)])
    /\ UNCHANGED <<providers, issued, access, req, history>>

\* One model: a new one gets the published price, when there is one and
\* models.dev answers; any other keeps what it had.
SyncInsert(s) ==
    /\ op[s].at = "price" /\ tx.by = s
    /\ \E m \in op[s].list, found \in {Zero, Published} :
          /\ LET known == m \in DOMAIN op[s].old
             IN /\ known => found = Zero
                /\ Inserted(op[s].id, m, op[s].key, None, FALSE,
                            IF known THEN op[s].old[m] ELSE found)
          /\ Go(s, [op[s] EXCEPT !.list = @ \ {m}])
    /\ UNCHANGED <<providers, access, tx, req, keyOf, usable, agreed>>

SyncCommit(s) ==
    /\ op[s].at = "price" /\ tx.by = s /\ op[s].list = {}
    /\ tx' = NoTx
    /\ agreed' = [x \in DOMAIN agreed |-> IF RowFor(x[1], x[2]) = {} THEN Zero ELSE agreed[x]]
    /\ Reply(s)
    /\ UNCHANGED <<providers, rows, issued, access, req, keyOf, routes, usable>>

\* Variant: the transaction is not rolled back on the way out.
SyncFailKeeping(s) ==
    /\ op[s].at = "price" /\ tx.by = s /\ DbFaults
    /\ Reply(s)
    /\ UNCHANGED <<catalogue, req, history>>

\* A statement fails, the first ones or the COMMIT too; the deferred Rollback
\* gives the connection back.
SyncFail(s) ==
    /\ DbFaults
    /\ \/ op[s].at = "sync" /\ Free /\ UNCHANGED <<rows, tx>>
       \/ /\ op[s].at = "price" /\ tx.by = s
          /\ rows' = tx.saved
          /\ tx' = NoTx
    /\ Reply(s)
    /\ UNCHANGED <<providers, issued, access, req, history>>

-----------------------------------------------------------------------------
(* ModelService.Create, Update and Delete.                                 *)

CreateModelRead(s) ==
    /\ Free
    /\ \E id \in DOMAIN providers, m \in Models, price \in {Zero, Own} :
          Begin(s, [NoOp EXCEPT !.at = "create", !.id = id, !.key = providers[id].key,
                                !.model = m, !.price = price])
    /\ UNCHANGED <<catalogue, req, history>>

\* fillFromCatalog, then the INSERT, which a model of the same name refuses.
CreateModelInsert(s) ==
    /\ op[s].at = "create" /\ Free
    /\ \E found \in {Zero, Published} :
          LET price == IF op[s].price = Zero THEN found ELSE op[s].price
          IN Inserted(op[s].id, op[s].model, op[s].key, None, TRUE, price)
    /\ agreed' = IF rows' = rows THEN agreed
                 ELSE [agreed EXCEPT ![<<op[s].id, op[s].model>>] =
                          IF op[s].price = Own THEN Own ELSE Zero]
    /\ Reply(s)
    /\ UNCHANGED <<providers, access, tx, req, keyOf, usable>>

\* Update: the row is read by its id; a nil field keeps what was read.
EditModelRead(s) ==
    /\ Free
    /\ \E r \in DOMAIN rows, new \in BOOLEAN :
          Begin(s, [NoOp EXCEPT !.at = "edit", !.row = r, !.on = new,
                                !.price = IF new THEN Own ELSE rows[r].price])
    /\ UNCHANGED <<catalogue, req, history>>

\* Another session has read the row and not written it yet.
Overlapped(s, r) == \E t \in Sessions \ {s} : op[t].at = "edit" /\ op[t].row = r

EditModelWrite(s) ==
    /\ op[s].at = "edit" /\ Free
    /\ LET r == op[s].row IN
          IF r \in DOMAIN rows
          THEN /\ rows' = [rows EXCEPT ![r].price = op[s].price]
               /\ agreed' = IF op[s].on /\ ~Overlapped(s, r)
                            THEN [agreed EXCEPT ![<<rows[r].prov, rows[r].model>>] = Own]
                            ELSE agreed
          ELSE UNCHANGED <<rows, agreed>>
    /\ Reply(s)
    /\ UNCHANGED <<providers, issued, access, tx, req, keyOf, routes, usable>>

DeleteModel(s) ==
    /\ Free
    /\ \E r \in DOMAIN rows :
          /\ rows' = Drop(rows, {r})
          /\ agreed' = [agreed EXCEPT ![<<rows[r].prov, rows[r].model>>] = Zero]
    /\ Begin(s, NoOp)
    /\ UNCHANGED <<providers, issued, access, tx, req, keyOf, routes, usable>>

-----------------------------------------------------------------------------
(* The requests.                                                           *)

To(r, job) == req' = [req EXCEPT ![r] = job] /\ UNCHANGED usable

\* An error is answered; what the request might have used no longer matters.
Nothing == [allowed |-> {}, active |-> {}]
Refuse(r) ==
    /\ req' = [req EXCEPT ![r] = [NoReq EXCEPT !.at = "done"]]
    /\ usable' = [usable EXCEPT ![r] = Nothing]

\* The provider of the request is known; may the account use it?
Ask(r, at, prov) == To(r, [req[r] EXCEPT !.at = at, !.prov = prov])

Arrive(r) ==
    /\ req[r].at = "new"
    /\ \E u \in Users, k \in Asked, m \in Models, via \in {"body", "path"} :
          req' = [req EXCEPT ![r] =
                     [NoReq EXCEPT !.at = IF via = "body" THEN "find" ELSE "provider",
                                   !.user = u, !.via = via, !.key = k, !.model = m]]
    /\ usable' = [usable EXCEPT ![r] =
                     [ allowed |-> Allowed(access, req'[r].user),
                       active  |-> {id \in DOMAIN providers : Active(id)} ]]
    /\ UNCHANGED <<catalogue, edits, op, keyOf, routes, agreed>>

Quiet(r) == Free /\ UNCHANGED <<catalogue, edits, op, keyOf, routes, agreed>>

\* resolveDispatch: the model by its full name ...
FindModel(r) ==
    /\ req[r].at = "find" /\ Quiet(r)
    /\ LET found == FindByFullID(req[r].key, req[r].model) IN
          \/ found = {} /\ Refuse(r)
          \/ \E i \in found : To(r, [req[r] EXCEPT !.at = "source", !.row = rows[i]])

\* ... and its provider: the one it was imported from, else its own.
FindProvider(r) ==
    /\ req[r].at = "source" /\ Quiet(r)
    /\ LET row == req[r].row
           found == IF row.src # None THEN ByKey(row.src) ELSE {row.prov} \cap DOMAIN providers
       IN \/ found = {} /\ Refuse(r)
          \/ \E id \in found : Ask(r, "count", id)

\* HandlePathRouted: the provider of the path must be active ...
PathProvider(r) ==
    /\ req[r].at = "provider" /\ Quiet(r)
    /\ \/ ByKey(req[r].key) = {} /\ Refuse(r)
       \/ \E id \in ByKey(req[r].key) : Ask(r, "count", id)

\* ... the model may be unknown ...
PathModel(r) ==
    /\ req[r].at = "model" /\ Quiet(r)
    /\ LET found == FindByFullID(req[r].key, req[r].model) IN
          \/ found = {} /\ To(r, [req[r] EXCEPT !.at = "send"])
          \/ \E i \in found :
                To(r, [req[r] EXCEPT !.at = IF rows[i].src = None THEN "send" ELSE "reroute",
                                     !.row = rows[i]])

\* Variant: the source of a custom model is used without asking again.
RerouteUnasked(r) ==
    /\ req[r].at = "reroute" /\ Quiet(r)
    /\ \/ ByKey(req[r].row.src) = {} /\ To(r, [req[r] EXCEPT !.at = "send"])
       \/ \E id \in ByKey(req[r].row.src) : Ask(r, "send", id)

\* ... and a source that is found takes the place of the path's provider; one
\* that is not is passed over without a word.
Reroute(r) ==
    /\ req[r].at = "reroute" /\ Quiet(r)
    /\ \/ ByKey(req[r].row.src) = {} /\ To(r, [req[r] EXCEPT !.at = "send"])
       \/ \E id \in ByKey(req[r].row.src) : Ask(r, "count", id)

\* After its check a request goes on to the model (path) or to the provider.
Onward(r) == IF req[r].via = "path" /\ req[r].row = None THEN "model" ELSE "send"

\* CanAccessProvider: no list at all allows everything ...
CountAccess(r) ==
    /\ req[r].at = "count" /\ Quiet(r)
    /\ To(r, [req[r] EXCEPT !.at = IF access[req[r].user] = {} THEN Onward(r) ELSE "check"])

\* ... else the provider must be on it.
CheckAccess(r) ==
    /\ req[r].at = "check" /\ Quiet(r)
    /\ IF req[r].prov \in access[req[r].user]
       THEN To(r, [req[r] EXCEPT !.at = Onward(r)])
       ELSE Refuse(r)

\* The request goes out with what was read; a custom provider has no adapter
\* and no key, and is refused.
Send(r) ==
    /\ req[r].at = "send"
    /\ IF keyOf[req[r].prov] \in CustomKeys THEN Refuse(r)
       ELSE To(r, [req[r] EXCEPT !.at = "done", !.row = None])
    /\ UNCHANGED <<catalogue, edits, op, keyOf, routes, agreed>>

-----------------------------------------------------------------------------

\* Two real providers with the same model and a custom one made of the first.
Init ==
    /\ LET a == CHOOSE k \in RealKeys : TRUE
           b == CHOOSE k \in RealKeys : k # a
           c == CHOOSE k \in CustomKeys : TRUE
           m == CHOOSE n \in Models : TRUE
       IN /\ providers = <<[key |-> a, active |-> TRUE], [key |-> b, active |-> TRUE],
                           [key |-> c, active |-> TRUE]>>
          /\ rows = << [prov |-> 1, model |-> m, key |-> a, src |-> None, manual |-> FALSE, price |-> Zero],
                       [prov |-> 2, model |-> m, key |-> b, src |-> None, manual |-> TRUE, price |-> Zero],
                       [prov |-> 3, model |-> m, key |-> c, src |-> a, manual |-> FALSE, price |-> Zero] >>
          /\ keyOf = [id \in 0 .. MaxIds |->
                         CASE id = 1 -> a [] id = 2 -> b [] id = 3 -> c [] OTHER -> None]
          /\ routes = {<<a, m, None>>, <<b, m, None>>, <<c, m, a>>}
    /\ issued = [id |-> 3, row |-> 3]
    /\ access \in [Users -> Lists]
    /\ tx = NoTx
    /\ edits = 0
    /\ op = [s \in Sessions |-> NoOp]
    /\ req = [r \in Requests |-> NoReq]
    /\ usable = [r \in Requests |-> Nothing]
    /\ agreed = [x \in (1 .. MaxIds) \X Models |-> Zero]

AdminStep(s) ==
    \/ ImportLook(s) \/ ImportInsert(s)
    \/ UpdateWrite(s) \/ UpdateReplace(s) \/ DeleteProvider(s)
    \/ SyncFetch(s) \/ SyncType(s) \/ SyncBegin(s) \/ SyncInsert(s) \/ SyncCommit(s) \/ SyncFail(s)
    \/ CreateModelInsert(s) \/ EditModelWrite(s)

AdminBegin(s) ==
    \/ CreateProvider(s) \/ UpdateRead(s) \/ DeleteModels(s) \/ SetAccess(s)
    \/ SyncRead(s) \/ CreateModelRead(s) \/ EditModelRead(s) \/ DeleteModel(s)

RequestStep(r) ==
    \/ FindModel(r) \/ FindProvider(r)
    \/ PathProvider(r) \/ PathModel(r) \/ Reroute(r)
    \/ CountAccess(r) \/ CheckAccess(r) \/ Send(r)

Next ==
    \/ \E s \in Sessions : AdminBegin(s) \/ AdminStep(s)
    \/ \E r \in Requests : Arrive(r) \/ RequestStep(r)

Spec == Init /\ [][Next]_vars

\* Handlers run, a waiting statement gets the connection once it is free, and
\* the fetch of prices inside the transaction has a timeout.
FairSpec ==
    /\ Spec
    /\ WF_vars(\E s \in Sessions : AdminStep(s))
    /\ WF_vars(\E r \in Requests : RequestStep(r))

-----------------------------------------------------------------------------
(* Properties.                                                             *)

\* The variables have their types; at most one provider row has a key, and at
\* most one model row of a provider a name, whoever inserted it.
TypeOK ==
    /\ DOMAIN providers \subseteq 1 .. issued.id /\ DOMAIN rows \subseteq 1 .. issued.row
    /\ \A i, j \in DOMAIN providers : providers[i].key = providers[j].key => i = j
    /\ \A i, j \in DOMAIN rows :
          rows[i].prov = rows[j].prov /\ rows[i].model = rows[j].model => i = j
    /\ access \in [Users -> SUBSET (1 .. MaxIds)]
    /\ tx.by \in Sessions \cup {0}
    /\ edits \in 0 .. MaxEdits

Sent(r) == req[r].at = "done" /\ req[r].prov # 0

\* A request is only ever sent to a provider that was active, and that its
\* account was allowed to use, at some moment since the request came in -
\* also when a custom model leads to another provider, and whatever the
\* administrator changed between the four queries that decide it.
SentWhereAllowed ==
    \A r \in Requests : Sent(r) => req[r].prov \in usable[r].allowed \cap usable[r].active

\* The variables have their types, and a request for key/model reaches a
\* provider of that key, or of the key from which a custom provider of that key
\* once imported that model: neither a deleted provider whose key is used again
\* nor a list of sources that is replaced meanwhile leads it anywhere else.
SentAsNamed ==
    /\ TypeOK
    /\ \A r \in Requests : Sent(r) =>
        \/ keyOf[req[r].prov] = req[r].key
        \/ <<req[r].key, req[r].model, keyOf[req[r].prov]>> \in routes

\* A price the administrator has set holds as long as the model does: no sync
\* overwrites it ("never overwrite"), not one that runs at the same time, and
\* no other edit unless the two overlap.
PriceKept ==
    Free => \A x \in DOMAIN agreed : agreed[x] = Own =>
        \E r \in RowFor(x[1], x[2]) : rows[r].price = Own

\* Every request is answered: none waits for ever for the one connection,
\* which a sync gives back on every way out of its transaction.
RequestsEnd == \A r \in Requests : req[r].at # "new" ~> req[r].at = "done"

=============================================================================
