----------------------------- MODULE Migrations -----------------------------
(***************************************************************************)
(* Server processes that open the database file: runMigrations brings it,  *)
(* version by version, from what an earlier release left to the schema the *)
(* services need.  A version is one transaction: its statements and the    *)
(* record of its number are committed together or not at all.              *)
(*                                                                         *)
(* A process may be stopped anywhere and started again, a statement may    *)
(* fail, and two processes may meet on one file: SQLite lets one of them   *)
(* write at a time, but the version a process has read is not read again.  *)
(***************************************************************************)
EXTENDS Naturals, Sequences, FiniteSets, SequencesExt

CONSTANTS
    Processes,
    NewId,       \* bound: the one provider that is inserted and changed while serving
    None,
    MaxStarts    \* bound: processes started

\* The providers an earlier release may leave: with a key of their own or
\* without, the flag that version 9 adds, and rows of keys.
Kinds == BOOLEAN \X {"unset", "shown", "hidden", "null"} \X (0 .. 2)

ASSUME MigrationsAssumption ==
    /\ Processes # {} /\ None \notin Processes
    /\ NewId \notin Kinds
    /\ MaxStarts \in Nat

VARIABLES
    file,        \* the database as committed
    lock,        \* the process that may write, or None
    tx,          \* what its transaction has made of the file
    proc,        \* process -> [at, todo, next]
    starts,      \* processes started (bound)
    origin       \* history: the file as the earlier release left it

vars == <<file, lock, tx, proc, starts, origin>>

(* A database: the rows of schema_migrations; per table the columns that   *)
(* come and go ("custom": the type that the CHECK of version 10 allows);   *)
(* the indexes as <<table, column>>; and the data that migrations move:    *)
(* the rows of providers, those copied to the table that is to replace it, *)
(* the number of keys of each provider, and the usage logs.                *)
(* Failed stands for a statement that returned an error.                   *)
Empty == [ok |-> TRUE, versions |-> {}, tables |-> <<>>, indexes |-> {},
          rows |-> <<>>, copied |-> <<>>, keys |-> <<>>, logs |-> <<>>]
Failed == [Empty EXCEPT !.ok = FALSE]
Off == [at |-> "off", todo |-> 1, next |-> 1]

-----------------------------------------------------------------------------
(* Statements.                                                             *)

Put(f, x, y) == [z \in DOMAIN f \cup {x} |-> IF z = x THEN y ELSE f[z]]
Without(f, x) == [z \in DOMAIN f \ {x} |-> f[z]]

CreateIfNone(d, t, columns) ==
    IF t \in DOMAIN d.tables THEN d ELSE [d EXCEPT !.tables = Put(@, t, columns)]

CreateNew(d, t, columns) ==
    IF t \in DOMAIN d.tables THEN Failed ELSE CreateIfNone(d, t, columns)

\* A new column of the providers has its default in every row.
Defaults(d, c) ==
    [i \in DOMAIN d.rows |->
        CASE c = "show_in_model_list" -> [d.rows[i] EXCEPT !.flag = "shown"]
          [] OTHER -> d.rows[i]]

AddColumn(d, t, c) ==
    CASE t \notin DOMAIN d.tables -> Failed
      [] t \in DOMAIN d.tables /\ c \in d.tables[t] -> d
      [] OTHER -> [d EXCEPT !.tables[t] = @ \cup {c},
                            !.rows = IF t = "providers" THEN Defaults(d, c) ELSE @]

CreateIndex(d, t, columns) ==
    IF t \in DOMAIN d.tables /\ columns \subseteq d.tables[t]
    THEN [d EXCEPT !.indexes = @ \cup {<<t, columns>>}] ELSE Failed

\* What INSERT INTO providers_v10 ... SELECT ... FROM providers has selected.
Fill(d, selected) ==
    IF {"providers", "providers_v10"} \subseteq DOMAIN d.tables
    THEN [d EXCEPT !.copied = selected] ELSE Failed

\* Variant: the flag is not among the columns that are copied.
CopyRowsPlain(d) ==
    Fill(d, [i \in DOMAIN d.rows |-> [d.rows[i] EXCEPT !.flag = "shown"]])

\* Every column is, and a missing flag becomes 1.
CopyRows(d) ==
    Fill(d, [i \in DOMAIN d.rows |->
                [d.rows[i] EXCEPT !.flag = IF @ = "null" THEN "shown" ELSE @]])

\* A table goes with its rows and its indexes.
DropTable(d, t) ==
    IF t \in DOMAIN d.tables
    THEN [d EXCEPT !.tables = Without(@, t), !.indexes = {x \in @ : x[1] # t},
                   !.rows = IF t = "providers" THEN <<>> ELSE @]
    ELSE Failed

\* What was copied to the new table are now the providers.
RenameTable(d, from, to) ==
    IF from \in DOMAIN d.tables /\ to \notin DOMAIN d.tables
    THEN [d EXCEPT !.tables = Put(Without(@, from), to, @[from]),
                   !.rows = IF to = "providers" THEN d.copied ELSE @,
                   !.copied = <<>>]
    ELSE Failed

\* usage_logs rows get the creator of their key, unless they have an owner.
OwnLogs(d, unowned) ==
    [d EXCEPT !.logs = [l \in DOMAIN @ |->
        IF @[l].owner \in unowned /\ @[l].creator # None
        THEN [@[l] EXCEPT !.owner = d.logs[l].creator] ELSE @[l]]]

\* Variant: a provider that has rows gets its first key once more.
CarryKeysAgain(d) ==
    [d EXCEPT !.keys = [i \in DOMAIN d.rows |->
        IF d.rows[i].legacy THEN d.keys[i] + 1 ELSE d.keys[i]]]

CarryKeys(d) ==
    [d EXCEPT !.keys = [i \in DOMAIN d.rows |->
        IF d.rows[i].legacy /\ d.keys[i] = 0 THEN 1 ELSE d.keys[i]]]

Exec(d, s) ==
    IF ~d.ok THEN d ELSE
    CASE s[1] = "create" -> CreateIfNone(d, s[2], s[3])
      [] s[1] = "new"    -> CreateNew(d, s[2], s[3])
      [] s[1] = "column" -> AddColumn(d, s[2], s[3])
      [] s[1] = "index"  -> CreateIndex(d, s[2], s[3])
      [] s[1] = "copy"   -> CopyRows(d)
      [] s[1] = "drop"   -> DropTable(d, s[2])
      [] s[1] = "rename" -> RenameTable(d, s[2], s[3])
      [] s[1] = "own"    -> OwnLogs(d, s[2])
      [] s[1] = "carry"  -> CarryKeys(d)

-----------------------------------------------------------------------------
(* The versions.                                                           *)

FirstTables(early) == <<
    <<"create", "users", {"email"} \ early>>,
    <<"create", "providers", {"user_id"} \ early>>,
    <<"create", "models", {"provider_key", "user_id"}>>,
    <<"create", "api_keys", {}>>,
    <<"create", "usage_logs", {"api_key_id", "created_at", "provider_id", "user_id"}>> >>

V1 == FirstTables({}) \o <<
    <<"index", "models", {"provider_key"}>>, <<"index", "usage_logs", {"api_key_id"}>>,
    <<"index", "usage_logs", {"created_at"}>>, <<"index", "usage_logs", {"provider_id"}>>,
    <<"index", "providers", {"user_id"}>>, <<"index", "models", {"user_id"}>>,
    <<"index", "usage_logs", {"user_id"}>> >>
V2 == <<>>  \* runMigrations has made schema_migrations
V3 == << <<"column", "users", "email">>, <<"index", "users", {"email"}>> >>
V4 == << <<"column", "providers", "user_id">>, <<"index", "providers", {"user_id"}>> >>
V5 == << <<"own", {"null"}>> >>
V6 == << <<"own", {"null", "zero"}>> >>
V7 == << <<"column", "api_keys", "total_token_limit">> >>
V8 == << <<"column", "models", "source_provider_key">> >>
V9 == << <<"column", "providers", "show_in_model_list">> >>
V10 == <<
    <<"new", "providers_v10", {"user_id", "show_in_model_list", "custom"}>>,
    <<"copy">>, <<"drop", "providers">>, <<"rename", "providers_v10", "providers">> >>
V11 == << <<"create", "password_reset_codes", {}>>, <<"create", "user_providers", {}>> >>
V12 == << <<"create", "provider_endpoints", {"provider_id"}>>,
          <<"index", "provider_endpoints", {"provider_id"}>> >>
V13 == << <<"column", "usage_logs", "ttft_ms">>, <<"index", "usage_logs", {"ttft_ms"}>>,
          <<"index", "usage_logs", {"user_id", "created_at", "provider_id"}>> >>
ensureProviderAPIKeys ==
    << <<"create", "provider_api_keys", {"provider_id"}>>,
       <<"index", "provider_api_keys", {"provider_id"}>>, <<"carry">> >>
V18 == << <<"column", "users", "totp_secret_encrypted">>,
          <<"column", "users", "totp_enabled">>, <<"create", "recovery_codes", {}>> >>

migrations ==
    << [version |-> 1, up |-> V1], [version |-> 2, up |-> V2], [version |-> 3, up |-> V3],
       [version |-> 4, up |-> V4], [version |-> 5, up |-> V5], [version |-> 6, up |-> V6],
       [version |-> 7, up |-> V7], [version |-> 8, up |-> V8], [version |-> 9, up |-> V9],
       [version |-> 10, up |-> V10], [version |-> 11, up |-> V11], [version |-> 12, up |-> V12],
       [version |-> 13, up |-> V13], [version |-> 14, up |-> ensureProviderAPIKeys],
       [version |-> 17, up |-> ensureProviderAPIKeys], [version |-> 18, up |-> V18] >>

\* Variant: INSERT OR IGNORE.
RecordOrIgnore(d, v) == [d EXCEPT !.versions = @ \cup {v}]

\* INSERT INTO schema_migrations: version is its primary key.
Record(d, v) == IF ~d.ok \/ v \in d.versions THEN Failed ELSE [d EXCEPT !.versions = @ \cup {v}]

currentVersion(d) == CHOOSE v \in {0} \cup d.versions : \A w \in d.versions : w <= v

\* The loop passes over the versions up to the one it has read: the list is in
\* their order.
Passed(d) == Cardinality({i \in DOMAIN migrations : migrations[i].version <= currentVersion(d)})

\* What an undisturbed run makes of a database.
Apply(d, m) == Record(FoldLeft(Exec, d, m.up), m.version)
Migrated(d) == FoldLeft(Apply, d, SubSeq(migrations, Passed(d) + 1, Len(migrations)))

-----------------------------------------------------------------------------
(* What earlier releases leave: a prefix of the list; a file whose first   *)
(* version did not have the columns that versions 3 and 4 look for; and    *)
(* files that record 14 to 16, with and without the table of the keys.     *)

Left(k) == FoldLeft(Apply, Empty, SubSeq(migrations, 1, k))
Early == [FoldLeft(Exec, Empty, FirstTables({"email", "user_id"})) EXCEPT !.versions = {1, 2}]
Later(d) == [d EXCEPT !.versions = @ \cup {14, 15, 16}]
Schemas == {Left(k) : k \in 0 .. Len(migrations)} \cup {Early, Later(Left(13)), Later(Left(14))}

Flags(d) == IF "show_in_model_list" \in d.tables["providers"]
            THEN {"shown", "hidden", "null"} ELSE {"unset"}
Rows(d) == IF "provider_api_keys" \in DOMAIN d.tables THEN 0 .. 2 ELSE {0}

\* One provider of every kind -- with a key of its own or without, with up to
\* two rows of keys once there is a table for them -- and one usage log of every
\* kind, of a key that has a creator or not.
Filled(d) ==
    IF "providers" \notin DOMAIN d.tables THEN d
    ELSE LET kinds == BOOLEAN \X Flags(d) \X Rows(d)
             owners == {"null", "zero", "owner"} \X {"creator", None}
         IN [d EXCEPT !.rows = [k \in kinds |-> [legacy |-> k[1], flag |-> k[2]]],
                      !.keys = [k \in kinds |-> k[3]],
                      !.logs = [o \in owners |-> [owner |-> o[1], creator |-> o[2]]]]

Init ==
    /\ file \in {Filled(d) : d \in Schemas}
    /\ lock = None
    /\ tx = Empty
    /\ proc = [p \in Processes |-> Off]
    /\ starts = 0
    /\ origin = file

-----------------------------------------------------------------------------
(* A process.                                                              *)

Goto(p, at) == proc' = [proc EXCEPT ![p].at = at]
Serving(p) == proc[p].at = "serving"

\* config.Load and sql.Open touch no file yet; CREATE TABLE IF NOT EXISTS
\* schema_migrations does not change what is recorded.
Start(p) ==
    /\ proc[p].at = "off" /\ starts < MaxStarts
    /\ starts' = starts + 1
    /\ proc' = [proc EXCEPT ![p] = [Off EXCEPT !.at = "open"]]
    /\ UNCHANGED <<file, lock, tx, origin>>

\* The version is read once.
ReadVersion(p) ==
    /\ proc[p].at = "open"
    /\ proc' = [proc EXCEPT ![p].at = "loop", ![p].todo = Passed(file) + 1]
    /\ UNCHANGED <<file, lock, tx, starts, origin>>

Begin(p) ==
    /\ proc[p].at = "loop" /\ proc[p].todo <= Len(migrations)
    /\ lock = None
    /\ lock' = p /\ tx' = file
    /\ proc' = [proc EXCEPT ![p].at = "up", ![p].next = 1]
    /\ UNCHANGED <<file, starts, origin>>

Statements(p) == migrations[proc[p].todo].up

Up(p) ==
    /\ proc[p].at = "up" /\ proc[p].next <= Len(Statements(p))
    /\ Exec(tx, Statements(p)[proc[p].next]).ok
    /\ tx' = Exec(tx, Statements(p)[proc[p].next])
    /\ proc' = [proc EXCEPT ![p].next = @ + 1]
    /\ UNCHANGED <<file, lock, starts, origin>>

RecordVersion(p) ==
    /\ proc[p].at = "up" /\ proc[p].next > Len(Statements(p))
    /\ Record(tx, migrations[proc[p].todo].version).ok
    /\ tx' = Record(tx, migrations[proc[p].todo].version)
    /\ Goto(p, "commit")
    /\ UNCHANGED <<file, lock, starts, origin>>

Commit(p) ==
    /\ proc[p].at = "commit"
    /\ file' = tx /\ lock' = None /\ tx' = Empty
    /\ proc' = [proc EXCEPT ![p].at = "loop", ![p].todo = @ + 1]
    /\ UNCHANGED <<starts, origin>>

Migrate(p) ==
    /\ proc[p].at = "loop" /\ proc[p].todo > Len(migrations)
    /\ Goto(p, "serving")
    /\ UNCHANGED <<file, lock, tx, starts, origin>>

\* Variant: a version whose statements are not in a transaction.
StopHalfway(p) ==
    /\ proc[p].at # "off"
    /\ file' = IF lock = p THEN tx ELSE file
    /\ lock' = IF lock = p THEN None ELSE lock
    /\ tx' = IF lock = p THEN Empty ELSE tx
    /\ proc' = [proc EXCEPT ![p] = Off]
    /\ UNCHANGED <<starts, origin>>

\* A statement returns an error, also because the other process holds the
\* lock or has recorded the version: the transaction is rolled back and main
\* ends.  A signal or a crash, while migrating or serving, does the same.
Stop(p) ==
    /\ proc[p].at # "off"
    /\ lock' = IF lock = p THEN None ELSE lock
    /\ tx' = IF lock = p THEN Empty ELSE tx
    /\ proc' = [proc EXCEPT ![p] = Off]
    /\ UNCHANGED <<file, starts, origin>>

\* ProviderService.Create: the provider, then its key in a second statement.
CreateProvider(p) ==
    /\ Serving(p) /\ lock = None /\ NewId \notin DOMAIN file.rows
    /\ file' = [file EXCEPT !.rows = Put(@, NewId, [legacy |-> TRUE, flag |-> "shown"]),
                            !.keys = Put(@, NewId, 0)]
    /\ UNCHANGED <<lock, tx, proc, starts, origin>>

\* AddKey and the second half of Create; DeleteKey.
ChangeKeys(p, n) ==
    /\ Serving(p) /\ lock = None /\ NewId \in DOMAIN file.rows
    /\ n \in {file.keys[NewId] + 1, file.keys[NewId] - 1} \cap (0 .. 2)
    /\ file' = [file EXCEPT !.keys[NewId] = n]
    /\ UNCHANGED <<lock, tx, proc, starts, origin>>

Next ==
    \E p \in Processes :
        \/ Start(p) \/ ReadVersion(p) \/ Begin(p) \/ Up(p)
        \/ RecordVersion(p) \/ Commit(p) \/ Migrate(p) \/ Stop(p)
        \/ CreateProvider(p)
        \/ \E n \in 0 .. 2 : ChangeKeys(p, n)

Spec == Init /\ [][Next]_vars

-----------------------------------------------------------------------------
(* Properties.                                                             *)

TypeOK ==
    /\ file.ok /\ tx.ok /\ file.versions \subseteq 1 .. 18
    /\ lock \in Processes \cup {None}
    /\ \A p \in Processes :
        /\ proc[p].at \in {"off", "open", "loop", "up", "commit", "serving"}
        /\ lock = p <=> proc[p].at \in {"up", "commit"}
    /\ starts \in 0 .. MaxStarts

\* The columns that the statements of the services name, beyond those of the
\* first release, by table.
Needed(t) ==
    CASE t = "users" -> {"email", "totp_secret_encrypted", "totp_enabled"}
      [] t = "providers" -> {"user_id", "show_in_model_list", "custom"}
      [] t = "models" -> {"source_provider_key"}
      [] t = "api_keys" -> {"total_token_limit"}
      [] t = "usage_logs" -> {"ttft_ms"}
      [] OTHER -> {}
Tables == {"users", "providers", "models", "api_keys", "usage_logs", "user_providers",
           "password_reset_codes", "provider_endpoints", "provider_api_keys", "recovery_codes"}
Complete(d) ==
    d.ok /\ \A t \in Tables : t \in DOMAIN d.tables /\ Needed(t) \subseteq d.tables[t]

(* Whatever the file has been through -- any earlier release, processes    *)
(* stopped between any two statements, two of them at once -- a process    *)
(* that starts on it and is left alone brings it to the full schema, and a *)
(* process that serves has it.                                             *)
Resumable ==
    /\ TypeOK
    /\ Complete(Migrated(file))
    /\ \A p \in Processes : Serving(p) => Complete(file)

(* A provider with a key of its own and no row for it gets one copy, and   *)
(* never a second: versions 14 and 17 do the same, some files have seen    *)
(* only one of them, and an interrupted one is done again.                 *)
KeysCarriedOnce ==
    \A i \in DOMAIN origin.rows :
        file.keys[i] =
            IF /\ {14, 17} \cap (file.versions \ origin.versions) # {}
               /\ origin.rows[i].legacy /\ origin.keys[i] = 0
            THEN 1 ELSE origin.keys[i]

(* No provider is lost by the table that version 10 rebuilds, nor its      *)
(* choice to be listed; a usage log keeps the owner it has, and has the    *)
(* creator of its key when it had none.                                    *)
NothingLost ==
    /\ \A i \in DOMAIN origin.rows :
        /\ i \in DOMAIN file.rows
        /\ origin.rows[i].legacy = file.rows[i].legacy
        /\ (origin.rows[i].flag = "hidden") = (file.rows[i].flag = "hidden")
    /\ \A l \in DOMAIN origin.logs :
        file.logs[l].owner =
            IF /\ origin.logs[l].owner # "owner" /\ origin.logs[l].creator # None
               /\ \/ 6 \in file.versions \ origin.versions
                  \/ 5 \in file.versions \ origin.versions /\ origin.logs[l].owner = "null"
            THEN "creator" ELSE origin.logs[l].owner

(* While a process serves, no other one changes the schema or migrates the *)
(* keys under it: what it read as the version may be old, but then it      *)
(* meets a version that is recorded.                                       *)
ServedUntouched ==
    [][(\E p \in Processes : Serving(p)) =>
        /\ file'.versions = file.versions /\ file'.tables = file.tables
        /\ \A p \in Processes : ~Commit(p)]_vars
=============================================================================
