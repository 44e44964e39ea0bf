--------------------------- MODULE MigrationsProofs ---------------------------
(***************************************************************************)
(* What is proved of the migrations, for any number of processes: every    *)
(* file is completed, a provider's own key is carried once, the data of    *)
(* the earlier release is kept, and no one migrates under a server.        *)
(*                                                                         *)
(* The argument has three parts.  What every statement makes of a database *)
(* is a lemma about Exec, and what a fold over statements or versions does *)
(* is a chain of steps (Steps).  A database is Good when it is between two *)
(* versions: what is recorded is closed downwards, and every recorded      *)
(* version has left the columns that it owes (Level).  A version whose     *)
(* turn it is takes a Good database to a Good one and changes the data as  *)
(* Effect says; so a run from any of them ends with the full schema.       *)
(* Inv then says of the processes that the file is Good, that its data is  *)
(* what became of the origin's (Since), and that a version about to be     *)
(* committed is one whose turn it is, whoever else has migrated meanwhile. *)
(***************************************************************************)
EXTENDS Migrations, FiniteSetTheorems, WellFoundedInduction, TLAPS

\* A set of natural numbers has a least element.
LEMMA Least ==
  ASSUME NEW T \in SUBSET Nat, T # {}
  PROVE  \E n \in T : \A m \in T : n <= m
<1> DEFINE R == OpToRel(<, Nat)
<1>1. IsWellFoundedOn(R, Nat)
  BY NatLessThanWellFounded
<1>2. \A m, n \in Nat : <<m, n>> \in R <=> m < n
  BY DEF OpToRel
<1> HIDE DEF R
<1>3. PICK n \in T : \A y \in T : ~ (<<y, n>> \in R)
  BY <1>1, WFMin
<1>4. ASSUME NEW m \in T PROVE n <= m
  <2>1. m \in Nat /\ n \in Nat
    OBVIOUS
  <2>2. ~ (m < n)
    BY <1>2, <1>3, <2>1
  <2> QED
    BY <2>1, <2>2
<1> QED
  BY <1>4

\* So a set that holds 0 and, with a number, the next one holds them all.
LEMMA Induct ==
  ASSUME NEW T, 0 \in T, \A n \in Nat : n \in T => n + 1 \in T
  PROVE  Nat \subseteq T
<1> DEFINE B == Nat \ T
<1> SUFFICES ASSUME B # {} PROVE FALSE
  OBVIOUS
<1>1. PICK n \in B : \A m \in B : n <= m
  BY Least
<1>2. n # 0 /\ n - 1 \in Nat
  BY <1>1
<1>3. n - 1 \notin B
  BY <1>1, <1>2
<1> QED
  BY <1>1, <1>2, <1>3

\* The maximum FoldLeft picks its next index by.
LEMMA MaxIsMember ==
  ASSUME NEW n \in Nat, NEW S \in SUBSET (1..n), S # {}
  PROVE  Max(S) \in S /\ \A m \in S : m <= Max(S)
<1> DEFINE T == {n - m : m \in S}
<1>0. ASSUME NEW m \in S PROVE m \in Nat /\ n - m \in Nat
  <2>1. m \in 1..n
    OBVIOUS
  <2> QED
    BY <2>1
<1>1. T \in SUBSET Nat /\ T # {}
  BY <1>0
<1>2. PICK k \in T : \A j \in T : k <= j
  BY <1>1, Least
<1>3. PICK x \in S : k = n - x
  OBVIOUS
<1>4. ASSUME NEW y \in S PROVE x >= y
  <2>1. n - y \in T
    OBVIOUS
  <2>2. n - x <= n - y
    BY <1>2, <1>3, <2>1
  <2> QED
    BY <1>0, <2>2
<1>5. \E z \in S : \A y \in S : z >= y
  BY <1>4
<1>6. Max(S) \in S /\ \A y \in S : Max(S) >= y
  BY <1>5 DEF Max
<1> QED
  BY <1>6

\* It is the only upper bound inside the set.
LEMMA MaxIs ==
  ASSUME NEW n \in Nat, NEW S \in SUBSET (1..n), NEW x \in S, \A m \in S : m <= x
  PROVE  Max(S) = x
<1>1. Max(S) \in S /\ \A m \in S : m <= Max(S)
  BY MaxIsMember
<1>2. Max(S) \in 1..n /\ x \in 1..n
  BY <1>1
<1>3. x <= Max(S) /\ Max(S) <= x
  BY <1>1
<1> QED
  BY <1>2, <1>3

\* What is folded: a statement is executed, or a version applied.
Step(kind, d, x) == IF kind = "exec" THEN Exec(d, x) ELSE Apply(d, x)

\* f is the table behind FoldLeft: what is made of d by the steps of every set of indices.
FoldTable(kind, d, h, n, f) ==
    \A S \in SUBSET (1..n) :
        f[S] = IF S = {} THEN d ELSE Step(kind, f[S \ {Max(S)}], h[Max(S)])

\* A table of n steps extends to n + 1,
LEMMA FoldTableMore ==
  ASSUME NEW kind, NEW d, NEW h, NEW n \in Nat, NEW f, FoldTable(kind, d, h, n, f)
  PROVE  \E g : g = [S \in SUBSET (1..(n + 1)) |-> g[S]] /\ FoldTable(kind, d, h, n + 1, g)
<1> DEFINE g == [S \in SUBSET (1..(n + 1)) |->
                   IF n + 1 \in S THEN Step(kind, f[S \ {n + 1}], h[n + 1]) ELSE f[S]]
<1>1. ASSUME NEW S \in SUBSET (1..(n + 1))
      PROVE  g[S] = IF S = {} THEN d ELSE Step(kind, g[S \ {Max(S)}], h[Max(S)])
  <2>1. CASE n + 1 \in S
    <3>1. Max(S) = n + 1
      BY <2>1, MaxIs
    <3>2. S \ {n + 1} \in SUBSET (1..(n + 1)) /\ n + 1 \notin S \ {n + 1} /\ S # {}
      BY <2>1
    <3>3. g[S \ {n + 1}] = f[S \ {n + 1}]
      BY <3>2
    <3>4. g[S] = Step(kind, f[S \ {n + 1}], h[n + 1])
      BY <2>1
    <3> QED
      BY <3>1, <3>2, <3>3, <3>4
  <2>2. CASE n + 1 \notin S
    <3>1. S \in SUBSET (1..n)
      <4>1. ASSUME NEW m \in S PROVE m \in 1..n
        BY <2>2
      <4> QED
        BY <4>1
    <3>2. /\ S \ {Max(S)} \in SUBSET (1..(n + 1))
          /\ n + 1 \notin S \ {Max(S)}
      BY <2>2
    <3>3. g[S] = f[S] /\ g[S \ {Max(S)}] = f[S \ {Max(S)}]
      BY <2>2, <3>2
    <3> QED
      BY <3>1, <3>3 DEF FoldTable
  <2> QED
    BY <2>1, <2>2
<1>2. FoldTable(kind, d, h, n + 1, g)
  BY <1>1 DEF FoldTable
<1>3. g = [S \in SUBSET (1..(n + 1)) |-> g[S]]
  OBVIOUS
<1> QED
  BY <1>2, <1>3

\* so there is one of any size.
LEMMA FoldTableExists ==
  ASSUME NEW kind, NEW d, NEW h, NEW n \in Nat
  PROVE  \E g : g = [S \in SUBSET (1..n) |-> g[S]] /\ FoldTable(kind, d, h, n, g)
<1> DEFINE P(k) == \E g : g = [S \in SUBSET (1..k) |-> g[S]] /\ FoldTable(kind, d, h, k, g)
           T == {k \in Nat : P(k)}
<1>1. 0 \in T
  <2> DEFINE g == [S \in SUBSET (1..0) |-> d]
  <2>1. SUBSET (1..0) = {{}}
    BY SMT
  <2>2. FoldTable(kind, d, h, 0, g)
    BY <2>1 DEF FoldTable
  <2>3. g = [S \in SUBSET (1..0) |-> g[S]]
    OBVIOUS
  <2>4. P(0)
    BY <2>2, <2>3
  <2> QED
    BY <2>4
<1>2. ASSUME NEW k \in Nat, k \in T PROVE k + 1 \in T
  <2>1. P(k)
    BY <1>2
  <2>2. PICK g : FoldTable(kind, d, h, k, g)
    BY <2>1
  <2>3. P(k + 1)
    BY <2>2, FoldTableMore
  <2> QED
    BY <2>3
<1> HIDE DEF T
<1>3. n \in T
  BY <1>1, <1>2, Induct
<1> QED
  BY <1>3 DEF T

\* r are the n steps from d over h, one after the other.
Steps(kind, r, d, h, n) ==
    /\ r[0] = d
    /\ \A i \in 1..n : r[i] = Step(kind, r[i - 1], h[i])

\* A table has the steps in it.
LEMMA TableSteps ==
  ASSUME NEW kind, NEW d, NEW h, NEW n \in Nat, NEW f, FoldTable(kind, d, h, n, f)
  PROVE  \E r : Steps(kind, r, d, h, n) /\ r[n] = f[1..n]
<1> DEFINE r == [i \in 0..n |-> f[1..i]]
<1>1. r[0] = d
  <2>1. 1..0 = {} /\ 0 \in 0..n
    OBVIOUS
  <2> QED
    BY <2>1 DEF FoldTable
<1>2. ASSUME NEW i \in 1..n PROVE r[i] = Step(kind, r[i - 1], h[i])
  <2> DEFINE S == 1..i
             j == i - 1
  <2>1. /\ S \in SUBSET (1..n) /\ i \in S /\ \A m \in S : m <= i
        /\ S \ {i} = 1..j /\ j \in 0..n /\ i \in 0..n
    OBVIOUS
  <2>2. r[i] = f[S] /\ r[j] = f[1..j]
    BY <2>1
  <2> HIDE DEF S, j, r
  <2>3. Max(S) = i
    BY <2>1, MaxIs
  <2>4. f[S] = Step(kind, f[1..j], h[i])
    BY <2>1, <2>3 DEF FoldTable
  <2> QED
    BY <2>2, <2>4 DEF j
<1>3. r[n] = f[1..n]
  OBVIOUS
<1> HIDE DEF r
<1> QED
  BY <1>1, <1>2, <1>3 DEF Steps

\* Executing statements by FoldLeft is executing them one after the other,
LEMMA ExecSteps ==
  ASSUME NEW d, NEW h, NEW n \in Nat, DOMAIN h = 1..n
  PROVE  \E r : Steps("exec", r, d, h, n) /\ FoldLeft(Exec, d, h) = r[n]
<1> DEFINE F(g) == g = [X \in SUBSET (1..n) |->
                          IF X = {} THEN d ELSE Exec(g[X \ {Max(X)}], h[Max(X)])]
           f == CHOOSE g : F(g)
<1>1. PICK g : g = [X \in SUBSET (1..n) |-> g[X]] /\ FoldTable("exec", d, h, n, g)
  BY FoldTableExists
<1>2. F(g)
  BY <1>1 DEF FoldTable, Step
<1>3. F(f)
  BY <1>2
<1>4. FoldLeft(Exec, d, h) = f[1..n]
  BY DEF FoldLeft, MapThenFoldSet
<1> HIDE DEF f
<1>5. FoldTable("exec", d, h, n, f)
  BY <1>3 DEF FoldTable, Step
<1> QED
  BY <1>4, <1>5, TableSteps

\* and so it is with versions.
LEMMA ApplySteps ==
  ASSUME NEW d, NEW h, NEW n \in Nat, DOMAIN h = 1..n
  PROVE  \E r : Steps("apply", r, d, h, n) /\ FoldLeft(Apply, d, h) = r[n]
<1> DEFINE F(g) == g = [X \in SUBSET (1..n) |->
                          IF X = {} THEN d ELSE Apply(g[X \ {Max(X)}], h[Max(X)])]
           f == CHOOSE g : F(g)
<1>1. PICK g : g = [X \in SUBSET (1..n) |-> g[X]] /\ FoldTable("apply", d, h, n, g)
  BY FoldTableExists
<1>2. F(g)
  BY <1>1 DEF FoldTable, Step
<1>3. F(f)
  BY <1>2
<1>4. FoldLeft(Apply, d, h) = f[1..n]
  BY DEF FoldLeft, MapThenFoldSet
<1> HIDE DEF f
<1>5. FoldTable("apply", d, h, n, f)
  BY <1>3 DEF FoldTable, Step
<1> QED
  BY <1>4, <1>5, TableSteps

-----------------------------------------------------------------------------
(* What each statement makes of a database.                                 *)

Fields == {"ok", "versions", "tables", "indexes", "rows", "copied", "keys", "logs"}

\* A database that no statement has failed on.
Db(d) == DOMAIN d = Fields /\ d.ok

\* e is one, with the same recorded versions, and the same data,
Kept(d, e) == Db(e) /\ e.versions = d.versions
SameData(d, e) == e.rows = d.rows /\ e.keys = d.keys /\ e.logs = d.logs

Has(d, t, C) == t \in DOMAIN d.tables /\ C \subseteq d.tables[t]

\* and no table or column gone.
Grown(d, e) ==
    \A t \in DOMAIN d.tables : t \in DOMAIN e.tables /\ d.tables[t] \subseteq e.tables[t]

\* CREATE TABLE IF NOT EXISTS.
LEMMA ExecCreate ==
  ASSUME NEW d, Db(d), NEW t, NEW C
  PROVE  LET e == Exec(d, <<"create", t, C>>)
         IN /\ Kept(d, e) /\ SameData(d, e) /\ Grown(d, e)
            /\ DOMAIN e.tables = DOMAIN d.tables \cup {t}
            /\ t \in DOMAIN d.tables => e.tables[t] = d.tables[t]
            /\ t \notin DOMAIN d.tables => e.tables[t] = C
<1> DEFINE e == Exec(d, <<"create", t, C>>)
<1>1. e = CreateIfNone(d, t, C)
  BY DEF Exec, Db
<1>2. CASE t \in DOMAIN d.tables
  <2>1. e = d
    BY <1>1, <1>2 DEF CreateIfNone
  <2> QED
    BY <1>2, <2>1 DEF Kept, SameData, Grown
<1>3. CASE t \notin DOMAIN d.tables
  <2>1. e = [d EXCEPT !.tables = Put(@, t, C)]
    BY <1>1, <1>3 DEF CreateIfNone
  <2> HIDE DEF e
  <2>2. e.tables = Put(d.tables, t, C) /\ Kept(d, e) /\ SameData(d, e)
    BY <2>1 DEF Db, Fields, Kept, SameData
  <2> QED
    BY <1>3, <2>2 DEF Put, Grown, e
<1> QED
  BY <1>2, <1>3

\* A table that is new leaves the others as they are.
LEMMA CreateNone ==
  ASSUME NEW d, Db(d), NEW t, t \notin DOMAIN d.tables, NEW C
  PROVE  LET e == Exec(d, <<"create", t, C>>)
         IN /\ Kept(d, e) /\ SameData(d, e)
            /\ DOMAIN e.tables = DOMAIN d.tables \cup {t} /\ e.tables[t] = C
            /\ \A x \in DOMAIN d.tables : e.tables[x] = d.tables[x]
<1> DEFINE e == Exec(d, <<"create", t, C>>)
<1>1. e = [d EXCEPT !.tables = Put(@, t, C)]
  BY DEF Exec, Db, CreateIfNone
<1> HIDE DEF e
<1>2. e.tables = Put(d.tables, t, C) /\ Kept(d, e) /\ SameData(d, e)
  BY <1>1 DEF Db, Fields, Kept, SameData
<1>3. /\ DOMAIN e.tables = DOMAIN d.tables \cup {t} /\ e.tables[t] = C
      /\ \A x \in DOMAIN d.tables : e.tables[x] = d.tables[x]
  BY <1>2 DEF Put
<1> QED
  BY <1>2, <1>3 DEF e

\* ALTER TABLE ... ADD COLUMN, unless the table has it.
LEMMA ExecColumn ==
  ASSUME NEW d, Db(d), NEW t, t \in DOMAIN d.tables, NEW c
  PROVE  LET e == Exec(d, <<"column", t, c>>)
         IN /\ Kept(d, e) /\ Grown(d, e) /\ Has(e, t, {c})
            /\ e.keys = d.keys /\ e.logs = d.logs
            /\ DOMAIN e.tables = DOMAIN d.tables
            /\ t # "providers" => e.rows = d.rows
            /\ e.rows = d.rows \/ (e.rows = Defaults(d, c) /\ c \notin d.tables[t])
<1> DEFINE e == Exec(d, <<"column", t, c>>)
<1> SUFFICES /\ Kept(d, e) /\ Grown(d, e) /\ Has(e, t, {c})
             /\ e.keys = d.keys /\ e.logs = d.logs
             /\ DOMAIN e.tables = DOMAIN d.tables
             /\ t # "providers" => e.rows = d.rows
             /\ e.rows = d.rows \/ (e.rows = Defaults(d, c) /\ c \notin d.tables[t])
  OBVIOUS
<1>1. e = AddColumn(d, t, c)
  BY DEF Exec, Db
<1>2. CASE c \in d.tables[t]
  <2>1. e = d
    BY <1>1, <1>2 DEF AddColumn
  <2> HIDE DEF e
  <2> QED
    BY <1>2, <2>1 DEF Kept, Grown, Has
<1>3. CASE c \notin d.tables[t]
  <2> DEFINE T == [d.tables EXCEPT ![t] = @ \cup {c}]
             R == IF t = "providers" THEN Defaults(d, c) ELSE d.rows
  <2>1. e = [d EXCEPT !.tables = T, !.rows = R]
    BY <1>1, <1>3 DEF AddColumn
  <2> HIDE DEF e
  <2>2. DOMAIN T = DOMAIN d.tables /\ T[t] = d.tables[t] \cup {c}
        /\ \A x \in DOMAIN d.tables : d.tables[x] \subseteq T[x]
    OBVIOUS
  <2> HIDE DEF T, R
  <2>3. e.tables = T /\ e.rows = R /\ Kept(d, e) /\ e.keys = d.keys /\ e.logs = d.logs
    BY <2>1 DEF Db, Fields, Kept
  <2>4. t # "providers" => e.rows = d.rows
    BY <2>3 DEF R
  <2>5. e.rows = d.rows \/ e.rows = Defaults(d, c)
    BY <2>3 DEF R
  <2>6. Grown(d, e) /\ Has(e, t, {c}) /\ DOMAIN e.tables = DOMAIN d.tables
    BY <2>2, <2>3 DEF Grown, Has
  <2> QED
    BY <1>3, <2>3, <2>4, <2>5, <2>6
<1> QED
  BY <1>2, <1>3

\* CREATE INDEX IF NOT EXISTS, on columns that are there.
LEMMA ExecIndex ==
  ASSUME NEW d, Db(d), NEW t, NEW C, Has(d, t, C)
  PROVE  LET e == Exec(d, <<"index", t, C>>)
         IN Kept(d, e) /\ SameData(d, e) /\ e.tables = d.tables
<1> DEFINE e == Exec(d, <<"index", t, C>>)
<1>1. e = [d EXCEPT !.indexes = @ \cup {<<t, C>>}]
  BY DEF Exec, Db, CreateIndex, Has
<1> HIDE DEF e
<1>2. Kept(d, e) /\ SameData(d, e) /\ e.tables = d.tables
  BY <1>1 DEF Db, Fields, Kept, SameData
<1> QED
  BY <1>2 DEF e

\* CREATE TABLE of a table that is not there.
LEMMA ExecNew ==
  ASSUME NEW d, Db(d), NEW t, t \notin DOMAIN d.tables, NEW C
  PROVE  LET e == Exec(d, <<"new", t, C>>)
         IN /\ Kept(d, e) /\ SameData(d, e) /\ Grown(d, e)
            /\ DOMAIN e.tables = DOMAIN d.tables \cup {t} /\ e.tables[t] = C
<1>1. Exec(d, <<"new", t, C>>) = CreateIfNone(d, t, C)
  BY DEF Exec, Db, CreateNew
<1>2. Exec(d, <<"create", t, C>>) = CreateIfNone(d, t, C)
  BY DEF Exec, Db
<1> QED
  BY <1>1, <1>2, ExecCreate

\* INSERT INTO providers_v10 SELECT ... FROM providers.
LEMMA ExecCopy ==
  ASSUME NEW d, Db(d), {"providers", "providers_v10"} \subseteq DOMAIN d.tables,
         \A i \in DOMAIN d.rows : DOMAIN d.rows[i] = {"legacy", "flag"}
  PROVE  LET e == Exec(d, <<"copy">>)
         IN /\ Kept(d, e) /\ SameData(d, e) /\ e.tables = d.tables
            /\ DOMAIN e.copied = DOMAIN d.rows
            /\ \A i \in DOMAIN d.rows :
                /\ DOMAIN e.copied[i] = {"legacy", "flag"}
                /\ e.copied[i].legacy = d.rows[i].legacy
                /\ e.copied[i].flag = IF d.rows[i].flag = "null" THEN "shown" ELSE d.rows[i].flag
<1> DEFINE e == Exec(d, <<"copy">>)
           R == [i \in DOMAIN d.rows |->
                   [d.rows[i] EXCEPT !.flag = IF @ = "null" THEN "shown" ELSE @]]
<1>1. e = [d EXCEPT !.copied = R]
  <2>1. e = CopyRows(d)
    BY DEF Exec, Db
  <2>2. CopyRows(d) = [d EXCEPT !.copied = R]
    BY DEF CopyRows, Fill
  <2> QED
    BY <2>1, <2>2
<1>2. /\ DOMAIN R = DOMAIN d.rows
      /\ \A i \in DOMAIN d.rows :
          /\ DOMAIN R[i] = {"legacy", "flag"} /\ R[i].legacy = d.rows[i].legacy
          /\ R[i].flag = IF d.rows[i].flag = "null" THEN "shown" ELSE d.rows[i].flag
  OBVIOUS
<1> HIDE DEF e, R
<1>3. Kept(d, e) /\ SameData(d, e) /\ e.tables = d.tables /\ e.copied = R
  BY <1>1 DEF Db, Fields, Kept, SameData
<1> QED
  BY <1>2, <1>3 DEF e

\* DROP TABLE providers.
LEMMA ExecDrop ==
  ASSUME NEW d, Db(d), "providers" \in DOMAIN d.tables
  PROVE  LET e == Exec(d, <<"drop", "providers">>)
         IN /\ Kept(d, e) /\ e.copied = d.copied /\ e.keys = d.keys /\ e.logs = d.logs
            /\ DOMAIN e.tables = DOMAIN d.tables \ {"providers"}
            /\ \A x \in DOMAIN e.tables : e.tables[x] = d.tables[x]
<1> DEFINE t == "providers"
           e == Exec(d, <<"drop", t>>)
           T == Without(d.tables, t)
           I == {x \in d.indexes : x[1] # t}
<1>1. e = [d EXCEPT !.tables = T, !.indexes = I, !.rows = <<>>]
  BY DEF Exec, Db, DropTable
<1> HIDE DEF e, T, I
<1>2. Kept(d, e) /\ e.copied = d.copied /\ e.keys = d.keys /\ e.logs = d.logs /\ e.tables = T
  BY <1>1 DEF Db, Fields, Kept
<1>3. /\ DOMAIN e.tables = DOMAIN d.tables \ {t}
      /\ \A x \in DOMAIN e.tables : e.tables[x] = d.tables[x]
  BY <1>2 DEF Without, T
<1> QED
  BY <1>2, <1>3 DEF e

\* ALTER TABLE ... RENAME TO providers.
LEMMA ExecRename ==
  ASSUME NEW d, Db(d), NEW t, t \in DOMAIN d.tables, "providers" \notin DOMAIN d.tables
  PROVE  LET e == Exec(d, <<"rename", t, "providers">>)
         IN /\ Kept(d, e) /\ e.rows = d.copied /\ e.keys = d.keys /\ e.logs = d.logs
            /\ DOMAIN e.tables = (DOMAIN d.tables \ {t}) \cup {"providers"}
            /\ e.tables["providers"] = d.tables[t]
            /\ \A x \in DOMAIN d.tables \ {t} : e.tables[x] = d.tables[x]
<1> DEFINE u == "providers"
           e == Exec(d, <<"rename", t, u>>)
           T == Put(Without(d.tables, t), u, d.tables[t])
<1>1. e = [d EXCEPT !.tables = T, !.rows = d.copied, !.copied = <<>>]
  BY DEF Exec, Db, RenameTable
<1> HIDE DEF e, T
<1>2. Kept(d, e) /\ e.rows = d.copied /\ e.keys = d.keys /\ e.logs = d.logs /\ e.tables = T
  BY <1>1 DEF Db, Fields, Kept
<1>3. /\ DOMAIN e.tables = (DOMAIN d.tables \ {t}) \cup {u}
      /\ e.tables[u] = d.tables[t]
      /\ \A x \in DOMAIN d.tables \ {t} : e.tables[x] = d.tables[x]
  BY <1>2 DEF Put, Without, T
<1> QED
  BY <1>2, <1>3 DEF e

\* UPDATE usage_logs SET user_id = ...
LEMMA ExecOwn ==
  ASSUME NEW d, Db(d), NEW O
  PROVE  LET e == Exec(d, <<"own", O>>)
         IN /\ Kept(d, e) /\ e.tables = d.tables /\ e.keys = d.keys /\ e.rows = d.rows
            /\ e.logs = [l \in DOMAIN d.logs |->
                    IF d.logs[l].owner \in O /\ d.logs[l].creator # None
                    THEN [d.logs[l] EXCEPT !.owner = d.logs[l].creator] ELSE d.logs[l]]
<1> DEFINE e == Exec(d, <<"own", O>>)
           L == [l \in DOMAIN d.logs |->
                    IF d.logs[l].owner \in O /\ d.logs[l].creator # None
                    THEN [d.logs[l] EXCEPT !.owner = d.logs[l].creator] ELSE d.logs[l]]
<1>1. e = [d EXCEPT !.logs = L]
  BY DEF Exec, Db, OwnLogs
<1> HIDE DEF e, L
<1>2. Kept(d, e) /\ e.tables = d.tables /\ e.keys = d.keys /\ e.rows = d.rows /\ e.logs = L
  BY <1>1 DEF Db, Fields, Kept
<1> QED
  BY <1>2 DEF e, L

\* INSERT INTO provider_api_keys SELECT ... FROM providers.
LEMMA ExecCarry ==
  ASSUME NEW d, Db(d)
  PROVE  LET e == Exec(d, <<"carry">>)
         IN /\ Kept(d, e) /\ e.tables = d.tables /\ e.rows = d.rows /\ e.logs = d.logs
            /\ e.keys = [i \in DOMAIN d.rows |->
                            IF d.rows[i].legacy /\ d.keys[i] = 0 THEN 1 ELSE d.keys[i]]
<1> DEFINE e == Exec(d, <<"carry">>)
           K == [i \in DOMAIN d.rows |->
                    IF d.rows[i].legacy /\ d.keys[i] = 0 THEN 1 ELSE d.keys[i]]
<1>1. e = [d EXCEPT !.keys = K]
  BY DEF Exec, Db, CarryKeys
<1> HIDE DEF e, K
<1>2. Kept(d, e) /\ e.tables = d.tables /\ e.rows = d.rows /\ e.logs = d.logs /\ e.keys = K
  BY <1>1 DEF Db, Fields, Kept
<1> QED
  BY <1>2 DEF e, K

-----------------------------------------------------------------------------
(* The list of versions.                                                    *)

Number(i) == IF i <= 14 THEN i ELSE i + 2

\* The list has sixteen versions: 1 to 14, 17 and 18.
LEMMA ListIs ==
  /\ DOMAIN migrations = 1..16 /\ Len(migrations) = 16
  /\ \A i \in 1..16 : migrations[i].version = Number(i)
<1>1. DOMAIN migrations = 1..16 /\ Len(migrations) = 16
  BY DEF migrations
<1>2. ASSUME NEW i \in 1..16 PROVE migrations[i].version = Number(i)
  BY DEF migrations, Number
<1> QED
  BY <1>1, <1>2

\* The statements of each.
LEMMA UpsAre ==
  /\ migrations[1].up = V1 /\ migrations[2].up = V2 /\ migrations[3].up = V3
  /\ migrations[4].up = V4 /\ migrations[5].up = V5 /\ migrations[6].up = V6
  /\ migrations[7].up = V7 /\ migrations[8].up = V8 /\ migrations[9].up = V9
  /\ migrations[10].up = V10 /\ migrations[11].up = V11 /\ migrations[12].up = V12
  /\ migrations[13].up = V13 /\ migrations[14].up = ensureProviderAPIKeys
  /\ migrations[15].up = ensureProviderAPIKeys /\ migrations[16].up = V18
  BY DEF migrations

\* The first version creates five tables and then seven indexes.
LEMMA FirstIs ==
  /\ DOMAIN V1 = 1..12 /\ Len(V1) = 12
  /\ V1[1] = <<"create", "users", {"email"}>>
  /\ V1[2] = <<"create", "providers", {"user_id"}>>
  /\ V1[3] = <<"create", "models", {"provider_key", "user_id"}>>
  /\ V1[4] = <<"create", "api_keys", {}>>
  /\ V1[5] = <<"create", "usage_logs", {"api_key_id", "created_at", "provider_id", "user_id"}>>
  /\ V1[6] = <<"index", "models", {"provider_key"}>>
  /\ V1[7] = <<"index", "usage_logs", {"api_key_id"}>>
  /\ V1[8] = <<"index", "usage_logs", {"created_at"}>>
  /\ V1[9] = <<"index", "usage_logs", {"provider_id"}>>
  /\ V1[10] = <<"index", "providers", {"user_id"}>>
  /\ V1[11] = <<"index", "models", {"user_id"}>>
  /\ V1[12] = <<"index", "usage_logs", {"user_id"}>>
<1>1. {"email"} \ {} = {"email"} /\ {"user_id"} \ {} = {"user_id"}
  OBVIOUS
<1> QED
  BY <1>1 DEF V1, FirstTables

\* Every version is a list.
LEMMA UpIsList ==
  ASSUME NEW i \in 1..16
  PROVE  Len(migrations[i].up) \in Nat /\ DOMAIN migrations[i].up = 1..Len(migrations[i].up)
<1> DEFINE s == migrations[i].up
<1>1. s \in {V1, V2, V3, V4, V5, V6, V7, V8, V9, V10, V11, V12, V13, ensureProviderAPIKeys, V18}
  BY UpsAre
<1>2. CASE s = V1
  BY <1>2, FirstIs
<1>3. CASE s \in {V2, V3, V4, V5, V6, V7, V8, V9}
  BY <1>3 DEF V2, V3, V4, V5, V6, V7, V8, V9
<1>4. CASE s \in {V10, V11, V12, V13}
  BY <1>4 DEF V10, V11, V12, V13
<1>5. CASE s \in {ensureProviderAPIKeys, V18}
  BY <1>5 DEF ensureProviderAPIKeys, V18
<1> QED
  BY <1>1, <1>2, <1>3, <1>4, <1>5

-----------------------------------------------------------------------------
(* The invariant of a database between two versions.                        *)

\* What the versions that are recorded have left for the services and for the
\* versions to come.
Level(v, d) ==
    /\ v = 1 => /\ Has(d, "users", {}) /\ Has(d, "providers", {}) /\ Has(d, "api_keys", {})
                /\ Has(d, "models", {"provider_key", "user_id"})
                /\ Has(d, "usage_logs", {"api_key_id", "created_at", "provider_id", "user_id"})
    /\ v = 3 => Has(d, "users", {"email"})
    /\ v = 4 => Has(d, "providers", {"user_id"})
    /\ v = 7 => Has(d, "api_keys", {"total_token_limit"})
    /\ v = 8 => Has(d, "models", {"source_provider_key"})
    /\ v = 9 => Has(d, "providers", {"show_in_model_list"})
    /\ v = 10 => Has(d, "providers", {"user_id", "show_in_model_list", "custom"})
    /\ v = 11 => Has(d, "password_reset_codes", {}) /\ Has(d, "user_providers", {})
    /\ v = 12 => Has(d, "provider_endpoints", {})
    /\ v = 13 => Has(d, "usage_logs", {"ttft_ms"})
    /\ v = 17 => Has(d, "provider_api_keys", {})
    /\ v = 18 => /\ Has(d, "users", {"totp_secret_encrypted", "totp_enabled"})
                 /\ Has(d, "recovery_codes", {})

\* The table that version 10 renames is gone, and the tables that later
\* versions make are never without the column they index.
Tidy(d) ==
    /\ "providers_v10" \notin DOMAIN d.tables
    /\ "provider_endpoints" \in DOMAIN d.tables => Has(d, "provider_endpoints", {"provider_id"})
    /\ "provider_api_keys" \in DOMAIN d.tables => Has(d, "provider_api_keys", {"provider_id"})

\* Providers are rows of a table, with a number of keys each, and none is hidden
\* before there is a flag for it.
Data(d) ==
    /\ DOMAIN d.keys = DOMAIN d.rows
    /\ \A i \in DOMAIN d.rows : DOMAIN d.rows[i] = {"legacy", "flag"} /\ d.keys[i] \in Nat
    /\ \A l \in DOMAIN d.logs : /\ DOMAIN d.logs[l] = {"owner", "creator"}
                                /\ d.logs[l].creator \in {"creator", None}
    /\ "providers" \notin DOMAIN d.tables => DOMAIN d.rows = {}
    /\ Has(d, "providers", {}) /\ "show_in_model_list" \notin d.tables["providers"]
         => \A i \in DOMAIN d.rows : d.rows[i].flag # "hidden"

\* No version is recorded without those before it.
Closed(V) == \A v \in V : \A i \in 1..16 : Number(i) <= v => Number(i) \in V

Good(d) ==
    /\ Db(d) /\ d.versions \subseteq 1..18 /\ Closed(d.versions)
    /\ d.versions = {} => DOMAIN d.tables = {}
    /\ \A v \in d.versions : Level(v, d)
    /\ Tidy(d) /\ Data(d)

\* The next version of d is the k-th of the list.
Ready(d, k) ==
    /\ Good(d)
    /\ Number(k) \notin d.versions /\ \A i \in 1..(k - 1) : Number(i) \in d.versions

(* What the k-th version does to the data: 5 and 6 give usage logs an       *)
(* owner, 14 and 17, the 15th, carry the keys; 10 shows a provider whose    *)
(* flag is missing, and hides none.                                         *)
Effect(d, e, k) ==
    /\ DOMAIN e.rows = DOMAIN d.rows
    /\ \A i \in DOMAIN d.rows :
        /\ e.rows[i].legacy = d.rows[i].legacy
        /\ e.rows[i].flag = "hidden" <=> d.rows[i].flag = "hidden"
        /\ e.keys[i] = IF k \in {14, 15} /\ d.rows[i].legacy /\ d.keys[i] = 0 THEN 1 ELSE d.keys[i]
    /\ DOMAIN e.logs = DOMAIN d.logs
    /\ \A l \in DOMAIN d.logs :
        /\ e.logs[l].creator = d.logs[l].creator
        /\ e.logs[l].owner =
             IF /\ d.logs[l].creator # None
                /\ d.logs[l].owner \in (IF k = 5 THEN {"null"}
                                        ELSE IF k = 6 THEN {"null", "zero"} ELSE {})
             THEN d.logs[l].creator ELSE d.logs[l].owner

\* What the statements of the k-th version owe to the next one.
After(d, e, k) ==
    /\ Kept(d, e) /\ Tidy(e) /\ Data(e) /\ Effect(d, e, k)
    /\ \A v \in d.versions \cup {Number(k)} : Level(v, e)

\* Columns stay when tables grow,
LEMMA HasGrows ==
  ASSUME NEW d, NEW e, Grown(d, e), NEW t, NEW C, Has(d, t, C)
  PROVE  Has(e, t, C)
BY DEF Grown, Has

\* growing is transitive,
LEMMA GrownTwice ==
  ASSUME NEW d, NEW e, NEW f, Grown(d, e), Grown(e, f)
  PROVE  Grown(d, f)
BY DEF Grown

\* and so what a version has left stays,
LEMMA LevelGrows ==
  ASSUME NEW d, NEW e, Grown(d, e), NEW v, Level(v, d)
  PROVE  Level(v, e)
<1>1. \A t, C : Has(d, t, C) => Has(e, t, C)
  BY HasGrows
<1> QED
  BY <1>1 DEF Level

\* and so a version that leaves the data alone has done its work with its level.
LEMMA AfterPlain ==
  ASSUME NEW d, NEW k \in 2..16, Ready(d, k), k \notin {5, 6, 14, 15}, NEW e, Kept(d, e),
         DOMAIN e.rows = DOMAIN d.rows, \A i \in DOMAIN d.rows : e.rows[i] = d.rows[i],
         e.keys = d.keys, e.logs = d.logs,
         Grown(d, e), Tidy(e), Level(Number(k), e)
  PROVE  After(d, e, k)
<1>1. Has(d, "providers", {})
  BY DEF Ready, Good, Level, Number
<1>2. \A v \in d.versions \cup {Number(k)} : Level(v, e)
  BY LevelGrows DEF Ready, Good
<1>3. Effect(d, e, k)
  BY DEF Effect
<1>4. Data(e)
  <2>1. Data(d)
    BY DEF Ready, Good
  <2>2. Has(e, "providers", {}) /\ d.tables["providers"] \subseteq e.tables["providers"]
    BY <1>1, HasGrows DEF Grown, Has
  <2> QED
    BY <1>1, <2>1, <2>2 DEF Data, Has
<1> QED
  BY <1>2, <1>3, <1>4 DEF After

\* Running no statement changes nothing.
LEMMA RunNone == ASSUME NEW d PROVE FoldLeft(Exec, d, <<>>) = d
<1>1. DOMAIN <<>> = 1..0
  OBVIOUS
<1> QED
  BY <1>1, ExecSteps DEF Steps

\* One statement;
LEMMA RunOne ==
  ASSUME NEW d, NEW h, DOMAIN h = 1..1
  PROVE  FoldLeft(Exec, d, h) = Exec(d, h[1])
<1>1. PICK r : Steps("exec", r, d, h, 1) /\ FoldLeft(Exec, d, h) = r[1]
  BY ExecSteps
<1>2. r[1] = Exec(d, h[1])
  BY <1>1 DEF Steps, Step
<1> QED
  BY <1>1, <1>2

\* two,
LEMMA RunTwo ==
  ASSUME NEW d, NEW h, DOMAIN h = 1..2
  PROVE  FoldLeft(Exec, d, h) = Exec(Exec(d, h[1]), h[2])
<1>1. PICK r : Steps("exec", r, d, h, 2) /\ FoldLeft(Exec, d, h) = r[2]
  BY ExecSteps
<1>2. r[1] = Exec(d, h[1]) /\ r[2] = Exec(r[1], h[2])
  BY <1>1 DEF Steps, Step
<1> QED
  BY <1>1, <1>2

\* three,
LEMMA RunThree ==
  ASSUME NEW d, NEW h, DOMAIN h = 1..3
  PROVE  FoldLeft(Exec, d, h) = Exec(Exec(Exec(d, h[1]), h[2]), h[3])
<1>1. PICK r : Steps("exec", r, d, h, 3) /\ FoldLeft(Exec, d, h) = r[3]
  BY ExecSteps
<1>2. r[1] = Exec(d, h[1]) /\ r[2] = Exec(r[1], h[2]) /\ r[3] = Exec(r[2], h[3])
  BY <1>1 DEF Steps, Step
<1> QED
  BY <1>1, <1>2

\* or four of them.
LEMMA RunFour ==
  ASSUME NEW d, NEW h, DOMAIN h = 1..4
  PROVE  FoldLeft(Exec, d, h) = Exec(Exec(Exec(Exec(d, h[1]), h[2]), h[3]), h[4])
<1>1. PICK r : Steps("exec", r, d, h, 4) /\ FoldLeft(Exec, d, h) = r[4]
  BY ExecSteps
<1>2. /\ r[1] = Exec(d, h[1]) /\ r[2] = Exec(r[1], h[2]) /\ r[3] = Exec(r[2], h[3])
      /\ r[4] = Exec(r[3], h[4])
  BY <1>1 DEF Steps, Step
<1> QED
  BY <1>1, <1>2

-----------------------------------------------------------------------------
(* One lemma per version: its statements succeed on the database of the     *)
(* version before, and leave the one it stands for.                         *)

\* What every version after the first finds.
LEMMA Found ==
  ASSUME NEW d, NEW k \in 2..16, Ready(d, k)
  PROVE  /\ Db(d) /\ Tidy(d) /\ Data(d)
         /\ Has(d, "users", {}) /\ Has(d, "providers", {}) /\ Has(d, "api_keys", {})
         /\ Has(d, "models", {"provider_key", "user_id"})
         /\ Has(d, "usage_logs", {"api_key_id", "created_at", "provider_id", "user_id"})
<1>1. 1 \in d.versions
  BY DEF Ready, Number
<1> QED
  BY <1>1 DEF Ready, Good, Level

\* The default of a new column leaves every row, unless it is the flag.
LEMMA DefaultIsPlain ==
  ASSUME NEW d, NEW c, c # "show_in_model_list"
  PROVE  /\ DOMAIN Defaults(d, c) = DOMAIN d.rows
         /\ \A i \in DOMAIN d.rows : Defaults(d, c)[i] = d.rows[i]
BY DEF Defaults

\* Version 2 has nothing to do.
LEMMA AfterV2 ==
  ASSUME NEW d, Ready(d, 2)
  PROVE  After(d, FoldLeft(Exec, d, migrations[2].up), 2)
<1>1. FoldLeft(Exec, d, migrations[2].up) = d
  BY UpsAre, RunNone DEF V2
<1>2. Kept(d, d) /\ Tidy(d) /\ Grown(d, d) /\ Level(Number(2), d)
  BY Found DEF Kept, Grown, Level, Number
<1>3. After(d, d, 2)
  BY <1>2, AfterPlain
<1> QED
  BY <1>1, <1>3

\* Version 3 adds the address of users, where the first version did not.
LEMMA AfterV3 ==
  ASSUME NEW d, Ready(d, 3)
  PROVE  After(d, FoldLeft(Exec, d, migrations[3].up), 3)
<1> DEFINE a == <<"column", "users", "email">>
           b == <<"index", "users", {"email"}>>
           x == Exec(d, a)
           e == Exec(x, b)
<1>0. Db(d) /\ Tidy(d) /\ "users" \in DOMAIN d.tables
  BY Found DEF Has
<1>1. FoldLeft(Exec, d, migrations[3].up) = e
  <2> DEFINE h == migrations[3].up
  <2>1. DOMAIN h = 1..2 /\ h[1] = a /\ h[2] = b
    BY UpsAre DEF V3
  <2> HIDE DEF h, a, b
  <2> QED
    BY <2>1, RunTwo DEF h
<1>2. /\ Kept(d, x) /\ Grown(d, x) /\ Has(x, "users", {"email"}) /\ SameData(d, x)
      /\ DOMAIN x.tables = DOMAIN d.tables
  BY <1>0, ExecColumn DEF SameData
<1>3. Kept(x, e) /\ SameData(x, e) /\ e.tables = x.tables
  BY <1>2, ExecIndex DEF Kept
<1> HIDE DEF x, e
<1>4. Kept(d, e) /\ SameData(d, e) /\ Grown(d, e) /\ Has(e, "users", {"email"})
  BY <1>2, <1>3 DEF Kept, SameData, Grown, Has
<1>5. Tidy(e)
  BY <1>0, <1>2, <1>3, HasGrows, <1>4 DEF Tidy
<1>6. Level(Number(3), e)
  BY <1>4 DEF Level, Number
<1>7. After(d, e, 3)
  BY <1>4, <1>5, <1>6, AfterPlain DEF SameData
<1> QED
  BY <1>1, <1>7

\* Version 4 does the same with the user of a provider.
LEMMA AfterV4 ==
  ASSUME NEW d, Ready(d, 4)
  PROVE  After(d, FoldLeft(Exec, d, migrations[4].up), 4)
<1> DEFINE a == <<"column", "providers", "user_id">>
           b == <<"index", "providers", {"user_id"}>>
           x == Exec(d, a)
           e == Exec(x, b)
<1>0. Db(d) /\ Tidy(d) /\ "providers" \in DOMAIN d.tables
  BY Found DEF Has
<1>1. FoldLeft(Exec, d, migrations[4].up) = e
  <2> DEFINE h == migrations[4].up
  <2>1. DOMAIN h = 1..2 /\ h[1] = a /\ h[2] = b
    BY UpsAre DEF V4
  <2> HIDE DEF h, a, b
  <2> QED
    BY <2>1, RunTwo DEF h
<1>2. /\ Kept(d, x) /\ Grown(d, x) /\ Has(x, "providers", {"user_id"})
      /\ x.keys = d.keys /\ x.logs = d.logs
      /\ DOMAIN x.tables = DOMAIN d.tables
      /\ x.rows = d.rows \/ x.rows = Defaults(d, "user_id")
  BY <1>0, ExecColumn
<1>3. Kept(x, e) /\ SameData(x, e) /\ e.tables = x.tables
  BY <1>2, ExecIndex DEF Kept
<1> HIDE DEF x, e
<1>4. Kept(d, e) /\ Grown(d, e) /\ Has(e, "providers", {"user_id"})
  BY <1>2, <1>3 DEF Kept, Grown, Has
<1>5. Tidy(e)
  BY <1>0, <1>2, <1>3, HasGrows, <1>4 DEF Tidy
<1>6. Level(Number(4), e)
  BY <1>4 DEF Level, Number
<1>7. DOMAIN e.rows = DOMAIN d.rows /\ \A i \in DOMAIN d.rows : e.rows[i] = d.rows[i]
  BY <1>2, <1>3, DefaultIsPlain DEF SameData
<1>8. After(d, e, 4)
  BY <1>2, <1>3, <1>4, <1>5, <1>6, <1>7, AfterPlain DEF SameData
<1> QED
  BY <1>1, <1>8

\* Versions 5 and 6 give logs an owner.
LEMMA AfterOwn ==
  ASSUME NEW d, NEW k \in {5, 6}, Ready(d, k), NEW e,
         e = Exec(d, <<"own", IF k = 5 THEN {"null"} ELSE {"null", "zero"}>>)
  PROVE  After(d, e, k)
<1> DEFINE O == IF k = 5 THEN {"null"} ELSE {"null", "zero"}
<1>0. Db(d) /\ Tidy(d) /\ Data(d)
  BY Found
<1>1. /\ Kept(d, e) /\ e.tables = d.tables /\ e.keys = d.keys /\ e.rows = d.rows
      /\ e.logs = [l \in DOMAIN d.logs |->
                    IF d.logs[l].owner \in O /\ d.logs[l].creator # None
                    THEN [d.logs[l] EXCEPT !.owner = d.logs[l].creator] ELSE d.logs[l]]
  BY <1>0, ExecOwn
<1> HIDE DEF O
<1>2. \A l \in DOMAIN d.logs :
        /\ DOMAIN d.logs[l] = {"owner", "creator"}
        /\ DOMAIN e.logs[l] = {"owner", "creator"}
        /\ e.logs[l].creator = d.logs[l].creator
        /\ e.logs[l].owner = IF d.logs[l].owner \in O /\ d.logs[l].creator # None
                             THEN d.logs[l].creator ELSE d.logs[l].owner
  BY <1>0, <1>1 DEF Data
<1>3. DOMAIN e.logs = DOMAIN d.logs
  BY <1>1
<1>4. Effect(d, e, k)
  <2>1. k \notin {14, 15} /\ O = (IF k = 5 THEN {"null"} ELSE IF k = 6 THEN {"null", "zero"} ELSE {})
    BY DEF O
  <2> DEFINE P == IF k = 5 THEN {"null"} ELSE IF k = 6 THEN {"null", "zero"} ELSE {}
  <2> HIDE DEF P
  <2>2. \A l \in DOMAIN d.logs :
          /\ e.logs[l].creator = d.logs[l].creator
          /\ e.logs[l].owner = IF d.logs[l].creator # None /\ d.logs[l].owner \in P
                               THEN d.logs[l].creator ELSE d.logs[l].owner
    BY <1>2, <2>1 DEF P
  <2> QED
    BY <1>1, <1>3, <2>1, <2>2 DEF Effect, P
<1>5. Tidy(e)
  BY <1>0, <1>1 DEF Tidy, Has
<1>6. Data(e)
  BY <1>0, <1>1, <1>2, <1>3 DEF Data, Has
<1>7. Grown(d, e)
  BY <1>1 DEF Grown
<1>8. \A v \in d.versions \cup {Number(k)} : Level(v, e)
  <2>1. \A v \in d.versions : Level(v, e)
    BY <1>7, LevelGrows DEF Ready, Good
  <2>2. Level(Number(k), e)
    BY DEF Level, Number
  <2> QED
    BY <2>1, <2>2
<1> QED
  BY <1>1, <1>4, <1>5, <1>6, <1>8 DEF After

\* 5 those that have none,
LEMMA AfterV5 ==
  ASSUME NEW d, Ready(d, 5)
  PROVE  After(d, FoldLeft(Exec, d, migrations[5].up), 5)
<1>1. FoldLeft(Exec, d, migrations[5].up) = Exec(d, <<"own", {"null"}>>)
  <2> DEFINE h == migrations[5].up
  <2>1. DOMAIN h = 1..1 /\ h[1] = <<"own", {"null"}>>
    BY UpsAre DEF V5
  <2> HIDE DEF h
  <2> QED
    BY <2>1, RunOne DEF h
<1> QED
  BY <1>1, AfterOwn

\* 6 also those with the number zero.
LEMMA AfterV6 ==
  ASSUME NEW d, Ready(d, 6)
  PROVE  After(d, FoldLeft(Exec, d, migrations[6].up), 6)
<1>1. FoldLeft(Exec, d, migrations[6].up) = Exec(d, <<"own", {"null", "zero"}>>)
  <2> DEFINE h == migrations[6].up
  <2>1. DOMAIN h = 1..1 /\ h[1] = <<"own", {"null", "zero"}>>
    BY UpsAre DEF V6
  <2> HIDE DEF h
  <2> QED
    BY <2>1, RunOne DEF h
<1> QED
  BY <1>1, AfterOwn

\* Versions 7 and 8 add a column each.
LEMMA AfterColumn ==
  ASSUME NEW d, NEW k \in {7, 8}, Ready(d, k), NEW t, NEW c, NEW e,
         e = Exec(d, <<"column", t, c>>),
         <<t, c>> = IF k = 7 THEN <<"api_keys", "total_token_limit">>
                             ELSE <<"models", "source_provider_key">>
  PROVE  After(d, e, k)
<1>0. Db(d) /\ Tidy(d) /\ t \in DOMAIN d.tables /\ t # "providers"
  BY Found DEF Has
<1>1. /\ Kept(d, e) /\ Grown(d, e) /\ Has(e, t, {c}) /\ SameData(d, e)
      /\ DOMAIN e.tables = DOMAIN d.tables
  BY <1>0, ExecColumn DEF SameData
<1>2. Tidy(e)
  BY <1>0, <1>1, HasGrows DEF Tidy
<1>3. Level(Number(k), e)
  <2>1. CASE k = 7
    BY <1>1, <2>1 DEF Level, Number
  <2>2. CASE k = 8
    BY <1>1, <2>2 DEF Level, Number
  <2> QED
    BY <2>1, <2>2
<1> QED
  BY <1>1, <1>2, <1>3, AfterPlain DEF SameData

\* 7 to the keys of the API,
LEMMA AfterV7 ==
  ASSUME NEW d, Ready(d, 7)
  PROVE  After(d, FoldLeft(Exec, d, migrations[7].up), 7)
<1>1. FoldLeft(Exec, d, migrations[7].up) = Exec(d, <<"column", "api_keys", "total_token_limit">>)
  <2> DEFINE h == migrations[7].up
  <2>1. DOMAIN h = 1..1 /\ h[1] = <<"column", "api_keys", "total_token_limit">>
    BY UpsAre DEF V7
  <2> HIDE DEF h
  <2> QED
    BY <2>1, RunOne DEF h
<1> QED
  BY <1>1, AfterColumn

\* 8 to the models.
LEMMA AfterV8 ==
  ASSUME NEW d, Ready(d, 8)
  PROVE  After(d, FoldLeft(Exec, d, migrations[8].up), 8)
<1>1. FoldLeft(Exec, d, migrations[8].up) = Exec(d, <<"column", "models", "source_provider_key">>)
  <2> DEFINE h == migrations[8].up
  <2>1. DOMAIN h = 1..1 /\ h[1] = <<"column", "models", "source_provider_key">>
    BY UpsAre DEF V8
  <2> HIDE DEF h
  <2> QED
    BY <2>1, RunOne DEF h
<1> QED
  BY <1>1, AfterColumn

\* Version 9 shows every provider: none was hidden as there was no flag.
LEMMA AfterV9 ==
  ASSUME NEW d, Ready(d, 9)
  PROVE  After(d, FoldLeft(Exec, d, migrations[9].up), 9)
<1> DEFINE c == "show_in_model_list"
           e == Exec(d, <<"column", "providers", c>>)
<1>0. Db(d) /\ Tidy(d) /\ Data(d) /\ Has(d, "providers", {})
  BY Found
<1>1. FoldLeft(Exec, d, migrations[9].up) = e
  <2> DEFINE h == migrations[9].up
  <2>1. DOMAIN h = 1..1 /\ h[1] = <<"column", "providers", c>>
    BY UpsAre DEF V9
  <2> HIDE DEF h
  <2> QED
    BY <2>1, RunOne DEF h
<1>2. /\ Kept(d, e) /\ Grown(d, e) /\ Has(e, "providers", {c})
      /\ e.keys = d.keys /\ e.logs = d.logs
      /\ DOMAIN e.tables = DOMAIN d.tables
      /\ e.rows = d.rows \/ (e.rows = Defaults(d, c) /\ c \notin d.tables["providers"])
  BY <1>0, ExecColumn DEF Has
<1> HIDE DEF e
<1>3. /\ DOMAIN e.rows = DOMAIN d.rows
      /\ \A i \in DOMAIN d.rows : /\ DOMAIN e.rows[i] = {"legacy", "flag"}
                                  /\ e.rows[i].legacy = d.rows[i].legacy
                                  /\ e.rows[i].flag = "hidden" <=> d.rows[i].flag = "hidden"
  <2>1. CASE e.rows = d.rows
    BY <1>0, <2>1 DEF Data
  <2>2. CASE e.rows = Defaults(d, c) /\ c \notin d.tables["providers"]
    <3>1. /\ DOMAIN Defaults(d, c) = DOMAIN d.rows
          /\ \A i \in DOMAIN d.rows : Defaults(d, c)[i] = [d.rows[i] EXCEPT !.flag = "shown"]
      BY DEF Defaults
    <3>2. \A i \in DOMAIN d.rows : d.rows[i].flag # "hidden" /\ DOMAIN d.rows[i] = {"legacy", "flag"}
      BY <1>0, <2>2 DEF Data
    <3>3. ASSUME NEW i \in DOMAIN d.rows
          PROVE  /\ DOMAIN e.rows[i] = {"legacy", "flag"}
                 /\ e.rows[i].legacy = d.rows[i].legacy
                 /\ e.rows[i].flag = "shown"
      <4> DEFINE r == d.rows[i]
      <4>1. e.rows[i] = [r EXCEPT !.flag = "shown"] /\ DOMAIN r = {"legacy", "flag"}
        BY <2>2, <3>1, <3>2
      <4> HIDE DEF r
      <4>2. /\ DOMAIN e.rows[i] = {"legacy", "flag"} /\ e.rows[i].legacy = r.legacy
            /\ e.rows[i].flag = "shown"
        BY <4>1
      <4> QED
        BY <4>2 DEF r
    <3> QED
      BY <2>2, <3>1, <3>2, <3>3
  <2> QED
    BY <1>2, <2>1, <2>2
<1>4. Tidy(e)
  BY <1>0, <1>2, HasGrows DEF Tidy
<1>5. Effect(d, e, 9)
  BY <1>2, <1>3 DEF Effect
<1>6. Data(e)
  BY <1>0, <1>2, <1>3 DEF Data, Has
<1>7. \A v \in d.versions \cup {Number(9)} : Level(v, e)
  <2>1. \A v \in d.versions : Level(v, e)
    BY <1>2, LevelGrows DEF Ready, Good
  <2>2. Level(Number(9), e)
    BY <1>2 DEF Level, Number
  <2> QED
    BY <2>1, <2>2
<1>8. After(d, e, 9)
  BY <1>2, <1>4, <1>5, <1>6, <1>7 DEF After
<1> QED
  BY <1>1, <1>8

\* Version 10 makes the table anew: the rows are copied before the old one goes.
LEMMA AfterV10 ==
  ASSUME NEW d, Ready(d, 10)
  PROVE  After(d, FoldLeft(Exec, d, migrations[10].up), 10)
<1> DEFINE C == {"user_id", "show_in_model_list", "custom"}
           x == Exec(d, <<"new", "providers_v10", C>>)
           y == Exec(x, <<"copy">>)
           z == Exec(y, <<"drop", "providers">>)
           e == Exec(z, <<"rename", "providers_v10", "providers">>)
<1>0. Db(d) /\ Tidy(d) /\ Data(d) /\ Has(d, "providers", {})
  BY Found
<1>1. FoldLeft(Exec, d, migrations[10].up) = e
  <2> DEFINE h == migrations[10].up
  <2>1. /\ DOMAIN h = 1..4
        /\ h[1] = <<"new", "providers_v10", C>> /\ h[2] = <<"copy">>
        /\ h[3] = <<"drop", "providers">> /\ h[4] = <<"rename", "providers_v10", "providers">>
    BY UpsAre DEF V10
  <2> HIDE DEF h, C
  <2> QED
    BY <2>1, RunFour DEF h
<1>2. /\ Kept(d, x) /\ SameData(d, x) /\ Grown(d, x)
      /\ DOMAIN x.tables = DOMAIN d.tables \cup {"providers_v10"} /\ x.tables["providers_v10"] = C
  BY <1>0, ExecNew DEF Tidy
<1>3. /\ Kept(x, y) /\ SameData(x, y) /\ y.tables = x.tables
      /\ DOMAIN y.copied = DOMAIN x.rows
      /\ \A i \in DOMAIN x.rows :
          /\ DOMAIN y.copied[i] = {"legacy", "flag"}
          /\ y.copied[i].legacy = x.rows[i].legacy
          /\ y.copied[i].flag = IF x.rows[i].flag = "null" THEN "shown" ELSE x.rows[i].flag
  <2>1. \A i \in DOMAIN x.rows : DOMAIN x.rows[i] = {"legacy", "flag"}
    BY <1>0, <1>2 DEF Data, SameData
  <2>2. {"providers", "providers_v10"} \subseteq DOMAIN x.tables
    BY <1>0, <1>2 DEF Has
  <2> QED
    BY <1>2, <2>1, <2>2, ExecCopy DEF Kept
<1>4. /\ Kept(y, z) /\ z.copied = y.copied /\ z.keys = y.keys /\ z.logs = y.logs
      /\ DOMAIN z.tables = DOMAIN y.tables \ {"providers"}
      /\ \A t \in DOMAIN z.tables : z.tables[t] = y.tables[t]
  <2>1. "providers" \in DOMAIN y.tables
    BY <1>0, <1>2, <1>3 DEF Has
  <2> QED
    BY <1>3, <2>1, ExecDrop DEF Kept
<1>5. /\ Kept(z, e) /\ e.rows = z.copied /\ e.keys = z.keys /\ e.logs = z.logs
      /\ DOMAIN e.tables = (DOMAIN z.tables \ {"providers_v10"}) \cup {"providers"}
      /\ e.tables["providers"] = z.tables["providers_v10"]
      /\ \A t \in DOMAIN z.tables \ {"providers_v10"} : e.tables[t] = z.tables[t]
  <2>1. "providers_v10" \in DOMAIN z.tables /\ "providers" \notin DOMAIN z.tables
    BY <1>2, <1>3, <1>4
  <2> QED
    BY <1>4, <2>1, ExecRename DEF Kept
<1> HIDE DEF x, y, z, e
<1>6. /\ Kept(d, e) /\ e.keys = d.keys /\ e.logs = d.logs
      /\ DOMAIN e.tables = DOMAIN d.tables /\ e.tables["providers"] = C
      /\ \A t \in DOMAIN d.tables : t # "providers" => d.tables[t] \subseteq e.tables[t]
      /\ DOMAIN e.rows = DOMAIN d.rows
      /\ \A i \in DOMAIN d.rows :
          /\ DOMAIN e.rows[i] = {"legacy", "flag"}
          /\ e.rows[i].legacy = d.rows[i].legacy
          /\ e.rows[i].flag = IF d.rows[i].flag = "null" THEN "shown" ELSE d.rows[i].flag
  <2>1. Kept(d, e)
    BY <1>2, <1>3, <1>4, <1>5 DEF Kept
  <2>2. x.rows = d.rows
    BY <1>2 DEF SameData
  <2>3. e.keys = d.keys /\ e.logs = d.logs /\ e.rows = y.copied
    BY <1>2, <1>3, <1>4, <1>5 DEF SameData
  <2>4. DOMAIN e.tables = DOMAIN d.tables
    BY <1>0, <1>2, <1>3, <1>4, <1>5 DEF Tidy, Has
  <2>5. e.tables["providers"] = C
    BY <1>2, <1>3, <1>4, <1>5
  <2>6. ASSUME NEW t \in DOMAIN d.tables, t # "providers" PROVE d.tables[t] \subseteq e.tables[t]
    <3>1. t # "providers_v10" /\ t \in DOMAIN z.tables /\ t \in DOMAIN y.tables
      BY <1>0, <1>2, <1>3, <1>4, <2>6 DEF Tidy
    <3>2. e.tables[t] = x.tables[t]
      BY <1>3, <1>4, <1>5, <3>1
    <3> QED
      BY <1>2, <3>2 DEF Grown
  <2> QED
    BY <1>3, <2>1, <2>2, <2>3, <2>4, <2>5, <2>6
<1>7. /\ DOMAIN e.rows = DOMAIN d.rows
      /\ \A i \in DOMAIN d.rows : /\ DOMAIN e.rows[i] = {"legacy", "flag"}
                                  /\ e.rows[i].legacy = d.rows[i].legacy
                                  /\ e.rows[i].flag = "hidden" <=> d.rows[i].flag = "hidden"
  BY <1>6
<1>8. \A t, D : t # "providers" /\ Has(d, t, D) => Has(e, t, D)
  BY <1>6 DEF Has
<1>9. \A D : D \subseteq C => Has(e, "providers", D)
  BY <1>0, <1>6 DEF Has
<1>10. Tidy(e)
  BY <1>0, <1>6, <1>8 DEF Tidy
<1>11. Effect(d, e, 10)
  BY <1>6, <1>7 DEF Effect
<1>12. Data(e)
  BY <1>0, <1>6, <1>7 DEF Data, Has
<1>13. \A v \in d.versions \cup {Number(10)} : Level(v, e)
  <2>1. ASSUME NEW v \in d.versions PROVE Level(v, e)
    <3>1. Level(v, d)
      BY DEF Ready, Good
    <3> QED
      BY <1>8, <1>9, <3>1 DEF Level
  <2>2. Level(Number(10), e)
    BY <1>9 DEF Level, Number
  <2> QED
    BY <2>1, <2>2
<1>14. After(d, e, 10)
  BY <1>6, <1>10, <1>11, <1>12, <1>13 DEF After
<1> QED
  BY <1>1, <1>14

\* Version 11 makes two tables.
LEMMA AfterV11 ==
  ASSUME NEW d, Ready(d, 11)
  PROVE  After(d, FoldLeft(Exec, d, migrations[11].up), 11)
<1> DEFINE x == Exec(d, <<"create", "password_reset_codes", {}>>)
           e == Exec(x, <<"create", "user_providers", {}>>)
<1>0. Db(d) /\ Tidy(d)
  BY Found
<1>1. FoldLeft(Exec, d, migrations[11].up) = e
  <2> DEFINE h == migrations[11].up
  <2>1. /\ DOMAIN h = 1..2
        /\ h[1] = <<"create", "password_reset_codes", {}>> /\ h[2] = <<"create", "user_providers", {}>>
    BY UpsAre DEF V11
  <2> HIDE DEF h
  <2> QED
    BY <2>1, RunTwo DEF h
<1>2. /\ Kept(d, x) /\ SameData(d, x) /\ Grown(d, x)
      /\ DOMAIN x.tables = DOMAIN d.tables \cup {"password_reset_codes"}
  BY <1>0, ExecCreate
<1>3. /\ Kept(x, e) /\ SameData(x, e) /\ Grown(x, e)
      /\ DOMAIN e.tables = DOMAIN x.tables \cup {"user_providers"}
  BY <1>2, ExecCreate DEF Kept
<1> HIDE DEF x, e
<1>4. Kept(d, e) /\ SameData(d, e) /\ Grown(d, e)
  BY <1>2, <1>3, GrownTwice DEF Kept, SameData
<1>5. Tidy(e)
  BY <1>0, <1>2, <1>3, <1>4, HasGrows DEF Tidy
<1>6. Level(Number(11), e)
  BY <1>2, <1>3 DEF Level, Number, Has
<1>7. After(d, e, 11)
  BY <1>4, <1>5, <1>6, AfterPlain DEF SameData
<1> QED
  BY <1>1, <1>7

\* Version 12 makes a table and its index.
LEMMA AfterV12 ==
  ASSUME NEW d, Ready(d, 12)
  PROVE  After(d, FoldLeft(Exec, d, migrations[12].up), 12)
<1> DEFINE t == "provider_endpoints"
           x == Exec(d, <<"create", t, {"provider_id"}>>)
           e == Exec(x, <<"index", t, {"provider_id"}>>)
<1>0. Db(d) /\ Tidy(d)
  BY Found
<1>1. FoldLeft(Exec, d, migrations[12].up) = e
  <2> DEFINE h == migrations[12].up
  <2>1. /\ DOMAIN h = 1..2
        /\ h[1] = <<"create", t, {"provider_id"}>> /\ h[2] = <<"index", t, {"provider_id"}>>
    BY UpsAre DEF V12
  <2> HIDE DEF h
  <2> QED
    BY <2>1, RunTwo DEF h
<1>2. /\ Kept(d, x) /\ SameData(d, x) /\ Grown(d, x)
      /\ DOMAIN x.tables = DOMAIN d.tables \cup {t} /\ Has(x, t, {"provider_id"})
  BY <1>0, ExecCreate DEF Tidy, Has
<1>3. Kept(x, e) /\ SameData(x, e) /\ e.tables = x.tables
  BY <1>2, ExecIndex DEF Kept
<1> HIDE DEF x, e
<1>4. Kept(d, e) /\ SameData(d, e) /\ Grown(d, e)
  BY <1>2, <1>3 DEF Kept, SameData, Grown
<1>5. Tidy(e)
  BY <1>0, <1>2, <1>3, <1>4, HasGrows DEF Tidy, Has
<1>6. Level(Number(12), e)
  BY <1>2, <1>3 DEF Level, Number, Has
<1>7. After(d, e, 12)
  BY <1>4, <1>5, <1>6, AfterPlain DEF SameData
<1> QED
  BY <1>1, <1>7

\* Version 13 adds the time to the first token, and two indexes.
LEMMA AfterV13 ==
  ASSUME NEW d, Ready(d, 13)
  PROVE  After(d, FoldLeft(Exec, d, migrations[13].up), 13)
<1> DEFINE t == "usage_logs"
           C == {"user_id", "created_at", "provider_id"}
           x == Exec(d, <<"column", t, "ttft_ms">>)
           y == Exec(x, <<"index", t, {"ttft_ms"}>>)
           e == Exec(y, <<"index", t, C>>)
<1>0. Db(d) /\ Tidy(d) /\ Has(d, t, C) /\ t \in DOMAIN d.tables
  BY Found DEF Has
<1>1. FoldLeft(Exec, d, migrations[13].up) = e
  <2> DEFINE h == migrations[13].up
  <2>1. /\ DOMAIN h = 1..3
        /\ h[1] = <<"column", t, "ttft_ms">> /\ h[2] = <<"index", t, {"ttft_ms"}>>
        /\ h[3] = <<"index", t, C>>
    BY UpsAre DEF V13
  <2> HIDE DEF h, C
  <2> QED
    BY <2>1, RunThree DEF h
<1>2. /\ Kept(d, x) /\ Grown(d, x) /\ Has(x, t, {"ttft_ms"}) /\ SameData(d, x)
      /\ DOMAIN x.tables = DOMAIN d.tables
  BY <1>0, ExecColumn DEF SameData
<1>3. Kept(x, y) /\ SameData(x, y) /\ y.tables = x.tables
  BY <1>2, ExecIndex DEF Kept
<1>4. Kept(y, e) /\ SameData(y, e) /\ e.tables = y.tables
  <2>1. Has(y, t, C)
    <3>1. Has(x, t, C)
      BY <1>0, <1>2, HasGrows
    <3> QED
      BY <1>3, <3>1 DEF Has
  <2> QED
    BY <1>3, <2>1, ExecIndex DEF Kept
<1> HIDE DEF x, y, e
<1>5. Kept(d, e) /\ SameData(d, e) /\ Grown(d, e)
  BY <1>2, <1>3, <1>4 DEF Kept, SameData, Grown
<1>6. Tidy(e)
  BY <1>0, <1>2, <1>3, <1>4, <1>5, HasGrows DEF Tidy
<1>7. Level(Number(13), e)
  BY <1>2, <1>3, <1>4 DEF Level, Number, Has
<1>8. After(d, e, 13)
  BY <1>5, <1>6, <1>7, AfterPlain DEF SameData
<1> QED
  BY <1>1, <1>8

\* Versions 14 and 17 do the same.
LEMMA AfterCarry ==
  ASSUME NEW d, NEW k \in {14, 15}, Ready(d, k)
  PROVE  After(d, FoldLeft(Exec, d, migrations[k].up), k)
<1> DEFINE t == "provider_api_keys"
           x == Exec(d, <<"create", t, {"provider_id"}>>)
           y == Exec(x, <<"index", t, {"provider_id"}>>)
           e == Exec(y, <<"carry">>)
<1>0. Db(d) /\ Tidy(d) /\ Data(d) /\ Has(d, "providers", {})
  BY Found
<1>1. FoldLeft(Exec, d, migrations[k].up) = e
  <2> DEFINE h == migrations[k].up
  <2>1. /\ DOMAIN h = 1..3
        /\ h[1] = <<"create", t, {"provider_id"}>> /\ h[2] = <<"index", t, {"provider_id"}>>
        /\ h[3] = <<"carry">>
    BY UpsAre DEF ensureProviderAPIKeys
  <2> HIDE DEF h
  <2> QED
    BY <2>1, RunThree DEF h
<1>2. /\ Kept(d, x) /\ SameData(d, x) /\ Grown(d, x)
      /\ DOMAIN x.tables = DOMAIN d.tables \cup {t} /\ Has(x, t, {"provider_id"})
      /\ x.tables["providers"] = d.tables["providers"]
  <2>1. /\ Kept(d, x) /\ SameData(d, x) /\ Grown(d, x)
        /\ DOMAIN x.tables = DOMAIN d.tables \cup {t} /\ Has(x, t, {"provider_id"})
    BY <1>0, ExecCreate DEF Tidy, Has
  <2>2. CASE t \in DOMAIN d.tables
    <3>1. x = d
      BY <1>0, <2>2 DEF Exec, CreateIfNone, Db
    <3> QED
      BY <2>1, <3>1
  <2>3. CASE t \notin DOMAIN d.tables
    <3>1. x = CreateIfNone(d, t, {"provider_id"})
      BY <1>0 DEF Exec, Db
    <3>2. x.tables = Put(d.tables, t, {"provider_id"})
      BY <1>0, <2>3, <3>1 DEF CreateIfNone, Db, Fields
    <3>3. x.tables["providers"] = d.tables["providers"]
      BY <1>0, <3>2 DEF Put, Has
    <3> QED
      BY <2>1, <3>3
  <2> QED
    BY <2>2, <2>3
<1>3. Kept(x, y) /\ SameData(x, y) /\ y.tables = x.tables
  BY <1>2, ExecIndex DEF Kept
<1>4. /\ Kept(y, e) /\ e.tables = y.tables /\ e.rows = y.rows /\ e.logs = y.logs
      /\ e.keys = [i \in DOMAIN y.rows |->
                    IF y.rows[i].legacy /\ y.keys[i] = 0 THEN 1 ELSE y.keys[i]]
  BY <1>3, ExecCarry DEF Kept
<1> HIDE DEF x, y, e
<1>5. /\ Kept(d, e) /\ Grown(d, e) /\ e.rows = d.rows /\ e.logs = d.logs
      /\ e.keys = [i \in DOMAIN d.rows |->
                    IF d.rows[i].legacy /\ d.keys[i] = 0 THEN 1 ELSE d.keys[i]]
      /\ DOMAIN e.tables = DOMAIN d.tables \cup {t} /\ Has(e, t, {"provider_id"})
      /\ e.tables["providers"] = d.tables["providers"]
  <2>1. y.rows = d.rows /\ y.keys = d.keys /\ y.logs = d.logs
    BY <1>2, <1>3 DEF SameData
  <2>2. Kept(d, e) /\ Grown(d, e) /\ Has(e, t, {"provider_id"})
    BY <1>2, <1>3, <1>4 DEF Kept, Grown, Has
  <2> QED
    BY <1>2, <1>3, <1>4, <2>1, <2>2
<1>6. Tidy(e)
  BY <1>0, <1>5, HasGrows DEF Tidy
<1>7. Effect(d, e, k)
  BY <1>5 DEF Effect
<1>8. Data(e)
  BY <1>0, <1>5 DEF Data, Has
<1>9. \A v \in d.versions \cup {Number(k)} : Level(v, e)
  <2>1. \A v \in d.versions : Level(v, e)
    BY <1>5, LevelGrows DEF Ready, Good
  <2>2. Level(Number(k), e)
    BY <1>5 DEF Level, Number, Has
  <2> QED
    BY <2>1, <2>2
<1>10. After(d, e, k)
  BY <1>5, <1>6, <1>7, <1>8, <1>9 DEF After
<1> QED
  BY <1>1, <1>10

\* Version 18 adds what the second factor of a login needs.
LEMMA AfterV18 ==
  ASSUME NEW d, Ready(d, 16)
  PROVE  After(d, FoldLeft(Exec, d, migrations[16].up), 16)
<1> DEFINE x == Exec(d, <<"column", "users", "totp_secret_encrypted">>)
           y == Exec(x, <<"column", "users", "totp_enabled">>)
           e == Exec(y, <<"create", "recovery_codes", {}>>)
<1>0. Db(d) /\ Tidy(d) /\ "users" \in DOMAIN d.tables
  BY Found DEF Has
<1>1. FoldLeft(Exec, d, migrations[16].up) = e
  <2> DEFINE h == migrations[16].up
  <2>1. /\ DOMAIN h = 1..3
        /\ h[1] = <<"column", "users", "totp_secret_encrypted">>
        /\ h[2] = <<"column", "users", "totp_enabled">> /\ h[3] = <<"create", "recovery_codes", {}>>
    BY UpsAre DEF V18
  <2> HIDE DEF h
  <2> QED
    BY <2>1, RunThree DEF h
<1>2. /\ Kept(d, x) /\ Grown(d, x) /\ Has(x, "users", {"totp_secret_encrypted"}) /\ SameData(d, x)
      /\ DOMAIN x.tables = DOMAIN d.tables
  BY <1>0, ExecColumn DEF SameData
<1>3. /\ Kept(x, y) /\ Grown(x, y) /\ Has(y, "users", {"totp_enabled"}) /\ SameData(x, y)
      /\ DOMAIN y.tables = DOMAIN x.tables
  BY <1>0, <1>2, ExecColumn DEF SameData, Kept
<1>4. /\ Kept(y, e) /\ SameData(y, e) /\ Grown(y, e)
      /\ DOMAIN e.tables = DOMAIN y.tables \cup {"recovery_codes"}
  BY <1>3, ExecCreate DEF Kept
<1> HIDE DEF x, y, e
<1>5. Grown(d, e) /\ Grown(x, e)
  BY <1>2, <1>3, <1>4, GrownTwice
<1>6. Kept(d, e) /\ SameData(d, e)
  BY <1>2, <1>3, <1>4 DEF Kept, SameData
<1>7. Tidy(e)
  BY <1>0, <1>2, <1>3, <1>4, <1>5, HasGrows DEF Tidy
<1>8. Level(Number(16), e)
  <2>1. Has(e, "users", {"totp_secret_encrypted"}) /\ Has(e, "users", {"totp_enabled"})
    BY <1>2, <1>3, <1>4, <1>5, HasGrows
  <2>2. Has(e, "recovery_codes", {})
    BY <1>4 DEF Has
  <2> QED
    BY <2>1, <2>2 DEF Level, Number, Has
<1>9. After(d, e, 16)
  BY <1>5, <1>6, <1>7, <1>8, AfterPlain DEF SameData
<1> QED
  BY <1>1, <1>9

\* The five tables of the first release, on an empty file.
FirstRelease(e, U, P) ==
    /\ DOMAIN e.tables = {"users", "providers", "models", "api_keys", "usage_logs"}
    /\ e.tables["users"] = U /\ e.tables["providers"] = P
    /\ e.tables["models"] = {"provider_key", "user_id"}
    /\ e.tables["usage_logs"] = {"api_key_id", "created_at", "provider_id", "user_id"}

\* five statements make them, with the columns the caller asks for.
LEMMA FiveTables ==
  ASSUME NEW d, Db(d), DOMAIN d.tables = {}, NEW U, NEW P, NEW r, NEW h, NEW n \in Nat, n >= 5,
         Steps("exec", r, d, h, n),
         h[1] = <<"create", "users", U>>, h[2] = <<"create", "providers", P>>,
         h[3] = <<"create", "models", {"provider_key", "user_id"}>>,
         h[4] = <<"create", "api_keys", {}>>,
         h[5] = <<"create", "usage_logs", {"api_key_id", "created_at", "provider_id", "user_id"}>>
  PROVE  Kept(d, r[5]) /\ SameData(d, r[5]) /\ FirstRelease(r[5], U, P)
<1> DEFINE r1 == r[1]  r2 == r[2]  r3 == r[3]  r4 == r[4]  r5 == r[5]
<1>0. /\ r1 = Exec(d, h[1]) /\ r2 = Exec(r1, h[2]) /\ r3 = Exec(r2, h[3])
      /\ r4 = Exec(r3, h[4]) /\ r5 = Exec(r4, h[5])
  BY SMTT(40) DEF Steps, Step
<1> HIDE DEF r1, r2, r3, r4, r5
<1>1. /\ Kept(d, r1) /\ SameData(d, r1) /\ DOMAIN r1.tables = {"users"} /\ r1.tables["users"] = U
  BY <1>0, ExecCreate
<1>2. /\ Kept(r1, r2) /\ SameData(r1, r2) /\ DOMAIN r2.tables = {"users", "providers"}
      /\ r2.tables["providers"] = P /\ \A t \in DOMAIN r1.tables : r2.tables[t] = r1.tables[t]
  <2>1. Db(r1) /\ "providers" \notin DOMAIN r1.tables
    BY <1>1 DEF Kept
  <2>2. LET x == Exec(r1, <<"create", "providers", P>>)
        IN /\ Kept(r1, x) /\ SameData(r1, x)
           /\ DOMAIN x.tables = DOMAIN r1.tables \cup {"providers"}
           /\ x.tables["providers"] = P
           /\ \A u \in DOMAIN r1.tables : x.tables[u] = r1.tables[u]
    BY <2>1, CreateNone
  <2>3. r2 = Exec(r1, <<"create", "providers", P>>)
    BY <1>0
  <2> QED
    BY <1>1, <2>2, <2>3
<1>3. /\ Kept(r2, r3) /\ SameData(r2, r3) /\ DOMAIN r3.tables = {"users", "providers", "models"}
      /\ r3.tables["models"] = {"provider_key", "user_id"}
      /\ \A t \in DOMAIN r2.tables : r3.tables[t] = r2.tables[t]
  <2>1. Db(r2) /\ "models" \notin DOMAIN r2.tables
    BY <1>2 DEF Kept
  <2>2. LET x == Exec(r2, <<"create", "models", {"provider_key", "user_id"}>>)
        IN /\ Kept(r2, x) /\ SameData(r2, x)
           /\ DOMAIN x.tables = DOMAIN r2.tables \cup {"models"}
           /\ x.tables["models"] = {"provider_key", "user_id"}
           /\ \A u \in DOMAIN r2.tables : x.tables[u] = r2.tables[u]
    BY <2>1, CreateNone
  <2>3. r3 = Exec(r2, <<"create", "models", {"provider_key", "user_id"}>>)
    BY <1>0
  <2> QED
    BY <1>2, <2>2, <2>3
<1>4. /\ Kept(r3, r4) /\ SameData(r3, r4)
      /\ DOMAIN r4.tables = {"users", "providers", "models", "api_keys"}
      /\ \A t \in DOMAIN r3.tables : r4.tables[t] = r3.tables[t]
  <2>1. Db(r3) /\ "api_keys" \notin DOMAIN r3.tables
    BY <1>3 DEF Kept
  <2>2. LET x == Exec(r3, <<"create", "api_keys", {}>>)
        IN /\ Kept(r3, x) /\ SameData(r3, x)
           /\ DOMAIN x.tables = DOMAIN r3.tables \cup {"api_keys"}
           /\ x.tables["api_keys"] = {}
           /\ \A u \in DOMAIN r3.tables : x.tables[u] = r3.tables[u]
    BY <2>1, CreateNone
  <2>3. r4 = Exec(r3, <<"create", "api_keys", {}>>)
    BY <1>0
  <2> QED
    BY <1>3, <2>2, <2>3
<1>5. /\ Kept(r4, r5) /\ SameData(r4, r5)
      /\ DOMAIN r5.tables = {"users", "providers", "models", "api_keys", "usage_logs"}
      /\ r5.tables["usage_logs"] = {"api_key_id", "created_at", "provider_id", "user_id"}
      /\ \A t \in DOMAIN r4.tables : r5.tables[t] = r4.tables[t]
  <2>1. Db(r4) /\ "usage_logs" \notin DOMAIN r4.tables
    BY <1>4 DEF Kept
  <2>2. LET x == Exec(r4, <<"create", "usage_logs",
                           {"api_key_id", "created_at", "provider_id", "user_id"}>>)
        IN /\ Kept(r4, x) /\ SameData(r4, x)
           /\ DOMAIN x.tables = DOMAIN r4.tables \cup {"usage_logs"}
           /\ x.tables["usage_logs"] = {"api_key_id", "created_at", "provider_id", "user_id"}
           /\ \A u \in DOMAIN r4.tables : x.tables[u] = r4.tables[u]
    BY <2>1, CreateNone
  <2>3. r5 = Exec(r4, <<"create", "usage_logs",
                        {"api_key_id", "created_at", "provider_id", "user_id"}>>)
    BY <1>0
  <2> QED
    BY <1>4, <2>2, <2>3
<1>6. Kept(d, r5) /\ SameData(d, r5)
  BY <1>1, <1>2, <1>3, <1>4, <1>5 DEF Kept, SameData
<1>7. FirstRelease(r5, U, P)
  BY <1>1, <1>2, <1>3, <1>4, <1>5 DEF FirstRelease
<1> QED
  BY <1>6, <1>7 DEF r5

\* The first version makes them with all their columns.
LEMMA AfterV1 ==
  ASSUME NEW d, Ready(d, 1)
  PROVE  After(d, FoldLeft(Exec, d, migrations[1].up), 1)
<1>1. d.versions = {}
  <2>1. 1 \notin d.versions /\ Closed(d.versions) /\ d.versions \subseteq 1..18
    BY DEF Ready, Number, Good
  <2>2. ASSUME NEW v \in d.versions PROVE FALSE
    <3>1. Number(1) <= v /\ 1 \in 1..16 /\ Number(1) = 1
      BY <2>1 DEF Number
    <3> QED
      BY <2>1, <3>1 DEF Closed
  <2> QED
    BY <2>2
<1>2. Db(d) /\ DOMAIN d.tables = {} /\ Data(d)
  BY <1>1 DEF Ready, Good
<1>3. PICK r : Steps("exec", r, d, V1, 12) /\ FoldLeft(Exec, d, V1) = r[12]
  <2> DEFINE h == V1
             n == 12
  <2>1. DOMAIN h = 1..n /\ n \in Nat
    BY FirstIs
  <2> HIDE DEF h, n
  <2>2. \E r : Steps("exec", r, d, h, n) /\ FoldLeft(Exec, d, h) = r[n]
    BY <2>1, ExecSteps
  <2> QED
    BY <2>2 DEF h, n
<1> DEFINE U == {"email"}
           P == {"user_id"}
           e == r[12]
<1>4. Kept(d, r[5]) /\ SameData(d, r[5]) /\ FirstRelease(r[5], U, P)
  <2> DEFINE h == V1
  <2>1. /\ h[1] = <<"create", "users", U>> /\ h[2] = <<"create", "providers", P>>
        /\ h[3] = <<"create", "models", {"provider_key", "user_id"}>>
        /\ h[4] = <<"create", "api_keys", {}>>
        /\ h[5] = <<"create", "usage_logs", {"api_key_id", "created_at", "provider_id", "user_id"}>>
    BY FirstIs
  <2>2. Steps("exec", r, d, h, 12)
    BY <1>3
  <2> HIDE DEF h, U, P
  <2> QED
    BY <1>2, <2>1, <2>2, FiveTables
<1> DEFINE Same(x) == Kept(d, x) /\ SameData(d, x) /\ FirstRelease(x, U, P)
<1>5. ASSUME NEW x, Same(x), NEW t, NEW C, NEW y, y = Exec(x, <<"index", t, C>>),
             \/ t = "models" /\ C \subseteq {"provider_key", "user_id"}
             \/ t = "usage_logs" /\ C \subseteq {"api_key_id", "created_at", "provider_id", "user_id"}
             \/ t = "providers" /\ C \subseteq P
      PROVE  Same(y)
  <2>1. Has(x, t, C)
    BY <1>5 DEF Has, FirstRelease
  <2>2. Kept(x, y) /\ SameData(x, y) /\ y.tables = x.tables
    BY <1>5, <2>1, ExecIndex DEF Kept
  <2> QED
    BY <1>5, <2>2 DEF Kept, SameData, FirstRelease
<1>6. /\ r[6] = Exec(r[5], V1[6]) /\ r[7] = Exec(r[6], V1[7]) /\ r[8] = Exec(r[7], V1[8])
      /\ r[9] = Exec(r[8], V1[9]) /\ r[10] = Exec(r[9], V1[10]) /\ r[11] = Exec(r[10], V1[11])
      /\ r[12] = Exec(r[11], V1[12])
  BY <1>3 DEF Steps, Step
<1> HIDE DEF Same
<1>7. Same(r[6])
  BY <1>4, <1>5, <1>6, FirstIs DEF Same
<1>8. Same(r[7])
  BY <1>5, <1>6, <1>7, FirstIs
<1>9. Same(r[8])
  BY <1>5, <1>6, <1>8, FirstIs
<1>10. Same(r[9])
  BY <1>5, <1>6, <1>9, FirstIs
<1>11. Same(r[10])
  BY <1>5, <1>6, <1>10, FirstIs
<1>12. Same(r[11])
  BY <1>5, <1>6, <1>11, FirstIs
<1>13. Same(e)
  BY <1>5, <1>6, <1>12, FirstIs
<1>14. Kept(d, e) /\ SameData(d, e) /\ FirstRelease(e, U, P)
  BY <1>13 DEF Same
<1> HIDE DEF e
<1>15. Tidy(e) /\ Level(1, e)
  BY <1>14 DEF Tidy, Level, Has, FirstRelease
<1>16. DOMAIN d.rows = {}
  BY <1>2 DEF Data
<1>17. Effect(d, e, 1)
  BY <1>14, <1>16 DEF Effect, SameData
<1>18. Data(e)
  BY <1>2, <1>14, <1>16 DEF Data, SameData
<1>19. After(d, e, 1)
  BY <1>1, <1>14, <1>15, <1>17, <1>18 DEF After, Number
<1> QED
  BY <1>3, <1>19, UpsAre DEF e

\* Every version does its work on the database of the version before,
LEMMA AfterUp ==
  ASSUME NEW d, NEW k \in 1..16, Ready(d, k)
  PROVE  After(d, FoldLeft(Exec, d, migrations[k].up), k)
<1>1. CASE k \in 1..4
  BY <1>1, AfterV1, AfterV2, AfterV3, AfterV4
<1>2. CASE k \in 5..8
  BY <1>2, AfterV5, AfterV6, AfterV7, AfterV8
<1>3. CASE k \in 9..13
  BY <1>3, AfterV9, AfterV10, AfterV11, AfterV12, AfterV13
<1>4. CASE k \in 14..16
  BY <1>4, AfterCarry, AfterV18
<1> QED
  BY <1>1, <1>2, <1>3, <1>4

\* and is recorded.
LEMMA ApplyReady ==
  ASSUME NEW d, NEW k \in 1..16, Ready(d, k), NEW e, e = Apply(d, migrations[k])
  PROVE  Good(e) /\ e.versions = d.versions \cup {Number(k)} /\ Effect(d, e, k)
<1> DEFINE x == FoldLeft(Exec, d, migrations[k].up)
<1>1. After(d, x, k)
  BY AfterUp
<1>2. e = Record(x, Number(k))
  BY ListIs DEF Apply
<1> HIDE DEF x
<1>3. Db(x) /\ x.versions = d.versions
  BY <1>1 DEF After, Kept
<1>4. e = [x EXCEPT !.versions = @ \cup {Number(k)}]
  BY <1>2, <1>3 DEF Record, Db, Ready
<1>5. /\ Db(e) /\ e.versions = d.versions \cup {Number(k)} /\ e.tables = x.tables
      /\ e.rows = x.rows /\ e.keys = x.keys /\ e.logs = x.logs
  BY <1>3, <1>4 DEF Db, Fields
<1>6. Effect(d, e, k)
  BY <1>1, <1>5 DEF After, Effect
<1>7. Data(e)
  BY <1>1, <1>5 DEF After, Data, Has
<1>8. Tidy(e)
  BY <1>1, <1>5 DEF After, Tidy, Has
<1>9. \A v \in e.versions : Level(v, e)
  <2>1. Grown(x, e)
    BY <1>5 DEF Grown
  <2> QED
    BY <1>1, <1>5, <2>1, LevelGrows DEF After
<1>10. e.versions \subseteq 1..18 /\ e.versions # {}
  BY <1>5 DEF Ready, Good, Number
<1>11. Closed(e.versions)
  <2>1. ASSUME NEW v \in e.versions, NEW i \in 1..16, Number(i) <= v
        PROVE  Number(i) \in e.versions
    <3>1. CASE v \in d.versions
      BY <1>5, <2>1, <3>1 DEF Ready, Good, Closed
    <3>2. CASE v = Number(k)
      <4>1. i <= k
        BY <2>1, <3>2 DEF Number
      <4>2. i = k \/ i \in 1..(k - 1)
        BY <4>1
      <4> QED
        BY <1>5, <4>2 DEF Ready
    <3> QED
      BY <1>5, <3>1, <3>2
  <2> QED
    BY <2>1 DEF Closed
<1> QED
  BY <1>5, <1>6, <1>7, <1>8, <1>9, <1>10, <1>11 DEF Good

-----------------------------------------------------------------------------
(* From any file between two versions to the full schema.                   *)

\* The highest version recorded, 0 if there is none.
LEMMA CurrentIs ==
  ASSUME NEW d, d.versions \subseteq 1..18
  PROVE  /\ currentVersion(d) \in {0} \cup d.versions
         /\ \A w \in d.versions : w <= currentVersion(d)
<1> DEFINE V == d.versions
           S == {0} \cup V
           T == {18 - v : v \in S}
<1> HIDE DEF V
<1>0. V \subseteq 1..18
  BY DEF V
<1>1. \A v \in S : v \in 0..18
  BY <1>0
<1>2. T \in SUBSET Nat /\ T # {}
  <2>1. 0 \in S /\ 18 - 0 \in T
    OBVIOUS
  <2>2. ASSUME NEW v \in S PROVE 18 - v \in Nat
    <3>1. v \in 0..18
      BY <1>1
    <3> QED
      BY <3>1
  <2>3. T # {}
    BY <2>1
  <2>4. \A x \in T : x \in Nat
    BY <2>2
  <2> HIDE DEF T
  <2> QED
    BY <2>3, <2>4
<1>3. PICK m \in T : \A n \in T : m <= n
  BY <1>2, Least
<1>4. PICK v \in S : m = 18 - v
  OBVIOUS
<1>5. ASSUME NEW w \in V PROVE w <= v
  <2>1. 18 - w \in T /\ w \in 0..18 /\ v \in 0..18
    BY <1>1
  <2>2. 18 - v <= 18 - w
    BY <1>3, <1>4, <2>1
  <2> QED
    BY <2>1, <2>2
<1>6. \E x \in {0} \cup V : \A w \in V : w <= x
  BY <1>5
<1> HIDE DEF S, T
<1>7. currentVersion(d) = CHOOSE x \in {0} \cup V : \A w \in V : w <= x
  BY DEF currentVersion, V
<1>8. currentVersion(d) \in {0} \cup V /\ \A w \in V : w <= currentVersion(d)
  BY <1>6, <1>7
<1> QED
  BY <1>8 DEF V

\* The loop passes over exactly the versions that are recorded.
LEMMA PassedIs ==
  ASSUME NEW d, d.versions \subseteq 1..18, Closed(d.versions)
  PROVE  /\ Passed(d) \in 0..16
         /\ \A i \in 1..16 : Number(i) \in d.versions <=> i <= Passed(d)
<1> DEFINE c == currentVersion(d)
           n == IF c <= 14 THEN c ELSE IF c <= 16 THEN 14 ELSE c - 2
<1>1. c \in {0} \cup d.versions /\ (\A w \in d.versions : w <= c) /\ c \in 0..18
  BY CurrentIs
<1>2. {i \in DOMAIN migrations : migrations[i].version <= c} = {i \in 1..16 : Number(i) <= c}
  BY ListIs
<1> HIDE DEF c
<1>3. n \in 0..16 /\ \A i \in 1..16 : Number(i) <= c <=> i <= n
  BY <1>1 DEF Number
<1> HIDE DEF n
<1>4. {i \in 1..16 : Number(i) <= c} = 1..n
  BY <1>3
<1>5. Cardinality(1..n) = n
  <2>1. Cardinality(1..n) = IF 1 > n THEN 0 ELSE n - 1 + 1
    BY <1>3, FS_Interval
  <2> QED
    BY <1>3, <2>1
<1>6. Passed(d) = n
  BY <1>2, <1>4, <1>5 DEF Passed, c
<1>7. ASSUME NEW i \in 1..16 PROVE Number(i) \in d.versions <=> Number(i) <= c
  <2>1. ASSUME Number(i) <= c PROVE Number(i) \in d.versions
    <3>1. c \in d.versions
      BY <1>1, <2>1 DEF Number
    <3> QED
      BY <2>1, <3>1 DEF Closed
  <2> QED
    BY <1>1, <2>1
<1> QED
  BY <1>3, <1>6, <1>7

\* All versions together make the schema the services need.
LEMMA CompleteIs ==
  ASSUME NEW d, Good(d), \A i \in 1..16 : Number(i) \in d.versions
  PROVE  Complete(d)
<1>1. /\ Level(1, d) /\ Level(3, d) /\ Level(7, d) /\ Level(8, d) /\ Level(10, d) /\ Level(11, d)
      /\ Level(12, d) /\ Level(13, d) /\ Level(17, d) /\ Level(18, d)
  <2>1. /\ Number(1) = 1 /\ Number(3) = 3 /\ Number(7) = 7 /\ Number(8) = 8 /\ Number(10) = 10
        /\ Number(11) = 11 /\ Number(12) = 12 /\ Number(13) = 13 /\ Number(15) = 17
        /\ Number(16) = 18
    BY DEF Number
  <2>2. {1, 3, 7, 8, 10, 11, 12, 13, 17, 18} \subseteq d.versions
    BY <2>1
  <2> QED
    BY <2>2 DEF Good
<1>2. /\ Has(d, "users", {"email", "totp_secret_encrypted", "totp_enabled"})
      /\ Has(d, "providers", {"user_id", "show_in_model_list", "custom"})
      /\ Has(d, "models", {"source_provider_key"}) /\ Has(d, "api_keys", {"total_token_limit"})
      /\ Has(d, "usage_logs", {"ttft_ms"})
      /\ Has(d, "user_providers", {}) /\ Has(d, "password_reset_codes", {})
      /\ Has(d, "provider_endpoints", {}) /\ Has(d, "provider_api_keys", {})
      /\ Has(d, "recovery_codes", {})
  BY <1>1 DEF Level, Has
<1>3. ASSUME NEW t \in Tables PROVE t \in DOMAIN d.tables /\ Needed(t) \subseteq d.tables[t]
  BY <1>2 DEF Tables, Needed, Has
<1> QED
  BY <1>3 DEF Complete, Good, Db

\* The versions of the list from one to another.
LEMMA PartIs ==
  ASSUME NEW p \in 0..16, NEW q \in p..16, NEW h, h = SubSeq(migrations, p + 1, q)
  PROVE  DOMAIN h = 1..(q - p) /\ \A j \in 1..(q - p) : h[j] = migrations[p + j]
<1>1. h = [j \in 1..(q - (p + 1) + 1) |-> migrations[j + (p + 1) - 1]]
  BY DEF SubSeq
<1>2. q - (p + 1) + 1 = q - p
  OBVIOUS
<1>3. h = [j \in 1..(q - p) |-> migrations[j + (p + 1) - 1]]
  BY <1>1, <1>2
<1>4. ASSUME NEW j \in 1..(q - p) PROVE h[j] = migrations[p + j]
  <2>1. j + (p + 1) - 1 = p + j
    OBVIOUS
  <2> QED
    BY <1>3, <2>1
<1>5. DOMAIN h = 1..(q - p)
  BY <1>3
<1> QED
  BY <1>4, <1>5

\* From a file between two versions they lead to one.
LEMMA PartApplies ==
  ASSUME NEW d, Good(d), NEW p \in 0..16, NEW q \in p..16,
         \A i \in 1..16 : Number(i) \in d.versions <=> i <= p
  PROVE  LET e == FoldLeft(Apply, d, SubSeq(migrations, p + 1, q))
         IN /\ Good(e) /\ DOMAIN e.logs = DOMAIN d.logs
            /\ \A i \in 1..16 : Number(i) \in e.versions <=> i <= q
<1> DEFINE h == SubSeq(migrations, p + 1, q)
           n == q - p
<1>h. h = SubSeq(migrations, p + 1, q)
  OBVIOUS
<1> HIDE DEF h
<1>1. DOMAIN h = 1..n /\ \A j \in 1..n : h[j] = migrations[p + j]
  BY <1>h, PartIs
<1>2. n \in Nat /\ p + n = q
  OBVIOUS
<1> HIDE DEF n
<1>3. PICK r : Steps("apply", r, d, h, n) /\ FoldLeft(Apply, d, h) = r[n]
  <2>1. DOMAIN h = 1..n /\ n \in Nat
    BY <1>1, <1>2
  <2> QED
    BY <2>1, ApplySteps
<1> DEFINE There(j) == /\ Good(r[j]) /\ DOMAIN r[j].logs = DOMAIN d.logs
                    /\ \A i \in 1..16 : Number(i) \in r[j].versions <=> i <= p + j
           T == {j \in Nat : j <= n => There(j)}
<1>4. 0 \in T
  <2>1. r[0] = d
    BY <1>3 DEF Steps
  <2> QED
    BY <2>1
<1>5. ASSUME NEW j \in Nat, j \in T PROVE j + 1 \in T
  <2> SUFFICES ASSUME j + 1 <= n PROVE There(j + 1)
    OBVIOUS
  <2> DEFINE k == p + j + 1
             a == r[j]
             e == r[j + 1]
  <2>1. There(j) /\ k \in 1..16
    BY <1>2, <1>5
  <2>2. Ready(a, k)
    <3>1. Good(a) /\ \A i \in 1..16 : Number(i) \in a.versions <=> i <= p + j
      BY <2>1
    <3>2. Number(k) \notin a.versions
      BY <2>1, <3>1
    <3>3. \A i \in 1..(k - 1) : i \in 1..16 /\ i <= p + j
      BY <2>1
    <3> QED
      BY <3>1, <3>2, <3>3 DEF Ready
  <2>3. e = Apply(a, migrations[k])
    <3>1. j + 1 \in 1..n /\ (j + 1) - 1 = j
      BY <1>2
    <3>2. e = Step("apply", a, h[j + 1])
      BY <1>3, <3>1 DEF Steps
    <3> DEFINE m == j + 1
    <3>3. m \in 1..n /\ p + m = k
      BY <3>1
    <3> HIDE DEF m, k
    <3>4. h[m] = migrations[k]
      BY <1>1, <3>3
    <3> QED
      BY <3>2, <3>4 DEF Step, m
  <2> HIDE DEF a, e, k
  <2>4. /\ Good(e) /\ e.versions = a.versions \cup {Number(k)} /\ DOMAIN e.logs = DOMAIN a.logs
    BY <2>1, <2>2, <2>3, ApplyReady DEF Effect
  <2>5. ASSUME NEW i \in 1..16 PROVE Number(i) \in e.versions <=> i <= p + (j + 1)
    <3>1. Number(i) \in a.versions <=> i <= p + j
      BY <2>1 DEF a
    <3>2. Number(i) = Number(k) <=> i = k
      BY <2>1 DEF Number
    <3> QED
      BY <2>1, <2>4, <3>1, <3>2 DEF k
  <2> QED
    BY <2>1, <2>4, <2>5 DEF a, e
<1> HIDE DEF T
<1>6. n \in T
  BY <1>2, <1>4, <1>5, Induct
<1>7. There(n)
  BY <1>2, <1>6 DEF T
<1> QED
  BY <1>2, <1>3, <1>7 DEF h

\* So an undisturbed run completes every file between two versions.
LEMMA MigratedIs ==
  ASSUME NEW d, Good(d)
  PROVE  Complete(Migrated(d))
<1> DEFINE P == Passed(d)
           e == FoldLeft(Apply, d, SubSeq(migrations, P + 1, 16))
<1>1. P \in 0..16 /\ \A i \in 1..16 : Number(i) \in d.versions <=> i <= P
  BY PassedIs DEF Good
<1> HIDE DEF P
<1>2. Good(e) /\ \A i \in 1..16 : Number(i) \in e.versions <=> i <= 16
  <2>1. P \in 0..16 /\ 16 \in P..16
    BY <1>1
  <2> QED
    BY <1>1, <2>1, PartApplies, SMTT(60)
<1>3. Migrated(d) = e
  BY ListIs DEF Migrated, P
<1> HIDE DEF e
<1>4. Complete(e)
  BY <1>2, CompleteIs
<1> QED
  BY <1>3, <1>4

-----------------------------------------------------------------------------
(* What the earlier releases leave is between two versions.                 *)

\* A file that has just been made,
LEMMA EmptyIs ==
  Good(Empty) /\ Empty.versions = {} /\ DOMAIN Empty.logs = {}
<1>1. /\ Db(Empty) /\ Empty.versions = {} /\ DOMAIN Empty.tables = {} /\ DOMAIN Empty.rows = {}
      /\ DOMAIN Empty.keys = {} /\ DOMAIN Empty.logs = {}
  BY DEF Empty, Db, Fields
<1>2. Tidy(Empty) /\ Data(Empty) /\ Closed({})
  BY <1>1 DEF Tidy, Data, Has, Closed
<1> QED
  BY <1>1, <1>2 DEF Good

\* a file on which the first k versions of the list were run,
LEMMA LeftIs ==
  ASSUME NEW k \in 0..16
  PROVE  /\ Good(Left(k)) /\ DOMAIN Left(k).logs = {}
         /\ \A i \in 1..16 : Number(i) \in Left(k).versions <=> i <= k
<1> DEFINE d == Empty
           e == FoldLeft(Apply, d, SubSeq(migrations, 1, k))
<1>1. Good(d) /\ DOMAIN d.logs = {} /\ \A i \in 1..16 : Number(i) \in d.versions <=> i <= 0
  BY EmptyIs
<1> HIDE DEF d
<1>2. /\ Good(e) /\ DOMAIN e.logs = DOMAIN d.logs
      /\ \A i \in 1..16 : Number(i) \in e.versions <=> i <= k
  <2> DEFINE p == 0
  <2>1. p \in 0..16 /\ k \in p..16 /\ p + 1 = 1
    OBVIOUS
  <2>2. \A i \in 1..16 : Number(i) \in d.versions <=> i <= p
    BY <1>1
  <2> HIDE DEF p
  <2> QED
    BY <1>1, <2>1, <2>2, PartApplies, SMTT(60)
<1>3. Left(k) = e
  BY DEF Left, d
<1> HIDE DEF e
<1> QED
  BY <1>1, <1>2, <1>3

\* A file whose first version did not have the columns of 3 and 4.
LEMMA EarlyIs == Good(Early) /\ DOMAIN Early.logs = {}
<1> DEFINE h == FirstTables({"email", "user_id"})
           n == 5
           U == {"email"} \ {"email", "user_id"}
           P == {"user_id"} \ {"email", "user_id"}
           d == Empty
           x == FoldLeft(Exec, d, h)
           e == [x EXCEPT !.versions = {1, 2}]
<1>0. DOMAIN h = 1..n /\ n \in Nat /\ n >= 5
  BY DEF FirstTables
<1>1. /\ h[1] = <<"create", "users", U>> /\ h[2] = <<"create", "providers", P>>
      /\ h[3] = <<"create", "models", {"provider_key", "user_id"}>>
      /\ h[4] = <<"create", "api_keys", {}>>
      /\ h[5] = <<"create", "usage_logs", {"api_key_id", "created_at", "provider_id", "user_id"}>>
  BY DEF FirstTables
<1>2. /\ Db(d) /\ DOMAIN d.tables = {} /\ Data(d) /\ DOMAIN d.logs = {}
  BY EmptyIs DEF Good
<1>e. Early = e
  BY DEF Early
<1> HIDE DEF h, U, P, d
<1>3. PICK r : Steps("exec", r, d, h, n) /\ x = r[n]
  <2> HIDE DEF n
  <2> QED
    BY <1>0, ExecSteps
<1>4. Kept(d, x) /\ SameData(d, x) /\ FirstRelease(x, U, P)
  <2>1. Kept(d, r[5]) /\ SameData(d, r[5]) /\ FirstRelease(r[5], U, P)
    BY <1>0, <1>1, <1>2, <1>3, FiveTables
  <2> QED
    BY <1>3, <2>1
<1> HIDE DEF x
<1>5. /\ Db(e) /\ e.versions = {1, 2} /\ e.tables = x.tables
      /\ e.rows = d.rows /\ e.keys = d.keys /\ e.logs = d.logs
  BY <1>4 DEF Kept, SameData, Db, Fields
<1> HIDE DEF e
<1>6. Tidy(e) /\ Level(1, e) /\ Level(2, e)
  BY <1>4, <1>5 DEF Tidy, Level, Has, FirstRelease
<1>7. DOMAIN d.rows = {}
  BY <1>2 DEF Data
<1>8. Data(e)
  BY <1>2, <1>5, <1>7 DEF Data
<1>9. Closed({1, 2})
  BY DEF Closed, Number
<1> QED
  BY <1>2, <1>5, <1>6, <1>8, <1>9, <1>e DEF Good

\* A file that records 14 to 16: nothing depends on what 14 was.
LEMMA LaterIs ==
  ASSUME NEW k \in {13, 14}
  PROVE  Good(Later(Left(k))) /\ DOMAIN Later(Left(k)).logs = {}
<1> DEFINE d == Left(k)
           e == Later(d)
<1>1. /\ Good(d) /\ DOMAIN d.logs = {}
      /\ \A i \in 1..16 : Number(i) \in d.versions <=> i <= k
  BY LeftIs
<1> HIDE DEF d
<1>2. /\ Db(e) /\ e.versions = d.versions \cup {14, 15, 16} /\ e.tables = d.tables
      /\ e.rows = d.rows /\ e.keys = d.keys /\ e.logs = d.logs
  BY <1>1 DEF Good, Db, Fields, Later
<1> HIDE DEF e
<1>3. ASSUME NEW v \in e.versions PROVE Level(v, e)
  <2>1. CASE v \in d.versions
    <3>1. Grown(d, e) /\ Level(v, d)
      BY <1>1, <1>2, <2>1 DEF Grown, Good
    <3> QED
      BY <3>1, LevelGrows
  <2>2. CASE v \in {14, 15, 16}
    BY <2>2 DEF Level
  <2> QED
    BY <1>2, <2>1, <2>2
<1>4. Closed(e.versions)
  <2>1. ASSUME NEW v \in e.versions, NEW i \in 1..16, Number(i) <= v
        PROVE  Number(i) \in e.versions
    <3>1. CASE v \in d.versions
      BY <1>1, <1>2, <2>1, <3>1 DEF Good, Closed
    <3>2. CASE v \in {14, 15, 16}
      <4>1. i <= 13 \/ Number(i) = 14
        BY <2>1, <3>2 DEF Number
      <4> QED
        BY <1>1, <1>2, <4>1
    <3> QED
      BY <1>2, <3>1, <3>2
  <2> QED
    BY <2>1 DEF Closed
<1>5. Tidy(e) /\ Data(e)
  BY <1>1, <1>2 DEF Good, Tidy, Data, Has
<1>6. e.versions \subseteq 1..18 /\ e.versions # {}
  BY <1>1, <1>2 DEF Good
<1> QED
  BY <1>1, <1>2, <1>3, <1>4, <1>5, <1>6 DEF Good, e, d

\* So is every file a server is started on; its providers are of the kinds
\* that earlier releases leave, and so are its logs.
AsLeft(o) ==
    /\ NewId \notin DOMAIN o.rows
    /\ \A l \in DOMAIN o.logs : o.logs[l].owner \in {"null", "zero", "owner"}

\* Filling a file with data keeps it between two versions;
LEMMA FilledIs ==
  ASSUME NEW d, Good(d), DOMAIN d.logs = {}, NEW e, e = Filled(d)
  PROVE  Good(e) /\ AsLeft(e)
<1>1. CASE "providers" \notin DOMAIN d.tables
  <2>1. e = d
    BY <1>1 DEF Filled
  <2>2. DOMAIN d.rows = {}
    BY <1>1 DEF Good, Data
  <2> QED
    BY <2>1, <2>2 DEF AsLeft
<1>2. CASE "providers" \in DOMAIN d.tables
  <2> DEFINE kinds == BOOLEAN \X Flags(d) \X Rows(d)
             owners == {"null", "zero", "owner"} \X {"creator", None}
             R == [k \in kinds |-> [legacy |-> k[1], flag |-> k[2]]]
             K == [k \in kinds |-> k[3]]
             L == [o \in owners |-> [owner |-> o[1], creator |-> o[2]]]
  <2>1. e = [d EXCEPT !.rows = R, !.keys = K, !.logs = L]
    BY <1>2 DEF Filled
  <2>2. /\ DOMAIN R = kinds /\ DOMAIN K = kinds /\ DOMAIN L = owners
        /\ \A k \in kinds : R[k] = [legacy |-> k[1], flag |-> k[2]] /\ K[k] = k[3]
        /\ \A o \in owners : L[o] = [owner |-> o[1], creator |-> o[2]]
    OBVIOUS
  <2>3. /\ Flags(d) \subseteq {"unset", "shown", "hidden", "null"}
        /\ Rows(d) \subseteq 0..2
        /\ "show_in_model_list" \notin d.tables["providers"] => Flags(d) = {"unset"}
    BY DEF Flags, Rows
  <2>4. kinds \subseteq Kinds
    BY <2>3 DEF Kinds
  <2>5. \A k \in kinds : k[2] \in Flags(d) /\ k[3] \in 0..2
    BY <2>3
  <2>6. \A o \in owners : o[1] \in {"null", "zero", "owner"} /\ o[2] \in {"creator", None}
    OBVIOUS
  <2> HIDE DEF R, K, L, kinds, owners
  <2>7. /\ Db(e) /\ e.versions = d.versions /\ e.tables = d.tables
        /\ e.rows = R /\ e.keys = K /\ e.logs = L
    BY <2>1 DEF Good, Db, Fields
  <2>8. \A v \in e.versions : Level(v, e)
    <3>1. Grown(d, e)
      BY <2>7 DEF Grown
    <3> QED
      BY <2>7, <3>1, LevelGrows DEF Good
  <2>9. Tidy(e)
    BY <2>7 DEF Good, Tidy, Has
  <2>10. Data(e)
    <3>1. DOMAIN e.keys = DOMAIN e.rows
      BY <2>2, <2>7
    <3>2. \A k \in kinds : DOMAIN R[k] = {"legacy", "flag"} /\ K[k] \in Nat
      BY <2>2, <2>5
    <3>3. \A o \in owners : DOMAIN L[o] = {"owner", "creator"} /\ L[o].creator \in {"creator", None}
      BY <2>2, <2>6
    <3>4. "show_in_model_list" \notin d.tables["providers"] => \A k \in kinds : R[k].flag # "hidden"
      BY <2>2, <2>3, <2>5
    <3> QED
      BY <1>2, <2>2, <2>7, <3>1, <3>2, <3>3, <3>4 DEF Data
  <2>11. AsLeft(e)
    <3>1. NewId \notin kinds
      BY <2>4, MigrationsAssumption
    <3>2. \A o \in owners : L[o].owner \in {"null", "zero", "owner"}
      BY <2>2, <2>6
    <3> QED
      BY <2>2, <2>7, <3>1, <3>2 DEF AsLeft
  <2> QED
    BY <2>7, <2>8, <2>9, <2>10, <2>11 DEF Good
<1> QED
  BY <1>1, <1>2

\* the files a server may find are all filled that way.
LEMMA OriginIs ==
  ASSUME NEW f \in {Filled(d) : d \in Schemas}
  PROVE  Good(f) /\ AsLeft(f)
<1>1. PICK d \in Schemas : f = Filled(d)
  OBVIOUS
<1>2. Good(d) /\ DOMAIN d.logs = {}
  <2>1. CASE d \in {Left(k) : k \in 0..Len(migrations)}
    <3>1. PICK k \in 0..16 : d = Left(k)
      BY <2>1, ListIs
    <3> QED
      BY <3>1, LeftIs
  <2>2. CASE d \in {Early, Later(Left(13)), Later(Left(14))}
    BY <2>2, EarlyIs, LaterIs
  <2> QED
    BY <2>1, <2>2 DEF Schemas
<1> QED
  BY <1>1, <1>2, FilledIs

-----------------------------------------------------------------------------
(* The data of the file the servers found.                                  *)

\* The keys of a provider of o in d,
Carried(o, d, i) ==
    IF /\ {14, 17} \cap (d.versions \ o.versions) # {}
       /\ o.rows[i].legacy /\ o.keys[i] = 0
    THEN 1 ELSE o.keys[i]

\* and the owner of a log.
Owned(o, d, l) ==
    IF /\ o.logs[l].owner # "owner" /\ o.logs[l].creator # None
       /\ \/ 6 \in d.versions \ o.versions
          \/ 5 \in d.versions \ o.versions /\ o.logs[l].owner = "null"
    THEN "creator" ELSE o.logs[l].owner

\* d is what has become of o.
Since(o, d) ==
    /\ AsLeft(o) /\ o.versions \subseteq d.versions
    /\ DOMAIN o.rows \subseteq DOMAIN d.rows
    /\ \A i \in DOMAIN o.rows :
        /\ d.rows[i].legacy = o.rows[i].legacy
        /\ d.rows[i].flag = "hidden" <=> o.rows[i].flag = "hidden"
        /\ d.keys[i] = Carried(o, d, i)
    /\ DOMAIN o.logs \subseteq DOMAIN d.logs
    /\ \A l \in DOMAIN o.logs :
        /\ d.logs[l].creator = o.logs[l].creator
        /\ o.logs[l].creator \in {"creator", None}
        /\ d.logs[l].owner = Owned(o, d, l)

\* Nothing, at first.
LEMMA SinceStarts ==
  ASSUME NEW o, Good(o), AsLeft(o)
  PROVE  Since(o, o)
BY DEF Since, Carried, Owned, Good, Data

\* A version that is done in its turn keeps it so.
LEMMA SinceStep ==
  ASSUME NEW o, NEW d, NEW e, NEW k \in 1..16, Since(o, d), Ready(d, k), Effect(d, e, k),
         e.versions = d.versions \cup {Number(k)}
  PROVE  Since(o, e)
<1>1. Number(k) \notin o.versions
  BY DEF Since, Ready
<1>2. k \in {14, 15} <=> Number(k) \in {14, 17}
  BY DEF Number
<1>3. ASSUME NEW i \in DOMAIN o.rows PROVE e.keys[i] = Carried(o, e, i)
  <2>1. d.keys[i] = Carried(o, d, i) /\ d.rows[i].legacy = o.rows[i].legacy
    BY DEF Since
  <2>2. e.keys[i] = IF k \in {14, 15} /\ d.rows[i].legacy /\ d.keys[i] = 0 THEN 1 ELSE d.keys[i]
    BY DEF Since, Effect
  <2>3. CASE k \in {14, 15}
    <3>1. Number(k) \in {14, 17} \cap (e.versions \ o.versions)
      BY <1>1, <1>2, <2>3
    <3>2. Carried(o, e, i) = IF o.rows[i].legacy /\ o.keys[i] = 0 THEN 1 ELSE o.keys[i]
      BY <3>1 DEF Carried
    <3> QED
      BY <2>1, <2>2, <2>3, <3>2 DEF Carried
  <2>4. CASE k \notin {14, 15}
    <3>1. {14, 17} \cap (e.versions \ o.versions) = {14, 17} \cap (d.versions \ o.versions)
      BY <1>2, <2>4
    <3>2. Carried(o, e, i) = Carried(o, d, i)
      BY <3>1 DEF Carried
    <3> QED
      BY <2>1, <2>2, <2>4, <3>2
  <2> QED
    BY <2>3, <2>4
<1>4. ASSUME NEW l \in DOMAIN o.logs
      PROVE  e.logs[l].creator = o.logs[l].creator /\ e.logs[l].owner = Owned(o, e, l)
  <2>1. /\ d.logs[l].creator = o.logs[l].creator /\ o.logs[l].creator \in {"creator", None}
        /\ d.logs[l].owner = Owned(o, d, l) /\ o.logs[l].owner \in {"null", "zero", "owner"}
    BY DEF Since, AsLeft
  <2>2. /\ e.logs[l].creator = d.logs[l].creator
        /\ e.logs[l].owner =
             IF /\ d.logs[l].creator # None
                /\ d.logs[l].owner \in (IF k = 5 THEN {"null"}
                                        ELSE IF k = 6 THEN {"null", "zero"} ELSE {})
             THEN d.logs[l].creator ELSE d.logs[l].owner
    BY DEF Since, Effect
  <2>3. CASE k = 5
    <3>1. 5 \in e.versions \ o.versions /\ 5 \notin d.versions
      BY <1>1, <2>3 DEF Number, Ready
    <3>2. 6 \notin d.versions
      <4>1. Closed(d.versions) /\ 5 \in 1..16 /\ Number(5) = 5 /\ 5 <= 6
        BY DEF Ready, Good, Number
      <4> QED
        BY <3>1, <4>1 DEF Closed
    <3>3. 6 \notin e.versions
      BY <2>3, <3>2 DEF Number
    <3> QED
      BY <2>1, <2>2, <2>3, <3>1, <3>2, <3>3 DEF Owned
  <2>4. CASE k = 6
    <3>1. 6 \in e.versions \ o.versions /\ 6 \notin d.versions
      BY <1>1, <2>4 DEF Number, Ready
    <3>2. 5 \in e.versions \ o.versions <=> 5 \in d.versions \ o.versions
      BY <2>4 DEF Number
    <3> QED
      BY <2>1, <2>2, <2>4, <3>1, <3>2 DEF Owned
  <2>5. CASE k \notin {5, 6}
    <3>1. /\ 5 \in e.versions \ o.versions <=> 5 \in d.versions \ o.versions
          /\ 6 \in e.versions \ o.versions <=> 6 \in d.versions \ o.versions
      BY <2>5 DEF Number
    <3>2. Owned(o, e, l) = Owned(o, d, l)
      BY <3>1 DEF Owned
    <3>3. e.logs[l].owner = d.logs[l].owner
      BY <2>2, <2>5
    <3> QED
      BY <2>1, <2>2, <3>2, <3>3
  <2> QED
    BY <2>3, <2>4, <2>5
<1>5. /\ DOMAIN o.rows \subseteq DOMAIN e.rows /\ DOMAIN o.logs \subseteq DOMAIN e.logs
      /\ AsLeft(o) /\ o.versions \subseteq e.versions
      /\ \A i \in DOMAIN o.rows : /\ e.rows[i].legacy = o.rows[i].legacy
                                  /\ e.rows[i].flag = "hidden" <=> o.rows[i].flag = "hidden"
  BY DEF Since, Effect
<1>6. \A l \in DOMAIN o.logs : o.logs[l].creator \in {"creator", None}
  BY DEF Since
<1> QED
  BY <1>3, <1>4, <1>5, <1>6 DEF Since

\* Nor do the services: they change no provider of o, and no version.
LEMMA SinceServed ==
  ASSUME NEW o, NEW d, NEW e, Since(o, d), e.versions = d.versions, e.logs = d.logs,
         DOMAIN o.rows \subseteq DOMAIN e.rows,
         \A i \in DOMAIN o.rows : e.rows[i] = d.rows[i] /\ e.keys[i] = d.keys[i]
  PROVE  Since(o, e)
BY DEF Since, Carried, Owned

-----------------------------------------------------------------------------
(* A transaction.                                                           *)

\* No statement that succeeds touches the recorded versions.
LEMMA ExecKeeps ==
  ASSUME NEW d, Db(d), NEW s,
         s[1] \in {"create", "new", "column", "index", "copy", "drop", "rename", "own", "carry"},
         Exec(d, s).ok
  PROVE  Kept(d, Exec(d, s))
<1> DEFINE e == Exec(d, s)
<1>0. Failed.ok = FALSE
  BY DEF Failed, Empty
<1>1. ASSUME NEW t, NEW C, NEW x, x = CreateIfNone(d, t, C) PROVE Kept(d, x)
  <2>1. CASE t \in DOMAIN d.tables
    BY <1>1, <2>1 DEF CreateIfNone, Kept
  <2>2. CASE t \notin DOMAIN d.tables
    <3> DEFINE y == Put(d.tables, t, C)
    <3>1. x = [d EXCEPT !.tables = y]
      BY <1>1, <2>2 DEF CreateIfNone
    <3> HIDE DEF y
    <3> QED
      BY <3>1 DEF Kept, Db, Fields
  <2> QED
    BY <2>1, <2>2
<1>2. CASE s[1] = "create"
  <2>1. e = CreateIfNone(d, s[2], s[3])
    BY <1>2 DEF Exec, Db
  <2> QED
    BY <1>1, <2>1
<1>3. CASE s[1] = "new"
  <2>1. e = CreateNew(d, s[2], s[3]) /\ e.ok
    BY <1>3 DEF Exec, Db
  <2>2. e = CreateIfNone(d, s[2], s[3])
    BY <1>0, <2>1 DEF CreateNew
  <2> QED
    BY <1>1, <2>2
<1>4. CASE s[1] = "column"
  <2> DEFINE t == s[2]
             c == s[3]
             T == [d.tables EXCEPT ![t] = @ \cup {c}]
             R == IF t = "providers" THEN Defaults(d, c) ELSE d.rows
  <2>1. e = AddColumn(d, t, c) /\ e.ok
    BY <1>4 DEF Exec, Db
  <2>2. t \in DOMAIN d.tables
    <3> SUFFICES ASSUME t \notin DOMAIN d.tables PROVE FALSE
      OBVIOUS
    <3> HIDE DEF e, t, c
    <3>1. AddColumn(d, t, c) = Failed
      BY DEF AddColumn
    <3> QED
      BY <1>0, <2>1, <3>1
  <2>3. e = d \/ e = [d EXCEPT !.tables = T, !.rows = R]
    BY <2>1, <2>2 DEF AddColumn
  <2> HIDE DEF T, R, e
  <2> QED
    BY <2>3 DEF Kept, Db, Fields, e
<1>5. CASE s[1] = "index"
  <2> DEFINE I == d.indexes \cup {<<s[2], s[3]>>}
  <2>1. e = CreateIndex(d, s[2], s[3]) /\ e.ok
    BY <1>5 DEF Exec, Db
  <2>2. e = [d EXCEPT !.indexes = I]
    BY <1>0, <2>1 DEF CreateIndex
  <2> HIDE DEF I, e
  <2> QED
    BY <2>2 DEF Kept, Db, Fields, e
<1>6. CASE s[1] = "copy"
  <2>1. e = CopyRows(d) /\ e.ok
    BY <1>6 DEF Exec, Db
  <2>2. PICK R : e = [d EXCEPT !.copied = R]
    BY <1>0, <2>1 DEF CopyRows, Fill
  <2> HIDE DEF e
  <2> QED
    BY <2>2 DEF Kept, Db, Fields, e
<1>7. CASE s[1] = "drop"
  <2>1. e = DropTable(d, s[2]) /\ e.ok
    BY <1>7 DEF Exec, Db
  <2> DEFINE T == Without(d.tables, s[2])
             I == {x \in d.indexes : x[1] # s[2]}
             R == IF s[2] = "providers" THEN <<>> ELSE d.rows
  <2>2. e = [d EXCEPT !.tables = T, !.indexes = I, !.rows = R]
    BY <1>0, <2>1 DEF DropTable
  <2> HIDE DEF e, T, I, R
  <2> QED
    BY <2>2 DEF Kept, Db, Fields, e
<1>8. CASE s[1] = "rename"
  <2>1. e = RenameTable(d, s[2], s[3]) /\ e.ok
    BY <1>8 DEF Exec, Db
  <2>2. PICK T, R : e = [d EXCEPT !.tables = T, !.rows = R, !.copied = <<>>]
    BY <1>0, <2>1 DEF RenameTable
  <2> HIDE DEF e
  <2> QED
    BY <2>2 DEF Kept, Db, Fields, e
<1>9. CASE s[1] = "own"
  <2>1. PICK L : e = [d EXCEPT !.logs = L]
    BY <1>9, ZenonT(40) DEF Exec, Db, OwnLogs
  <2> HIDE DEF e
  <2> QED
    BY <2>1 DEF Kept, Db, Fields, e
<1>10. CASE s[1] = "carry"
  <2>1. PICK K : e = [d EXCEPT !.keys = K]
    BY <1>10 DEF Exec, Db, CarryKeys
  <2> HIDE DEF e
  <2> QED
    BY <2>1 DEF Kept, Db, Fields, e
<1> QED
  BY <1>2, <1>3, <1>4, <1>5, <1>6, <1>7, <1>8, <1>9, <1>10

\* Every statement of the list is one of those.
LEMMA StatementsAre ==
  ASSUME NEW k \in 1..16, NEW j \in 1..Len(migrations[k].up)
  PROVE  migrations[k].up[j][1] \in
            {"create", "new", "column", "index", "copy", "drop", "rename", "own", "carry"}
<1> DEFINE s == migrations[k].up
           K == {"create", "new", "column", "index", "copy", "drop", "rename", "own", "carry"}
<1>1. s \in {V1, V2, V3, V4, V5, V6, V7, V8, V9, V10, V11, V12, V13, ensureProviderAPIKeys, V18}
  BY UpsAre, SMTT(40)
<1>2. CASE s = V1
  <2>1. j \in 1..12
    BY <1>2, FirstIs
  <2>2. V1[j][1] \in {"create", "index"}
    <3>1. j \in 1..5 => V1[j][1] = "create"
      BY FirstIs
    <3>2. j \in 6..12 => V1[j][1] = "index"
      BY FirstIs
    <3> QED
      BY <2>1, <3>1, <3>2
  <2> QED
    BY <1>2, <2>2
<1>3. CASE s \in {V2, V3, V4, V5, V6, V7, V8, V9}
  <2>1. s[j][1] \in {"column", "index", "own"}
    BY <1>3 DEF V2, V3, V4, V5, V6, V7, V8, V9
  <2> QED
    BY <2>1
<1>4. CASE s \in {V10, V11, V12, V13}
  <2>1. s = V10 => s[j][1] \in {"new", "copy", "drop", "rename"}
    BY DEF V10
  <2>2. s \in {V11, V12} => s[j][1] \in {"create", "index"}
    BY DEF V11, V12
  <2>3. s = V13 => s[j][1] \in {"column", "index"}
    BY DEF V13
  <2> QED
    BY <1>4, <2>1, <2>2, <2>3
<1>5. CASE s \in {ensureProviderAPIKeys, V18}
  <2>1. s[j][1] \in K
    BY <1>5 DEF ensureProviderAPIKeys, V18
  <2> QED
    BY <2>1
<1> QED
  BY <1>1, <1>2, <1>3, <1>4, <1>5

\* x is what the first n - 1 statements of the k-th version have made of f.
Halfway(k, n, f, x) ==
    \E r : /\ Steps("exec", r, f, migrations[k].up, Len(migrations[k].up))
           /\ FoldLeft(Exec, f, migrations[k].up) = r[Len(migrations[k].up)]
           /\ x = r[n - 1]

\* A transaction starts before the first statement,
LEMMA HalfwayStarts ==
  ASSUME NEW k \in 1..16, NEW f
  PROVE  Halfway(k, 1, f, f)
<1> DEFINE h == migrations[k].up
           n == Len(migrations[k].up)
<1>1. DOMAIN h = 1..n /\ n \in Nat
  BY UpIsList
<1> HIDE DEF h, n
<1>2. PICK r : Steps("exec", r, f, h, n) /\ FoldLeft(Exec, f, h) = r[n]
  BY <1>1, ExecSteps
<1>3. r[1 - 1] = f
  BY <1>2 DEF Steps
<1> QED
  BY <1>2, <1>3 DEF Halfway, h, n

\* goes on with the next one,
LEMMA HalfwaySteps ==
  ASSUME NEW k \in 1..16, NEW f, NEW x, NEW n \in 1..Len(migrations[k].up), Halfway(k, n, f, x)
  PROVE  Halfway(k, n + 1, f, Exec(x, migrations[k].up[n]))
<1> DEFINE h == migrations[k].up
           m == Len(migrations[k].up)
<1>1. n \in 1..m /\ m \in Nat
  BY UpIsList
<1>2. PICK r : /\ Steps("exec", r, f, h, m) /\ FoldLeft(Exec, f, h) = r[m]
               /\ x = r[n - 1]
  BY DEF Halfway
<1> HIDE DEF h, m
<1>3. r[n] = Exec(x, h[n])
  BY <1>1, <1>2 DEF Steps, Step
<1>4. (n + 1) - 1 = n
  BY <1>1
<1>5. r[(n + 1) - 1] = Exec(x, h[n])
  BY <1>3, <1>4
<1> QED
  BY <1>2, <1>5 DEF Halfway, h, m

\* and has what the whole version makes when there is none left.
LEMMA HalfwayEnds ==
  ASSUME NEW k \in 1..16, NEW f, NEW x, NEW n, n = Len(migrations[k].up) + 1, Halfway(k, n, f, x)
  PROVE  x = FoldLeft(Exec, f, migrations[k].up)
<1> DEFINE m == Len(migrations[k].up)
<1>1. n - 1 = m
  BY UpIsList
<1> QED
  BY <1>1 DEF Halfway

-----------------------------------------------------------------------------
(* The inductive invariant.                                                 *)

Process == [at : {"off", "open", "loop", "up", "commit", "serving"}, todo : 1..17, next : Nat]

(* A process p at q, with the file at f, the lock at l and the transaction  *)
(* at x: the versions before the one it is at are recorded.  In its         *)
(* transaction the statements so far have been executed on the file as it   *)
(* is, and what it is about to commit is a version that is not recorded.    *)
Works(p, q, f, l, x) ==
    /\ l = p <=> q.at \in {"up", "commit"}
    /\ q.at \in {"loop", "up", "commit", "serving"}
         => \A i \in 1..(q.todo - 1) : Number(i) \in f.versions
    /\ q.at = "serving" => q.todo = 17
    /\ q.at = "up" => /\ q.todo \in 1..16 /\ q.next \in 1..(Len(migrations[q.todo].up) + 1)
                      /\ Kept(f, x) /\ Halfway(q.todo, q.next, f, x)
    /\ q.at = "commit" => /\ q.todo \in 1..16 /\ x.ok
                          /\ x = Apply(f, migrations[q.todo])
                          /\ Number(q.todo) \notin f.versions

Inv ==
    /\ Good(file) /\ Since(origin, file)
    /\ lock \in Processes \cup {None} /\ starts \in 0..MaxStarts
    /\ lock = None => tx = Empty
    /\ proc \in [Processes -> Process]
    /\ \A p \in Processes : Works(p, proc[p], file, lock, tx)

\* A process without the lock is not disturbed by the others: versions are
\* only added.
LEMMA OthersWork ==
  ASSUME NEW p, NEW q, NEW f, NEW l, NEW x, NEW g, NEW m, NEW y, Works(p, q, f, l, x),
         l # p, m # p, f.versions \subseteq g.versions
  PROVE  Works(p, q, g, m, y)
<1>1. q.at \notin {"up", "commit"}
  BY DEF Works
<1> QED
  BY <1>1 DEF Works

\* The invariant holds of every file a server may find,
LEMMA InitInv == Init => Inv
<1> SUFFICES ASSUME Init PROVE Inv
  OBVIOUS
<1>1. Good(file) /\ AsLeft(file)
  BY OriginIs DEF Init
<1>2. Since(origin, file)
  BY <1>1, SinceStarts DEF Init
<1>3. lock = None /\ tx = Empty /\ starts \in 0..MaxStarts
  BY MigrationsAssumption DEF Init
<1>4. proc \in [Processes -> Process] /\ \A p \in Processes : proc[p] = Off
  BY DEF Init, Off, Process
<1>5. ASSUME NEW p \in Processes PROVE Works(p, proc[p], file, lock, tx)
  BY <1>3, <1>4, MigrationsAssumption DEF Works, Off
<1> QED
  BY <1>1, <1>2, <1>3, <1>4, <1>5 DEF Inv

\* A step of one process, with what it makes of its own place.
LEMMA StepInv ==
  ASSUME Inv, NEW p \in Processes, NEW r \in Process,
         proc' = [proc EXCEPT ![p] = r], Works(p, r, file', lock', tx'),
         Good(file'), Since(origin', file'), file.versions \subseteq file'.versions,
         starts' \in 0..MaxStarts,
         lock = None \/ lock = p \/ (lock' = lock /\ file' = file /\ tx' = tx),
         lock' = None \/ lock' = p \/ lock' = lock,
         lock' = None => tx' = Empty
  PROVE  Inv'
<1>1. proc' \in [Processes -> Process] /\ proc'[p] = r
      /\ \A q \in Processes \ {p} : proc'[q] = proc[q]
  BY DEF Inv
<1>2. lock' \in Processes \cup {None}
  BY DEF Inv
<1>3. ASSUME NEW q \in Processes \ {p} PROVE Works(q, proc'[q], file', lock', tx')
  <2>1. Works(q, proc[q], file, lock, tx) /\ q # None
    BY MigrationsAssumption DEF Inv
  <2>2. CASE lock' = lock /\ file' = file /\ tx' = tx
    BY <1>1, <2>1, <2>2
  <2>3. CASE lock = None \/ lock = p
    <3>1. lock # q /\ lock' # q
      BY <2>1, <2>3
    <3> QED
      BY <1>1, <2>1, <3>1, OthersWork
  <2> QED
    BY <2>2, <2>3
<1>4. \A q \in Processes : Works(q, proc'[q], file', lock', tx')
  BY <1>1, <1>3
<1> QED
  BY <1>1, <1>2, <1>4 DEF Inv

\* A process that starts knows nothing of the file;
LEMMA StartInv ==
  ASSUME Inv, NEW p \in Processes, Start(p)
  PROVE  Inv'
<1> DEFINE r == [Off EXCEPT !.at = "open"]
<1>1. r \in Process /\ r.at = "open"
  BY DEF Off, Process
<1>2. /\ proc' = [proc EXCEPT ![p] = r] /\ starts' \in 0..MaxStarts
      /\ UNCHANGED <<file, lock, tx, origin>> /\ proc[p].at = "off"
  BY MigrationsAssumption DEF Start, Inv
<1> HIDE DEF r
<1>3. Works(p, proc[p], file, lock, tx)
  BY DEF Inv
<1>4. Works(p, r, file', lock', tx')
  BY <1>1, <1>2, <1>3 DEF Works
<1>5. Good(file') /\ Since(origin', file') /\ file.versions \subseteq file'.versions
      /\ (lock' = None => tx' = Empty)
  BY <1>2 DEF Inv
<1> QED
  BY <1>1, <1>2, <1>4, <1>5, StepInv

\* the version it reads says how far the list is done.
LEMMA ReadVersionInv ==
  ASSUME Inv, NEW p \in Processes, ReadVersion(p)
  PROVE  Inv'
<1> DEFINE k == Passed(file)
           m == k + 1
           r == [proc[p] EXCEPT !.at = "loop", !.todo = m]
<1>1. /\ proc' = [proc EXCEPT ![p] = r] /\ proc[p].at = "open"
      /\ UNCHANGED <<file, lock, tx, starts, origin>>
  BY DEF ReadVersion, Inv
<1>2. k \in 0..16 /\ \A i \in 1..16 : Number(i) \in file.versions <=> i <= k
  BY PassedIs DEF Inv, Good
<1> HIDE DEF k
<1>3. proc[p] \in Process /\ Works(p, proc[p], file, lock, tx)
  BY DEF Inv
<1>m. m \in 1..17
  BY <1>2
<1> HIDE DEF m
<1>4. r \in Process /\ r.at = "loop" /\ r.todo = m
  BY <1>3, <1>m DEF Process
<1> HIDE DEF r
<1>5. \A i \in 1..(r.todo - 1) : Number(i) \in file.versions
  <2>1. ASSUME NEW i \in 1..(r.todo - 1) PROVE i \in 1..16 /\ i <= k
    BY <1>2, <1>4 DEF m
  <2> QED
    BY <1>2, <2>1
<1>6. Works(p, r, file', lock', tx')
  BY <1>1, <1>3, <1>4, <1>5 DEF Works
<1>7. Good(file') /\ Since(origin', file') /\ file.versions \subseteq file'.versions
      /\ (lock' = None => tx' = Empty) /\ starts' \in 0..MaxStarts
  BY <1>1 DEF Inv
<1> QED
  BY <1>1, <1>4, <1>6, <1>7, StepInv

\* Its transaction begins with the file as it is then, not as it was read,
LEMMA BeginInv ==
  ASSUME Inv, NEW p \in Processes, Begin(p)
  PROVE  Inv'
<1> DEFINE r == [proc[p] EXCEPT !.at = "up", !.next = 1]
<1>1. /\ proc' = [proc EXCEPT ![p] = r] /\ proc[p].at = "loop" /\ proc[p].todo <= 16
      /\ lock = None /\ lock' = p /\ tx' = file /\ UNCHANGED <<file, starts, origin>>
  BY ListIs DEF Begin, Inv
<1>2. proc[p] \in Process /\ Works(p, proc[p], file, lock, tx)
  BY DEF Inv
<1>3. r \in Process /\ r.at = "up" /\ r.todo = proc[p].todo /\ r.next = 1
  BY <1>2 DEF Process
<1> HIDE DEF r
<1> DEFINE k == r.todo
<1>4. k \in 1..16
  BY <1>1, <1>2, <1>3 DEF Process
<1>5. 1 \in 1..(Len(migrations[k].up) + 1)
  <2> HIDE DEF k
  <2>1. Len(migrations[k].up) \in Nat
    BY <1>4, UpIsList
  <2> QED
    BY <2>1
<1>6. Kept(file, file) /\ Halfway(k, 1, file, file)
  BY <1>4, HalfwayStarts DEF Inv, Good, Kept
<1>7. \A i \in 1..(k - 1) : Number(i) \in file.versions
  BY <1>1, <1>2, <1>3 DEF Works
<1> HIDE DEF k
<1>8. Works(p, r, file', lock', tx')
  BY <1>1, <1>3, <1>4, <1>5, <1>6, <1>7 DEF Works, k
<1>9. Good(file') /\ Since(origin', file') /\ file.versions \subseteq file'.versions
      /\ starts' \in 0..MaxStarts /\ lock' # None
  BY <1>1, MigrationsAssumption DEF Inv
<1> QED
  BY <1>1, <1>3, <1>8, <1>9, StepInv

\* and takes one statement after the other,
LEMMA UpInv ==
  ASSUME Inv, NEW p \in Processes, Up(p)
  PROVE  Inv'
<1> DEFINE q == proc[p]
           k == q.todo
           n == q.next
           h == migrations[k].up
           r == [proc[p] EXCEPT !.next = @ + 1]
<1>1. /\ proc' = [proc EXCEPT ![p] = r] /\ q.at = "up" /\ n <= Len(h)
      /\ Exec(tx, h[n]).ok /\ tx' = Exec(tx, h[n])
      /\ UNCHANGED <<file, lock, starts, origin>>
  BY DEF Up, Inv, Statements
<1>2. q \in Process /\ Works(p, q, file, lock, tx)
  BY DEF Inv
<1>3. r \in Process /\ r.at = q.at /\ r.todo = k /\ r.next = n + 1
  BY <1>2 DEF Process
<1> HIDE DEF q, r
<1>4. /\ k \in 1..16 /\ n \in 1..Len(h) /\ Kept(file, tx) /\ Halfway(k, n, file, tx)
      /\ Len(h) \in Nat
  <2>1. k \in 1..16 /\ n \in 1..(Len(h) + 1) /\ Kept(file, tx) /\ Halfway(k, n, file, tx)
    BY <1>1, <1>2 DEF Works
  <2>2. Len(h) \in Nat
    BY <2>1, UpIsList
  <2> HIDE DEF h
  <2> QED
    BY <1>1, <2>1, <2>2
<1>5. Kept(tx, tx')
  <2> DEFINE s == h[n]
  <2>1. s[1] \in {"create", "new", "column", "index", "copy", "drop", "rename", "own", "carry"}
    BY <1>4, StatementsAre
  <2>2. Exec(tx, s).ok /\ tx' = Exec(tx, s) /\ Db(tx)
    BY <1>1, <1>4 DEF Kept
  <2> HIDE DEF s
  <2> QED
    BY <2>1, <2>2, ExecKeeps
<1>6. Kept(file, tx')
  BY <1>4, <1>5 DEF Kept
<1>7. Halfway(k, n + 1, file, tx')
  BY <1>1, <1>4, HalfwaySteps
<1>8. n + 1 \in 1..(Len(h) + 1)
  <2> HIDE DEF h, n
  <2> QED
    BY <1>4
<1>9. Works(p, r, file', lock', tx')
  <2>1. r.next \in 1..(Len(migrations[r.todo].up) + 1) /\ Halfway(r.todo, r.next, file', tx')
    BY <1>1, <1>3, <1>7, <1>8
  <2>2. /\ r.at = "up" /\ Works(p, q, file, lock, tx) /\ r.todo = q.todo /\ r.todo \in 1..16
        /\ Kept(file', tx') /\ file' = file /\ lock' = lock
    BY <1>1, <1>2, <1>3, <1>4, <1>6
  <2> QED
    BY <1>1, <2>1, <2>2 DEF Works
<1>10. lock = p
  BY <1>1, <1>2 DEF Works
<1>11. Good(file') /\ Since(origin', file') /\ file.versions \subseteq file'.versions
       /\ starts' \in 0..MaxStarts /\ lock' # None
  BY <1>1, <1>10, MigrationsAssumption DEF Inv
<1> QED
  BY <1>1, <1>3, <1>9, <1>10, <1>11, StepInv

\* up to the record of its number, which fails if another has recorded it.
LEMMA RecordVersionInv ==
  ASSUME Inv, NEW p \in Processes, RecordVersion(p)
  PROVE  Inv'
<1> DEFINE q == proc[p]
           k == q.todo
           n == q.next
           h == migrations[k].up
           r == [proc[p] EXCEPT !.at = "commit"]
<1>1. /\ proc' = [proc EXCEPT ![p] = r] /\ q.at = "up" /\ n > Len(h)
      /\ Record(tx, migrations[k].version).ok /\ tx' = Record(tx, migrations[k].version)
      /\ UNCHANGED <<file, lock, starts, origin>>
  BY DEF RecordVersion, Goto, Inv, Statements
<1>2. q \in Process /\ Works(p, q, file, lock, tx)
  BY DEF Inv
<1>3. r \in Process /\ r.at = "commit" /\ r.todo = k
  BY <1>2 DEF Process
<1> HIDE DEF q, r
<1>4. k \in 1..16 /\ n = Len(h) + 1 /\ Kept(file, tx) /\ Halfway(k, n, file, tx)
  <2>1. k \in 1..16 /\ n \in 1..(Len(h) + 1) /\ Kept(file, tx) /\ Halfway(k, n, file, tx)
    BY <1>1, <1>2 DEF Works
  <2>2. Len(h) \in Nat
    BY <2>1, UpIsList
  <2> HIDE DEF h
  <2> QED
    BY <1>1, <2>1, <2>2
<1>5. tx = FoldLeft(Exec, file, h)
  BY <1>4, HalfwayEnds
<1>6. tx' = Apply(file, migrations[k]) /\ tx'.ok
  BY <1>1, <1>5 DEF Apply
<1>7. Number(k) \notin file.versions
  <2>1. migrations[k].version = Number(k)
    BY <1>4, ListIs
  <2>2. Number(k) \in tx.versions => Record(tx, Number(k)) = Failed
    BY DEF Record
  <2>3. Failed.ok = FALSE
    BY DEF Failed, Empty
  <2> QED
    BY <1>1, <1>4, <2>1, <2>2, <2>3 DEF Kept
<1>8. Works(p, r, file', lock', tx')
  <2>1. /\ r.at = "commit" /\ r.todo = q.todo /\ r.todo \in 1..16
        /\ tx'.ok /\ tx' = Apply(file, migrations[r.todo]) /\ Number(r.todo) \notin file.versions
        /\ file' = file /\ lock' = lock /\ q.at = "up"
    BY <1>1, <1>3, <1>4, <1>6, <1>7
  <2> QED
    BY <1>2, <2>1 DEF Works
<1>9. lock = p
  BY <1>1, <1>2 DEF Works
<1>10. Good(file') /\ Since(origin', file') /\ file.versions \subseteq file'.versions
       /\ starts' \in 0..MaxStarts /\ lock' # None
  BY <1>1, <1>9, MigrationsAssumption DEF Inv
<1> QED
  BY <1>1, <1>3, <1>8, <1>9, <1>10, StepInv

\* So what is committed is the file with the next version done.
LEMMA CommitInv ==
  ASSUME Inv, NEW p \in Processes, Commit(p)
  PROVE  Inv'
<1> DEFINE q == proc[p]
           k == q.todo
           m == k + 1
           r == [proc[p] EXCEPT !.at = "loop", !.todo = m]
<1>1. /\ proc' = [proc EXCEPT ![p] = r] /\ q.at = "commit"
      /\ file' = tx /\ lock' = None /\ tx' = Empty /\ UNCHANGED <<starts, origin>>
  BY DEF Commit, Inv
<1>2. q \in Process /\ Works(p, q, file, lock, tx)
  BY DEF Inv
<1>3. k \in 1..16 /\ tx = Apply(file, migrations[k]) /\ Number(k) \notin file.versions
      /\ lock = p /\ \A i \in 1..(k - 1) : Number(i) \in file.versions
  BY <1>1, <1>2 DEF Works
<1> HIDE DEF k
<1>m. m \in 1..17
  BY <1>3
<1> HIDE DEF m
<1>4. r \in Process /\ r.at = "loop" /\ r.todo = m
  BY <1>2, <1>m DEF Process
<1> HIDE DEF q, r
<1>5. Ready(file, k)
  BY <1>3 DEF Ready, Inv
<1>6. Good(tx) /\ tx.versions = file.versions \cup {Number(k)} /\ Effect(file, tx, k)
  BY <1>3, <1>5, ApplyReady
<1>7. Since(origin, tx)
  BY <1>3, <1>5, <1>6, SinceStep DEF Inv
<1>8. \A i \in 1..(r.todo - 1) : Number(i) \in tx.versions
  <2>1. ASSUME NEW i \in 1..(r.todo - 1) PROVE i = k \/ i \in 1..(k - 1)
    BY <1>3, <1>4 DEF m
  <2> QED
    BY <1>3, <1>6, <2>1
<1>9. Works(p, r, file', lock', tx')
  BY <1>1, <1>4, <1>8, MigrationsAssumption DEF Works
<1>10. Good(file') /\ Since(origin', file') /\ file.versions \subseteq file'.versions
       /\ starts' \in 0..MaxStarts
  BY <1>1, <1>6, <1>7 DEF Inv
<1> QED
  BY <1>1, <1>3, <1>4, <1>9, <1>10, StepInv

\* At the end of the list a process serves.
LEMMA MigrateInv ==
  ASSUME Inv, NEW p \in Processes, Migrate(p)
  PROVE  Inv'
<1> DEFINE r == [proc[p] EXCEPT !.at = "serving"]
<1>1. /\ proc' = [proc EXCEPT ![p] = r] /\ proc[p].at = "loop" /\ proc[p].todo > 16
      /\ UNCHANGED <<file, lock, tx, starts, origin>>
  BY ListIs DEF Migrate, Goto, Inv
<1>2. proc[p] \in Process /\ Works(p, proc[p], file, lock, tx)
  BY DEF Inv
<1>3. r \in Process /\ r.at = "serving" /\ r.todo = proc[p].todo /\ r.todo = 17
  BY <1>1, <1>2 DEF Process
<1> HIDE DEF r
<1>4. Works(p, r, file', lock', tx')
  BY <1>1, <1>2, <1>3 DEF Works
<1>5. Good(file') /\ Since(origin', file') /\ file.versions \subseteq file'.versions
      /\ (lock' = None => tx' = Empty) /\ starts' \in 0..MaxStarts
  BY <1>1 DEF Inv
<1> QED
  BY <1>1, <1>3, <1>4, <1>5, StepInv

\* A process that stops takes its transaction with it.
LEMMA StopInv ==
  ASSUME Inv, NEW p \in Processes, Stop(p)
  PROVE  Inv'
<1>1. /\ proc' = [proc EXCEPT ![p] = Off] /\ UNCHANGED <<file, starts, origin>>
      /\ lock' = (IF lock = p THEN None ELSE lock) /\ tx' = (IF lock = p THEN Empty ELSE tx)
  BY DEF Stop
<1>2. Off \in Process /\ Off.at = "off" /\ p # None
  BY MigrationsAssumption DEF Off, Process
<1>3. Works(p, Off, file', lock', tx')
  BY <1>1, <1>2 DEF Works
<1>4. Good(file') /\ Since(origin', file') /\ file.versions \subseteq file'.versions
      /\ (lock' = None => tx' = Empty) /\ starts' \in 0..MaxStarts
  BY <1>1 DEF Inv
<1> QED
  BY <1>1, <1>2, <1>3, <1>4, StepInv

\* A process that serves has all versions behind it.
LEMMA AllRecorded ==
  ASSUME Inv, NEW p \in Processes, Serving(p)
  PROVE  \A i \in 1..16 : Number(i) \in file.versions
<1>1. Works(p, proc[p], file, lock, tx) /\ proc[p].at = "serving"
  BY DEF Inv, Serving
<1>2. proc[p].todo = 17
  BY <1>1 DEF Works
<1> QED
  BY <1>1, <1>2 DEF Works

\* The services change the data of a provider that earlier releases do not have.
LEMMA ServeInv ==
  ASSUME Inv, NEW p \in Processes, Serving(p), lock = None,
         UNCHANGED <<lock, tx, proc, starts, origin>>,
         NEW R, NEW K, file' = [file EXCEPT !.rows = R, !.keys = K],
         DOMAIN R = DOMAIN file.rows \cup {NewId}, DOMAIN K = DOMAIN R,
         \A i \in DOMAIN file.rows \ {NewId} : R[i] = file.rows[i] /\ K[i] = file.keys[i],
         DOMAIN R[NewId] = {"legacy", "flag"}, K[NewId] \in Nat
  PROVE  Inv'
<1>1. Good(file) /\ Since(origin, file)
  BY DEF Inv
<1>2. /\ Db(file') /\ file'.versions = file.versions /\ file'.tables = file.tables
      /\ file'.rows = R /\ file'.keys = K /\ file'.logs = file.logs
  BY <1>1 DEF Good, Db, Fields
<1>3. Has(file, "providers", {"show_in_model_list"})
  <2>1. Number(10) = 10 /\ Number(10) \in file.versions
    BY AllRecorded DEF Number
  <2>2. Level(10, file)
    BY <1>1, <2>1 DEF Good
  <2> QED
    BY <2>2 DEF Level, Has
<1>4. Data(file')
  <2>1. Data(file)
    BY <1>1 DEF Good
  <2>2. ASSUME NEW i \in DOMAIN R PROVE DOMAIN R[i] = {"legacy", "flag"} /\ K[i] \in Nat
    <3>1. CASE i = NewId
      BY <3>1
    <3>2. CASE i # NewId
      BY <2>1, <3>2 DEF Data
    <3> QED
      BY <3>1, <3>2
  <2> QED
    BY <1>2, <1>3, <2>1, <2>2 DEF Data, Has
<1>5. Tidy(file')
  BY <1>1, <1>2 DEF Good, Tidy, Has
<1>6. \A v \in file'.versions : Level(v, file')
  <2>1. Grown(file, file')
    BY <1>2 DEF Grown
  <2> QED
    BY <1>1, <1>2, <2>1, LevelGrows DEF Good
<1>7. file'.versions # {}
  BY <1>2, AllRecorded
<1>8. Good(file')
  BY <1>1, <1>2, <1>4, <1>5, <1>6, <1>7 DEF Good
<1>9. Since(origin, file')
  <2>1. NewId \notin DOMAIN origin.rows /\ DOMAIN origin.rows \subseteq DOMAIN file.rows
    BY <1>1 DEF Since, AsLeft
  <2>2. \A i \in DOMAIN origin.rows : /\ file'.rows[i] = file.rows[i]
                                      /\ file'.keys[i] = file.keys[i]
    BY <1>2, <2>1
  <2>3. DOMAIN origin.rows \subseteq DOMAIN file'.rows
    BY <1>2, <2>1
  <2> DEFINE e == file'
  <2>4. /\ e.versions = file.versions /\ e.logs = file.logs
        /\ DOMAIN origin.rows \subseteq DOMAIN e.rows
        /\ \A i \in DOMAIN origin.rows : e.rows[i] = file.rows[i] /\ e.keys[i] = file.keys[i]
    BY <1>2, <2>2, <2>3
  <2>5. Since(origin, file)
    BY <1>1
  <2> HIDE DEF e
  <2>6. Since(origin, e)
    BY <2>4, <2>5, SinceServed
  <2> QED
    BY <2>6 DEF e
<1>10. ASSUME NEW q \in Processes PROVE Works(q, proc'[q], file', lock', tx')
  <2>1. Works(q, proc[q], file, lock, tx) /\ q # lock
    BY MigrationsAssumption DEF Inv
  <2>2. lock' # q /\ proc'[q] = proc[q] /\ file.versions \subseteq file'.versions
    BY <1>2, <2>1
  <2> DEFINE g == file'
             m == lock'
             y == tx'
             w == proc[q]
  <2>4. Works(q, w, file, lock, tx) /\ lock # q /\ m # q /\ file.versions \subseteq g.versions
    BY <2>1, <2>2
  <2> HIDE DEF g, m, y, w
  <2>5. Works(q, w, g, m, y)
    BY <2>4, OthersWork
  <2>3. Works(q, proc[q], file', lock', tx')
    BY <2>5 DEF g, m, y, w
  <2> QED
    BY <2>2, <2>3
<1> QED
  BY <1>8, <1>9, <1>10 DEF Inv

\* A provider is inserted without a row of keys,
LEMMA CreateProviderInv ==
  ASSUME Inv, NEW p \in Processes, CreateProvider(p)
  PROVE  Inv'
<1> DEFINE R == Put(file.rows, NewId, [legacy |-> TRUE, flag |-> "shown"])
           K == Put(file.keys, NewId, 0)
<1>1. /\ file' = [file EXCEPT !.rows = R, !.keys = K] /\ Serving(p) /\ lock = None
      /\ UNCHANGED <<lock, tx, proc, starts, origin>>
  BY DEF CreateProvider
<1>2. DOMAIN file.keys = DOMAIN file.rows
  BY DEF Inv, Good, Data
<1>3. /\ DOMAIN R = DOMAIN file.rows \cup {NewId} /\ DOMAIN K = DOMAIN file.rows \cup {NewId}
      /\ \A i \in DOMAIN file.rows \ {NewId} : R[i] = file.rows[i] /\ K[i] = file.keys[i]
      /\ R[NewId] = [legacy |-> TRUE, flag |-> "shown"] /\ K[NewId] = 0
  BY <1>2 DEF Put
<1>4. DOMAIN R[NewId] = {"legacy", "flag"} /\ K[NewId] \in Nat
  BY <1>3
<1> HIDE DEF R, K
<1> QED
  BY <1>1, <1>3, <1>4, ServeInv

\* and gets and loses rows.
LEMMA ChangeKeysInv ==
  ASSUME Inv, NEW p \in Processes, NEW n \in 0..2, ChangeKeys(p, n)
  PROVE  Inv'
<1> DEFINE R == file.rows
           K == [file.keys EXCEPT ![NewId] = n]
<1>1. Data(file) /\ Db(file)
  BY DEF Inv, Good
<1>2. /\ Serving(p) /\ lock = None /\ UNCHANGED <<lock, tx, proc, starts, origin>>
      /\ NewId \in DOMAIN file.rows /\ file' = [file EXCEPT !.keys = K]
  BY DEF ChangeKeys
<1>3. /\ DOMAIN K = DOMAIN file.keys /\ K[NewId] = n
      /\ \A i \in DOMAIN file.rows \ {NewId} : K[i] = file.keys[i]
  BY <1>1, <1>2 DEF Data
<1> HIDE DEF K
<1>4. file' = [file EXCEPT !.rows = R, !.keys = K]
  BY <1>1, <1>2 DEF Db, Fields
<1>5. /\ DOMAIN R = DOMAIN file.rows \cup {NewId} /\ DOMAIN K = DOMAIN R
      /\ \A i \in DOMAIN file.rows \ {NewId} : R[i] = file.rows[i] /\ K[i] = file.keys[i]
      /\ DOMAIN R[NewId] = {"legacy", "flag"} /\ K[NewId] \in Nat
  BY <1>1, <1>2, <1>3 DEF Data
<1>6. Serving(p) /\ lock = None /\ UNCHANGED <<lock, tx, proc, starts, origin>>
  BY <1>2
<1> HIDE DEF R
<1> QED
  BY <1>4, <1>5, <1>6, ServeInv

\* Every step keeps the invariant,
LEMMA NextInv == Inv /\ [Next]_vars => Inv'
<1> SUFFICES ASSUME Inv, [Next]_vars PROVE Inv'
  OBVIOUS
<1>1. CASE UNCHANGED vars
  BY <1>1 DEF Inv, vars
<1>2. ASSUME NEW p \in Processes, Start(p) \/ ReadVersion(p) \/ Begin(p) \/ Up(p)
      PROVE  Inv'
  BY <1>2, StartInv, ReadVersionInv, BeginInv, UpInv
<1>3. ASSUME NEW p \in Processes, RecordVersion(p) \/ Commit(p) \/ Migrate(p) \/ Stop(p)
      PROVE  Inv'
  BY <1>3, RecordVersionInv, CommitInv, MigrateInv, StopInv
<1>4. ASSUME NEW p \in Processes, CreateProvider(p) \/ \E n \in 0..2 : ChangeKeys(p, n)
      PROVE  Inv'
  BY <1>4, CreateProviderInv, ChangeKeysInv
<1> QED
  BY <1>1, <1>2, <1>3, <1>4 DEF Next

\* so every behaviour has it.
LEMMA SpecInv == Spec => []Inv
BY InitInv, NextInv, PTL DEF Spec

-----------------------------------------------------------------------------
(* The theorems.                                                            *)

\* It implies the type invariant.
LEMMA InvType == Inv => TypeOK
<1> SUFFICES ASSUME Inv PROVE TypeOK
  OBVIOUS
<1>1. file.ok /\ file.versions \subseteq 1..18
  BY DEF Inv, Good, Db
<1>2. ASSUME NEW p \in Processes
      PROVE  /\ proc[p].at \in {"off", "open", "loop", "up", "commit", "serving"}
             /\ lock = p <=> proc[p].at \in {"up", "commit"}
  BY DEF Inv, Process, Works
<1>3. tx.ok
  <2>1. CASE lock = None
    BY <2>1 DEF Inv, Empty
  <2>2. CASE lock \in Processes
    <3>1. Works(lock, proc[lock], file, lock, tx)
      BY <2>2 DEF Inv
    <3> QED
      BY <3>1 DEF Works, Kept, Db
  <2> QED
    BY <2>1, <2>2 DEF Inv
<1> QED
  BY <1>1, <1>2, <1>3 DEF TypeOK, Inv

(* Whatever earlier release left the file, whatever processes were stopped  *)
(* between whichever statements: a run that is left alone brings it to the  *)
(* full schema, and no process serves without it.                           *)
THEOREM EveryFileIsCompleted == Spec => []Resumable
<1>1. Inv => Resumable
  <2> SUFFICES ASSUME Inv PROVE Resumable
    OBVIOUS
  <2>1. Complete(Migrated(file))
    BY MigratedIs DEF Inv
  <2>2. ASSUME NEW p \in Processes, Serving(p) PROVE Complete(file)
    <3>1. Good(file) /\ \A i \in 1..16 : Number(i) \in file.versions
      BY <2>2, AllRecorded DEF Inv
    <3> QED
      BY <3>1, CompleteIs
  <2> QED
    BY <2>1, <2>2, InvType DEF Resumable
<1> QED
  BY <1>1, SpecInv, PTL

(* A provider's own key is copied into its rows at most once, by whichever  *)
(* of versions 14 and 17 comes first, and only where it has none.           *)
THEOREM KeysAreCarriedOnce == Spec => []KeysCarriedOnce
<1>1. Inv => KeysCarriedOnce
  BY DEF Inv, Since, Carried, KeysCarriedOnce
<1> QED
  BY <1>1, SpecInv, PTL

(* No provider disappears with the table version 10 drops, none is shown    *)
(* that was hidden, and no usage log changes the owner it has.              *)
THEOREM NoDataIsLost == Spec => []NothingLost
<1>1. Inv => NothingLost
  <2> SUFFICES ASSUME Inv PROVE NothingLost
    OBVIOUS
  <2>1. Since(origin, file)
    BY DEF Inv
  <2>2. \A i \in DOMAIN origin.rows :
            /\ i \in DOMAIN file.rows
            /\ origin.rows[i].legacy = file.rows[i].legacy
            /\ (origin.rows[i].flag = "hidden") = (file.rows[i].flag = "hidden")
    BY <2>1 DEF Since
  <2>3. \A l \in DOMAIN origin.logs : file.logs[l].owner = Owned(origin, file, l)
    BY <2>1 DEF Since
  <2> QED
    BY <2>2, <2>3 DEF NothingLost, Owned
<1> QED
  BY <1>1, SpecInv, PTL

(* While one process serves, no other changes a table or commits a version: *)
(* all of them are recorded, and a recorded version cannot be committed.    *)
THEOREM ServersAreUntouched == Spec => ServedUntouched
<1> DEFINE Untouched == (\E p \in Processes : Serving(p)) =>
                            /\ file'.versions = file.versions /\ file'.tables = file.tables
                            /\ \A p \in Processes : ~Commit(p)
<1>1. Inv /\ [Next]_vars => [Untouched]_vars
  <2> SUFFICES ASSUME Inv, Next, NEW s \in Processes, Serving(s)
               PROVE  /\ file'.versions = file.versions /\ file'.tables = file.tables
                      /\ \A p \in Processes : ~Commit(p)
    OBVIOUS
  <2>1. \A i \in 1..16 : Number(i) \in file.versions
    BY AllRecorded
  <2>2. ASSUME NEW p \in Processes, Commit(p) PROVE FALSE
    <3>1. Works(p, proc[p], file, lock, tx) /\ proc[p].at = "commit"
      BY <2>2 DEF Inv, Commit
    <3> QED
      BY <2>1, <3>1 DEF Works
  <2>3. Db(file)
    BY DEF Inv, Good
  <2>4. file' = file \/ \E R, K : file' = [file EXCEPT !.rows = R, !.keys = K]
    <3>1. ASSUME NEW p \in Processes, CreateProvider(p)
          PROVE  \E R, K : file' = [file EXCEPT !.rows = R, !.keys = K]
      BY <3>1 DEF CreateProvider
    <3>2. ASSUME NEW p \in Processes, NEW n \in 0..2, ChangeKeys(p, n)
          PROVE  \E R, K : file' = [file EXCEPT !.rows = R, !.keys = K]
      <4>1. PICK K : file' = [file EXCEPT !.keys = K]
        BY <3>2 DEF ChangeKeys
      <4>2. file' = [file EXCEPT !.rows = file.rows, !.keys = K]
        BY <2>3, <4>1 DEF Db, Fields
      <4> QED
        BY <4>2
    <3>3. ASSUME NEW p \in Processes,
                 Start(p) \/ ReadVersion(p) \/ Begin(p) \/ Up(p) \/ RecordVersion(p)
                   \/ Migrate(p) \/ Stop(p)
          PROVE  file' = file
      BY <3>3 DEF Start, ReadVersion, Begin, Up, RecordVersion, Migrate, Stop
    <3> QED
      BY <2>2, <3>1, <3>2, <3>3 DEF Next
  <2>5. file'.versions = file.versions /\ file'.tables = file.tables
    BY <2>3, <2>4 DEF Db, Fields
  <2> QED
    BY <2>2, <2>5
<1> QED
  BY <1>1, SpecInv, PTL DEF Spec, ServedUntouched
=============================================================================
