--------------------------- MODULE AccountsProofs ---------------------------
(***************************************************************************)
(* Proofs about Accounts, for any number of accounts, clients, secrets and *)
(* codes.                                                                  *)
(***************************************************************************)
EXTENDS Accounts, FiniteSetTheorems, TLAPS

-----------------------------------------------------------------------------
(* Typing.                                                                 *)

Places == {"idle", "register.count", "register.insert", "verify.check",
           "verify.recovery", "reset.insert", "reset.write"} \cup RoleSteps \cup FactorSteps
JobWords == Words \cup ResetCodes \cup {None, "first", "late", "blind", "delete", "demote"}
Jobs == [user : Users \cup {None}, flag : BOOLEAN, word : JobWords]

TablesOK ==
    /\ population \in Populations
    /\ DOMAIN users \subseteq Users /\ users \in [DOMAIN users -> Rows]
    /\ gone \subseteq Users \ DOMAIN users
    /\ recovery \in [Users -> [Codes -> {"absent", "unused", "used"}]]
    /\ DOMAIN resets \subseteq ResetCodes
    /\ resets \in [DOMAIN resets -> [user : Users, used : BOOLEAN]]

TokensOK ==
    /\ session \in [Clients -> [user : Users \cup {None}, admin : BOOLEAN]]
    /\ pending \in [Clients -> Users \cup {None}]

HistoryOK ==
    /\ raced \in BOOLEAN
    /\ mixed \subseteq Users
    /\ confirmed \in [Users -> Secrets \cup {None}]
    /\ accepted \in [Users -> [Codes -> Nat]]
    /\ redeemed \subseteq ResetCodes

(* What a handler remembers fits where it is: a handler that has begun is   *)
(* about an account, and one with a reset code has drawn or read it.        *)
LocalOK ==
    /\ pc \in [Clients -> Places]
    /\ job \in [Clients -> Jobs]
    /\ \A c \in Clients : pc[c] # "idle" => job[c].user \in Users
    /\ \A c \in Clients : pc[c] = "reset.insert" => job[c].word \in ResetCodes
    /\ \A c \in Clients : pc[c] = "reset.write" => job[c].word \in DOMAIN resets

TInv == TablesOK /\ TokensOK /\ HistoryOK /\ LocalOK

LEMMA TInvTypes == TInv => TypeOK
BY DEF TInv, TypeOK, TablesOK, TokensOK, HistoryOK, LocalOK, Places

\* The three ways a handler moves: it begins, goes on, or answers.
LEMMA BeginKeeps ==
    ASSUME LocalOK, NEW c \in Clients, NEW step \in Places, NEW u \in Users,
           NEW f \in BOOLEAN, NEW w \in JobWords,
           step = "reset.insert" => w \in ResetCodes,
           step = "reset.write" => w \in DOMAIN resets,
           DOMAIN resets \subseteq DOMAIN resets',
           Begin(c, step, u, f, w)
    PROVE  LocalOK'
<1>1. job' \in [Clients -> Jobs]
  BY DEF Begin, LocalOK, Jobs
<1>2. pc' \in [Clients -> Places]
  BY DEF Begin, LocalOK
<1>3. /\ pc'[c] = step /\ job'[c].user = u /\ job'[c].word = w
      /\ \A d \in Clients \ {c} : pc'[d] = pc[d] /\ job'[d] = job[d]
  BY DEF Begin, LocalOK
<1> QED
  BY <1>1, <1>2, <1>3 DEF LocalOK

LEMMA StepKeeps ==
    ASSUME LocalOK, NEW c \in Clients, NEW step \in Places,
           step \notin {"reset.insert", "reset.write"}, pc[c] # "idle",
           DOMAIN resets \subseteq DOMAIN resets',
           Step(c, step)
    PROVE  LocalOK'
BY DEF Step, LocalOK

LEMMA ReplyKeeps ==
    ASSUME LocalOK, NEW c \in Clients, DOMAIN resets \subseteq DOMAIN resets', Reply(c)
    PROVE  LocalOK'
<1>1. NoJob \in Jobs
  BY DEF NoJob, Jobs, JobWords
<1>2. job' \in [Clients -> Jobs]
  BY <1>1 DEF Reply, LocalOK
<1>3. /\ pc' \in [Clients -> Places] /\ pc'[c] = "idle"
      /\ \A d \in Clients \ {c} : pc'[d] = pc[d] /\ job'[d] = job[d]
  BY DEF Reply, LocalOK, Places
<1> QED
  BY <1>2, <1>3 DEF LocalOK

LEMMA LocalUnchanged ==
    ASSUME LocalOK, UNCHANGED local, DOMAIN resets \subseteq DOMAIN resets'
    PROVE  LocalOK'
BY DEF local, LocalOK

LEMMA ExistingRow ==
    ASSUME TablesOK, NEW u, Exists(u)
    PROVE  users[u] \in Rows
BY DEF Exists, TablesOK

LEMMA DemotedRow == ASSUME NEW r \in Rows PROVE [r EXCEPT !.admin = FALSE] \in Rows
BY DEF Rows

LEMMA ReenrolledRow ==
    ASSUME NEW r \in Rows, NEW s \in Secrets
    PROVE  [r EXCEPT !.secret = s, !.enabled = FALSE] \in Rows
BY DEF Rows

\* The count of Register, done or failed: how the handler goes on.
LEMMA CountedAs ==
    ASSUME NEW c \in Clients, RegisterCount(c)
    PROVE  \E f \in BOOLEAN, w \in {job[c].word, "blind"} :
              /\ Begin(c, "register.insert", job[c].user, f, w)
              /\ ~f => users # <<>>
              /\ w = "blind" \/ (f <=> users = <<>>)
<1>1. CASE Begin(c, "register.insert", job[c].user, users = <<>>, job[c].word)
  <2>1. CASE users = <<>>
    <3>1. Begin(c, "register.insert", job[c].user, TRUE, job[c].word)
      BY <1>1, <2>1, Zenon
    <3> QED
      BY <2>1, <3>1
  <2>2. CASE users # <<>>
    <3>1. Begin(c, "register.insert", job[c].user, FALSE, job[c].word)
      BY <1>1, <2>2, Zenon
    <3> QED
      BY <2>2, <3>1
  <2> QED
    BY <2>1, <2>2
<1>2. CASE Begin(c, "register.insert", job[c].user, TRUE, "blind")
  BY <1>2
<1> QED
  BY <1>1, <1>2 DEF RegisterCount

\* A field of one account changes.
LEMMA RowChange ==
    ASSUME TablesOK, NEW u \in DOMAIN users, NEW row \in Rows,
           users' = [users EXCEPT ![u] = row]
    PROVE  users' \in [DOMAIN users' -> Rows] /\ DOMAIN users' = DOMAIN users
BY DEF TablesOK

LEMMA NestedChange ==
    ASSUME NEW S, NEW T, NEW V, NEW f \in [S -> [T -> V]],
           NEW x \in S, NEW y \in T, NEW v \in V
    PROVE  [f EXCEPT ![x][y] = v] \in [S -> [T -> V]]
<1>1. [f[x] EXCEPT ![y] = v] \in [T -> V]
  OBVIOUS
<1> QED
  BY <1>1

\* consumeRecoveryCode: the tables and the history stay typed.
LEMMA ConsumeKeeps ==
    ASSUME TablesOK, HistoryOK, NEW u \in Users, NEW w, Redeemable(u, w),
           ConsumeRecovery(u, w)
    PROVE  /\ recovery' \in [Users -> [Codes -> {"absent", "unused", "used"}]]
           /\ accepted' \in [Users -> [Codes -> Nat]]
<1>1. w \in Codes
  BY DEF Redeemable
<1>2. recovery' \in [Users -> [Codes -> {"absent", "unused", "used"}]]
  <2>1. recovery' = [recovery EXCEPT ![u][w] = "used"]
    BY DEF ConsumeRecovery
  <2> QED
    BY <1>1, <2>1, NestedChange DEF TablesOK
<1>3. accepted' \in [Users -> [Codes -> Nat]]
  <2>1. accepted' = [accepted EXCEPT ![u][w] = accepted[u][w] + 1]
    BY DEF ConsumeRecovery
  <2>2. accepted[u][w] + 1 \in Nat
    BY <1>1 DEF HistoryOK
  <2> QED
    BY <1>1, <2>1, <2>2, NestedChange DEF HistoryOK
<1> QED
  BY <1>2, <1>3

LEMMA TInvInit == Init => TInv
<1> SUFFICES ASSUME Init PROVE TInv
  OBVIOUS
<1>1. users = << >> /\ resets = << >> /\ DOMAIN users = {} /\ DOMAIN resets = {}
  BY DEF Init
<1>2. users \in [DOMAIN users -> Rows]
  BY <1>1
<1>3. resets \in [DOMAIN resets -> [user : Users, used : BOOLEAN]]
  BY <1>1
<1>4. TablesOK
  BY <1>1, <1>2, <1>3 DEF Init, TablesOK
<1>5. TokensOK
  BY DEF Init, TokensOK, NoSession
<1>6. HistoryOK
  BY DEF Init, HistoryOK
<1>7. LocalOK
  <2>1. NoJob \in Jobs
    BY DEF NoJob, Jobs, JobWords
  <2> QED
    BY <2>1 DEF Init, LocalOK, Places
<1> QED
  BY <1>4, <1>5, <1>6, <1>7 DEF TInv

LEMMA TInvRoles ==
    ASSUME TInv, NEW c \in Clients, Roles(c)
    PROVE  TInv'
<1> USE DEF TInv
<1> TablesOK /\ TokensOK /\ HistoryOK /\ LocalOK
  OBVIOUS
<1>1. ASSUME NEW u \in Users, RegisterLook(c, u) PROVE TInv'
  <2>1. TablesOK' /\ TokensOK' /\ HistoryOK'
    BY <1>1 DEF RegisterLook, table, tokens, history, TablesOK, TokensOK, HistoryOK
  <2>2. PICK w \in {"first", "late"} : Begin(c, "register.count", u, FALSE, w)
    BY <1>1 DEF RegisterLook
  <2>3. LocalOK'
    BY <1>1, <2>2, BeginKeeps DEF RegisterLook, table, Places, JobWords
  <2> QED
    BY <2>1, <2>3
<1>2. ASSUME NEW u \in Users, Promote(c, u) PROVE TInv'
  <2>1. TablesOK'
    BY <1>2 DEF Promote, Put, Exists, Rows, TablesOK
  <2>2. TokensOK' /\ HistoryOK'
    BY <1>2 DEF Promote, Overlap, tokens, TokensOK, HistoryOK
  <2>3. LocalOK'
    BY <1>2, LocalUnchanged DEF Promote
  <2> QED
    BY <2>1, <2>2, <2>3
<1>3. ASSUME NEW u \in Users, NEW op \in {"delete", "demote"}, LookAtRole(c, u, op)
      PROVE  TInv'
  <2>1. TablesOK' /\ TokensOK' /\ HistoryOK'
    BY <1>3 DEF LookAtRole, Overlap, table, tokens, TablesOK, TokensOK, HistoryOK
  <2>2. users[u].admin \in BOOLEAN
    BY <1>3 DEF LookAtRole, Exists, TablesOK, Rows
  <2>3. PICK step \in RoleSteps : Begin(c, step, u, users[u].admin, op)
    BY <1>3 DEF LookAtRole, RoleSteps
  <2>4. LocalOK'
    BY <1>3, <2>2, <2>3, BeginKeeps DEF LookAtRole, table, Places, RoleSteps, JobWords
  <2> QED
    BY <2>1, <2>4
<1>4. CASE RegisterCount(c)
  <2>1. TablesOK' /\ TokensOK' /\ HistoryOK'
    BY <1>4 DEF RegisterCount, table, tokens, history, TablesOK, TokensOK, HistoryOK
  <2>2. PICK f \in BOOLEAN, w \in {job[c].word, "blind"} :
          Begin(c, "register.insert", job[c].user, f, w)
    BY <1>4, CountedAs
  <2>3. job[c].user \in Users /\ w \in JobWords
    BY <1>4 DEF RegisterCount, LocalOK, Jobs, JobWords
  <2>4. LocalOK'
    BY <1>4, <2>2, <2>3, BeginKeeps DEF RegisterCount, table, Places
  <2> QED
    BY <2>1, <2>4
<1>5. CASE RegisterInsert(c)
  <2>1. TablesOK'
    <3>1. job[c].user \in Users /\ job[c].flag \in BOOLEAN
      BY <1>5 DEF RegisterInsert, LocalOK, Jobs
    <3>2. CASE UNCHANGED users
      BY <1>5, <3>2 DEF RegisterInsert, TablesOK
    <3>3. ASSUME NEW p \in Passwords, ~Exists(job[c].user), job[c].user \notin gone,
                 users' = [v \in DOMAIN users \cup {job[c].user} |->
                             IF v = job[c].user
                               THEN [admin |-> job[c].flag, hash |-> p,
                                     secret |-> None, enabled |-> FALSE]
                               ELSE users[v]]
          PROVE  TablesOK'
      <4>1. [admin |-> job[c].flag, hash |-> p, secret |-> None, enabled |-> FALSE] \in Rows
        BY <3>1 DEF Rows
      <4>2. users' \in [DOMAIN users' -> Rows] /\ DOMAIN users' = DOMAIN users \cup {job[c].user}
        BY <3>3, <4>1 DEF TablesOK
      <4> QED
        BY <1>5, <3>1, <3>3, <4>2 DEF RegisterInsert, TablesOK, Exists
    <3> QED
      BY <1>5, <3>2, <3>3 DEF RegisterInsert
  <2>2. TokensOK' /\ HistoryOK'
    BY <1>5 DEF RegisterInsert, tokens, history, TokensOK, HistoryOK
  <2>3. LocalOK'
    BY <1>5, ReplyKeeps DEF RegisterInsert
  <2> QED
    BY <2>1, <2>2, <2>3
<1>6. CASE CountAdmins(c)
  <2>1. TablesOK' /\ TokensOK' /\ HistoryOK'
    BY <1>6 DEF CountAdmins, table, tokens, history, TablesOK, TokensOK, HistoryOK
  <2>2. LocalOK'
    BY <1>6, ReplyKeeps, StepKeeps DEF CountAdmins, table, Places, RoleSteps
  <2> QED
    BY <2>1, <2>2
<1>7. CASE WriteRole(c)
  <2>1. job[c].user \in Users
    BY <1>7 DEF WriteRole, LocalOK
  <2>2. TablesOK'
    <3>1. CASE DeleteUser(c)
      BY <1>7, <2>1, <3>1 DEF WriteRole, DeleteUser, TablesOK
    <3>2. CASE Demote(c)
      <4>1. CASE Exists(job[c].user)
        <5>1. [users[job[c].user] EXCEPT !.admin = FALSE] \in Rows
          BY <4>1, ExistingRow, DemotedRow
        <5>2. users' = [users EXCEPT ![job[c].user] = [users[job[c].user] EXCEPT !.admin = FALSE]]
          BY <3>2, <4>1 DEF Demote, Put
        <5>3. users' \in [DOMAIN users' -> Rows] /\ DOMAIN users' = DOMAIN users
          BY <4>1, <5>1, <5>2, RowChange DEF Exists
        <5> QED
          BY <1>7, <3>2, <5>3 DEF WriteRole, Demote, TablesOK
      <4>2. CASE ~Exists(job[c].user)
        BY <1>7, <3>2, <4>2 DEF WriteRole, Demote, TablesOK
      <4> QED
        BY <4>1, <4>2
    <3> QED
      BY <1>7, <3>1, <3>2 DEF WriteRole
  <2>3. TokensOK' /\ HistoryOK'
    BY <1>7 DEF WriteRole, tokens, history, TokensOK, HistoryOK
  <2>4. LocalOK'
    BY <1>7, ReplyKeeps DEF WriteRole
  <2> QED
    BY <2>2, <2>3, <2>4
<1> QED
  BY <1>1, <1>2, <1>3, <1>4, <1>5, <1>6, <1>7 DEF Roles

LEMMA TInvSignIn ==
    ASSUME TInv, NEW c \in Clients, SignIn(c)
    PROVE  TInv'
<1> USE DEF TInv
<1> TablesOK /\ TokensOK /\ HistoryOK /\ LocalOK
  OBVIOUS
<1>1. ASSUME NEW u \in Users, NEW p \in Passwords, Login(c, u, p) PROVE TInv'
  <2>1. TablesOK' /\ HistoryOK'
    BY <1>1 DEF Login, table, history, TablesOK, HistoryOK
  <2>2. TokensOK'
    <3>1. users[u].admin \in BOOLEAN
      BY <1>1 DEF Login, Exists, TablesOK, Rows
    <3> QED
      BY <1>1, <3>1 DEF Login, TokensOK
  <2>3. LocalOK'
    BY <1>1, LocalUnchanged DEF Login, table
  <2> QED
    BY <2>1, <2>2, <2>3
<1>2. ASSUME NEW w \in Words, VerifyRead(c, w) PROVE TInv'
  <2>1. TablesOK' /\ TokensOK' /\ HistoryOK'
    BY <1>2 DEF VerifyRead, table, tokens, history, TablesOK, TokensOK, HistoryOK
  <2>2. pending[c] \in Users /\ users[pending[c]].admin \in BOOLEAN
    BY <1>2 DEF VerifyRead, Exists, TablesOK, Rows
  <2>3. LocalOK'
    BY <1>2, <2>2, BeginKeeps DEF VerifyRead, table, Places, JobWords
  <2> QED
    BY <2>1, <2>3
<1>3. CASE VerifyCheck(c)
  <2>1. TablesOK' /\ HistoryOK'
    BY <1>3 DEF VerifyCheck, table, history, TablesOK, HistoryOK
  <2>2. job[c].user \in Users /\ job[c].flag \in BOOLEAN
    BY <1>3 DEF VerifyCheck, LocalOK, Jobs
  <2>3. TokensOK'
    BY <1>3, <2>2 DEF VerifyCheck, FinishLogin, TokensOK
  <2>4. LocalOK'
    BY <1>3, ReplyKeeps, StepKeeps DEF VerifyCheck, FinishLogin, table, Places
  <2> QED
    BY <2>1, <2>3, <2>4
<1>4. CASE VerifyRecovery(c)
  <2>1. job[c].user \in Users /\ job[c].flag \in BOOLEAN
    BY <1>4 DEF VerifyRecovery, LocalOK, Jobs
  <2>2. TablesOK'
    BY <1>4, <2>1, ConsumeKeeps DEF VerifyRecovery, TablesOK
  <2>3. HistoryOK'
    BY <1>4, <2>1, ConsumeKeeps DEF VerifyRecovery, HistoryOK
  <2>4. TokensOK'
    BY <1>4, <2>1 DEF VerifyRecovery, FinishLogin, TokensOK
  <2>5. LocalOK'
    BY <1>4, ReplyKeeps DEF VerifyRecovery, FinishLogin
  <2> QED
    BY <2>2, <2>3, <2>4, <2>5
<1>5. CASE Expire(c)
  <2>1. TablesOK' /\ TokensOK' /\ HistoryOK'
    BY <1>5 DEF Expire, NoSession, table, history, TablesOK, TokensOK, HistoryOK
  <2>2. LocalOK'
    BY <1>5, LocalUnchanged DEF Expire, table
  <2> QED
    BY <2>1, <2>2
<1> QED
  BY <1>1, <1>2, <1>3, <1>4, <1>5 DEF SignIn

LEMMA TInvResetting ==
    ASSUME TInv, NEW c \in Clients, Resetting(c)
    PROVE  TInv'
<1> USE DEF TInv
<1> TablesOK /\ TokensOK /\ HistoryOK /\ LocalOK
  OBVIOUS
<1>1. ASSUME NEW x \in ResetCodes, ResetRead(c, x) PROVE TInv'
  <2>1. TablesOK' /\ TokensOK' /\ HistoryOK'
    BY <1>1 DEF ResetRead, table, tokens, history, TablesOK, TokensOK, HistoryOK
  <2>2. resets[x].user \in Users
    BY <1>1 DEF ResetRead, TablesOK
  <2>3. LocalOK'
    BY <1>1, <2>2, BeginKeeps DEF ResetRead, table, Places, JobWords
  <2> QED
    BY <2>1, <2>3
<1>2. ASSUME NEW x \in ResetCodes, NEW u \in Users, ResetLook(c, u, x) PROVE TInv'
  <2>1. TablesOK' /\ TokensOK' /\ HistoryOK'
    BY <1>2 DEF ResetLook, table, tokens, history, TablesOK, TokensOK, HistoryOK
  <2>2. LocalOK'
    BY <1>2, BeginKeeps DEF ResetLook, table, Places, JobWords
  <2> QED
    BY <2>1, <2>2
<1>3. CASE ResetInsert(c)
  <2>1. job[c].user \in Users /\ job[c].word \in ResetCodes
    BY <1>3 DEF ResetInsert, LocalOK
  <2>2. /\ DOMAIN resets' = DOMAIN resets \cup {job[c].word}
        /\ resets' \in [DOMAIN resets' -> [user : Users, used : BOOLEAN]]
    BY <1>3, <2>1 DEF ResetInsert, TablesOK
  <2>3. TablesOK'
    BY <1>3, <2>1, <2>2 DEF ResetInsert, TablesOK
  <2>4. TokensOK' /\ HistoryOK'
    BY <1>3 DEF ResetInsert, tokens, history, TokensOK, HistoryOK
  <2>5. LocalOK'
    BY <1>3, <2>2, ReplyKeeps DEF ResetInsert
  <2> QED
    BY <2>3, <2>4, <2>5
<1>4. ASSUME NEW p \in Passwords, ResetWrite(c, p) PROVE TInv'
  <2>1. job[c].user \in Users /\ job[c].word \in DOMAIN resets /\ DOMAIN resets' = DOMAIN resets
    BY <1>4 DEF ResetWrite, LocalOK
  <2>2. TablesOK'
    <3>1. DOMAIN users' = DOMAIN users /\ users' \in [DOMAIN users' -> Rows]
      BY <1>4, ZenonT(40) DEF ResetWrite, Exists, Rows, TablesOK
    <3>2. resets' \in [DOMAIN resets' -> [user : Users, used : BOOLEAN]]
      BY <1>4, <2>1 DEF ResetWrite, TablesOK
    <3> QED
      BY <1>4, <2>1, <3>1, <3>2 DEF ResetWrite, TablesOK
  <2>3. TokensOK' /\ HistoryOK'
    BY <1>4, <2>1 DEF ResetWrite, tokens, TokensOK, HistoryOK, TablesOK
  <2>4. LocalOK'
    BY <1>4, <2>1, ReplyKeeps DEF ResetWrite
  <2> QED
    BY <2>2, <2>3, <2>4
<1> QED
  BY <1>1, <1>2, <1>3, <1>4 DEF Resetting

LEMMA TInvTwoFactor ==
    ASSUME TInv, NEW c \in Clients, TwoFactor(c)
    PROVE  TInv'
<1> USE DEF TInv
<1> TablesOK /\ TokensOK /\ HistoryOK /\ LocalOK
  OBVIOUS
<1>1. CASE SetupRead(c)
  <2>1. session[c].user \in Users
    BY <1>1 DEF SetupRead, Exists, TablesOK
  <2>2. TablesOK' /\ TokensOK' /\ HistoryOK'
    BY <1>1, <2>1 DEF SetupRead, Mix, table, tokens, TablesOK, TokensOK, HistoryOK
  <2>3. LocalOK'
    BY <1>1, <2>1, BeginKeeps DEF SetupRead, table, Places, FactorSteps, JobWords
  <2> QED
    BY <2>2, <2>3
<1>2. ASSUME NEW s \in Secrets, SetupWrite(c, s) PROVE TInv'
  <2>1. TablesOK'
    <3>1. CASE Exists(job[c].user)
      <4> DEFINE row == [users[job[c].user] EXCEPT !.secret = s, !.enabled = FALSE]
      <4>1. row \in Rows
        BY <3>1, ExistingRow, ReenrolledRow
      <4>2. users' = [users EXCEPT ![job[c].user] = row]
        BY <1>2, <3>1 DEF SetupWrite, Put
      <4>3. users' \in [DOMAIN users' -> Rows] /\ DOMAIN users' = DOMAIN users
        BY <3>1, <4>1, <4>2, RowChange DEF Exists
      <4> QED
        BY <1>2, <4>3 DEF SetupWrite, TablesOK
    <3>2. CASE ~Exists(job[c].user)
      BY <1>2, <3>2 DEF SetupWrite, TablesOK
    <3> QED
      BY <3>1, <3>2
  <2>2. TokensOK' /\ HistoryOK'
    BY <1>2 DEF SetupWrite, tokens, history, TokensOK, HistoryOK
  <2>3. LocalOK'
    BY <1>2, ReplyKeeps DEF SetupWrite
  <2> QED
    BY <2>1, <2>2, <2>3
<1>3. ASSUME NEW w \in Words, EnableCheck(c, w) PROVE TInv'
  <2>1. session[c].user \in Users /\ w \in Secrets
    BY <1>3 DEF EnableCheck, TOTPFits, Exists, TablesOK, Rows
  <2>2. TablesOK' /\ TokensOK' /\ HistoryOK'
    BY <1>3, <2>1 DEF EnableCheck, Mix, table, tokens, TablesOK, TokensOK, HistoryOK
  <2>3. LocalOK'
    BY <1>3, <2>1, BeginKeeps DEF EnableCheck, table, Places, FactorSteps, JobWords
  <2> QED
    BY <2>2, <2>3
<1>4. CASE EnableWrite(c)
  <2>1. TablesOK'
    BY <1>4, ZenonT(40) DEF EnableWrite, Exists, Rows, TablesOK
  <2>2. TokensOK' /\ HistoryOK'
    BY <1>4 DEF EnableWrite, tokens, history, TokensOK, HistoryOK
  <2>3. LocalOK'
    BY <1>4, StepKeeps DEF EnableWrite, Places, FactorSteps
  <2> QED
    BY <2>1, <2>2, <2>3
<1>5. CASE EnableCodes(c)
  <2>1. job[c].user \in Users
    BY <1>5 DEF EnableCodes, LocalOK
  <2>2. TablesOK' /\ TokensOK'
    BY <1>5, <2>1 DEF EnableCodes, tokens, TablesOK, TokensOK
  <2>4. HistoryOK'
    <3>1. accepted' = [accepted EXCEPT ![job[c].user] = [k \in Codes |-> 0]]
      BY <1>5 DEF EnableCodes
    <3>2. [k \in Codes |-> 0] \in [Codes -> Nat]
      OBVIOUS
    <3> QED
      BY <1>5, <2>1, <3>1, <3>2 DEF EnableCodes, HistoryOK
  <2>3. LocalOK'
    BY <1>5, ReplyKeeps DEF EnableCodes
  <2> QED
    BY <2>2, <2>3, <2>4
<1>6. ASSUME NEW p \in Passwords, NEW w \in Words, DisableRead(c, p, w) PROVE TInv'
  <2>1. session[c].user \in Users
    BY <1>6 DEF DisableRead, Exists, TablesOK
  <2>2. TablesOK' /\ TokensOK' /\ HistoryOK'
    BY <1>6, <2>1 DEF DisableRead, Mix, table, tokens, TablesOK, TokensOK, HistoryOK
  <2>3. LocalOK'
    BY <1>6, <2>1, BeginKeeps DEF DisableRead, table, Places, FactorSteps, JobWords
  <2> QED
    BY <2>2, <2>3
<1>7. CASE DisableCheck(c)
  <2>1. TablesOK' /\ TokensOK' /\ HistoryOK'
    BY <1>7 DEF DisableCheck, table, tokens, history, TablesOK, TokensOK, HistoryOK
  <2>2. LocalOK'
    BY <1>7, StepKeeps DEF DisableCheck, table, Places, FactorSteps
  <2> QED
    BY <2>1, <2>2
<1>8. CASE DisableRecovery(c)
  <2>1. job[c].user \in Users
    BY <1>8 DEF DisableRecovery, LocalOK
  <2>2. TablesOK' /\ TokensOK'
    BY <1>8, <2>1, ConsumeKeeps DEF DisableRecovery, tokens, TablesOK, TokensOK
  <2>3. HistoryOK'
    BY <1>8, <2>1, ConsumeKeeps DEF DisableRecovery, HistoryOK
  <2>4. LocalOK'
    BY <1>8, ReplyKeeps, StepKeeps DEF DisableRecovery, Places, FactorSteps
  <2> QED
    BY <2>2, <2>3, <2>4
<1>9. CASE DisableWrite(c)
  <2>1. job[c].user \in Users
    BY <1>9 DEF DisableWrite, LocalOK
  <2>2. TablesOK'
    <3>1. recovery' \in [Users -> [Codes -> {"absent", "unused", "used"}]]
      <4>1. [k \in Codes |-> "absent"] \in [Codes -> {"absent", "unused", "used"}]
        OBVIOUS
      <4> QED
        BY <1>9, <2>1, <4>1 DEF DisableWrite, TablesOK
    <3>2. users' \in [DOMAIN users' -> Rows] /\ DOMAIN users' = DOMAIN users
      BY <1>9, ZenonT(40) DEF DisableWrite, Exists, Rows, TablesOK
    <3> QED
      BY <1>9, <3>1, <3>2 DEF DisableWrite, TablesOK
  <2>3. TokensOK' /\ HistoryOK'
    BY <1>9 DEF DisableWrite, tokens, history, TokensOK, HistoryOK
  <2>4. LocalOK'
    BY <1>9, ReplyKeeps DEF DisableWrite
  <2> QED
    BY <2>2, <2>3, <2>4
<1> QED
  BY <1>1, <1>2, <1>3, <1>4, <1>5, <1>6, <1>7, <1>8, <1>9 DEF TwoFactor

LEMMA TInvNext == TInv /\ [Next]_vars => TInv'
<1> SUFFICES ASSUME TInv, [Next]_vars PROVE TInv'
  OBVIOUS
<1>1. CASE UNCHANGED vars
  BY <1>1 DEF TInv, TablesOK, TokensOK, HistoryOK, LocalOK, vars, table, tokens, local, history
<1>2. ASSUME NEW c \in Clients, Fail(c) PROVE TInv'
  BY <1>2, ReplyKeeps
     DEF Fail, TInv, TablesOK, TokensOK, HistoryOK, table, tokens, history
<1>3. CASE Next
  BY <1>2, <1>3, TInvRoles, TInvSignIn, TInvResetting, TInvTwoFactor DEF Next
<1> QED
  BY <1>1, <1>3

\* The tables, the tokens and what handlers remember keep their types: whoever
\* is inside a handler is about an account, and who inserts or redeems a reset
\* code has drawn it or found it in the table.
THEOREM TypeCorrect == Spec => []TInv
<1>1. Init => TInv
  BY TInvInit
<1>2. TInv /\ [Next]_vars => TInv'
  BY TInvNext
<1> QED
  BY <1>1, <1>2, PTL DEF Spec

-----------------------------------------------------------------------------
(* Recovery codes. That a code is accepted once is inductive with the fact  *)
(* that one still unused was not accepted: the UPDATE tests and marks it in *)
(* one statement.                                                           *)

Spent ==
    \A u \in Users, k \in Codes :
        accepted[u][k] <= 1 /\ (recovery[u][k] = "unused" => accepted[u][k] = 0)

LEMMA ConsumeSpends ==
    ASSUME TInv, Spent, NEW u \in Users, NEW w, Redeemable(u, w), ConsumeRecovery(u, w)
    PROVE  Spent'
<1>1. w \in Codes /\ accepted[u][w] = 0
  BY DEF Redeemable, Spent
<1>2. recovery' = [recovery EXCEPT ![u][w] = "used"]
  BY DEF ConsumeRecovery
<1>3. accepted' = [accepted EXCEPT ![u][w] = accepted[u][w] + 1]
  BY DEF ConsumeRecovery
<1>4. ASSUME NEW v \in Users, NEW k \in Codes
      PROVE  accepted'[v][k] <= 1 /\ (recovery'[v][k] = "unused" => accepted'[v][k] = 0)
  <2>1. recovery \in [Users -> [Codes -> {"absent", "unused", "used"}]]
    BY DEF TInv, TablesOK
  <2>2. accepted \in [Users -> [Codes -> Nat]]
    BY DEF TInv, HistoryOK
  <2>3. CASE v = u /\ k = w
    <3>1. accepted'[v][k] = 1
      BY <1>1, <1>3, <2>2, <2>3
    <3>2. recovery'[v][k] = "used"
      BY <1>1, <1>2, <2>1, <2>3
    <3> QED
      BY <3>1, <3>2
  <2>4. CASE ~(v = u /\ k = w)
    <3>1. accepted'[v][k] = accepted[v][k]
      BY <1>1, <1>3, <2>2, <2>4
    <3>2. recovery'[v][k] = recovery[v][k]
      BY <1>1, <1>2, <2>1, <2>4
    <3> QED
      BY <3>1, <3>2 DEF Spent
  <2> QED
    BY <2>3, <2>4
<1> QED
  BY <1>4 DEF Spent

LEMMA SpentNext == TInv /\ Spent /\ [Next]_vars => Spent'
<1> SUFFICES ASSUME TInv, Spent, [Next]_vars PROVE Spent'
  OBVIOUS
<1>1. CASE UNCHANGED <<recovery, accepted>>
  BY <1>1 DEF Spent
<1>2. ASSUME NEW c \in Clients, VerifyRecovery(c) PROVE Spent'
  <2>1. job[c].user \in Users
    BY <1>2 DEF VerifyRecovery, TInv, LocalOK
  <2> QED
    BY <1>1, <1>2, <2>1, ConsumeSpends DEF VerifyRecovery
<1>3. ASSUME NEW c \in Clients, DisableRecovery(c) PROVE Spent'
  <2>1. job[c].user \in Users
    BY <1>3 DEF DisableRecovery, TInv, LocalOK
  <2> QED
    BY <1>1, <1>3, <2>1, ConsumeSpends DEF DisableRecovery
<1>4. ASSUME NEW c \in Clients, EnableCodes(c) PROVE Spent'
  <2>1. /\ recovery' = [recovery EXCEPT ![job[c].user] = [k \in Codes |-> "unused"]]
        /\ accepted' = [accepted EXCEPT ![job[c].user] = [k \in Codes |-> 0]]
    BY <1>4 DEF EnableCodes
  <2>2. Spent'
    <3> SUFFICES ASSUME NEW v \in Users, NEW k \in Codes
                 PROVE  /\ accepted'[v][k] <= 1
                        /\ recovery'[v][k] = "unused" => accepted'[v][k] = 0
      BY DEF Spent
    <3>1. CASE v = job[c].user
      BY <2>1, <3>1 DEF TInv, TablesOK, HistoryOK
    <3>2. CASE v # job[c].user
      BY <2>1, <3>2 DEF TInv, TablesOK, HistoryOK, Spent
    <3> QED
      BY <3>1, <3>2
  <2> QED
    BY <2>2
<1>5. ASSUME NEW c \in Clients, DisableWrite(c) PROVE Spent'
  <2>1. /\ recovery' = [recovery EXCEPT ![job[c].user] = [k \in Codes |-> "absent"]]
        /\ accepted' = accepted
    BY <1>5 DEF DisableWrite, history
  <2> SUFFICES ASSUME NEW v \in Users, NEW k \in Codes
               PROVE  /\ accepted'[v][k] <= 1
                      /\ recovery'[v][k] = "unused" => accepted'[v][k] = 0
    BY DEF Spent
  <2> QED
    BY <2>1 DEF TInv, TablesOK, Spent
<1>6. ASSUME NEW c \in Clients,
             \/ Roles(c) \/ Resetting(c) \/ Expire(c) \/ VerifyCheck(c) \/ Fail(c)
             \/ \E u \in Users, p \in Passwords : Login(c, u, p)
             \/ \E w \in Words : VerifyRead(c, w)
      PROVE  UNCHANGED <<recovery, accepted>>
  BY <1>6 DEF Roles, RegisterLook, RegisterCount, RegisterInsert, CountAdmins, LookAtRole,
     WriteRole, Promote, Resetting, ResetRead, ResetLook, ResetInsert, ResetWrite,
     Expire, VerifyCheck, Login, VerifyRead, Fail, table, history
<1>7. ASSUME NEW c \in Clients,
             \/ SetupRead(c) \/ EnableWrite(c) \/ DisableCheck(c)
             \/ \E s \in Secrets : SetupWrite(c, s)
             \/ \E w \in Words : EnableCheck(c, w)
             \/ \E p \in Passwords, w \in Words : DisableRead(c, p, w)
      PROVE  UNCHANGED <<recovery, accepted>>
  BY <1>7 DEF SetupRead, EnableWrite, DisableCheck, SetupWrite, EnableCheck, DisableRead,
     table, history
<1>8. CASE UNCHANGED vars
  BY <1>1, <1>8 DEF vars, table, history
<1> QED
  BY <1>1, <1>2, <1>3, <1>4, <1>5, <1>6, <1>7, <1>8 DEF Next, SignIn, TwoFactor

\* RecoveryCodeOnce: whichever requests present it at the same time, a recovery
\* code is accepted once.
THEOREM CodesWorkOnce == Spec => []RecoveryCodeOnce
<1>1. Init => Spent
  BY DEF Init, Spent
<1>2. TInv /\ Spent /\ [Next]_vars => Spent'
  BY SpentNext
<1>3. Spent => RecoveryCodeOnce
  BY DEF Spent, RecoveryCodeOnce
<1> QED
  BY <1>1, <1>2, <1>3, TypeCorrect, PTL DEF Spec

-----------------------------------------------------------------------------
(* Reset codes. A code that has changed a password is in the table and used *)
(* for ever: no INSERT brings it back, because a code is drawn by one       *)
(* administrator, while it is in no table.                                  *)

Drawn ==
    /\ \A c \in Clients : pc[c] = "reset.insert" => job[c].word \notin DOMAIN resets
    /\ \A c, d \in Clients : pc[c] = "reset.insert" /\ pc[d] = "reset.insert" /\ c # d
                                => job[c].word # job[d].word
Burnt == \A x \in redeemed : x \in DOMAIN resets /\ resets[x].used

RInv == Drawn /\ Burnt

\* A step of c that is of no concern to the reset codes.
Elsewhere(c) ==
    /\ UNCHANGED <<resets, redeemed>>
    /\ pc'[c] \in {"reset.insert", "reset.write"} => pc'[c] = pc[c] /\ job'[c] = job[c]
    /\ \A d \in Clients \ {c} : pc'[d] = pc[d] /\ job'[d] = job[d]

\* A handler that begins changes its own place and memory only.
LEMMA BeginMoves ==
    ASSUME LocalOK, NEW c \in Clients, NEW step, NEW u, NEW f, NEW w, Begin(c, step, u, f, w)
    PROVE  /\ pc'[c] = step /\ job'[c].word = w
           /\ \A d \in Clients \ {c} : pc'[d] = pc[d] /\ job'[d] = job[d]
BY DEF Begin, LocalOK

LEMMA StepMoves ==
    ASSUME LocalOK, NEW c \in Clients, NEW step, Step(c, step)
    PROVE  /\ pc'[c] = step
           /\ \A d \in Clients \ {c} : pc'[d] = pc[d] /\ job'[d] = job[d]
BY DEF Step, LocalOK

LEMMA ReplyMoves ==
    ASSUME LocalOK, NEW c \in Clients, Reply(c)
    PROVE  /\ pc'[c] = "idle"
           /\ \A d \in Clients \ {c} : pc'[d] = pc[d] /\ job'[d] = job[d]
BY DEF Reply, LocalOK

\* So does one that fails, which changes nothing else.
LEMMA FailMoves ==
    ASSUME LocalOK, NEW c \in Clients, Fail(c)
    PROVE  /\ pc'[c] = "idle"
           /\ \A d \in Clients \ {c} : pc'[d] = pc[d] /\ job'[d] = job[d]
           /\ UNCHANGED <<table, tokens, history>>
BY ReplyMoves DEF Fail

\* Register and the changes of roles leave the reset codes.
LEMMA RolesElsewhere == ASSUME TInv, NEW c \in Clients, Roles(c) PROVE Elsewhere(c)
<1> LocalOK
  BY DEF TInv
<1>1. ASSUME NEW u \in Users, RegisterLook(c, u) PROVE Elsewhere(c)
  <2>1. PICK w \in {"first", "late"} : Begin(c, "register.count", u, FALSE, w)
    BY <1>1 DEF RegisterLook
  <2> QED
    BY <1>1, <2>1, BeginMoves DEF RegisterLook, Elsewhere, table, history
<1>2. ASSUME NEW u \in Users, Promote(c, u) PROVE Elsewhere(c)
  BY <1>2 DEF Promote, Elsewhere, local
<1>3. ASSUME NEW u \in Users, NEW op \in {"delete", "demote"}, LookAtRole(c, u, op)
      PROVE  Elsewhere(c)
  <2>1. PICK step \in RoleSteps : Begin(c, step, u, users[u].admin, op)
    BY <1>3 DEF LookAtRole, RoleSteps
  <2>2. pc'[c] = step /\ \A d \in Clients \ {c} : pc'[d] = pc[d] /\ job'[d] = job[d]
    BY <2>1, BeginMoves
  <2> QED
    BY <1>3, <2>2 DEF LookAtRole, Elsewhere, table, RoleSteps
<1>4. CASE RegisterCount(c)
  <2>1. PICK f \in BOOLEAN, w \in {job[c].word, "blind"} :
          Begin(c, "register.insert", job[c].user, f, w)
    BY <1>4, CountedAs
  <2>2. pc'[c] = "register.insert" /\ \A d \in Clients \ {c} : pc'[d] = pc[d] /\ job'[d] = job[d]
    BY <2>1, BeginMoves
  <2> QED
    BY <1>4, <2>2 DEF RegisterCount, Elsewhere, table, history
<1>5. CASE RegisterInsert(c)
  BY <1>5, ReplyMoves DEF RegisterInsert, Elsewhere, history
<1>6. CASE CountAdmins(c)
  BY <1>6, ReplyMoves, StepMoves DEF CountAdmins, Elsewhere, table, history
<1>7. CASE WriteRole(c)
  BY <1>7, ReplyMoves DEF WriteRole, Elsewhere, history
<1> QED
  BY <1>1, <1>2, <1>3, <1>4, <1>5, <1>6, <1>7 DEF Roles

\* So do signing in and the second factor.
LEMMA SessionsElsewhere ==
    ASSUME TInv, NEW c \in Clients, SignIn(c) \/ TwoFactor(c)
    PROVE  Elsewhere(c)
<1> USE DEF table, local, history, FactorSteps, Elsewhere
<1> LocalOK
  BY DEF TInv
<1>1. CASE SignIn(c)
  <2>1. ASSUME NEW u \in Users, NEW p \in Passwords, Login(c, u, p) PROVE Elsewhere(c)
    BY <2>1 DEF Login
  <2>2. ASSUME NEW w \in Words, VerifyRead(c, w) PROVE Elsewhere(c)
    <3>1. pending[c] \in Users /\ users[pending[c]].admin \in BOOLEAN
      BY <2>2 DEF VerifyRead, Exists, TInv, TablesOK, Rows
    <3>2. /\ pc'[c] = "verify.check"
          /\ \A d \in Clients \ {c} : pc'[d] = pc[d] /\ job'[d] = job[d]
      BY <2>2, <3>1, BeginMoves DEF VerifyRead
    <3> QED
      BY <2>2, <3>2 DEF VerifyRead
  <2>3. CASE VerifyCheck(c)
    BY <2>3, ReplyMoves, StepMoves DEF VerifyCheck, FinishLogin
  <2>4. CASE VerifyRecovery(c)
    BY <2>4, ReplyMoves DEF VerifyRecovery, FinishLogin
  <2>5. CASE Expire(c)
    BY <2>5 DEF Expire
  <2> QED
    BY <1>1, <2>1, <2>2, <2>3, <2>4, <2>5 DEF SignIn
<1>2. CASE TwoFactor(c)
  BY <1>2 DEF Begin, Step, Reply, LocalOK, TwoFactor,
              SetupRead, SetupWrite, EnableCheck, EnableWrite, EnableCodes,
              DisableRead, DisableCheck, DisableRecovery, DisableWrite
<1> QED
  BY <1>1, <1>2

LEMMA RInvElsewhere ==
    ASSUME RInv, NEW c \in Clients, Elsewhere(c)
    PROVE  RInv'
BY DEF RInv, Drawn, Burnt, Elsewhere

LEMMA RInvNext == TInv /\ RInv /\ [Next]_vars => RInv'
<1> SUFFICES ASSUME TInv, RInv, [Next]_vars PROVE RInv'
  OBVIOUS
<1> LocalOK /\ TablesOK
  BY DEF TInv
<1>1. ASSUME NEW c \in Clients, Roles(c) \/ SignIn(c) \/ TwoFactor(c) \/ Fail(c) PROVE RInv'
  <2>1. Fail(c) => Elsewhere(c)
    BY FailMoves DEF Elsewhere, table, history
  <2> QED
    BY <1>1, <2>1, RolesElsewhere, SessionsElsewhere, RInvElsewhere
<1>2. ASSUME NEW c \in Clients, NEW x \in ResetCodes, NEW u \in Users, ResetLook(c, u, x)
      PROVE  RInv'
  <2>1. /\ pc'[c] = "reset.insert" /\ job'[c].word = x
        /\ \A d \in Clients \ {c} : pc'[d] = pc[d] /\ job'[d] = job[d]
    BY <1>2, BeginMoves DEF ResetLook
  <2>2. /\ UNCHANGED <<resets, redeemed>>
        /\ x \notin DOMAIN resets /\ \A d \in Clients : job[d].word # x
    BY <1>2 DEF ResetLook, table, history
  <2>3. Drawn'
    BY <2>1, <2>2 DEF RInv, Drawn
  <2> QED
    BY <2>2, <2>3 DEF RInv, Burnt
<1>3. ASSUME NEW c \in Clients, ResetInsert(c) PROVE RInv'
  <2>1. /\ pc'[c] = "idle"
        /\ \A d \in Clients \ {c} : pc'[d] = pc[d] /\ job'[d] = job[d]
    BY <1>3, ReplyMoves DEF ResetInsert
  <2>2. /\ pc[c] = "reset.insert" /\ redeemed' = redeemed
        /\ DOMAIN resets' = DOMAIN resets \cup {job[c].word}
        /\ \A y \in DOMAIN resets : y # job[c].word => resets'[y] = resets[y]
    BY <1>3 DEF ResetInsert, history
  <2>3. Drawn'
    BY <2>1, <2>2 DEF RInv, Drawn
  <2>4. Burnt'
    BY <2>2 DEF RInv, Drawn, Burnt
  <2> QED
    BY <2>3, <2>4 DEF RInv
<1>4. ASSUME NEW c \in Clients, NEW x \in ResetCodes, ResetRead(c, x) PROVE RInv'
  <2>1. /\ pc'[c] = "reset.write"
        /\ \A d \in Clients \ {c} : pc'[d] = pc[d] /\ job'[d] = job[d]
    BY <1>4, BeginMoves DEF ResetRead
  <2> QED
    BY <1>4, <2>1 DEF ResetRead, RInv, Drawn, Burnt, table, history
<1>5. ASSUME NEW c \in Clients, NEW p \in Passwords, ResetWrite(c, p) PROVE RInv'
  <2>1. /\ pc'[c] = "idle"
        /\ \A d \in Clients \ {c} : pc'[d] = pc[d] /\ job'[d] = job[d]
    BY <1>5, ReplyMoves DEF ResetWrite
  <2>2. /\ job[c].word \in DOMAIN resets /\ DOMAIN resets' = DOMAIN resets
        /\ redeemed' = redeemed \cup {job[c].word}
    BY <1>5 DEF ResetWrite, LocalOK
  <2>3. \A y \in DOMAIN resets :
          resets'[y].used = IF y = job[c].word THEN TRUE ELSE resets[y].used
    BY <1>5, <2>2 DEF ResetWrite, TablesOK
  <2>4. Drawn'
    BY <2>1, <2>2 DEF RInv, Drawn
  <2>5. Burnt'
    BY <2>2, <2>3 DEF RInv, Burnt
  <2> QED
    BY <2>4, <2>5 DEF RInv
<1>6. CASE UNCHANGED vars
  BY <1>6 DEF RInv, Drawn, Burnt, vars, table, local, history
<1> QED
  BY <1>1, <1>2, <1>3, <1>4, <1>5, <1>6 DEF Next, Resetting

\* ResetOnce: a reset code that has changed a password starts no other change.
THEOREM ResetsHappenOnce == Spec => ResetOnce
<1>1. Init => RInv
  BY DEF Init, RInv, Drawn, Burnt
<1>2. TInv /\ RInv /\ [Next]_vars => RInv'
  BY RInvNext
<1>3. ASSUME TInv, RInv, [Next]_vars,
             NEW c \in Clients, pc[c] = "idle", pc'[c] = "reset.write"
      PROVE  job'[c].word \notin redeemed
  <2> LocalOK
    BY <1>3 DEF TInv
  <2>0. ASSUME NEW d \in Clients, Fail(d) PROVE FALSE
    BY <1>3, <2>0, FailMoves
  <2>1. PICK d \in Clients : Resetting(d)
    BY <1>3, <2>0, RolesElsewhere, SessionsElsewhere DEF Next, Elsewhere, vars, local
  <2>2. CASE ResetInsert(d)
    BY <1>3, <2>2, ReplyMoves DEF ResetInsert
  <2>3. ASSUME NEW p \in Passwords, ResetWrite(d, p) PROVE FALSE
    BY <1>3, <2>3, ReplyMoves DEF ResetWrite
  <2>4. ASSUME NEW x \in ResetCodes, NEW u \in Users, ResetLook(d, u, x) PROVE FALSE
    BY <1>3, <2>4, BeginMoves DEF ResetLook
  <2>5. ASSUME NEW x \in ResetCodes, ResetRead(d, x) PROVE job'[c].word \notin redeemed
    <3>1. job'[d].word = x /\ \A e \in Clients \ {d} : pc'[e] = pc[e]
      <4>1. Begin(d, "reset.write", resets[x].user, FALSE, x)
        BY <2>5 DEF ResetRead
      <4> QED
        BY <4>1, BeginMoves
    <3>2. d = c
      BY <1>3, <3>1
    <3> QED
      BY <1>3, <2>5, <3>1, <3>2 DEF ResetRead, RInv, Burnt
  <2> QED
    BY <2>1, <2>2, <2>3, <2>4, <2>5 DEF Resetting
<1>4. TInv /\ RInv /\ [Next]_vars
        => [\A c \in Clients : pc[c] = "idle" /\ pc'[c] = "reset.write"
              => job'[c].word \notin redeemed]_vars
  BY <1>3
<1> QED
  BY <1>1, <1>2, <1>4, TypeCorrect, PTL DEF Spec, ResetOnce

-----------------------------------------------------------------------------
(* Roles. Unless two changes of roles overlap, what ensureNotLastAdmin saw  *)
(* is still so when the change is written: the account exists and has the   *)
(* role it had, and an administrator that is counted out has a colleague.   *)
(* No count of a later registration that succeeds finds the table empty,    *)
(* then.                                                                    *)

Alone ==
    /\ \A c, d \in Clients : c # d /\ pc[c] \in RoleSteps /\ pc[d] \in RoleSteps => raced
    /\ \A c \in Clients : pc[c] = "role.count" => job[c].flag

StillSo ==
    /\ \A c \in Clients :
         pc[c] \in RoleSteps
           => Exists(job[c].user) /\ users[job[c].user].admin = job[c].flag
    /\ \A c \in Clients :
         pc[c] = "role.write" /\ job[c].flag => \E a \in Admins : a # job[c].user

Founded ==
    /\ DOMAIN users # {} => Admins # {}
    /\ \A c \in Clients : pc[c] = "register.insert" /\ ~job[c].flag => Admins # {}
    /\ \A c \in Clients :
         pc[c] \in {"register.count", "register.insert"} /\ job[c].word = "late"
           => Admins # {}
    /\ \A c \in Clients :
         pc[c] = "register.insert" /\ job[c].word = "late" => ~job[c].flag

RoleInv == Alone /\ (~raced => StillSo /\ Founded)

\* A step of c that is of no concern to the roles.
RolesKept(c) ==
    /\ raced' = raced
    /\ DOMAIN users' = DOMAIN users
    /\ \A v \in DOMAIN users : users'[v].admin = users[v].admin
    /\ pc'[c] \in RoleSteps \cup {"register.count", "register.insert"}
         => pc'[c] = pc[c] /\ job'[c] = job[c]
    /\ \A d \in Clients \ {c} : pc'[d] = pc[d] /\ job'[d] = job[d]

LEMMA RolesKeptInv ==
    ASSUME RoleInv, NEW c \in Clients, RolesKept(c)
    PROVE  RoleInv'
<1>1. Alone'
  BY DEF RoleInv, Alone, RolesKept, RoleSteps
<1>2. Admins' = Admins
  BY DEF Admins, RolesKept
<1>3. ~raced' => StillSo'
  BY <1>2 DEF RoleInv, StillSo, RolesKept, Exists, RoleSteps
<1>4. ~raced' => Founded'
  BY <1>2 DEF RoleInv, Founded, RolesKept
<1> QED
  BY <1>1, <1>3, <1>4 DEF RoleInv

LEMMA ResettingKeepsRoles == ASSUME TInv, NEW c \in Clients, Resetting(c) PROVE RolesKept(c)
<1> USE DEF RolesKept, RoleSteps
<1> LocalOK /\ TablesOK
  BY DEF TInv
<1>1. ASSUME NEW x \in ResetCodes, ResetRead(c, x) PROVE RolesKept(c)
  <2>1. /\ pc'[c] = "reset.write"
        /\ \A d \in Clients \ {c} : pc'[d] = pc[d] /\ job'[d] = job[d]
    BY <1>1, BeginMoves DEF ResetRead
  <2> QED
    BY <1>1, <2>1 DEF ResetRead, table, history
<1>2. ASSUME NEW x \in ResetCodes, NEW u \in Users, ResetLook(c, u, x) PROVE RolesKept(c)
  <2>1. /\ pc'[c] = "reset.insert"
        /\ \A d \in Clients \ {c} : pc'[d] = pc[d] /\ job'[d] = job[d]
    BY <1>2, BeginMoves DEF ResetLook
  <2> QED
    BY <1>2, <2>1 DEF ResetLook, table, history
<1>3. CASE ResetInsert(c)
  BY <1>3, ReplyMoves DEF ResetInsert, history
<1>4. ASSUME NEW p \in Passwords, ResetWrite(c, p) PROVE RolesKept(c)
  <2>1. DOMAIN users' = DOMAIN users /\ \A v \in DOMAIN users : users'[v].admin = users[v].admin
    BY <1>4 DEF ResetWrite, TablesOK, Rows, Exists
  <2> QED
    BY <1>4, <2>1, ReplyMoves DEF ResetWrite
<1> QED
  BY <1>1, <1>2, <1>3, <1>4 DEF Resetting

LEMMA SignInKeepsRoles == ASSUME TInv, NEW c \in Clients, SignIn(c) PROVE RolesKept(c)
<1> USE DEF RolesKept, RoleSteps, table, local, history
<1> LocalOK
  BY DEF TInv
<1>1. ASSUME NEW u \in Users, NEW p \in Passwords, Login(c, u, p) PROVE RolesKept(c)
  BY <1>1 DEF Login
<1>2. ASSUME NEW w \in Words, VerifyRead(c, w) PROVE RolesKept(c)
  <2>1. pending[c] \in Users /\ users[pending[c]].admin \in BOOLEAN
    BY <1>2 DEF VerifyRead, Exists, TInv, TablesOK, Rows
  <2>2. /\ pc'[c] = "verify.check"
        /\ \A d \in Clients \ {c} : pc'[d] = pc[d] /\ job'[d] = job[d]
    BY <1>2, <2>1, BeginMoves DEF VerifyRead
  <2> QED
    BY <1>2, <2>2 DEF VerifyRead
<1>3. CASE VerifyCheck(c)
  BY <1>3, ReplyMoves, StepMoves DEF VerifyCheck, FinishLogin
<1>4. CASE VerifyRecovery(c)
  BY <1>4, ReplyMoves DEF VerifyRecovery, FinishLogin
<1>5. CASE Expire(c)
  BY <1>5 DEF Expire
<1> QED
  BY <1>1, <1>2, <1>3, <1>4, <1>5 DEF SignIn

LEMMA TwoFactorKeepsRoles == ASSUME TInv, NEW c \in Clients, TwoFactor(c) PROVE RolesKept(c)
<1> USE DEF RolesKept, RoleSteps
<1> LocalOK /\ TablesOK
  BY DEF TInv
<1>1. CASE SetupRead(c)
  <2>1. Begin(c, "setup.write", session[c].user, FALSE, None)
    BY <1>1 DEF SetupRead
  <2>2. /\ pc'[c] = "setup.write"
        /\ \A d \in Clients \ {c} : pc'[d] = pc[d] /\ job'[d] = job[d]
    BY <2>1, BeginMoves
  <2> QED
    BY <1>1, <2>2 DEF SetupRead, table
<1>2. ASSUME NEW s \in Secrets, SetupWrite(c, s) PROVE RolesKept(c)
  <2>1. DOMAIN users' = DOMAIN users /\ \A v \in DOMAIN users : users'[v].admin = users[v].admin
    <3>1. CASE Exists(job[c].user)
      <4> DEFINE row == [users[job[c].user] EXCEPT !.secret = s, !.enabled = FALSE]
      <4>1. row.admin = users[job[c].user].admin
        BY <3>1, ExistingRow DEF Rows
      <4>2. users' = [users EXCEPT ![job[c].user] = row]
        BY <1>2, <3>1 DEF SetupWrite, Put
      <4> HIDE DEF row
      <4> QED
        BY <4>1, <4>2 DEF TablesOK
    <3>2. CASE ~Exists(job[c].user)
      BY <1>2, <3>2 DEF SetupWrite
    <3> QED
      BY <3>1, <3>2
  <2> QED
    BY <1>2, <2>1, ReplyMoves DEF SetupWrite, history
<1>3. ASSUME NEW w \in Words, EnableCheck(c, w) PROVE RolesKept(c)
  BY <1>3, BeginMoves DEF EnableCheck, table
<1>4. CASE EnableWrite(c)
  <2>1. DOMAIN users' = DOMAIN users /\ \A v \in DOMAIN users : users'[v].admin = users[v].admin
    BY <1>4 DEF EnableWrite, TablesOK, Rows, Exists
  <2> QED
    BY <1>4, <2>1, StepMoves DEF EnableWrite, history
<1>5. CASE EnableCodes(c)
  BY <1>5, ReplyMoves DEF EnableCodes
<1>6. ASSUME NEW p \in Passwords, NEW w \in Words, DisableRead(c, p, w) PROVE RolesKept(c)
  BY <1>6, BeginMoves DEF DisableRead, table
<1>7. CASE DisableCheck(c)
  BY <1>7, StepMoves DEF DisableCheck, table, history
<1>8. CASE DisableRecovery(c)
  BY <1>8, ReplyMoves, StepMoves DEF DisableRecovery
<1>9. CASE DisableWrite(c)
  <2>1. DOMAIN users' = DOMAIN users /\ \A v \in DOMAIN users : users'[v].admin = users[v].admin
    BY <1>9 DEF DisableWrite, TablesOK, Rows, Exists
  <2> QED
    BY <1>9, <2>1, ReplyMoves DEF DisableWrite, history
<1> QED
  BY <1>1, <1>2, <1>3, <1>4, <1>5, <1>6, <1>7, <1>8, <1>9 DEF TwoFactor

\* No row, no account.
LEMMA EmptyTable == ASSUME TablesOK, DOMAIN users = {} PROVE users = <<>>
<1>1. users \in [{} -> Rows]
  BY DEF TablesOK
<1>2. <<>> \in [{} -> Rows]
  OBVIOUS
<1> QED
  BY <1>1, <1>2

LEMMA RolesInv ==
    ASSUME TInv, RoleInv, NEW c \in Clients, Roles(c)
    PROVE  RoleInv'
<1> LocalOK /\ TablesOK /\ raced \in BOOLEAN
  BY DEF TInv, HistoryOK
<1> USE DEF RoleSteps
<1>1. ASSUME NEW u \in Users, RegisterLook(c, u) PROVE RoleInv'
  <2>1. PICK w \in {"first", "late"} :
          Begin(c, "register.count", u, FALSE, w) /\ (w = "late" => users # <<>>)
    BY <1>1 DEF RegisterLook
  <2>2. /\ pc'[c] = "register.count" /\ job'[c].word = w
        /\ \A d \in Clients \ {c} : pc'[d] = pc[d] /\ job'[d] = job[d]
    BY <2>1, BeginMoves
  <2>3. UNCHANGED <<users, raced>>
    BY <1>1 DEF RegisterLook, table, history
  <2>4. Admins' = Admins
    BY <2>3 DEF Admins
  <2>5. w = "late" => DOMAIN users # {}
    BY <2>1, EmptyTable
  <2>6. Alone'
    BY <2>2, <2>3 DEF RoleInv, Alone
  <2>7. ~raced => StillSo'
    BY <2>2, <2>3, <2>4 DEF RoleInv, StillSo, Exists
  <2>8. ~raced => Founded'
    BY <2>2, <2>3, <2>4, <2>5 DEF RoleInv, Founded
  <2> QED
    BY <2>3, <2>6, <2>7, <2>8 DEF RoleInv
<1>2. ASSUME NEW u \in Users, Promote(c, u) PROVE RoleInv'
  <2>1. UNCHANGED <<pc, job>> /\ (raced => raced')
    BY <1>2 DEF Promote, Overlap, local
  <2>2. ~raced' => ~raced /\ \A d \in Clients \ {c} : pc[d] \notin RoleSteps
    BY <1>2 DEF Promote, Overlap
  <2>3. pc[c] = "idle"
    BY <1>2 DEF Promote
  <2>4. DOMAIN users' = DOMAIN users /\ u \in Admins'
    BY <1>2 DEF Promote, Put, Exists, Admins, TablesOK, Rows
  <2>5. Alone'
    BY <2>1 DEF RoleInv, Alone
  <2>6. ~raced' => StillSo'
    BY <2>1, <2>2, <2>3 DEF StillSo
  <2>7. ~raced' => Founded'
    BY <2>1, <2>2, <2>4 DEF RoleInv, Founded
  <2> QED
    BY <2>5, <2>6, <2>7 DEF RoleInv
<1>3. ASSUME NEW u \in Users, NEW op \in {"delete", "demote"}, LookAtRole(c, u, op)
      PROVE  RoleInv'
  <2>1. PICK step \in RoleSteps :
          /\ Begin(c, step, u, users[u].admin, op)
          /\ step = IF users[u].admin THEN "role.count" ELSE "role.write"
    BY <1>3 DEF LookAtRole
  <2>2. /\ pc'[c] = step /\ job'[c].user = u /\ job'[c].flag = users[u].admin
        /\ \A d \in Clients \ {c} : pc'[d] = pc[d] /\ job'[d] = job[d]
    BY <2>1 DEF Begin, LocalOK
  <2>3. users' = users /\ Exists(u) /\ users[u].admin \in BOOLEAN
    BY <1>3 DEF LookAtRole, table, TablesOK, Exists, Rows
  <2>4. Admins' = Admins
    BY <2>3 DEF Admins
  <2>5. ~raced' => ~raced /\ \A d \in Clients \ {c} : pc[d] \notin RoleSteps
    BY <1>3 DEF LookAtRole, Overlap
  <2>6. Alone'
    BY <2>1, <2>2, <2>3, <2>5 DEF RoleInv, Alone
  <2>7. ~raced' => StillSo'
    BY <2>1, <2>2, <2>3, <2>4, <2>5 DEF StillSo, Exists
  <2>8. ~raced' => Founded'
    BY <2>2, <2>3, <2>4, <2>5 DEF RoleInv, Founded
  <2> QED
    BY <2>6, <2>7, <2>8 DEF RoleInv
<1>4. CASE RegisterCount(c)
  <2>1. PICK f \in BOOLEAN, w \in {job[c].word, "blind"} :
          /\ Begin(c, "register.insert", job[c].user, f, w)
          /\ ~f => users # <<>>
          /\ w = "blind" \/ (f <=> users = <<>>)
    BY <1>4, CountedAs
  <2>2. /\ pc'[c] = "register.insert" /\ job'[c].word = w /\ job'[c].flag = f
        /\ \A d \in Clients \ {c} : pc'[d] = pc[d] /\ job'[d] = job[d]
    BY <2>1 DEF Begin, LocalOK
  <2>3. UNCHANGED <<users, raced>> /\ pc[c] = "register.count"
    BY <1>4 DEF RegisterCount, table, history
  <2>4. Admins' = Admins
    BY <2>3 DEF Admins
  <2>5. ~f => DOMAIN users # {}
    BY <2>1, EmptyTable
  <2>6. Admins # {} => users # <<>>
    BY DEF Admins
  <2>7. Alone'
    BY <2>2, <2>3 DEF RoleInv, Alone
  <2>8. ~raced => StillSo'
    BY <2>2, <2>3, <2>4 DEF RoleInv, StillSo, Exists
  <2>9. ~raced => Founded'
    BY <2>1, <2>2, <2>3, <2>4, <2>5, <2>6 DEF RoleInv, Founded
  <2> QED
    BY <2>3, <2>7, <2>8, <2>9 DEF RoleInv
<1>5. CASE RegisterInsert(c)
  <2>1. /\ pc[c] = "register.insert" /\ pc'[c] = "idle" /\ raced' = raced
        /\ \A d \in Clients \ {c} : pc'[d] = pc[d] /\ job'[d] = job[d]
    BY <1>5, ReplyMoves DEF RegisterInsert, history
  <2>2. CASE users' = users
    BY <2>1, <2>2, RolesKeptInv DEF RolesKept
  <2>3. ASSUME NEW p \in Passwords, ~Exists(job[c].user),
               users' = [v \in DOMAIN users \cup {job[c].user} |->
                           IF v = job[c].user
                             THEN [admin |-> job[c].flag, hash |-> p,
                                   secret |-> None, enabled |-> FALSE]
                             ELSE users[v]]
        PROVE  RoleInv'
    <3>1. /\ \A v \in DOMAIN users : v \in DOMAIN users' /\ users'[v] = users[v]
          /\ job[c].user \in DOMAIN users' /\ users'[job[c].user].admin = job[c].flag
      BY <2>3 DEF Exists
    <3>2. Admins \subseteq Admins' /\ (job[c].flag => job[c].user \in Admins')
      BY <3>1 DEF Admins
    <3>3. Alone'
      BY <2>1 DEF RoleInv, Alone
    <3>4. ~raced => StillSo'
      BY <2>1, <3>1, <3>2 DEF RoleInv, StillSo, Exists
    <3>5. ~raced => Founded'
      BY <2>1, <3>2 DEF RoleInv, Founded
    <3> QED
      BY <2>1, <3>3, <3>4, <3>5 DEF RoleInv
  <2> QED
    BY <1>5, <2>2, <2>3 DEF RegisterInsert
<1>6. CASE CountAdmins(c)
  <2>1. pc[c] = "role.count" /\ UNCHANGED <<users, raced>>
    BY <1>6 DEF CountAdmins, table, history
  <2>2. CASE Reply(c)
    BY <2>1, <2>2, ReplyMoves, RolesKeptInv DEF RolesKept
  <2>3. CASE ~(Cardinality(Admins) <= 1) /\ Step(c, "role.write")
    <3>1. /\ pc'[c] = "role.write" /\ job' = job
          /\ \A d \in Clients \ {c} : pc'[d] = pc[d]
      BY <2>3, StepMoves DEF Step
    <3>2. \E a \in Admins : a # job[c].user
      <4> SUFFICES ASSUME Admins \subseteq {job[c].user} PROVE FALSE
        OBVIOUS
      <4>1. IsFiniteSet({job[c].user}) /\ Cardinality({job[c].user}) = 1
        BY FS_Singleton
      <4>2. Cardinality(Admins) <= 1
        BY <4>1, FS_Subset
      <4> QED
        BY <2>3, <4>2
    <3>3. Admins' = Admins
      BY <2>1 DEF Admins
    <3>4. Alone'
      BY <2>1, <3>1 DEF RoleInv, Alone
    <3>5. ~raced => StillSo'
      BY <2>1, <3>1, <3>2, <3>3 DEF RoleInv, StillSo, Exists
    <3>6. ~raced => Founded'
      BY <2>1, <3>1, <3>3 DEF RoleInv, Founded
    <3> QED
      BY <2>1, <3>4, <3>5, <3>6 DEF RoleInv
  <2> QED
    BY <1>6, <2>2, <2>3 DEF CountAdmins
<1>7. CASE WriteRole(c)
  <2>1. /\ pc[c] = "role.write" /\ pc'[c] = "idle" /\ raced' = raced
        /\ \A d \in Clients \ {c} : pc'[d] = pc[d] /\ job'[d] = job[d]
    BY <1>7, ReplyMoves DEF WriteRole, history
  <2>2. Alone'
    BY <2>1 DEF RoleInv, Alone
  <2>3. ~raced => \A d \in Clients : pc'[d] \notin RoleSteps
    BY <2>1 DEF RoleInv, Alone
  <2>4. ~raced => StillSo'
    BY <2>3 DEF StillSo
  <2>5. ASSUME ~raced, Admins # {} PROVE Admins' # {}
    <3>1. Exists(job[c].user) /\ (job[c].flag => \E a \in Admins : a # job[c].user)
      BY <2>1, <2>5 DEF RoleInv, StillSo
    <3>2. users[job[c].user].admin = job[c].flag
      BY <2>1, <2>5 DEF RoleInv, StillSo
    <3>3. PICK a \in Admins : a # job[c].user
      BY <2>5, <3>1, <3>2 DEF Admins, Exists
    <3>4. a \in DOMAIN users' /\ users'[a] = users[a]
      BY <1>7, <3>3 DEF WriteRole, DeleteUser, Demote, Put, Admins, TablesOK
    <3> QED
      BY <3>3, <3>4 DEF Admins
  <2>6. ~raced => Founded'
    <3> SUFFICES ASSUME ~raced PROVE Founded'
      OBVIOUS
    <3>1. Exists(job[c].user) /\ Admins # {}
      BY <2>1 DEF RoleInv, StillSo, Founded, Exists
    <3> QED
      BY <2>1, <2>5, <3>1 DEF RoleInv, Founded
  <2> QED
    BY <2>1, <2>2, <2>4, <2>6 DEF RoleInv
<1> QED
  BY <1>1, <1>2, <1>3, <1>4, <1>5, <1>6, <1>7 DEF Roles

LEMMA RoleInvAlways == Spec => []RoleInv
<1>1. Init => RoleInv
  BY DEF Init, RoleInv, Alone, StillSo, Founded, RoleSteps
<1>2. TInv /\ RoleInv /\ [Next]_vars => RoleInv'
  <2> SUFFICES ASSUME TInv, RoleInv, [Next]_vars PROVE RoleInv'
    OBVIOUS
  <2>1. CASE UNCHANGED vars
    BY <2>1 DEF RoleInv, Alone, StillSo, Founded, Exists, Admins, vars, table, local, history
  <2>2. ASSUME NEW c \in Clients, Roles(c) PROVE RoleInv'
    BY <2>2, RolesInv
  <2>3. ASSUME NEW c \in Clients, SignIn(c) \/ Resetting(c) \/ TwoFactor(c) PROVE RoleInv'
    BY <2>3, SignInKeepsRoles, ResettingKeepsRoles, TwoFactorKeepsRoles, RolesKeptInv
  <2>4. ASSUME NEW c \in Clients, Fail(c) PROVE RoleInv'
    <3>1. RolesKept(c)
      BY <2>4, FailMoves DEF TInv, RolesKept, RoleSteps, table, history
    <3> QED
      BY <3>1, RolesKeptInv
  <2> QED
    BY <2>1, <2>2, <2>3, <2>4 DEF Next
<1> QED
  BY <1>1, <1>2, TypeCorrect, PTL DEF Spec

\* AnAdminRemains: an installation with accounts has an administrator, while
\* roles are changed one at a time.
THEOREM SomebodyIsInCharge == Spec => []AnAdminRemains
<1>1. RoleInv => AnAdminRemains
  BY DEF RoleInv, Founded, AnAdminRemains
<1> QED
  BY <1>1, RoleInvAlways, PTL

\* LatecomersAreUsers: whoever registers once there is an account is made an
\* administrator only if the count of the accounts failed.
THEOREM LaterRegistrationsGetNoRole == Spec => []LatecomersAreUsers
<1>1. RoleInv => LatecomersAreUsers
  BY DEF RoleInv, Founded, LatecomersAreUsers
<1> QED
  BY <1>1, RoleInvAlways, PTL

-----------------------------------------------------------------------------
(* The second factor. Unless two requests change the factor of an account   *)
(* at once, the secret a code was checked against is still in the row when  *)
(* EnableTOTP turns the factor on and issues the recovery codes.            *)

Paired ==
    \A c, d \in Clients :
        (c # d /\ pc[c] \in FactorSteps /\ pc[d] \in FactorSteps
             /\ job[c].user = job[d].user)
          => job[c].user \in mixed

Known(u) == u \in DOMAIN users \/ u \in gone

\* Only accounts that were registered have a request or a code.
Registered ==
    /\ \A c \in Clients : pc[c] \in FactorSteps => Known(job[c].user)
    /\ \A u \in Users : ~Known(u) => \A k \in Codes : recovery[u][k] = "absent"

Proved(u) == users[u].secret # None /\ users[u].secret = confirmed[u]

Sound(u) ==
    /\ users[u].enabled => Proved(u)
    /\ users[u].secret = None => \A k \in Codes : recovery[u][k] = "absent"
    /\ \A c \in Clients :
         pc[c] \in {"enable.write", "enable.codes"} /\ job[c].user = u => Proved(u)

FactorInv == Paired /\ Registered /\ \A u \in DOMAIN users \ mixed : Sound(u)

\* A step of c that is of no concern to the second factor.
FactorKept(c) ==
    /\ UNCHANGED <<mixed, confirmed, recovery>>
    /\ DOMAIN users' \subseteq DOMAIN users
    /\ \A u : Known(u) => Known(u)'
    /\ \A v \in DOMAIN users' :
         users'[v].secret = users[v].secret /\ users'[v].enabled = users[v].enabled
    /\ pc'[c] \in FactorSteps => pc'[c] = pc[c] /\ job'[c] = job[c]
    /\ \A d \in Clients \ {c} : pc'[d] = pc[d] /\ job'[d] = job[d]

LEMMA FactorKeptInv ==
    ASSUME FactorInv, NEW c \in Clients, FactorKept(c)
    PROVE  FactorInv'
<1>1. Paired'
  BY DEF FactorInv, Paired, FactorKept
<1>2. Registered'
  BY DEF FactorInv, Registered, FactorKept
<1>3. ASSUME NEW u \in DOMAIN users' \ mixed' PROVE Sound(u)'
  BY <1>3 DEF FactorInv, Sound, Proved, FactorKept, FactorSteps
<1> QED
  BY <1>1, <1>2, <1>3 DEF FactorInv

LEMMA ResettingKeepsFactor == ASSUME TInv, NEW c \in Clients, Resetting(c) PROVE FactorKept(c)
<1> USE DEF FactorKept, FactorSteps, Known
<1> LocalOK /\ TablesOK
  BY DEF TInv
<1>1. ASSUME NEW x \in ResetCodes, ResetRead(c, x) PROVE FactorKept(c)
  <2>1. /\ pc'[c] = "reset.write"
        /\ \A d \in Clients \ {c} : pc'[d] = pc[d] /\ job'[d] = job[d]
    BY <1>1, BeginMoves DEF ResetRead
  <2> QED
    BY <1>1, <2>1 DEF ResetRead, table, history
<1>2. ASSUME NEW x \in ResetCodes, NEW u \in Users, ResetLook(c, u, x) PROVE FactorKept(c)
  <2>1. /\ pc'[c] = "reset.insert"
        /\ \A d \in Clients \ {c} : pc'[d] = pc[d] /\ job'[d] = job[d]
    BY <1>2, BeginMoves DEF ResetLook
  <2> QED
    BY <1>2, <2>1 DEF ResetLook, table, history
<1>3. CASE ResetInsert(c)
  BY <1>3, ReplyMoves DEF ResetInsert, history
<1>4. ASSUME NEW p \in Passwords, ResetWrite(c, p) PROVE FactorKept(c)
  <2>1. /\ DOMAIN users' = DOMAIN users
        /\ \A v \in DOMAIN users : /\ users'[v].secret = users[v].secret
                                   /\ users'[v].enabled = users[v].enabled
    BY <1>4 DEF ResetWrite, TablesOK, Rows, Exists
  <2> QED
    BY <1>4, <2>1, ReplyMoves DEF ResetWrite
<1> QED
  BY <1>1, <1>2, <1>3, <1>4 DEF Resetting

LEMMA SignInKeepsFactor ==
    ASSUME TInv, NEW c \in Clients, SignIn(c), ~VerifyRecovery(c)
    PROVE  FactorKept(c)
<1> USE DEF FactorKept, FactorSteps, Known, table, local, history
<1> LocalOK
  BY DEF TInv
<1>1. ASSUME NEW u \in Users, NEW p \in Passwords, Login(c, u, p) PROVE FactorKept(c)
  BY <1>1 DEF Login
<1>2. ASSUME NEW w \in Words, VerifyRead(c, w) PROVE FactorKept(c)
  <2>1. pending[c] \in Users /\ users[pending[c]].admin \in BOOLEAN
    BY <1>2 DEF VerifyRead, Exists, TInv, TablesOK, Rows
  <2>2. /\ pc'[c] = "verify.check"
        /\ \A d \in Clients \ {c} : pc'[d] = pc[d] /\ job'[d] = job[d]
    BY <1>2, <2>1, BeginMoves DEF VerifyRead
  <2> QED
    BY <1>2, <2>2 DEF VerifyRead
<1>3. CASE VerifyCheck(c)
  BY <1>3, ReplyMoves, StepMoves DEF VerifyCheck, FinishLogin
<1>5. CASE Expire(c)
  BY <1>5 DEF Expire
<1> QED
  BY <1>1, <1>2, <1>3, <1>5 DEF SignIn

LEMMA RolesKeepFactor ==
    ASSUME TInv, NEW c \in Clients, Roles(c), ~RegisterInsert(c)
    PROVE  FactorKept(c)
<1> USE DEF FactorKept, FactorSteps, Known
<1> LocalOK /\ TablesOK
  BY DEF TInv
<1>1. ASSUME NEW u \in Users, RegisterLook(c, u) PROVE FactorKept(c)
  <2>1. PICK w \in {"first", "late"} : Begin(c, "register.count", u, FALSE, w)
    BY <1>1 DEF RegisterLook
  <2>2. /\ pc'[c] = "register.count"
        /\ \A d \in Clients \ {c} : pc'[d] = pc[d] /\ job'[d] = job[d]
    BY <2>1, BeginMoves
  <2> QED
    BY <1>1, <2>2 DEF RegisterLook, table, history
<1>2. ASSUME NEW u \in Users, Promote(c, u) PROVE FactorKept(c)
  <2> DEFINE row == [users[u] EXCEPT !.admin = TRUE]
  <2>1. row.secret = users[u].secret /\ row.enabled = users[u].enabled
    BY <1>2, ExistingRow DEF Promote, Rows
  <2>2. users' = [users EXCEPT ![u] = row]
    BY <1>2 DEF Promote, Put
  <2> HIDE DEF row
  <2> QED
    BY <1>2, <2>1, <2>2 DEF Promote, Exists, TablesOK, local
<1>3. ASSUME NEW u \in Users, NEW op \in {"delete", "demote"}, LookAtRole(c, u, op)
      PROVE  FactorKept(c)
  <2>1. PICK step \in RoleSteps : Begin(c, step, u, users[u].admin, op)
    BY <1>3 DEF LookAtRole, RoleSteps
  <2>2. pc'[c] = step /\ \A d \in Clients \ {c} : pc'[d] = pc[d] /\ job'[d] = job[d]
    BY <2>1, BeginMoves
  <2> QED
    BY <1>3, <2>2 DEF LookAtRole, table, RoleSteps
<1>4. CASE RegisterCount(c)
  <2>1. PICK f \in BOOLEAN, w \in {job[c].word, "blind"} :
          Begin(c, "register.insert", job[c].user, f, w)
    BY <1>4, CountedAs
  <2>2. /\ pc'[c] = "register.insert"
        /\ \A d \in Clients \ {c} : pc'[d] = pc[d] /\ job'[d] = job[d]
    BY <2>1, BeginMoves
  <2> QED
    BY <1>4, <2>2 DEF RegisterCount, table, history
<1>6. CASE CountAdmins(c)
  BY <1>6, ReplyMoves, StepMoves DEF CountAdmins, table, history
<1>7. CASE WriteRole(c)
  <2> DEFINE u == job[c].user
  <2>1. CASE DeleteUser(c)
    BY <1>7, <2>1, ReplyMoves DEF WriteRole, DeleteUser, TablesOK, history
  <2>2. CASE Demote(c) /\ Exists(u)
    <3> DEFINE row == [users[u] EXCEPT !.admin = FALSE]
    <3>1. row.secret = users[u].secret /\ row.enabled = users[u].enabled
      BY <2>2, ExistingRow DEF Rows
    <3>2. users' = [users EXCEPT ![u] = row] /\ gone' = gone
      BY <2>2 DEF Demote, Put
    <3> HIDE DEF row
    <3> QED
      BY <1>7, <2>2, <3>1, <3>2, ReplyMoves DEF WriteRole, Exists, TablesOK, history
  <2>3. CASE Demote(c) /\ ~Exists(u)
    BY <1>7, <2>3, ReplyMoves DEF WriteRole, Demote, history
  <2> QED
    BY <1>7, <2>1, <2>2, <2>3 DEF WriteRole
<1> QED
  BY <1>1, <1>2, <1>3, <1>4, <1>6, <1>7 DEF Roles

\* A new account has no factor, and nobody has a code for it yet.
LEMMA InsertKeepsFactor ==
    ASSUME TInv, FactorInv, NEW c \in Clients, RegisterInsert(c)
    PROVE  FactorInv'
<1> LocalOK /\ TablesOK
  BY DEF TInv
<1>1. /\ pc[c] = "register.insert" /\ pc'[c] = "idle"
      /\ \A d \in Clients \ {c} : pc'[d] = pc[d] /\ job'[d] = job[d]
      /\ UNCHANGED <<gone, recovery, mixed, confirmed>>
  BY ReplyMoves DEF RegisterInsert, history
<1>2. CASE users' = users
  <2>1. FactorKept(c)
    BY <1>1, <1>2 DEF FactorKept, FactorSteps, Known
  <2> QED
    BY <2>1, FactorKeptInv
<1>3. ASSUME NEW p \in Passwords, ~Exists(job[c].user), job[c].user \notin gone,
             users' = [v \in DOMAIN users \cup {job[c].user} |->
                         IF v = job[c].user
                           THEN [admin |-> job[c].flag, hash |-> p,
                                 secret |-> None, enabled |-> FALSE]
                           ELSE users[v]]
      PROVE  FactorInv'
  <2> DEFINE u == job[c].user
  <2>1. /\ DOMAIN users' = DOMAIN users \cup {u}
        /\ \A v \in DOMAIN users : users'[v] = users[v]
        /\ users'[u].secret = None /\ users'[u].enabled = FALSE
    BY <1>3 DEF Exists
  <2>2. u \in Users /\ ~Known(u)
    BY <1>1, <1>3 DEF LocalOK, Known, Exists
  <2>3. /\ \A k \in Codes : recovery[u][k] = "absent"
        /\ \A d \in Clients : pc[d] \in FactorSteps => job[d].user # u
    BY <2>2 DEF FactorInv, Registered
  <2>4. Paired'
    BY <1>1 DEF FactorInv, Paired, FactorSteps
  <2>5. Registered'
    BY <1>1, <2>1 DEF FactorInv, Registered, Known, FactorSteps
  <2>6. ASSUME NEW v \in DOMAIN users' \ mixed' PROVE Sound(v)'
    <3>1. CASE v = u
      BY <1>1, <2>1, <2>3, <3>1 DEF Sound, FactorSteps
    <3>2. CASE v \in DOMAIN users
      BY <1>1, <2>1, <2>6, <3>2 DEF FactorInv, Sound, Proved
    <3> QED
      BY <2>1, <3>1, <3>2
  <2> QED
    BY <2>4, <2>5, <2>6 DEF FactorInv
<1> QED
  BY <1>2, <1>3 DEF RegisterInsert

\* Marking an issued recovery code as used leaves the codes issued.
LEMMA ConsumeKeepsFactor ==
    ASSUME TInv, FactorInv, NEW c \in Clients, NEW u \in Users, NEW w,
           Redeemable(u, w), ConsumeRecovery(u, w),
           UNCHANGED <<users, gone, mixed, confirmed>>,
           pc'[c] \in {"idle", "disable.write"},
           pc'[c] = "disable.write" => pc[c] \in FactorSteps /\ job'[c] = job[c],
           \A d \in Clients \ {c} : pc'[d] = pc[d] /\ job'[d] = job[d]
    PROVE  FactorInv'
<1>1. w \in Codes /\ recovery[u][w] # "absent"
  BY DEF Redeemable
<1>2. \A v \in Users, k \in Codes : recovery'[v][k] = "absent" <=> recovery[v][k] = "absent"
  <2>1. recovery' = [recovery EXCEPT ![u][w] = "used"]
    BY DEF ConsumeRecovery
  <2> QED
    BY <1>1, <2>1 DEF TInv, TablesOK
<1>3. Paired'
  BY DEF FactorInv, Paired, FactorSteps
<1>4. Registered'
  BY <1>2 DEF FactorInv, Registered, Known, FactorSteps
<1>5. ASSUME NEW v \in DOMAIN users' \ mixed' PROVE Sound(v)'
  <2>1. v \in Users
    BY <1>5 DEF TInv, TablesOK
  <2> QED
    BY <1>2, <1>5, <2>1 DEF FactorInv, Sound, Proved
<1> QED
  BY <1>3, <1>4, <1>5 DEF FactorInv

LEMMA VerifyKeepsFactor ==
    ASSUME TInv, FactorInv, NEW c \in Clients, VerifyRecovery(c)
    PROVE  FactorInv'
<1> LocalOK
  BY DEF TInv
<1>1. /\ job[c].user \in Users
      /\ pc'[c] = "idle" /\ \A d \in Clients \ {c} : pc'[d] = pc[d] /\ job'[d] = job[d]
      /\ UNCHANGED <<users, gone, mixed, confirmed>>
  BY ReplyMoves DEF VerifyRecovery, FinishLogin, LocalOK
<1>2. CASE recovery' = recovery
  <2>1. FactorKept(c)
    BY <1>1, <1>2 DEF FactorKept, FactorSteps, Known
  <2> QED
    BY <2>1, FactorKeptInv
<1> QED
  BY <1>1, <1>2, ConsumeKeepsFactor DEF VerifyRecovery

\* A request about the factor of u begins: it is alone, or u is mixed.
LEMMA BeginFactor ==
    ASSUME TInv, FactorInv, NEW c \in Clients, NEW u \in DOMAIN users, NEW step \in FactorSteps,
           NEW w, Begin(c, step, u, FALSE, w), Mix(c, u), pc[c] = "idle",
           UNCHANGED <<users, gone, recovery>>,
           \A v \in Users \ {u} : confirmed'[v] = confirmed[v],
           \/ confirmed' = confirmed /\ step \notin {"enable.write", "enable.codes"}
           \/ users[u].secret # None /\ confirmed'[u] = users[u].secret
    PROVE  FactorInv'
<1> LocalOK
  BY DEF TInv
<1>1. /\ pc'[c] = step /\ job'[c].user = u
      /\ \A d \in Clients \ {c} : pc'[d] = pc[d] /\ job'[d] = job[d]
  BY DEF Begin, LocalOK
<1>2. /\ mixed \subseteq mixed'
      /\ u \notin mixed' => \A d \in Clients \ {c} : ~(pc[d] \in FactorSteps /\ job[d].user = u)
  BY DEF Mix, Others
<1>3. Paired'
  BY <1>1, <1>2 DEF FactorInv, Paired
<1>4. Registered'
  BY <1>1 DEF FactorInv, Registered, Known
<1>5. ASSUME NEW v \in DOMAIN users' \ mixed' PROVE Sound(v)'
  <2>0. v \in Users /\ v \in DOMAIN users \ mixed
    BY <1>2, <1>5 DEF TInv, TablesOK
  <2>1. CASE v # u
    BY <1>1, <2>0, <2>1 DEF FactorInv, Sound, Proved
  <2>2. CASE v = u
    BY <1>1, <1>2, <1>5, <2>0, <2>2 DEF FactorInv, Sound, Proved, FactorSteps
  <2> QED
    BY <2>1, <2>2
<1> QED
  BY <1>3, <1>4, <1>5 DEF FactorInv

\* A request about the factor of an account writes the account's row, or its
\* codes: nobody else is enabling the factor, unless the account is mixed.
LEMMA WriteFactor ==
    ASSUME TInv, FactorInv, NEW c \in Clients, pc[c] \in FactorSteps,
           UNCHANGED <<gone, mixed, confirmed>>, DOMAIN users' = DOMAIN users,
           \A v \in DOMAIN users \ {job[c].user} : users'[v] = users[v],
           \A v \in Users \ {job[c].user} : recovery'[v] = recovery[v],
           \/ pc'[c] = "idle"
           \/ pc'[c] \in FactorSteps /\ job'[c] = job[c],
           \A d \in Clients \ {c} : pc'[d] = pc[d] /\ job'[d] = job[d],
           job[c].user \in DOMAIN users \ mixed =>
              LET row == users'[job[c].user] IN
              /\ row.enabled => row.secret # None /\ row.secret = confirmed[job[c].user]
              /\ row.secret = None => \A k \in Codes : recovery'[job[c].user][k] = "absent"
              /\ pc'[c] \in {"enable.write", "enable.codes"}
                   => row.secret # None /\ row.secret = confirmed[job[c].user]
    PROVE  FactorInv'
<1> DEFINE u == job[c].user
<1>1. u \in Users /\ Known(u)
  BY DEF FactorInv, Registered, TInv, TablesOK, Known
<1>2. Paired'
  BY DEF FactorInv, Paired, FactorSteps
<1>3. Registered'
  BY <1>1 DEF FactorInv, Registered, Known, FactorSteps
<1>4. ASSUME NEW v \in DOMAIN users' \ mixed' PROVE Sound(v)'
  <2>0. v \in Users /\ v \in DOMAIN users \ mixed
    BY <1>4 DEF TInv, TablesOK
  <2>1. CASE v # u
    BY <2>0, <2>1 DEF FactorInv, Sound, Proved, FactorSteps
  <2>2. CASE v = u
    <3>1. \A d \in Clients \ {c} : ~(pc'[d] \in FactorSteps /\ job'[d].user = u)
      BY <2>0, <2>2 DEF FactorInv, Paired
    <3> QED
      BY <2>0, <2>2, <3>1 DEF Sound, Proved, FactorSteps
  <2> QED
    BY <2>1, <2>2
<1> QED
  BY <1>2, <1>3, <1>4 DEF FactorInv

LEMMA TwoFactorInv ==
    ASSUME TInv, FactorInv, NEW c \in Clients, TwoFactor(c)
    PROVE  FactorInv'
<1> LocalOK /\ TablesOK
  BY DEF TInv
<1> DEFINE u == job[c].user
           me == session[c].user
<1>1. CASE SetupRead(c)
  <2>1. /\ me \in DOMAIN users /\ pc[c] = "idle"
        /\ Begin(c, "setup.write", me, FALSE, None) /\ Mix(c, me)
        /\ UNCHANGED <<users, gone, recovery, confirmed>>
    BY <1>1 DEF SetupRead, Exists, table
  <2> HIDE DEF me
  <2> QED
    BY <2>1, BeginFactor DEF FactorSteps
<1>2. ASSUME NEW s \in Secrets, SetupWrite(c, s) PROVE FactorInv'
  <2>1. /\ pc[c] = "setup.write" /\ pc'[c] = "idle"
        /\ \A d \in Clients \ {c} : pc'[d] = pc[d] /\ job'[d] = job[d]
        /\ UNCHANGED <<gone, recovery, mixed, confirmed>>
    BY <1>2, ReplyMoves DEF SetupWrite, history
  <2>2. CASE Exists(u)
    <3> DEFINE row == [users[u] EXCEPT !.secret = s, !.enabled = FALSE]
    <3>1. row.secret = s /\ row.enabled = FALSE
      BY <2>2, ExistingRow DEF Rows
    <3>2. users' = [users EXCEPT ![u] = row] /\ s # None
      BY <1>2, <2>2, AccountsAssumption DEF SetupWrite, Put
    <3> HIDE DEF row
    <3>3. /\ DOMAIN users' = DOMAIN users /\ users'[u] = row
          /\ \A v \in DOMAIN users \ {u} : users'[v] = users[v]
      BY <2>2, <3>2 DEF Exists
    <3> QED
      BY <2>1, <3>1, <3>2, <3>3, WriteFactor DEF FactorSteps
  <2>3. CASE ~Exists(u)
    BY <1>2, <2>1, <2>3, WriteFactor DEF SetupWrite, FactorSteps, Exists
  <2> QED
    BY <2>2, <2>3
<1>3. ASSUME NEW w \in Words, EnableCheck(c, w) PROVE FactorInv'
  <2>1. /\ me \in DOMAIN users /\ pc[c] = "idle"
        /\ users[me].secret # None /\ users[me].secret = w
        /\ Begin(c, "enable.write", me, FALSE, w) /\ Mix(c, me)
        /\ UNCHANGED <<users, gone, recovery>>
        /\ confirmed' = [confirmed EXCEPT ![me] = w]
    BY <1>3 DEF EnableCheck, TOTPFits, Exists, table
  <2>2. /\ confirmed'[me] = w
        /\ \A v \in Users \ {me} : confirmed'[v] = confirmed[v]
    BY <2>1 DEF TInv, TablesOK, HistoryOK
  <2> HIDE DEF me
  <2> QED
    BY <2>1, <2>2, BeginFactor DEF FactorSteps
<1>4. CASE EnableWrite(c)
  <2>1. /\ pc[c] = "enable.write" /\ pc'[c] = "enable.codes" /\ job' = job
        /\ \A d \in Clients \ {c} : pc'[d] = pc[d] /\ job'[d] = job[d]
        /\ UNCHANGED <<gone, recovery, mixed, confirmed>>
    BY <1>4, StepMoves DEF EnableWrite, Step, history
  <2>2. CASE Exists(u)
    <3>1. users' = [users EXCEPT ![u].enabled = TRUE]
      BY <1>4, <2>2 DEF EnableWrite
    <3>2. /\ DOMAIN users' = DOMAIN users
          /\ users'[u].secret = users[u].secret
          /\ \A v \in DOMAIN users \ {u} : users'[v] = users[v]
      BY <2>2, <3>1, ExistingRow DEF Exists, Rows, TablesOK
    <3>3. u \notin mixed => Proved(u)
      BY <2>1, <2>2 DEF FactorInv, Sound, Exists
    <3> QED
      BY <2>1, <2>2, <3>2, <3>3, WriteFactor DEF FactorSteps, Proved
  <2>3. CASE ~Exists(u)
    BY <1>4, <2>1, <2>3, WriteFactor DEF EnableWrite, FactorSteps, Exists
  <2> QED
    BY <2>2, <2>3
<1>5. CASE EnableCodes(c)
  <2>1. /\ pc[c] = "enable.codes" /\ pc'[c] = "idle"
        /\ \A d \in Clients \ {c} : pc'[d] = pc[d] /\ job'[d] = job[d]
        /\ UNCHANGED <<users, gone, mixed, confirmed>>
    BY <1>5, ReplyMoves DEF EnableCodes
  <2>2. \A v \in Users \ {u} : recovery'[v] = recovery[v]
    BY <1>5 DEF EnableCodes, TablesOK
  <2>3. u \in DOMAIN users \ mixed => Proved(u) /\ Sound(u)
    BY <2>1 DEF FactorInv, Sound
  <2> QED
    BY <2>1, <2>2, <2>3, WriteFactor DEF FactorSteps, Proved, Sound
<1>6. ASSUME NEW p \in Passwords, NEW w \in Words, DisableRead(c, p, w) PROVE FactorInv'
  <2>1. /\ me \in DOMAIN users /\ pc[c] = "idle"
        /\ Begin(c, "disable.check", me, FALSE, w) /\ Mix(c, me)
        /\ UNCHANGED <<users, gone, recovery, confirmed>>
    BY <1>6 DEF DisableRead, Exists, table
  <2> HIDE DEF me
  <2> QED
    BY <2>1, BeginFactor DEF FactorSteps
<1>7. CASE DisableCheck(c)
  <2>1. /\ pc[c] = "disable.check" /\ pc'[c] \in {"disable.write", "disable.recovery"}
        /\ job' = job /\ \A d \in Clients \ {c} : pc'[d] = pc[d]
        /\ UNCHANGED <<users, gone, recovery, mixed, confirmed>>
    BY <1>7, StepMoves DEF DisableCheck, Step, table, history
  <2>2. u \in DOMAIN users \ mixed => Sound(u)
    BY DEF FactorInv
  <2> QED
    BY <2>1, <2>2, WriteFactor DEF FactorSteps, Proved, Sound
<1>8. CASE DisableRecovery(c)
  <2>1. /\ u \in Users /\ pc[c] = "disable.recovery"
        /\ UNCHANGED <<users, gone, mixed, confirmed>>
    BY <1>8 DEF DisableRecovery, LocalOK
  <2>2. CASE Redeemable(u, job[c].word) /\ ConsumeRecovery(u, job[c].word)
                /\ Step(c, "disable.write")
    <3>1. /\ pc'[c] = "disable.write" /\ job' = job
          /\ \A d \in Clients \ {c} : pc'[d] = pc[d] /\ job'[d] = job[d]
      BY <2>2, StepMoves DEF Step
    <3> QED
      BY <2>1, <2>2, <3>1, ConsumeKeepsFactor DEF FactorSteps
  <2>3. CASE Reply(c) /\ recovery' = recovery
    <3>1. FactorKept(c)
      BY <2>1, <2>3, ReplyMoves DEF FactorKept, FactorSteps, Known
    <3> QED
      BY <3>1, FactorKeptInv
  <2> QED
    BY <1>8, <2>2, <2>3 DEF DisableRecovery
<1>9. CASE DisableWrite(c)
  <2>1. /\ pc[c] = "disable.write" /\ pc'[c] = "idle"
        /\ \A d \in Clients \ {c} : pc'[d] = pc[d] /\ job'[d] = job[d]
        /\ recovery' = [recovery EXCEPT ![u] = [k \in Codes |-> "absent"]]
        /\ UNCHANGED <<gone, mixed, confirmed>>
    BY <1>9, ReplyMoves DEF DisableWrite, history
  <2>2. /\ \A v \in Users \ {u} : recovery'[v] = recovery[v]
        /\ u \in Users => \A k \in Codes : recovery'[u][k] = "absent"
    BY <2>1 DEF TablesOK
  <2>3. CASE Exists(u)
    <3>1. users' = [users EXCEPT ![u].enabled = FALSE, ![u].secret = None]
      BY <1>9, <2>3 DEF DisableWrite
    <3>2. /\ DOMAIN users' = DOMAIN users
          /\ users'[u].enabled = FALSE /\ u \in Users
          /\ \A v \in DOMAIN users \ {u} : users'[v] = users[v]
      BY <2>3, <3>1, ExistingRow DEF Exists, Rows, TablesOK
    <3> QED
      BY <2>1, <2>2, <3>2, WriteFactor DEF FactorSteps
  <2>4. CASE ~Exists(u)
    BY <1>9, <2>1, <2>2, <2>4, WriteFactor DEF DisableWrite, FactorSteps, Exists
  <2> QED
    BY <2>3, <2>4
<1> QED
  BY <1>1, <1>2, <1>3, <1>4, <1>5, <1>6, <1>7, <1>8, <1>9 DEF TwoFactor

LEMMA FactorInvAlways == Spec => []FactorInv
<1>1. Init => FactorInv
  <2> SUFFICES ASSUME Init PROVE FactorInv
    OBVIOUS
  <2>1. DOMAIN users = {} /\ \A c \in Clients : pc[c] \notin FactorSteps
    BY DEF Init, FactorSteps
  <2>2. ASSUME NEW u \in Users, NEW k \in Codes PROVE recovery[u][k] = "absent"
    BY DEF Init
  <2>3. Registered /\ Paired
    BY <2>1, <2>2 DEF Registered, Paired
  <2> QED
    BY <2>1, <2>3 DEF FactorInv
<1>2. TInv /\ FactorInv /\ [Next]_vars => FactorInv'
  <2> SUFFICES ASSUME TInv, FactorInv, [Next]_vars PROVE FactorInv'
    OBVIOUS
  <2>1. CASE UNCHANGED vars
    BY <2>1 DEF FactorInv, Paired, Registered, Known, Sound, Proved, vars, table, local, history
  <2>2. ASSUME NEW c \in Clients, Roles(c) PROVE FactorInv'
    BY <2>2, RolesKeepFactor, InsertKeepsFactor, FactorKeptInv
  <2>3. ASSUME NEW c \in Clients, SignIn(c) PROVE FactorInv'
    BY <2>3, SignInKeepsFactor, VerifyKeepsFactor, FactorKeptInv
  <2>4. ASSUME NEW c \in Clients, Resetting(c) PROVE FactorInv'
    BY <2>4, ResettingKeepsFactor, FactorKeptInv
  <2>5. ASSUME NEW c \in Clients, TwoFactor(c) PROVE FactorInv'
    BY <2>5, TwoFactorInv
  <2>6. ASSUME NEW c \in Clients, Fail(c) PROVE FactorInv'
    <3>1. FactorKept(c)
      BY <2>6, FailMoves DEF TInv, FactorKept, FactorSteps, Known, table, history
    <3> QED
      BY <3>1, FactorKeptInv
  <2> QED
    BY <2>1, <2>2, <2>3, <2>4, <2>5, <2>6 DEF Next
<1> QED
  BY <1>1, <1>2, TypeCorrect, PTL DEF Spec

\* FactorIsUsable: the factor that is on is one its owner can present, and the
\* recovery codes are those of an account with a secret.
THEOREM FactorsAreUsable == Spec => []FactorIsUsable
<1>1. TInv /\ FactorInv => FactorIsUsable
  BY TInvTypes DEF FactorInv, Sound, Proved, FactorIsUsable
<1> QED
  BY <1>1, TypeCorrect, FactorInvAlways, PTL

=============================================================================
