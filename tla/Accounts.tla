------------------------------ MODULE Accounts ------------------------------
(***************************************************************************)
(* Accounts, roles, sessions, password reset codes and two-factor login:   *)
(* service/auth_service.go, service/totp.go, middleware/jwt_auth.go and    *)
(* the handlers of handlers/auth.go.                                       *)
(*                                                                         *)
(* Every SQL statement and every transaction is one step, since the pool   *)
(* has one connection; a handler is the sequence of its steps, and those   *)
(* of different clients interleave. A client runs one request at a time; a *)
(* person with two browsers is two clients.                                *)
(***************************************************************************)
EXTENDS Naturals, FiniteSets, Functions

CONSTANTS
    Users,          \* accounts, each with its own email and id
    Populations,    \* bound: who registers at all, who has an authenticator
                    \* and which reset codes are issued
    Clients,
    Passwords,
    Secrets,        \* TOTP secrets; a code is the secret that generates it
    Codes,          \* the recovery codes of one generation
    ResetCodes,
    Wrong,          \* a code or password that fits nothing
    None,
    DbFaults        \* may a statement or a transaction of a handler fail?

ASSUME AccountsAssumption ==
    /\ None \notin Users \cup Secrets
    /\ Wrong \notin Secrets \cup Codes \cup Passwords
    /\ Secrets \cap Codes = {}
    /\ DbFaults \in BOOLEAN
    /\ Populations \subseteq [members : SUBSET Users, factor : SUBSET Users,
                               codes : SUBSET ResetCodes]

VARIABLES
    population, \* the bound in force in this behaviour
    users,      \* the users table, a function of the accounts that exist
    gone,       \* deleted accounts: an id is never issued again
    recovery,   \* recovery_codes: "absent", "unused" or "used"
    resets,     \* password_reset_codes issued so far: [user, used]
    session,    \* the session token of client c, or NoSession
    pending,    \* the account whose "2fa" scoped token c holds, or None
    pc,
    job,        \* what the handler remembers: [user, flag, word]
    raced,      \* history: two changes of roles have overlapped
    mixed,      \* history: accounts with overlapping two-factor changes
    confirmed,  \* history: the secret whose code EnableTOTP last accepted
    accepted,   \* history: how often a recovery code of the current
                \* generation was accepted
    redeemed    \* history: reset codes whose reset has committed

table == <<population, users, gone, recovery, resets>>
tokens == <<session, pending>>
local == <<pc, job>>
history == <<raced, mixed, confirmed, accepted, redeemed>>
vars == <<table, tokens, local, history>>

NoSession == [user |-> None, admin |-> FALSE]
NoJob == [user |-> None, flag |-> FALSE, word |-> None]

Init ==
    /\ population \in Populations
    /\ users = <<>>
    /\ gone = {}
    /\ recovery = [u \in Users |-> [k \in Codes |-> "absent"]]
    /\ resets = <<>>
    /\ session = [c \in Clients |-> NoSession]
    /\ pending = [c \in Clients |-> None]
    /\ pc = [c \in Clients |-> "idle"]
    /\ job = [c \in Clients |-> NoJob]
    /\ raced = FALSE
    /\ mixed = {}
    /\ confirmed = [u \in Users |-> None]
    /\ accepted = [u \in Users |-> [k \in Codes |-> 0]]
    /\ redeemed = {}

-----------------------------------------------------------------------------
Exists(u) == u \in DOMAIN users
Admins == {u \in DOMAIN users : users[u].admin}

\* A row of an existing account changes.
Put(u, row) == users' = [users EXCEPT ![u] = row]

\* JWTAuth: a valid token without a scope; the account is not looked up.
SignedIn(c) == session[c] # NoSession

\* RequireAdmin believes the claim in the token.
IsAdmin(c) == session[c].admin

Begin(c, step, u, f, w) ==
    /\ pc' = [pc EXCEPT ![c] = step]
    /\ job' = [job EXCEPT ![c] = [user |-> u, flag |-> f, word |-> w]]

Step(c, step) == pc' = [pc EXCEPT ![c] = step] /\ UNCHANGED job

\* The handler answers, with success or with an error.
Reply(c) ==
    /\ pc' = [pc EXCEPT ![c] = "idle"]
    /\ job' = [job EXCEPT ![c] = NoJob]

\* Clients other than c inside one of the given steps on account u.
Others(c, steps, u) ==
    {d \in Clients \ {c} : pc[d] \in steps /\ job[d].user = u}

-----------------------------------------------------------------------------
(* Register *)

\* emailExists. word remembers whether any account existed by then.
RegisterLook(c, u) ==
    /\ pc[c] = "idle"
    /\ u \in population.members
    /\ ~Exists(u) /\ u \notin gone
    /\ Begin(c, "register.count", u, FALSE,
             IF users = <<>> THEN "first" ELSE "late")
    /\ UNCHANGED <<table, tokens, history>>

\* Variant: count <= 1, as if the new account were among those counted.
RegisterCountOffByOne(c) ==
    /\ pc[c] = "register.count"
    /\ \/ Begin(c, "register.insert", job[c].user,
                Cardinality(DOMAIN users) <= 1, job[c].word)
       \/ DbFaults /\ Begin(c, "register.insert", job[c].user, TRUE, "blind")
    /\ UNCHANGED <<table, tokens, history>>

\* SELECT COUNT(*) FROM users, once the password is hashed. Its error is not
\* looked at: a count that fails leaves 0, and the account will be an
\* administrator's. word remembers that as "blind".
RegisterCount(c) ==
    /\ pc[c] = "register.count"
    /\ \/ Begin(c, "register.insert", job[c].user, users = <<>>, job[c].word)
       \/ DbFaults /\ Begin(c, "register.insert", job[c].user, TRUE, "blind")
    /\ UNCHANGED <<table, tokens, history>>

\* The INSERT; the unique index on email refuses the second of two.
RegisterInsert(c) ==
    /\ pc[c] = "register.insert"
    /\ LET u == job[c].user IN
         \/ /\ ~Exists(u) /\ u \notin gone
            /\ \E p \in Passwords :
                 users' = [v \in DOMAIN users \cup {u} |->
                             IF v = u
                               THEN [admin |-> job[c].flag, hash |-> p,
                                     secret |-> None, enabled |-> FALSE]
                               ELSE users[v]]
         \/ (Exists(u) \/ u \in gone) /\ UNCHANGED users
    /\ Reply(c)
    /\ UNCHANGED <<population, gone, recovery, resets, tokens, history>>

-----------------------------------------------------------------------------
(* Login *)

\* One SELECT, then the password; the second factor, if it is on, is still
\* owed. A refused login changes nothing.
Login(c, u, p) ==
    /\ pc[c] = "idle"
    /\ Exists(u) /\ users[u].hash = p
    /\ IF users[u].enabled
         THEN /\ pending' = [pending EXCEPT ![c] = u]
              /\ UNCHANGED session
         ELSE /\ session' = [session EXCEPT
                               ![c] = [user |-> u, admin |-> users[u].admin]]
              /\ UNCHANGED pending
    /\ UNCHANGED <<table, local, history>>

\* Variant: sessions are issued without an expiry.
ExpirePendingOnly(c) ==
    /\ pending[c] # None
    /\ pending' = [pending EXCEPT ![c] = None]
    /\ UNCHANGED <<session, table, local, history>>

\* 24 hours, or 5 minutes, pass; or the browser forgets the token.
Expire(c) ==
    /\ SignedIn(c) \/ pending[c] # None
    /\ session' = [session EXCEPT ![c] = NoSession]
    /\ pending' = [pending EXCEPT ![c] = None]
    /\ UNCHANGED <<table, local, history>>

\* VerifyTwoFactor: the account as it is now, whose role the session gets.
VerifyRead(c, w) ==
    /\ pc[c] = "idle"
    /\ pending[c] # None
    /\ Exists(pending[c]) /\ users[pending[c]].enabled
    /\ Begin(c, "verify.check", pending[c], users[pending[c]].admin, w)
    /\ UNCHANGED <<table, tokens, history>>

\* checkUserTOTP: the account's secret, read again, generates the code w. If
\* it cannot be read the answer is no.
TOTPFits(u, w) == Exists(u) /\ users[u].secret # None /\ users[u].secret = w

\* finishLogin. The pending token is not withdrawn: it expires.
FinishLogin(c) ==
    /\ session' = [session EXCEPT
                     ![c] = [user |-> job[c].user, admin |-> job[c].flag]]
    /\ Reply(c)

VerifyCheck(c) ==
    /\ pc[c] = "verify.check"
    /\ \/ TOTPFits(job[c].user, job[c].word) /\ FinishLogin(c)
       \/ /\ TOTPFits(job[c].user, job[c].word) => DbFaults
          /\ Step(c, "verify.recovery")
          /\ UNCHANGED session
    /\ UNCHANGED <<table, pending, history>>

\* Variant: UPDATE recovery_codes without AND used = 0.
RedeemableTwice(u, w) == w \in Codes /\ recovery[u][w] # "absent"

\* consumeRecoveryCode: the UPDATE finds an unused code of u.
Redeemable(u, w) == w \in Codes /\ recovery[u][w] = "unused"

ConsumeRecovery(u, w) ==
    /\ recovery' = [recovery EXCEPT ![u][w] = "used"]
    /\ accepted' = [accepted EXCEPT ![u][w] = @ + 1]

VerifyRecovery(c) ==
    /\ pc[c] = "verify.recovery"
    /\ LET u == job[c].user
           w == job[c].word IN
         \/ Redeemable(u, w) /\ ConsumeRecovery(u, w) /\ FinishLogin(c)
         \/ /\ ~Redeemable(u, w)
            /\ Reply(c)
            /\ UNCHANGED <<recovery, accepted, session>>
    /\ UNCHANGED <<population, users, gone, resets, pending>>
    /\ UNCHANGED <<raced, mixed, confirmed, redeemed>>

-----------------------------------------------------------------------------
(* Roles: RequireAdmin routes *)

RoleSteps == {"role.count", "role.write"}

\* A change of roles starts or ends while another one is on its way.
Overlap(c) ==
    raced' = (raced \/ \E d \in Clients \ {c} : pc[d] \in RoleSteps)

\* ensureNotLastAdmin reads the account's role. word is the operation;
\* flag is set for an account that is an administrator.
LookAtRole(c, u, op) ==
    /\ pc[c] = "idle"
    /\ IsAdmin(c)
    /\ op = "delete" => u # session[c].user
    /\ Exists(u)
    /\ Begin(c, IF users[u].admin THEN "role.count" ELSE "role.write",
             u, users[u].admin, op)
    /\ Overlap(c)
    /\ UNCHANGED <<table, tokens, mixed, confirmed, accepted, redeemed>>

\* Variant: count < 1.
CountAdminsOffByOne(c) ==
    /\ pc[c] = "role.count"
    /\ IF Cardinality(Admins) < 1 THEN Reply(c) ELSE Step(c, "role.write")
    /\ UNCHANGED <<table, tokens, history>>

\* ensureNotLastAdmin counts the administrators.
CountAdmins(c) ==
    /\ pc[c] = "role.count"
    /\ IF Cardinality(Admins) <= 1 THEN Reply(c) ELSE Step(c, "role.write")
    /\ UNCHANGED <<table, tokens, history>>

\* DELETE FROM users. Foreign keys are not enforced in the database as it is
\* opened (the driver knows no _foreign_keys parameter): rows that refer to
\* the account stay.
DeleteUser(c) ==
    /\ job[c].word = "delete"
    /\ users' = [v \in DOMAIN users \ {job[c].user} |-> users[v]]
    /\ gone' = gone \cup {job[c].user}

\* UPDATE users SET is_admin = 0; no row may be left to update.
Demote(c) ==
    /\ job[c].word = "demote"
    /\ IF Exists(job[c].user)
         THEN Put(job[c].user, [users[job[c].user] EXCEPT !.admin = FALSE])
         ELSE UNCHANGED users
    /\ UNCHANGED gone

WriteRole(c) ==
    /\ pc[c] = "role.write"
    /\ DeleteUser(c) \/ Demote(c)
    /\ Reply(c)
    /\ UNCHANGED <<population, recovery, resets, tokens, history>>

\* SetRole(true): one UPDATE.
Promote(c, u) ==
    /\ pc[c] = "idle"
    /\ IsAdmin(c)
    /\ Exists(u)
    /\ Put(u, [users[u] EXCEPT !.admin = TRUE])
    /\ Overlap(c)
    /\ UNCHANGED <<population, gone, recovery, resets, tokens, local>>
    /\ UNCHANGED <<mixed, confirmed, accepted, redeemed>>

-----------------------------------------------------------------------------
(* Password reset codes *)

\* GenerateResetCode finds the account and draws a code nobody has.
ResetLook(c, u, x) ==
    /\ pc[c] = "idle"
    /\ IsAdmin(c)
    /\ Exists(u)
    /\ x \in population.codes \ DOMAIN resets
    /\ \A d \in Clients : job[d].word # x
    /\ Begin(c, "reset.insert", u, FALSE, x)
    /\ UNCHANGED <<table, tokens, history>>

\* The INSERT; the account may be gone by now.
ResetInsert(c) ==
    /\ pc[c] = "reset.insert"
    /\ resets' = [y \in DOMAIN resets \cup {job[c].word} |->
                    IF y = job[c].word
                             THEN [user |-> job[c].user, used |-> FALSE]
                             ELSE resets[y]]
    /\ Reply(c)
    /\ UNCHANGED <<population, users, gone, recovery, tokens, history>>

\* ResetPasswordWithCode reads the code; an expired one is refused, which
\* changes nothing.
ResetRead(c, x) ==
    /\ pc[c] = "idle"
    /\ x \in DOMAIN resets
    /\ ~resets[x].used
    /\ Begin(c, "reset.write", resets[x].user, FALSE, x)
    /\ UNCHANGED <<table, tokens, history>>

\* Variant: the transaction changes the password only.
ResetWriteForgetting(c, p) ==
    /\ pc[c] = "reset.write"
    /\ LET u == job[c].user IN
         users' = IF Exists(u)
                    THEN [users EXCEPT ![u].hash = p] ELSE users
    /\ redeemed' = redeemed \cup {job[c].word}
    /\ Reply(c)
    /\ UNCHANGED <<population, gone, recovery, resets, tokens>>
    /\ UNCHANGED <<raced, mixed, confirmed, accepted>>

\* Its transaction: the password and the mark on the code.
ResetWrite(c, p) ==
    /\ pc[c] = "reset.write"
    /\ LET u == job[c].user IN
         users' = IF Exists(u)
                    THEN [users EXCEPT ![u].hash = p] ELSE users
    /\ resets' = [resets EXCEPT ![job[c].word].used = TRUE]
    /\ redeemed' = redeemed \cup {job[c].word}
    /\ Reply(c)
    /\ UNCHANGED <<population, gone, recovery, tokens>>
    /\ UNCHANGED <<raced, mixed, confirmed, accepted>>

-----------------------------------------------------------------------------
(* Two-factor authentication of one's own account *)

FactorSteps == {"setup.write", "enable.write", "enable.codes",
                "disable.check", "disable.recovery", "disable.write",
                "enable.check"}

\* Two changes to the factor of one account are on their way at once.
Mix(c, u) ==
    mixed' = mixed \cup {v \in {u} : Others(c, FactorSteps, v) # {}}

\* SetupTOTP reads the email, for the label of the secret.
SetupRead(c) ==
    /\ pc[c] = "idle"
    /\ SignedIn(c) /\ Exists(session[c].user)
    /\ session[c].user \in population.factor
    /\ Begin(c, "setup.write", session[c].user, FALSE, None)
    /\ Mix(c, session[c].user)
    /\ UNCHANGED <<table, tokens, raced, confirmed, accepted, redeemed>>

\* Variant: a new secret leaves the factor on.
SetupWriteEnabled(c, s) ==
    /\ pc[c] = "setup.write"
    /\ LET u == job[c].user IN
         IF Exists(u)
           THEN s # users[u].secret /\ Put(u, [users[u] EXCEPT !.secret = s])
           ELSE UNCHANGED users
    /\ Reply(c)
    /\ UNCHANGED <<population, gone, recovery, resets, tokens, history>>

\* It stores a new secret and turns the factor off. Recovery codes stay.
SetupWrite(c, s) ==
    /\ pc[c] = "setup.write"
    /\ LET u == job[c].user IN
         IF Exists(u)
           THEN /\ s # users[u].secret
                /\ Put(u, [users[u] EXCEPT !.secret = s, !.enabled = FALSE])
           ELSE UNCHANGED users
    /\ Reply(c)
    /\ UNCHANGED <<population, gone, recovery, resets, tokens, history>>

\* EnableTOTP checks a code; a wrong one is refused, which changes nothing.
EnableCheck(c, w) ==
    /\ pc[c] = "idle"
    /\ SignedIn(c)
    /\ TOTPFits(session[c].user, w)
    /\ Begin(c, "enable.write", session[c].user, FALSE, w)
    /\ confirmed' = [confirmed EXCEPT ![session[c].user] = w]
    /\ Mix(c, session[c].user)
    /\ UNCHANGED <<table, tokens, raced, accepted, redeemed>>

EnableWrite(c) ==
    /\ pc[c] = "enable.write"
    /\ LET u == job[c].user IN
         users' = IF Exists(u)
                    THEN [users EXCEPT ![u].enabled = TRUE] ELSE users
    /\ Step(c, "enable.codes")
    /\ UNCHANGED <<population, gone, recovery, resets, tokens, history>>

\* generateRecoveryCodes replaces the codes in one transaction.
EnableCodes(c) ==
    /\ pc[c] = "enable.codes"
    /\ LET u == job[c].user IN
         /\ recovery' = [recovery EXCEPT ![u] = [k \in Codes |-> "unused"]]
         /\ accepted' = [accepted EXCEPT ![u] = [k \in Codes |-> 0]]
    /\ Reply(c)
    /\ UNCHANGED <<population, users, gone, resets, tokens>>
    /\ UNCHANGED <<raced, mixed, confirmed, redeemed>>

\* DisableTOTP reads the hash and compares the password.
DisableRead(c, p, w) ==
    /\ pc[c] = "idle"
    /\ SignedIn(c) /\ Exists(session[c].user)
    /\ users[session[c].user].hash = p
    /\ Begin(c, "disable.check", session[c].user, FALSE, w)
    /\ Mix(c, session[c].user)
    /\ UNCHANGED <<table, tokens, raced, confirmed, accepted, redeemed>>

DisableCheck(c) ==
    /\ pc[c] = "disable.check"
    /\ \/ TOTPFits(job[c].user, job[c].word) /\ Step(c, "disable.write")
       \/ /\ TOTPFits(job[c].user, job[c].word) => DbFaults
          /\ Step(c, "disable.recovery")
    /\ UNCHANGED <<table, tokens, history>>

DisableRecovery(c) ==
    /\ pc[c] = "disable.recovery"
    /\ LET u == job[c].user
           w == job[c].word IN
         \/ /\ Redeemable(u, w)
            /\ ConsumeRecovery(u, w)
            /\ Step(c, "disable.write")
         \/ ~Redeemable(u, w) /\ Reply(c) /\ UNCHANGED <<recovery, accepted>>
    /\ UNCHANGED <<population, users, gone, resets, tokens>>
    /\ UNCHANGED <<raced, mixed, confirmed, redeemed>>

\* Its transaction: factor and secret off, recovery codes deleted.
DisableWrite(c) ==
    /\ pc[c] = "disable.write"
    /\ LET u == job[c].user IN
         /\ users' = IF Exists(u)
                       THEN [users EXCEPT ![u].enabled = FALSE,
                                          ![u].secret = None]
                       ELSE users
         /\ recovery' = [recovery EXCEPT ![u] = [k \in Codes |-> "absent"]]
    /\ Reply(c)
    /\ UNCHANGED <<population, gone, resets, tokens, history>>

-----------------------------------------------------------------------------
(* A statement fails, or a transaction, which is rolled back: the handler    *)
(* answers with an error and changes nothing more, but what its earlier      *)
(* statements did stays. The count of ensureNotLastAdmin leaves 0 when it    *)
(* fails, which refuses the change.                                          *)
Fail(c) ==
    /\ DbFaults
    /\ pc[c] \in {"register.insert", "verify.recovery", "role.count", "role.write",
                  "reset.insert", "reset.write", "setup.write", "enable.write",
                  "enable.codes", "disable.recovery", "disable.write"}
    /\ Reply(c)
    /\ UNCHANGED <<table, tokens, history>>

-----------------------------------------------------------------------------
Words == Secrets \cup Codes \cup {Wrong}

Roles(c) ==
    \/ \E u \in Users : \/ RegisterLook(c, u) \/ Promote(c, u)
                        \/ \E op \in {"delete", "demote"} : LookAtRole(c, u, op)
    \/ RegisterCount(c) \/ RegisterInsert(c)
    \/ CountAdmins(c) \/ WriteRole(c)

SignIn(c) ==
    \/ \E u \in Users, p \in Passwords : Login(c, u, p)
    \/ \E w \in Words : VerifyRead(c, w)
    \/ VerifyCheck(c) \/ VerifyRecovery(c) \/ Expire(c)

Resetting(c) ==
    \/ \E x \in ResetCodes :
         ResetRead(c, x) \/ \E u \in Users : ResetLook(c, u, x)
    \/ ResetInsert(c)
    \/ \E p \in Passwords : ResetWrite(c, p)

TwoFactor(c) ==
    \/ SetupRead(c) \/ \E s \in Secrets : SetupWrite(c, s)
    \/ \E w \in Words : EnableCheck(c, w)
    \/ EnableWrite(c) \/ EnableCodes(c)
    \/ \E p \in Passwords, w \in Words : DisableRead(c, p, w)
    \/ DisableCheck(c) \/ DisableRecovery(c) \/ DisableWrite(c)

Next == \E c \in Clients :
    Roles(c) \/ SignIn(c) \/ Resetting(c) \/ TwoFactor(c) \/ Fail(c)

Spec == Init /\ [][Next]_vars

\* Nobody makes the clock stop: tokens run out.
FairSpec == Spec /\ \A c \in Clients : WF_vars(Expire(c))

-----------------------------------------------------------------------------
(* Properties *)

Rows == [admin : BOOLEAN, hash : Passwords, secret : Secrets \cup {None},
         enabled : BOOLEAN]

\* Types of the tables, the tokens and what handlers remember.
TypeOK ==
    /\ population \in Populations
    /\ DOMAIN users \subseteq Users /\ users \in [DOMAIN users -> Rows]
    /\ gone \subseteq Users \ DOMAIN users
    /\ recovery \in [Users -> [Codes -> {"absent", "unused", "used"}]]
    /\ DOMAIN resets \subseteq ResetCodes
    /\ resets \in [DOMAIN resets -> [user : Users, used : BOOLEAN]]
    /\ session \in [Clients -> [user : Users \cup {None}, admin : BOOLEAN]]
    /\ pending \in [Clients -> Users \cup {None}]
    /\ pc \in [Clients -> {"idle", "register.count", "register.insert",
                           "verify.check", "verify.recovery", "reset.insert",
                           "reset.write"} \cup RoleSteps \cup FactorSteps]
    /\ raced \in BOOLEAN
    /\ mixed \subseteq Users
    /\ confirmed \in [Users -> Secrets \cup {None}]
    /\ accepted \in [Users -> [Codes -> Nat]]
    /\ redeemed \subseteq ResetCodes

\* As long as administrators change roles and delete accounts one after the
\* other, an installation with accounts has an administrator: what
\* ensureNotLastAdmin (auth_service.go:164) is for. Without that condition
\* it fails, not only when two count at once: an account may be promoted
\* between being seen as an ordinary one and being deleted.
AnAdminRemains == ~raced /\ users # <<>> => Admins # {}

\* Register (auth_service.go:33) makes an administrator only of somebody who
\* came before there was any account, however many come at once, or whose
\* count of the accounts failed: while roles are changed one at a time no
\* account, once there is one, ever goes unseen by a count that succeeds.
LatecomersAreUsers ==
    \A c \in Clients :
        pc[c] = "register.insert" /\ job[c].word = "late" /\ ~raced
            => ~job[c].flag

\* A recovery code signs in or turns the factor off once, whichever requests
\* present it at the same time (consumeRecoveryCode, totp.go:220).
RecoveryCodeOnce == \A u \in Users, k \in Codes : accepted[u][k] <= 1

\* A reset code that has changed a password starts no other change: only
\* requests that overlap with the first can still succeed
\* (ResetPasswordWithCode, auth_service.go:203).
ResetOnce ==
    [][\A c \in Clients :
         pc[c] = "idle" /\ pc'[c] = "reset.write"
            => job'[c].word \notin redeemed]_vars

\* The variables have their types, and unless two requests change the factor of
\* an account at once, a factor that is on has a secret its owner has proved to
\* have, also when issuing the recovery codes failed, and an account without a
\* secret has no recovery codes (SetupTOTP, EnableTOTP, DisableTOTP, totp.go:123-182).
FactorIsUsable ==
    /\ TypeOK
    /\ \A u \in DOMAIN users \ mixed :
        LET row == users[u] IN
        /\ row.enabled => row.secret # None /\ row.secret = confirmed[u]
        /\ row.secret = None => \A k \in Codes : recovery[u][k] = "absent"

\* The role in a token is not looked up again (jwt_auth.go:80), but tokens
\* run out: who stays without the role ends without its rights.
DemotionTakesEffect ==
    \A u \in Users :
        <>[](u \notin Admins)
            => <>[](\A c \in Clients : session[c] # [user |-> u, admin |-> TRUE])
=============================================================================
