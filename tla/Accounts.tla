---------------------------- MODULE Accounts ----------------------------
(* Console accounts and forgotten-password requests.  A request is a       *)
(* transaction of steps that read, and one that commits what was decided;  *)
(* the ORM writes only the columns whose value differs from what was read. *)
(* Refused requests change nothing and are left out.  A token names an     *)
(* account by id (tokens from before the users table are not modelled).    *)
EXTENDS Integers, FiniteSets

CONSTANTS
    Threads,      \* request threads of the API
    Usernames,    \* well-formed user names
    AdminName,    \* settings.admin_username
    Passwords,    \* a hash is identified with its password
    None,
    Edits,        \* the changes administrators ask for
    MaxAccounts, MaxResets, \* bounds: rows
    MaxRequests   \* bound: requests made

Roles == {"super_admin", "admin"}
Statuses == {"pending", "active", "rejected", "suspended"}

(* A change of an account; None leaves a column alone.                     *)
Body == [name : Usernames \cup {None}, pw : Passwords \cup {None},
         role : Roles \cup {None}, status : Statuses \cup {None}]
SetStatus(status) == [name |-> None, pw |-> None, role |-> None, status |-> status]

ASSUME AccountsAssumption ==
    /\ AdminName \in Usernames
    /\ None \notin Usernames \cup Passwords \cup Roles \cup Statuses
    /\ Edits \subseteq Body
    /\ {MaxAccounts, MaxResets, MaxRequests} \subseteq Nat

Ids == 1 .. MaxAccounts
ResetIds == 1 .. MaxResets

VARIABLES
    users,        \* rows by id, Missing where there is none
    resets,       \* forgotten-password requests by id
    env,          \* settings.admin_password of the running API
    tokens,       \* accounts that hold a token
    thread,       \* what each request has read and will do
    begun,        \* requests made, for the bound
    overlapped,   \* history: an administrator's request overlapped with another
    renamed,      \* history: accounts whose user name was changed
    chosen        \* history: the password an administrator last set, by id

vars == <<users, resets, env, tokens, thread, begun, overlapped, renamed, chosen>>

User == [name : Usernames, pw : Passwords, source : {"env", "manual"},
         role : Roles, status : Statuses]
Missing == [name |-> None]
Exists(u) == users[u] # Missing
Named(name) == {u \in Ids : users[u].name = name}
IsSuper(u) == Exists(u) /\ users[u].role = "super_admin"
ActiveSupers == {u \in Ids : IsSuper(u) /\ users[u].status = "active"}

Reset == [name : Usernames, status : {"pending", "resolved", "rejected"},
          asker : Ids \cup {0}, hit : Ids \cup {0}]
NoReset == [status |-> None]

Idle == [pc |-> "idle"]

Init ==
    /\ users = [u \in Ids |-> Missing]
    /\ resets = [r \in ResetIds |-> NoReset]
    /\ env \in Passwords
    /\ tokens = {}
    /\ thread = [t \in Threads |-> Idle]
    /\ begun = 0
    /\ overlapped = FALSE
    /\ renamed = {}
    /\ chosen = [u \in Ids |-> None]

-----------------------------------------------------------------------------
Begin(t, request) ==
    /\ thread[t] = Idle
    /\ begun < MaxRequests
    /\ begun' = begun + 1
    /\ thread' = [thread EXCEPT ![t] = request]
Goto(t, pc) == thread' = [thread EXCEPT ![t].pc = pc]
End(t) == thread' = [thread EXCEPT ![t] = Idle]

(* Steps of the signing-in of a seeded account and of administrators: the  *)
(* ones that write to accounts somebody else may be writing to.            *)
Writing(t) == thread[t].pc \in {"sync", "edit", "resolve"}
NoteOverlap(t) == overlapped' = (overlapped \/ \E q \in Threads \ {t} : Writing(q))

(* Ids come from a sequence; no account is ever deleted.                   *)
Insert(row) ==
    \E u \in Ids :
        /\ ~Exists(u) /\ \A v \in Ids : v < u => Exists(v)
        /\ users' = [users EXCEPT ![u] = row]
Account(name, pw, role, status) ==
    [name |-> name, pw |-> pw, source |-> "env", role |-> role, status |-> status]

-----------------------------------------------------------------------------
(* The public requests: sign in, register, forgot password.  Each begins   *)
(* with ensure_seed_superuser: any super admin will do, of any status, and *)
(* a taken user name is not promoted.                                      *)

NeedsSeed == (\A u \in Ids : ~IsSuper(u)) /\ Named(AdminName) = {}
Arrive(t, op, name, pw, role) ==
    /\ Begin(t, [pc |-> IF NeedsSeed THEN "seed" ELSE op, op |-> op,
                 name |-> name, pw |-> pw, role |-> role])
    /\ UNCHANGED <<users, resets, env, tokens, overlapped, renamed, chosen>>

(* Of two requests that both insert the first super admin one fails.       *)
Seed(t) ==
    /\ thread[t].pc = "seed"
    /\ IF Named(AdminName) = {}
       THEN /\ Insert(Account(AdminName, env, "super_admin", "active"))
            /\ Goto(t, thread[t].op)
       ELSE End(t) /\ users' = users
    /\ UNCHANGED <<resets, env, tokens, begun, overlapped, renamed, chosen>>

(* authenticate: the stored password opens an active account; failing it,  *)
(* the one in the environment opens a super admin whose password still     *)
(* mirrors it, and is then stored.                                         *)
ByPassword(u, pw) == users[u].pw = pw /\ users[u].status = "active"
(* Mutant: a password set by an administrator still gives way to .env.     *)
ByEnvAlways(u, name, pw) ==
    /\ users[u].pw # pw /\ pw = env
    /\ u \in ActiveSupers /\ name = AdminName
ByEnv(u, name, pw) ==
    /\ users[u].pw # pw /\ pw = env
    /\ u \in ActiveSupers /\ users[u].source = "env" /\ name = AdminName

SignIn(t) ==
    /\ thread[t].pc = "token"
    /\ LET name == thread[t].name
           pw == thread[t].pw
       IN  \/ \E u \in Named(name) :
                /\ ByPassword(u, pw)
                /\ tokens' = tokens \cup {u}
                /\ End(t)
                /\ overlapped' = overlapped
           \/ \E u \in Named(name) :
                /\ ByEnv(u, name, pw)
                /\ thread' = [thread EXCEPT ![t] = [pc |-> "sync", target |-> u, pw |-> pw]]
                /\ NoteOverlap(t)
                /\ tokens' = tokens
           \/ /\ \A u \in Named(name) : ~ByPassword(u, pw) /\ ~ByEnv(u, name, pw)
              /\ End(t)
              /\ UNCHANGED <<tokens, overlapped>>
    /\ UNCHANGED <<users, resets, env, begun, renamed, chosen>>

(* The new hash is committed, whatever has happened to the row since.      *)
Sync(t) ==
    /\ thread[t].pc = "sync"
    /\ users' = [users EXCEPT ![thread[t].target].pw = thread[t].pw]
    /\ tokens' = tokens \cup {thread[t].target}
    /\ End(t)
    /\ UNCHANGED <<resets, env, begun, overlapped, renamed, chosen>>

Register(t) ==
    /\ thread[t].pc = "register"
    /\ IF Named(thread[t].name) = {} THEN Goto(t, "insert") ELSE End(t)
    /\ UNCHANGED <<users, resets, env, tokens, begun, overlapped, renamed, chosen>>

RegisterCommit(t) ==
    /\ thread[t].pc = "insert"
    /\ LET w == thread[t] IN
       IF Named(w.name) = {} THEN Insert(Account(w.name, w.pw, w.role, "pending")) ELSE users' = users
    /\ End(t)
    /\ UNCHANGED <<resets, env, tokens, begun, overlapped, renamed, chosen>>

(* Recorded for any name.  The asker is who bears the name now.            *)
Forgot(t) ==
    /\ thread[t].pc = "forgot"
    /\ \E r \in ResetIds, u \in Ids \cup {0} :
        /\ resets[r] = NoReset /\ \A q \in ResetIds : q < r => resets[q] # NoReset
        /\ IF u = 0 THEN Named(thread[t].name) = {} ELSE u \in Named(thread[t].name)
        /\ resets' = [resets EXCEPT ![r] =
                [name |-> thread[t].name, status |-> "pending", asker |-> u, hit |-> 0]]
    /\ End(t)
    /\ UNCHANGED <<users, env, tokens, begun, overlapped, renamed, chosen>>

-----------------------------------------------------------------------------
(* Requests of administrators: the token's account must be an active super *)
(* admin when the request comes in.                                        *)

AdminBegin(t, k, request) ==
    /\ k \in tokens \cap ActiveSupers
    /\ Begin(t, request)
    /\ NoteOverlap(t)
    /\ UNCHANGED <<users, resets, env, tokens, renamed, chosen>>

LosesSuper(u, body) ==
    /\ users[u].role = "super_admin"
    /\ body.role \notin {None, "super_admin"} \/ body.status \notin {None, "active"}

(* Mutant: the account itself is counted among the super admins left.      *)
AnyEdit(t, k, u, body) ==
    /\ Exists(u)
    /\ LosesSuper(u, body) => ActiveSupers # {}
    /\ body.name \in {None, users[u].name} \/ Named(body.name) = {}
    /\ AdminBegin(t, k, [pc |-> "edit", target |-> u, loaded |-> users[u], body |-> body])

(* admin_update_user, and _set_status for rejecting and suspending.        *)
Edit(t, k, u, body) ==
    /\ Exists(u)
    /\ LosesSuper(u, body) => ActiveSupers \ {u} # {}
    /\ body.name \in {None, users[u].name} \/ Named(body.name) = {}
    /\ AdminBegin(t, k, [pc |-> "edit", target |-> u, loaded |-> users[u], body |-> body])

Approve(t, k, u) ==
    /\ Exists(u)
    /\ AdminBegin(t, k, [pc |-> "edit", target |-> u, loaded |-> users[u],
                         body |-> SetStatus("active")])

EditCommit(t) ==
    /\ thread[t].pc = "edit"
    /\ LET u == thread[t].target
           body == thread[t].body
           Written(f) == body[f] \notin {None, thread[t].loaded[f]}
           New(f) == IF Written(f) THEN body[f] ELSE users[u][f]
       IN  IF Written("name") /\ Named(body.name) # {}
           THEN UNCHANGED <<users, renamed, chosen>>
           ELSE /\ users' = [users EXCEPT ![u] =
                        [name |-> New("name"), role |-> New("role"), status |-> New("status"),
                         pw |-> IF body.pw = None THEN @.pw ELSE body.pw,
                         source |-> IF body.pw = None THEN @.source ELSE "manual"]]
                /\ renamed' = IF Written("name") THEN renamed \cup {u} ELSE renamed
                /\ chosen' = IF body.pw = None THEN chosen ELSE [chosen EXCEPT ![u] = body.pw]
    /\ End(t)
    /\ UNCHANGED <<resets, env, tokens, begun, overlapped>>

(* admin_resolve_password_request: pending requests only; the account is   *)
(* the one that bears the name when the administrator answers.             *)
Resolve(t, k, r, pw) ==
    /\ resets[r].status = "pending"
    /\ \E u \in Named(resets[r].name) :
        AdminBegin(t, k, [pc |-> "resolve", reset |-> r, target |-> u, pw |-> pw])
(* Mutant: a request that was answered can still be rejected.              *)
RejectAny(t, k, r) ==
    /\ resets[r] # NoReset
    /\ AdminBegin(t, k, [pc |-> "resolve", reset |-> r, target |-> 0, pw |-> None])

Reject(t, k, r) ==
    /\ resets[r].status = "pending"
    /\ AdminBegin(t, k, [pc |-> "resolve", reset |-> r, target |-> 0, pw |-> None])

ResolveCommit(t) ==
    /\ thread[t].pc = "resolve"
    /\ LET w == thread[t] IN
       IF w.target = 0
       THEN /\ resets' = [resets EXCEPT ![w.reset].status = "rejected"]
            /\ UNCHANGED <<users, chosen>>
       ELSE /\ resets' = [resets EXCEPT ![w.reset].status = "resolved", ![w.reset].hit = w.target]
            /\ users' = [users EXCEPT ![w.target].pw = w.pw, ![w.target].source = "manual"]
            /\ chosen' = [chosen EXCEPT ![w.target] = w.pw]
    /\ End(t)
    /\ UNCHANGED <<env, tokens, begun, overlapped, renamed>>

(* The API is restarted, with another ADMIN_PASSWORD or the same; requests *)
(* in progress are lost.                                                   *)
Restart ==
    /\ env' \in Passwords
    /\ thread' = [t \in Threads |-> Idle]
    /\ UNCHANGED <<users, resets, tokens, begun, overlapped, renamed, chosen>>

PublicStep(t) ==
    \/ Seed(t) \/ SignIn(t) \/ Sync(t) \/ Register(t) \/ RegisterCommit(t) \/ Forgot(t)

Next ==
    \/ \E t \in Threads :
        \/ \E name \in Usernames, pw \in Passwords :
            \/ Arrive(t, "token", name, pw, None)
            \/ \E role \in Roles : Arrive(t, "register", name, pw, role)
        \/ \E name \in Usernames : Arrive(t, "forgot", name, None, None)
        \/ PublicStep(t)
        \/ \E k, u \in Ids :
            \/ \E body \in Edits \cup {SetStatus("rejected"), SetStatus("suspended")} : Edit(t, k, u, body)
            \/ Approve(t, k, u)
        \/ \E k \in Ids, r \in ResetIds :
            \/ \E pw \in Passwords : Resolve(t, k, r, pw)
            \/ Reject(t, k, r)
        \/ EditCommit(t)
        \/ ResolveCommit(t)
    \/ Restart

Spec == Init /\ [][Next]_vars

-----------------------------------------------------------------------------
TypeOK ==
    /\ users \in [Ids -> User \cup {Missing}]
    /\ resets \in [ResetIds -> Reset \cup {NoReset}]
    /\ env \in Passwords
    /\ tokens \subseteq {u \in Ids : Exists(u)}
    /\ \A u, v \in Ids : (Exists(u) /\ users[u].name = users[v].name) => u = v
    /\ \A t \in Threads : Writing(t) =>
        /\ thread[t].pc = "resolve" => resets[thread[t].reset] # NoReset
        /\ thread[t].target # 0 => Exists(thread[t].target)
    /\ renamed \subseteq Ids
    /\ chosen \in [Ids -> Passwords \cup {None}]

(* Once there are accounts there is an active super admin, as long as      *)
(* requests of administrators do not overlap.  When they do, two edits can *)
(* each count on the other's account and disable both.                     *)
SuperRemains == (~overlapped /\ \E u \in Ids : Exists(u)) => ActiveSupers # {}

(* Once an administrator has set the password of an account, that is its   *)
(* password until an administrator sets another: the environment does not  *)
(* override it; unless a sign-in through the environment overlapped.       *)
EnvNeverOverrides ==
    ~overlapped => \A u \in Ids : (Exists(u) /\ users[u].source = "manual") => users[u].pw = chosen[u]

(* A forgotten-password request is answered for the account that bore the  *)
(* name when it was made, unless that account was renamed since, or the    *)
(* name belonged to nobody; and one that was rejected has not changed a    *)
(* password, unless two administrators answered it at once.                *)
ResetsSettled ==
    \A r \in ResetIds : resets[r] # NoReset =>
        /\ resets[r].hit # 0 => resets[r].asker \in {0, resets[r].hit} \cup renamed
        /\ ~overlapped /\ resets[r].status = "rejected" => resets[r].hit = 0
=============================================================================
