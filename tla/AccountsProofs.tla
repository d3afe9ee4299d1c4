------------------------- MODULE AccountsProofs -------------------------
(* Proofs about Accounts, for every number of threads, accounts, password  *)
(* requests and passwords, and every set of edits.                         *)
EXTENDS Accounts, TLAPS

(* What a request in progress carries.                                     *)
Asking ==
    {w \in [pc : {"seed", "token", "register", "insert", "forgot"},
            op : {"token", "register", "forgot"},
            name : Usernames, pw : Passwords \cup {None}, role : Roles \cup {None}] :
        /\ w.op # "forgot" => w.pw \in Passwords
        /\ w.op = "register" => w.role \in Roles
        /\ w.pc \in {"seed", w.op} \/ (w.pc = "insert" /\ w.op = "register")}
Syncing == [pc : {"sync"}, target : Ids, pw : Passwords]
Editing == [pc : {"edit"}, target : Ids, loaded : User, body : Body]
Resolving ==
    {w \in [pc : {"resolve"}, reset : ResetIds, target : Ids \cup {0}, pw : Passwords \cup {None}] :
        w.target # 0 => w.pw \in Passwords}

ThreadsTyped ==
    /\ thread \in [Threads -> {Idle} \cup Asking \cup Syncing \cup Editing \cup Resolving]
    /\ overlapped \in BOOLEAN

(* Requests that write to accounts exclude each other while none of them   *)
(* has overlapped with another.                                            *)
OneWriter ==
    ~overlapped => \A t, q \in Threads : Writing(t) /\ Writing(q) => t = q

(* What such a request has read is then still so.                          *)
StillSo(t) ==
    /\ thread[t].pc = "sync" => users[thread[t].target].source = "env"
    /\ thread[t].pc = "edit" =>
        (LosesSuper(thread[t].target, thread[t].body) => ActiveSupers \ {thread[t].target} # {})
    /\ thread[t].pc = "resolve" => resets[thread[t].reset].status = "pending"
ReadStillSo == ~overlapped => \A t \in Threads : StillSo(t)

(* Nobody gets to the end of a registration before there is an account.    *)
SeededFirst ==
    \A t \in Threads : thread[t].pc \in {"token", "register", "insert", "forgot"} =>
        \E u \in Ids : Exists(u)

(* A request for a password knows who asked, until that account is renamed.*)
AskersKnown ==
    \A r \in ResetIds : resets[r] # NoReset =>
        /\ \/ resets[r].asker \in {0} \cup renamed
           \/ Exists(resets[r].asker) /\ users[resets[r].asker].name = resets[r].name
        /\ resets[r].status = "pending" => resets[r].hit = 0

(* Whoever answers it has found that account.                              *)
AnswersHit ==
    \A t \in Threads : (thread[t].pc = "resolve" /\ thread[t].target # 0) =>
        resets[thread[t].reset].asker \in {0, thread[t].target} \cup renamed

AccountsInvariant ==
    /\ TypeOK /\ ThreadsTyped
    /\ OneWriter /\ ReadStillSo /\ SeededFirst
    /\ AskersKnown /\ AnswersHit
    /\ SuperRemains /\ EnvNeverOverrides /\ ResetsSettled

-----------------------------------------------------------------------------
(* The null forms are no rows.                                             *)
LEMMA RowFacts ==
    /\ None \notin Usernames /\ None \notin Passwords /\ None \notin Roles /\ None \notin Statuses
    /\ \A x \in User : x # Missing /\ x.name # None
    /\ Missing.name = None
    /\ \A x \in Reset : x # NoReset
    /\ NoReset.status = None /\ None # "pending"
    /\ 0 \notin Ids /\ AdminName \in Usernames
<1>1. /\ None \notin Usernames /\ None \notin Passwords
      /\ None \notin Roles /\ None \notin Statuses
      /\ AdminName \in Usernames
  BY AccountsAssumption
<1>2. None # "pending"
  BY <1>1 DEF Statuses
<1>3. Missing.name = None /\ NoReset.status = None
  BY DEF Missing, NoReset
<1>4. \A x \in User : x # Missing /\ x.name # None
  BY <1>1, <1>3 DEF User
<1>5. ASSUME NEW x \in Reset PROVE x # NoReset
  <2>1. DOMAIN x = {"name", "status", "asker", "hit"}
    BY DEF Reset
  <2>2. DOMAIN NoReset = {"status"}
    BY DEF NoReset
  <2> QED
    BY <2>1, <2>2
<1>6. 0 \notin Ids
  BY DEF Ids
<1> QED
  BY <1>1, <1>2, <1>3, <1>4, <1>5, <1>6

(* The initial state.                                                      *)
LEMMA AccountsInit == Init => AccountsInvariant
<1> SUFFICES ASSUME Init PROVE AccountsInvariant
  OBVIOUS
<1> USE RowFacts DEF Init
<1>1. TypeOK
  BY DEF TypeOK, Exists, Missing, Writing, Idle
<1>2. ThreadsTyped
  BY DEF ThreadsTyped
<1>3. OneWriter /\ ReadStillSo /\ SeededFirst /\ AnswersHit
  BY DEF OneWriter, ReadStillSo, StillSo, SeededFirst, AnswersHit, Writing, Idle
<1>4. AskersKnown /\ ResetsSettled
  BY DEF AskersKnown, ResetsSettled
<1>5. SuperRemains /\ EnvNeverOverrides
  BY DEF SuperRemains, EnvNeverOverrides, Exists
<1> QED
  BY <1>1, <1>2, <1>3, <1>4, <1>5 DEF AccountsInvariant

(* The step of a request says what it carries.                             *)
LEMMA Carried ==
    ASSUME ThreadsTyped, NEW t \in Threads
    PROVE  /\ thread[t].pc = "sync" => thread[t] \in Syncing
           /\ thread[t].pc = "edit" => thread[t] \in Editing
           /\ thread[t].pc = "resolve" => thread[t] \in Resolving
           /\ thread[t].pc \in {"seed", "token", "register", "insert", "forgot"} => thread[t] \in Asking
<1>1. thread[t] \in {Idle} \cup Asking \cup Syncing \cup Editing \cup Resolving
  BY DEF ThreadsTyped
<1>2. CASE thread[t] = Idle
  BY <1>2 DEF Idle
<1>3. CASE thread[t] \in Asking
  <2>1. thread[t].pc \in {"seed", "token", "register", "insert", "forgot"}
    BY <1>3 DEF Asking
  <2> QED
    BY <1>3, <2>1
<1>4. CASE thread[t] \in Syncing
  BY <1>4 DEF Syncing
<1>5. CASE thread[t] \in Editing
  BY <1>5 DEF Editing
<1>6. CASE thread[t] \in Resolving
  BY <1>6 DEF Resolving
<1> QED
  BY <1>1, <1>2, <1>3, <1>4, <1>5, <1>6

(* What a request that writes to accounts names.                           *)
LEMMA Targeted ==
    ASSUME TypeOK, ThreadsTyped, NEW t \in Threads, Writing(t)
    PROVE  /\ thread[t].target \in Ids \cup {0}
           /\ thread[t].target # 0 => thread[t].target \in Ids /\ Exists(thread[t].target)
           /\ thread[t].pc \in {"sync", "edit"} => thread[t].target \in Ids /\ Exists(thread[t].target)
           /\ thread[t].pc = "resolve" =>
                thread[t].reset \in ResetIds /\ resets[thread[t].reset] \in Reset
<1>1. /\ thread[t].pc = "sync" => thread[t].target \in Ids
      /\ thread[t].pc = "edit" => thread[t].target \in Ids
      /\ thread[t].pc = "resolve" => thread[t].target \in Ids \cup {0} /\ thread[t].reset \in ResetIds
  BY Carried DEF Syncing, Editing, Resolving
<1>2. /\ thread[t].target # 0 => Exists(thread[t].target)
      /\ thread[t].pc = "resolve" => resets[thread[t].reset] # NoReset
      /\ resets \in [ResetIds -> Reset \cup {NoReset}]
  BY DEF TypeOK
<1> QED
  BY <1>1, <1>2, RowFacts DEF Writing

(* A request of anybody begins, goes on or ends, and no row is written.    *)
LEMMA QuietStep ==
    ASSUME AccountsInvariant, NEW t \in Threads, NEW w \in {Idle} \cup Asking,
           thread' = [thread EXCEPT ![t] = w],
           w.pc \in {"token", "register", "insert", "forgot"} => \E u \in Ids : Exists(u),
           tokens' \subseteq {u \in Ids : Exists(u)}, env' \in Passwords,
           UNCHANGED <<users, resets, overlapped, renamed, chosen>>
    PROVE  AccountsInvariant'
<1> USE DEF AccountsInvariant
<1>1. /\ thread \in [Threads -> {Idle} \cup Asking \cup Syncing \cup Editing \cup Resolving]
      /\ overlapped \in BOOLEAN
  BY DEF ThreadsTyped
<1>2. w.pc \notin {"sync", "edit", "resolve"}
  BY DEF Idle, Asking
<1>3. /\ thread'[t] = w
      /\ \A q \in Threads \ {t} : thread'[q] = thread[q]
  BY <1>1
<1>4. /\ \A q \in Threads : thread'[q].pc \in {"sync", "edit", "resolve"} =>
            q # t /\ thread'[q] = thread[q]
  BY <1>2, <1>3
<1>5. TypeOK'
  BY <1>4 DEF TypeOK, Writing, Exists
<1>6. ThreadsTyped'
  BY <1>1 DEF ThreadsTyped
<1>7. OneWriter'
  BY <1>4 DEF OneWriter, Writing
<1>8. ReadStillSo'
  BY <1>4 DEF ReadStillSo, StillSo, LosesSuper, ActiveSupers, IsSuper, Exists
<1>9. SeededFirst'
  BY <1>3 DEF SeededFirst, Exists
<1>10. AskersKnown' /\ ResetsSettled'
  BY DEF AskersKnown, ResetsSettled, Exists
<1>11. AnswersHit'
  BY <1>4 DEF AnswersHit
<1>12. SuperRemains' /\ EnvNeverOverrides'
  BY DEF SuperRemains, EnvNeverOverrides, ActiveSupers, IsSuper, Exists
<1> QED
  BY <1>5, <1>6, <1>7, <1>8, <1>9, <1>10, <1>11, <1>12

(* A request that will write to accounts has read what it needs.           *)
LEMMA WriterBegins ==
    ASSUME AccountsInvariant, NEW t \in Threads, NEW w \in Syncing \cup Editing \cup Resolving,
           thread' = [thread EXCEPT ![t] = w],
           w.target # 0 => Exists(w.target),
           w.pc = "sync" => users[w.target].source = "env",
           w.pc = "edit" => (LosesSuper(w.target, w.body) => ActiveSupers \ {w.target} # {}),
           w.pc = "resolve" => resets[w.reset].status = "pending",
           (w.pc = "resolve" /\ w.target # 0) => users[w.target].name = resets[w.reset].name,
           NoteOverlap(t),
           UNCHANGED <<users, resets, env, tokens, renamed, chosen>>
    PROVE  AccountsInvariant'
<1> USE DEF AccountsInvariant
<1>1. /\ thread \in [Threads -> {Idle} \cup Asking \cup Syncing \cup Editing \cup Resolving]
      /\ overlapped \in BOOLEAN
  BY DEF ThreadsTyped
<1>2. w.pc \in {"sync", "edit", "resolve"}
  BY DEF Syncing, Editing, Resolving
<1>3. /\ thread'[t] = w
      /\ \A q \in Threads \ {t} : thread'[q] = thread[q]
  BY <1>1
<1>4. overlapped' \in BOOLEAN /\ (overlapped => overlapped')
  BY <1>1 DEF NoteOverlap
<1>5. ~overlapped' => ~overlapped /\ \A q \in Threads \ {t} : ~Writing(q)
  BY <1>1 DEF NoteOverlap
<1>6. TypeOK'
  <2>1. ASSUME w.pc = "resolve" PROVE resets[w.reset] # NoReset
    BY <2>1, RowFacts
  <2> QED
    BY <1>3, <2>1 DEF TypeOK, Writing, Exists
<1>7. ThreadsTyped'
  BY <1>1, <1>4 DEF ThreadsTyped
<1>8. OneWriter'
  BY <1>3, <1>5 DEF OneWriter, Writing
<1>9. ReadStillSo'
  <2> SUFFICES ASSUME ~overlapped', NEW q \in Threads PROVE StillSo(q)'
    BY DEF ReadStillSo
  <2>1. CASE q = t
    BY <2>1, <1>3 DEF StillSo, LosesSuper, ActiveSupers, IsSuper, Exists
  <2>2. CASE q # t
    BY <2>2, <1>3, <1>5 DEF StillSo, Writing
  <2> QED
    BY <2>1, <2>2
<1>10. SeededFirst'
  BY <1>2, <1>3 DEF SeededFirst, Exists
<1>11. AskersKnown' /\ ResetsSettled'
  BY <1>4 DEF AskersKnown, ResetsSettled, Exists
<1>12. AnswersHit'
  <2> SUFFICES ASSUME NEW q \in Threads, thread'[q].pc = "resolve", thread'[q].target # 0
               PROVE  resets[thread'[q].reset].asker \in {0, thread'[q].target} \cup renamed
    BY DEF AnswersHit
  <2>1. CASE q # t
    BY <2>1, <1>3 DEF AnswersHit
  <2>2. CASE q = t
    <3>1. w \in Resolving /\ w.pc = "resolve" /\ w.target # 0
      BY <2>2, <1>3 DEF Syncing, Editing
    <3> DEFINE x == resets[w.reset]
    <3>2. w.target \in Ids /\ w.reset \in ResetIds
      BY <3>1 DEF Resolving
    <3>3. x \in Reset /\ x.name = users[w.target].name
      BY <3>1, <3>2, RowFacts DEF TypeOK
    <3>4. CASE x.asker \in {0} \cup renamed
      BY <3>4, <2>2, <1>3
    <3>5. CASE Exists(x.asker) /\ users[x.asker].name = x.name /\ x.asker # 0
      <4>1. x.asker \in Ids
        BY <3>3, <3>5 DEF Reset
      <4>2. x.asker = w.target
        BY <4>1, <3>2, <3>3, <3>5 DEF TypeOK
      <4> QED
        BY <4>2, <2>2, <1>3
    <3> QED
      BY <3>2, <3>3, <3>4, <3>5, RowFacts DEF AskersKnown
  <2> QED
    BY <2>1, <2>2
<1>13. SuperRemains' /\ EnvNeverOverrides'
  BY <1>4 DEF SuperRemains, EnvNeverOverrides, ActiveSupers, IsSuper, Exists
<1> QED
  BY <1>6, <1>7, <1>8, <1>9, <1>10, <1>11, <1>12, <1>13

(* An account is inserted, by a request that writes to no other.           *)
LEMMA RowInserted ==
    ASSUME AccountsInvariant, NEW t \in Threads, NEW w \in {Idle} \cup Asking,
           NEW x \in User, Named(x.name) = {}, x.source = "env",
           (x.role = "super_admin" /\ x.status = "active") \/ (\E u \in Ids : Exists(u)),
           Insert(x), thread' = [thread EXCEPT ![t] = w],
           UNCHANGED <<resets, env, tokens, overlapped, renamed, chosen>>
    PROVE  AccountsInvariant'
<1> USE DEF AccountsInvariant
<1>1. PICK n \in Ids : ~Exists(n) /\ users' = [users EXCEPT ![n] = x]
  BY DEF Insert
<1>2. /\ users \in [Ids -> User \cup {Missing}]
      /\ users'[n] = x /\ Exists(n)'
      /\ \A u \in Ids \ {n} : users'[u] = users[u]
  BY <1>1, RowFacts DEF TypeOK, Exists
<1>3. \A u \in Ids : Exists(u) => u # n /\ users'[u] = users[u] /\ Exists(u)'
  BY <1>1, <1>2 DEF Exists
<1>4. \A u \in Ids : Exists(u)' => u = n \/ Exists(u)
  BY <1>2 DEF Exists
<1>5. ActiveSupers \subseteq ActiveSupers'
  BY <1>3 DEF ActiveSupers, IsSuper
<1>6. /\ thread'[t] = w /\ w.pc \notin {"sync", "edit", "resolve"}
      /\ \A q \in Threads \ {t} : thread'[q] = thread[q]
  BY DEF Idle, Asking, ThreadsTyped
<1>7. \A q \in Threads : thread'[q].pc \in {"sync", "edit", "resolve"} =>
            q # t /\ thread'[q] = thread[q]
  BY <1>6
<1>8. TypeOK'
  <2>1. users' \in [Ids -> User \cup {Missing}]
    BY <1>1, <1>2
  <2>2. tokens' \subseteq {u \in Ids : Exists(u)'}
    BY <1>3 DEF TypeOK
  <2>3. ASSUME NEW u \in Ids, NEW v \in Ids, Exists(u)', users'[u].name = users'[v].name PROVE u = v
    <3>1. \A y \in Ids \ {n} : users'[y].name # x.name
      <4>1. \A y \in Ids : users[y].name # x.name
        BY DEF Named
      <4> QED
        BY <4>1, <1>2
    <3>2. CASE u = n \/ v = n
      BY <3>1, <3>2, <2>3, <1>2
    <3>3. CASE u # n /\ v # n
      BY <3>3, <2>3, <1>2, <1>4 DEF TypeOK
    <3> QED
      BY <3>2, <3>3
  <2>4. ASSUME NEW q \in Threads, Writing(q)'
        PROVE  /\ thread'[q].pc = "resolve" => resets'[thread'[q].reset] # NoReset
               /\ thread'[q].target # 0 => users'[thread'[q].target] # Missing
    <3>1. Writing(q) /\ thread'[q] = thread[q]
      BY <2>4, <1>7 DEF Writing
    <3>2. thread[q].pc = "resolve" => resets[thread[q].reset] # NoReset
      BY <3>1 DEF TypeOK
    <3>3. thread[q].target # 0 => thread[q].target \in Ids /\ Exists(thread[q].target)
      BY <3>1, Targeted
    <3> QED
      BY <3>1, <3>2, <3>3, <1>3 DEF Exists
  <2> QED
    BY <2>1, <2>2, <2>3, <2>4 DEF TypeOK, Exists
<1>9. ThreadsTyped'
  BY DEF ThreadsTyped
<1>10. OneWriter'
  BY <1>7 DEF OneWriter, Writing
<1>11. ReadStillSo'
  <2> SUFFICES ASSUME ~overlapped, NEW q \in Threads, Writing(q)' PROVE StillSo(q)'
    BY DEF ReadStillSo, StillSo, Writing
  <2>1. Writing(q) /\ thread'[q] = thread[q] /\ StillSo(q)
    BY <1>7 DEF Writing, ReadStillSo
  <2>2. thread[q].pc \in {"sync", "edit"} => users'[thread[q].target] = users[thread[q].target]
    BY <2>1, <1>3, Targeted
  <2> QED
    BY <2>1, <2>2, <1>5 DEF StillSo, LosesSuper
<1>12. SeededFirst'
  BY <1>2 DEF SeededFirst
<1>13. AskersKnown'
  <2>1. ASSUME NEW r \in ResetIds, resets[r] # NoReset
        PROVE  /\ \/ resets[r].asker \in {0} \cup renamed
                  \/ Exists(resets[r].asker)' /\ users'[resets[r].asker].name = resets[r].name
               /\ resets[r].status = "pending" => resets[r].hit = 0
    <3>1. resets[r].asker \in Ids \cup {0}
      BY <2>1 DEF TypeOK, Reset
    <3>2. CASE resets[r].asker \in {0} \cup renamed
      BY <2>1, <3>2 DEF AskersKnown
    <3>3. CASE resets[r].asker \notin {0} \cup renamed
      BY <2>1, <3>1, <3>3, <1>3 DEF AskersKnown
    <3> QED
      BY <3>2, <3>3
  <2> QED
    BY <2>1 DEF AskersKnown
<1>14. AnswersHit' /\ ResetsSettled'
  BY <1>7 DEF AnswersHit, ResetsSettled
<1>15. SuperRemains'
  <2>1. CASE x.role = "super_admin" /\ x.status = "active"
    BY <2>1, <1>2 DEF SuperRemains, ActiveSupers, IsSuper
  <2>2. CASE \E u \in Ids : Exists(u)
    BY <2>2, <1>5 DEF SuperRemains
  <2> QED
    BY <2>1, <2>2
<1>16. EnvNeverOverrides'
  <2>1. \A u \in Ids : (Exists(u)' /\ users'[u].source = "manual") => Exists(u) /\ users'[u] = users[u]
    BY <1>2, <1>3, <1>4
  <2> QED
    BY <2>1 DEF EnvNeverOverrides
<1> QED
  BY <1>8, <1>9, <1>10, <1>11, <1>12, <1>13, <1>14, <1>15, <1>16

(* What a request commits to an account that exists.                       *)
LEMMA RowRewritten ==
    ASSUME AccountsInvariant, NEW t \in Threads, Writing(t),
           NEW n \in Ids, Exists(n), NEW x \in User,
           users' = [users EXCEPT ![n] = x], thread' = [thread EXCEPT ![t] = Idle],
           x.name = users[n].name \/ (Named(x.name) = {} /\ n \in renamed'),
           renamed \subseteq renamed', renamed' \subseteq Ids,
           chosen' \in [Ids -> Passwords \cup {None}],
           \A u \in Ids \ {n} : chosen'[u] = chosen[u],
           ~overlapped /\ x.source = "manual" => x.pw = chosen'[n],
           ~overlapped => (x.role = "super_admin" /\ x.status = "active") \/ ActiveSupers \ {n} # {}
                            \/ n \notin ActiveSupers,
           resets' \in [ResetIds -> Reset \cup {NoReset}],
           \A r \in ResetIds :
                /\ resets'[r] # NoReset <=> resets[r] # NoReset
                /\ resets[r] # NoReset => /\ resets'[r].name = resets[r].name
                                          /\ resets'[r].asker = resets[r].asker
                                          /\ resets'[r].status = "pending" => resets'[r].hit = 0,
           ResetsSettled',
           tokens' \subseteq tokens \cup {n}, UNCHANGED <<env, overlapped>>
    PROVE  AccountsInvariant'
<1> USE DEF AccountsInvariant
<1>1. /\ users \in [Ids -> User \cup {Missing}] /\ users[n] \in User
      /\ users'[n] = x /\ x # Missing
      /\ \A u \in Ids \ {n} : users'[u] = users[u]
  BY RowFacts DEF TypeOK, Exists
<1>2. \A u \in Ids : Exists(u)' <=> Exists(u)
  BY <1>1 DEF Exists
<1>3. /\ thread'[t] = Idle
      /\ \A q \in Threads \ {t} : thread'[q] = thread[q]
  BY DEF ThreadsTyped
<1>4. \A q \in Threads : thread'[q].pc # "idle" => q # t /\ thread'[q] = thread[q]
  BY <1>3 DEF Idle
<1>5. \A q \in Threads : Writing(q)' => q # t /\ thread'[q] = thread[q] /\ Writing(q)
  BY <1>4 DEF Writing
<1>6. ASSUME ~overlapped, NEW q \in Threads PROVE ~Writing(q)'
  BY <1>5, <1>6 DEF OneWriter
<1>7. TypeOK'
  <2>1. users' \in [Ids -> User \cup {Missing}]
    BY <1>1
  <2>2. tokens' \subseteq {u \in Ids : Exists(u)'}
    BY <1>2 DEF TypeOK
  <2>3. ASSUME NEW u \in Ids, NEW v \in Ids, Exists(u)', users'[u].name = users'[v].name PROVE u = v
    <3>1. users[u] # Missing
      BY <1>2, <2>3 DEF Exists
    <3>2. CASE x.name = users[n].name
      <4>1. users[u].name = users[v].name
        BY <1>1, <2>3, <3>2
      <4> QED
        BY <4>1, <3>1 DEF TypeOK, Exists
    <3>3. CASE Named(x.name) = {}
      <4>1. \A y \in Ids : users[y].name # x.name
        BY <3>3 DEF Named
      <4>2. CASE u # n /\ v # n
        BY <4>2, <1>1, <2>3, <3>1 DEF TypeOK, Exists
      <4> QED
        BY <4>1, <4>2, <1>1, <2>3
    <3> QED
      BY <3>2, <3>3
  <2>4. ASSUME NEW q \in Threads, Writing(q)'
        PROVE  /\ thread'[q].pc = "resolve" => resets'[thread'[q].reset] # NoReset
               /\ thread'[q].target # 0 => users'[thread'[q].target] # Missing
    <3>1. Writing(q) /\ thread'[q] = thread[q]
      BY <2>4, <1>5
    <3>2. thread[q].pc = "resolve" => thread[q].reset \in ResetIds /\ resets[thread[q].reset] # NoReset
      BY <3>1, Targeted, RowFacts
    <3>3. thread[q].target # 0 => thread[q].target \in Ids /\ Exists(thread[q].target)
      BY <3>1, Targeted
    <3> QED
      BY <3>1, <3>2, <3>3, <1>2 DEF Exists
  <2>5. env' \in Passwords
    BY DEF TypeOK
  <2> QED
    BY <2>1, <2>2, <2>3, <2>4, <2>5 DEF TypeOK, Exists
<1>8. ThreadsTyped'
  BY DEF ThreadsTyped
<1>9. OneWriter' /\ ReadStillSo'
  BY <1>6 DEF OneWriter, ReadStillSo, StillSo, Writing
<1>10. SeededFirst'
  BY <1>2 DEF SeededFirst
<1>11. AskersKnown'
  <2>1. ASSUME NEW r \in ResetIds, resets'[r] # NoReset, resets[r].asker \notin {0} \cup renamed'
        PROVE  Exists(resets[r].asker)' /\ users'[resets[r].asker].name = resets[r].name
    <3>1. resets[r] # NoReset
      BY <2>1
    <3>2. resets[r].asker \in Ids
      BY <2>1, <3>1 DEF TypeOK, Reset
    <3>3. Exists(resets[r].asker) /\ users[resets[r].asker].name = resets[r].name
      BY <2>1, <3>1 DEF AskersKnown
    <3>4. users'[resets[r].asker].name = users[resets[r].asker].name
      BY <1>1, <2>1, <3>2
    <3> QED
      BY <3>2, <3>3, <3>4, <1>2
  <2>2. ASSUME NEW r \in ResetIds, resets'[r] # NoReset
        PROVE  /\ resets'[r].asker = resets[r].asker /\ resets'[r].name = resets[r].name
               /\ resets'[r].status = "pending" => resets'[r].hit = 0
    BY <2>2
  <2> QED
    BY <2>1, <2>2 DEF AskersKnown, Exists
<1>12. AnswersHit'
  <2> SUFFICES ASSUME NEW q \in Threads, thread'[q].pc = "resolve", thread'[q].target # 0
               PROVE  resets'[thread'[q].reset].asker \in {0, thread'[q].target} \cup renamed'
    BY DEF AnswersHit
  <2>1. Writing(q) /\ thread'[q] = thread[q]
    BY <1>4 DEF Writing
  <2>2. thread[q].reset \in ResetIds /\ resets[thread[q].reset] # NoReset
    BY <2>1, Targeted, RowFacts
  <2> QED
    BY <2>1, <2>2 DEF AnswersHit
<1>13. SuperRemains'
  <2> SUFFICES ASSUME ~overlapped, ActiveSupers # {} PROVE ActiveSupers' # {}
    BY <1>2 DEF SuperRemains
  <2>1. CASE x.role = "super_admin" /\ x.status = "active"
    BY <2>1, <1>1 DEF ActiveSupers, IsSuper, Exists
  <2>2. CASE ActiveSupers \ {n} # {} \/ n \notin ActiveSupers
    <3>1. PICK k \in ActiveSupers : k # n
      BY <2>2
    <3>2. k \in Ids /\ users'[k] = users[k]
      BY <3>1, <1>1 DEF ActiveSupers
    <3> QED
      BY <3>1, <3>2 DEF ActiveSupers, IsSuper, Exists
  <2> QED
    BY <2>1, <2>2
<1>14. EnvNeverOverrides'
  BY <1>1, <1>2 DEF EnvNeverOverrides
<1> QED
  BY <1>7, <1>8, <1>9, <1>10, <1>11, <1>12, <1>13, <1>14

-----------------------------------------------------------------------------
(* The actions of the public requests.                                     *)
LEMMA ArriveKeeps ==
    ASSUME AccountsInvariant, NEW t \in Threads,
           NEW op \in {"token", "register", "forgot"}, NEW name \in Usernames,
           NEW pw \in Passwords \cup {None}, NEW role \in Roles \cup {None},
           op # "forgot" => pw \in Passwords, op = "register" => role \in Roles,
           Arrive(t, op, name, pw, role)
    PROVE  AccountsInvariant'
<1> DEFINE w == [pc |-> IF NeedsSeed THEN "seed" ELSE op, op |-> op,
                 name |-> name, pw |-> pw, role |-> role]
<1>1. w \in Asking /\ w.pc \in {"seed", op}
  BY DEF Asking
<1>2. w.pc # "seed" => \E u \in Ids : Exists(u)
  BY RowFacts DEF NeedsSeed, IsSuper, Named, Exists
<1>3. /\ thread' = [thread EXCEPT ![t] = w]
      /\ UNCHANGED <<users, resets, env, tokens, overlapped, renamed, chosen>>
  BY DEF Arrive, Begin
<1>4. tokens' \subseteq {u \in Ids : Exists(u)} /\ env' \in Passwords
  BY <1>3 DEF AccountsInvariant, TypeOK
<1> HIDE DEF w
<1> QED
  BY <1>1, <1>2, <1>3, <1>4, QuietStep

(* The seeding of the first super admin.                                   *)
LEMMA SeedKeeps ==
    ASSUME AccountsInvariant, NEW t \in Threads, Seed(t)
    PROVE  AccountsInvariant'
<1>1. thread[t] \in Asking
  BY Carried DEF Seed, AccountsInvariant
<1>2. env \in Passwords /\ tokens \subseteq {u \in Ids : Exists(u)}
  BY DEF AccountsInvariant, TypeOK
<1>3. CASE Named(AdminName) = {}
  <2> DEFINE x == Account(AdminName, env, "super_admin", "active")
             w == [thread[t] EXCEPT !.pc = thread[t].op]
  <2>1. x \in User /\ x.name = AdminName /\ x.source = "env" /\ x.role = "super_admin" /\ x.status = "active"
    BY <1>2, RowFacts DEF Account, User, Roles, Statuses
  <2>2. w \in Asking
    BY <1>1 DEF Asking
  <2>3. /\ Insert(x) /\ thread' = [thread EXCEPT ![t] = w]
        /\ UNCHANGED <<resets, env, tokens, overlapped, renamed, chosen>>
    <3>1. thread' = [thread EXCEPT ![t].pc = thread[t].op]
      BY <1>3 DEF Seed, Goto
    <3>2. thread' = [thread EXCEPT ![t] = w]
      BY <3>1
    <3> QED
      BY <1>3, <3>2 DEF Seed
  <2> HIDE DEF x, w
  <2> QED
    BY <1>3, <2>1, <2>2, <2>3, RowInserted
<1>4. CASE Named(AdminName) # {}
  BY <1>2, <1>4, QuietStep DEF Seed, End, Idle
<1> QED
  BY <1>3, <1>4

(* Signing in, with the stored password or the environment's.              *)
LEMMA SignInKeeps ==
    ASSUME AccountsInvariant, NEW t \in Threads, SignIn(t)
    PROVE  AccountsInvariant'
<1>1. thread[t] \in Asking /\ thread[t].op = "token" /\ thread[t].pc = "token"
  <2>1. thread[t] \in Asking /\ thread[t].pc = "token"
    BY Carried DEF SignIn, AccountsInvariant
  <2> QED
    BY <2>1 DEF Asking
<1>2. thread[t].name \in Usernames /\ thread[t].pw \in Passwords
  BY <1>1 DEF Asking
<1>3. /\ env \in Passwords /\ tokens \subseteq {u \in Ids : Exists(u)}
      /\ \A u \in Named(thread[t].name) : u \in Ids /\ Exists(u)
  BY <1>2, RowFacts DEF AccountsInvariant, TypeOK, Named, Exists
<1>4. CASE /\ thread' = [thread EXCEPT ![t] = Idle] /\ overlapped' = overlapped
           /\ tokens' \subseteq tokens \cup Named(thread[t].name)
  <2>1. tokens' \subseteq {u \in Ids : Exists(u)}
    BY <1>3, <1>4
  <2> QED
    BY <1>3, <1>4, <2>1, QuietStep DEF SignIn, Idle
<1>5. ASSUME NEW u \in Named(thread[t].name), ByEnv(u, thread[t].name, thread[t].pw),
             thread' = [thread EXCEPT ![t] = [pc |-> "sync", target |-> u, pw |-> thread[t].pw]],
             NoteOverlap(t), tokens' = tokens
      PROVE  AccountsInvariant'
  <2> DEFINE w == [pc |-> "sync", target |-> u, pw |-> thread[t].pw]
  <2>1. w \in Syncing /\ w.pc = "sync" /\ Exists(w.target) /\ users[w.target].source = "env"
    BY <1>2, <1>3, <1>5 DEF Syncing, ByEnv
  <2>2. thread' = [thread EXCEPT ![t] = w]
    BY <1>5
  <2> HIDE DEF w
  <2> QED
    BY <1>5, <2>1, <2>2, WriterBegins DEF SignIn
<1>6. \/ /\ thread' = [thread EXCEPT ![t] = Idle] /\ overlapped' = overlapped
         /\ tokens' \subseteq tokens \cup Named(thread[t].name)
      \/ \E u \in Named(thread[t].name) :
            /\ ByEnv(u, thread[t].name, thread[t].pw)
            /\ thread' = [thread EXCEPT ![t] = [pc |-> "sync", target |-> u, pw |-> thread[t].pw]]
            /\ NoteOverlap(t) /\ tokens' = tokens
  BY DEF SignIn, End
<1> QED
  BY <1>4, <1>5, <1>6

(* The password of the environment is stored.                              *)
LEMMA SyncKeeps ==
    ASSUME AccountsInvariant, NEW t \in Threads, Sync(t)
    PROVE  AccountsInvariant'
<1> USE DEF AccountsInvariant
<1>1. thread[t] \in Syncing /\ thread[t].pc = "sync" /\ Writing(t)
  BY Carried DEF Sync, Writing
<1> DEFINE n == thread[t].target
           x == [users[n] EXCEPT !.pw = thread[t].pw]
<1>2. n \in Ids /\ Exists(n) /\ thread[t].pw \in Passwords
  BY <1>1, Targeted DEF Syncing
<1>3. users[n] \in User
  BY <1>2 DEF TypeOK, Exists
<1>4. /\ x \in User /\ x.name = users[n].name /\ x.role = users[n].role
      /\ x.status = users[n].status /\ x.source = users[n].source
  BY <1>2, <1>3 DEF User
<1>5. ~overlapped => x.source = "env"
  BY <1>1, <1>4 DEF ReadStillSo, StillSo
<1>6. (x.role = "super_admin" /\ x.status = "active") \/ n \notin ActiveSupers
  BY <1>4 DEF ActiveSupers, IsSuper
<1>7. /\ users' = [users EXCEPT ![n] = x] /\ thread' = [thread EXCEPT ![t] = Idle]
      /\ tokens' = tokens \cup {n}
      /\ UNCHANGED <<resets, env, overlapped, renamed, chosen>>
  BY DEF Sync, End
<1>8. /\ renamed \subseteq Ids /\ chosen \in [Ids -> Passwords \cup {None}]
      /\ resets \in [ResetIds -> Reset \cup {NoReset}]
      /\ \A r \in ResetIds : resets[r] # NoReset => (resets[r].status = "pending" => resets[r].hit = 0)
  BY DEF TypeOK, AskersKnown
<1>9. ResetsSettled'
  BY <1>7 DEF ResetsSettled
<1> HIDE DEF n, x
<1> QED
  BY <1>1, <1>2, <1>4, <1>5, <1>6, <1>7, <1>8, <1>9, RowRewritten

(* Registration: a taken name ends it, early or late.                      *)
LEMMA RegisterKeeps ==
    ASSUME AccountsInvariant, NEW t \in Threads, Register(t)
    PROVE  AccountsInvariant'
<1>1. thread[t] \in Asking /\ thread[t].op = "register"
  <2>1. thread[t] \in Asking /\ thread[t].pc = "register"
    BY Carried DEF Register, AccountsInvariant
  <2> QED
    BY <2>1 DEF Asking
<1>2. env \in Passwords /\ tokens \subseteq {u \in Ids : Exists(u)} /\ \E u \in Ids : Exists(u)
  BY DEF AccountsInvariant, TypeOK, SeededFirst, Register
<1>3. \E w \in {Idle} \cup Asking : thread' = [thread EXCEPT ![t] = w]
  <2>1. [thread[t] EXCEPT !.pc = "insert"] \in Asking
    BY <1>1 DEF Asking
  <2>2. thread' = [thread EXCEPT ![t].pc = "insert"] \/ thread' = [thread EXCEPT ![t] = Idle]
    BY DEF Register, Goto, End
  <2> QED
    BY <2>1, <2>2
<1> QED
  BY <1>2, <1>3, QuietStep DEF Register

(* The registration is committed.                                          *)
LEMMA RegisterCommitKeeps ==
    ASSUME AccountsInvariant, NEW t \in Threads, RegisterCommit(t)
    PROVE  AccountsInvariant'
<1>1. /\ thread[t] \in Asking /\ thread[t].name \in Usernames
      /\ thread[t].pw \in Passwords /\ thread[t].role \in Roles
  <2>1. thread[t] \in Asking /\ thread[t].pc = "insert"
    BY Carried DEF RegisterCommit, AccountsInvariant
  <2> QED
    BY <2>1 DEF Asking
<1>2. env \in Passwords /\ tokens \subseteq {u \in Ids : Exists(u)} /\ \E u \in Ids : Exists(u)
  BY DEF AccountsInvariant, TypeOK, SeededFirst, RegisterCommit
<1>3. thread' = [thread EXCEPT ![t] = Idle] /\ UNCHANGED <<resets, env, tokens, overlapped, renamed, chosen>>
  BY DEF RegisterCommit, End
<1>4. CASE Named(thread[t].name) = {}
  <2> DEFINE x == Account(thread[t].name, thread[t].pw, thread[t].role, "pending")
  <2>1. x \in User /\ x.name = thread[t].name /\ x.source = "env"
    BY <1>1 DEF Account, User, Statuses
  <2>2. Insert(x)
    BY <1>4 DEF RegisterCommit
  <2> HIDE DEF x
  <2> QED
    BY <1>2, <1>3, <1>4, <2>1, <2>2, RowInserted
<1>5. CASE Named(thread[t].name) # {}
  BY <1>2, <1>3, <1>5, QuietStep DEF RegisterCommit, Idle
<1> QED
  BY <1>4, <1>5

(* A forgotten password is recorded.                                       *)
LEMMA ForgotKeeps ==
    ASSUME AccountsInvariant, NEW t \in Threads, Forgot(t)
    PROVE  AccountsInvariant'
<1> USE DEF AccountsInvariant
<1>1. thread[t] \in Asking /\ thread[t].pc = "forgot" /\ thread[t].name \in Usernames
  <2>1. thread[t] \in Asking /\ thread[t].pc = "forgot"
    BY Carried DEF Forgot
  <2> QED
    BY <2>1 DEF Asking
<1>2. PICK r \in ResetIds, u \in Ids \cup {0} :
        /\ resets[r] = NoReset
        /\ IF u = 0 THEN Named(thread[t].name) = {} ELSE u \in Named(thread[t].name)
        /\ resets' = [resets EXCEPT ![r] =
                [name |-> thread[t].name, status |-> "pending", asker |-> u, hit |-> 0]]
  BY DEF Forgot
<1> DEFINE x == [name |-> thread[t].name, status |-> "pending", asker |-> u, hit |-> 0]
<1>3. x \in Reset /\ x # NoReset
  BY <1>1, RowFacts DEF Reset
<1>4. /\ x.status = "pending" /\ x.hit = 0 /\ x.asker = u
      /\ u # 0 => Exists(u) /\ users[u].name = x.name
  BY <1>1, <1>2, RowFacts DEF Named, Exists
<1>5. resets \in [ResetIds -> Reset \cup {NoReset}] /\ resets' = [resets EXCEPT ![r] = x]
  BY <1>2 DEF TypeOK
<1> HIDE DEF x
<1>6. resets'[r] = x /\ \A q \in ResetIds \ {r} : resets'[q] = resets[q]
  BY <1>5
<1>7. /\ thread' = [thread EXCEPT ![t] = Idle]
      /\ UNCHANGED <<users, env, tokens, overlapped, renamed, chosen>>
  BY DEF Forgot, End
<1>8. \A q \in Threads : thread'[q].pc # "idle" => q # t /\ thread'[q] = thread[q]
  BY <1>7 DEF Idle, ThreadsTyped
<1>9. ASSUME NEW q \in Threads, thread'[q].pc = "resolve"
      PROVE  /\ thread'[q] = thread[q] /\ thread[q].reset \in ResetIds
             /\ resets[thread[q].reset] # NoReset
             /\ resets'[thread[q].reset] = resets[thread[q].reset]
  <2>1. thread'[q] = thread[q] /\ Writing(q)
    BY <1>8, <1>9 DEF Writing
  <2>2. thread[q].reset \in ResetIds /\ resets[thread[q].reset] # NoReset
    BY <2>1, <1>9, Targeted, RowFacts
  <2> QED
    BY <2>1, <2>2, <1>2, <1>6
<1>10. TypeOK'
  <2>1. resets' \in [ResetIds -> Reset \cup {NoReset}]
    BY <1>3, <1>5
  <2>2. ASSUME NEW q \in Threads, Writing(q)'
        PROVE  /\ thread'[q].pc = "resolve" => resets'[thread'[q].reset] # NoReset
               /\ thread'[q].target # 0 => users'[thread'[q].target] # Missing
    <3>1. Writing(q) /\ thread'[q] = thread[q]
      BY <2>2, <1>8 DEF Writing
    <3>2. thread[q].target # 0 => Exists(thread[q].target)
      BY <3>1 DEF TypeOK
    <3> QED
      BY <3>1, <3>2, <1>7, <1>9 DEF Exists
  <2> QED
    BY <2>1, <2>2, <1>7 DEF TypeOK, Exists
<1>11. ThreadsTyped' /\ OneWriter' /\ SeededFirst'
  BY <1>7, <1>8 DEF ThreadsTyped, OneWriter, Writing, SeededFirst, Exists
<1>12. ReadStillSo'
  <2> SUFFICES ASSUME ~overlapped, NEW q \in Threads, Writing(q)' PROVE StillSo(q)'
    BY <1>7 DEF ReadStillSo, StillSo, Writing
  <2>1. thread'[q] = thread[q] /\ StillSo(q)
    BY <1>8 DEF Writing, ReadStillSo
  <2> QED
    BY <2>1, <1>7, <1>9 DEF StillSo, LosesSuper, ActiveSupers, IsSuper, Exists
<1>13. AskersKnown' /\ ResetsSettled'
  BY <1>3, <1>4, <1>6, <1>7 DEF AskersKnown, ResetsSettled, Exists
<1>14. AnswersHit'
  BY <1>7, <1>9 DEF AnswersHit
<1>15. SuperRemains' /\ EnvNeverOverrides'
  BY <1>7 DEF SuperRemains, EnvNeverOverrides, ActiveSupers, IsSuper, Exists
<1> QED
  BY <1>10, <1>11, <1>12, <1>13, <1>14, <1>15

-----------------------------------------------------------------------------
(* The requests of administrators.                                         *)
LEMMA EditBegins ==
    ASSUME AccountsInvariant, NEW t \in Threads, NEW k \in Ids, NEW u \in Ids, NEW body \in Body,
           Exists(u), LosesSuper(u, body) => ActiveSupers \ {u} # {},
           AdminBegin(t, k, [pc |-> "edit", target |-> u, loaded |-> users[u], body |-> body])
    PROVE  AccountsInvariant'
<1> DEFINE w == [pc |-> "edit", target |-> u, loaded |-> users[u], body |-> body]
<1>1. users[u] \in User
  BY DEF AccountsInvariant, TypeOK, Exists
<1>2. w \in Editing /\ w.pc = "edit" /\ w.target = u /\ w.body = body
  BY <1>1 DEF Editing
<1>3. /\ thread' = [thread EXCEPT ![t] = w] /\ NoteOverlap(t)
      /\ UNCHANGED <<users, resets, env, tokens, renamed, chosen>>
  BY DEF AdminBegin, Begin
<1> HIDE DEF w
<1> QED
  BY <1>2, <1>3, WriterBegins

(* Statuses to be set are bodies that leave the rest alone.                *)
LEMMA StatusBodies ==
    ASSUME NEW status \in Statuses
    PROVE  SetStatus(status) \in Body /\ SetStatus(status).role = None /\ SetStatus(status).status = status
BY DEF SetStatus, Body

(* An administrator begins to answer a request for a password.             *)
LEMMA AnswerBegins ==
    ASSUME AccountsInvariant, NEW t \in Threads, NEW k \in Ids, NEW r \in ResetIds,
           NEW u \in Ids \cup {0}, NEW pw \in Passwords \cup {None},
           resets[r].status = "pending",
           u # 0 => u \in Named(resets[r].name) /\ pw \in Passwords,
           AdminBegin(t, k, [pc |-> "resolve", reset |-> r, target |-> u, pw |-> pw])
    PROVE  AccountsInvariant'
<1> DEFINE w == [pc |-> "resolve", reset |-> r, target |-> u, pw |-> pw]
<1>1. resets[r] \in Reset
  BY RowFacts DEF AccountsInvariant, TypeOK
<1>2. u # 0 => Exists(u) /\ users[u].name = resets[r].name
  BY <1>1, RowFacts DEF Named, Exists, Reset
<1>3. w \in Resolving /\ w.pc = "resolve" /\ w.target = u /\ w.reset = r
  BY DEF Resolving
<1>4. /\ thread' = [thread EXCEPT ![t] = w] /\ NoteOverlap(t)
      /\ UNCHANGED <<users, resets, env, tokens, renamed, chosen>>
  BY DEF AdminBegin, Begin
<1> HIDE DEF w
<1> QED
  BY <1>2, <1>3, <1>4, WriterBegins

(* What an edit writes.                                                    *)
LEMMA EditCommitKeeps ==
    ASSUME AccountsInvariant, NEW t \in Threads, EditCommit(t)
    PROVE  AccountsInvariant'
<1> USE DEF AccountsInvariant
<1>1. thread[t] \in Editing /\ thread[t].pc = "edit" /\ Writing(t)
  BY Carried DEF EditCommit, Writing
<1>2. PICK n \in Ids, body \in Body, loaded \in User :
        n = thread[t].target /\ body = thread[t].body /\ loaded = thread[t].loaded
  BY <1>1 DEF Editing
<1>3. Exists(n) /\ users[n] \in User
  BY <1>1, <1>2, Targeted DEF TypeOK, Exists
<1>4. /\ thread' = [thread EXCEPT ![t] = Idle]
      /\ UNCHANGED <<resets, env, tokens, overlapped>>
  BY DEF EditCommit, End
<1>5. /\ renamed \subseteq Ids /\ chosen \in [Ids -> Passwords \cup {None}]
      /\ resets \in [ResetIds -> Reset \cup {NoReset}]
      /\ \A r \in ResetIds : resets[r] # NoReset => (resets[r].status = "pending" => resets[r].hit = 0)
      /\ users \in [Ids -> User \cup {Missing}]
  BY DEF TypeOK, AskersKnown
<1>6. ~overlapped => (LosesSuper(n, body) => ActiveSupers \ {n} # {})
  BY <1>1, <1>2 DEF ReadStillSo, StillSo
<1>7. CASE body.name \notin {None, loaded.name} /\ Named(body.name) # {}
  <2>1. UNCHANGED <<users, renamed, chosen>>
    BY <1>2, <1>7 DEF EditCommit
  <2>2. users' = [users EXCEPT ![n] = users[n]]
    BY <2>1, <1>5
  <2>3. ~overlapped /\ users[n].source = "manual" => users[n].pw = chosen'[n]
    BY <2>1, <1>3 DEF EnvNeverOverrides
  <2>4. (users[n].role = "super_admin" /\ users[n].status = "active") \/ n \notin ActiveSupers
    BY DEF ActiveSupers, IsSuper
  <2>5. ResetsSettled'
    BY <1>4, <2>1 DEF ResetsSettled
  <2> QED
    BY <1>1, <1>3, <1>4, <1>5, <2>1, <2>2, <2>3, <2>4, <2>5, RowRewritten
<1>8. CASE ~(body.name \notin {None, loaded.name} /\ Named(body.name) # {})
  <2> DEFINE x == [name |-> IF body.name \notin {None, loaded.name} THEN body.name ELSE users[n].name,
                   role |-> IF body.role \notin {None, loaded.role} THEN body.role ELSE users[n].role,
                   status |-> IF body.status \notin {None, loaded.status} THEN body.status ELSE users[n].status,
                   pw |-> IF body.pw = None THEN users[n].pw ELSE body.pw,
                   source |-> IF body.pw = None THEN users[n].source ELSE "manual"]
  <2>1. /\ users' = [users EXCEPT ![n] = x]
        /\ renamed' = IF body.name \notin {None, loaded.name} THEN renamed \cup {n} ELSE renamed
        /\ chosen' = IF body.pw = None THEN chosen ELSE [chosen EXCEPT ![n] = body.pw]
    BY <1>2, <1>5, <1>8 DEF EditCommit
  <2>2. /\ body.name \in Usernames \cup {None} /\ body.role \in Roles \cup {None}
        /\ body.status \in Statuses \cup {None} /\ body.pw \in Passwords \cup {None}
    BY DEF Body
  <2>3. /\ users[n].name \in Usernames /\ users[n].role \in Roles /\ users[n].pw \in Passwords
        /\ users[n].status \in Statuses /\ users[n].source \in {"env", "manual"}
    BY <1>3 DEF User
  <2>4. x \in User
    BY <2>2, <2>3 DEF User
  <2>5. x.name = users[n].name \/ (Named(x.name) = {} /\ n \in renamed')
    BY <1>8, <2>1
  <2>6. /\ renamed \subseteq renamed' /\ renamed' \subseteq Ids
        /\ chosen' \in [Ids -> Passwords \cup {None}]
        /\ \A u \in Ids \ {n} : chosen'[u] = chosen[u]
    BY <1>5, <2>1, <2>2
  <2>7. ~overlapped /\ x.source = "manual" => x.pw = chosen'[n]
    <3>1. CASE body.pw = None
      BY <3>1, <1>3, <2>1 DEF EnvNeverOverrides
    <3>2. CASE body.pw # None
      BY <3>2, <1>5, <2>1
    <3> QED
      BY <3>1, <3>2
  <2>8. ~overlapped => (x.role = "super_admin" /\ x.status = "active") \/ ActiveSupers \ {n} # {}
                            \/ n \notin ActiveSupers
    <3> SUFFICES ASSUME ~overlapped, n \in ActiveSupers, ActiveSupers \ {n} = {}
                 PROVE  x.role = "super_admin" /\ x.status = "active"
      OBVIOUS
    <3>1. users[n].role = "super_admin" /\ users[n].status = "active"
      BY DEF ActiveSupers, IsSuper
    <3>2. body.role \in {None, "super_admin"} /\ body.status \in {None, "active"}
      BY <1>6, <3>1 DEF LosesSuper
    <3> QED
      BY <3>1, <3>2
  <2>9. ResetsSettled'
    BY <1>4, <2>6 DEF ResetsSettled
  <2> HIDE DEF x
  <2> QED
    BY <1>1, <1>3, <1>4, <1>5, <2>1, <2>4, <2>5, <2>6, <2>7, <2>8, <2>9, RowRewritten
<1> QED
  BY <1>7, <1>8

(* The answer to a request for a password is committed.                    *)
LEMMA ResolveCommitKeeps ==
    ASSUME AccountsInvariant, NEW t \in Threads, ResolveCommit(t)
    PROVE  AccountsInvariant'
<1> USE DEF AccountsInvariant
<1>1. thread[t] \in Resolving /\ thread[t].pc = "resolve" /\ Writing(t)
  BY Carried DEF ResolveCommit, Writing
<1>2. PICK n \in Ids \cup {0}, pw \in Passwords \cup {None}, a \in ResetIds :
        n = thread[t].target /\ pw = thread[t].pw /\ a = thread[t].reset
        /\ (n # 0 => pw \in Passwords)
  BY <1>1 DEF Resolving
<1>3. /\ thread' = [thread EXCEPT ![t] = Idle]
      /\ UNCHANGED <<env, tokens, overlapped, renamed>>
  BY DEF ResolveCommit, End
<1>4. /\ renamed \subseteq Ids /\ chosen \in [Ids -> Passwords \cup {None}]
      /\ resets \in [ResetIds -> Reset \cup {NoReset}] /\ resets[a] \in Reset
      /\ users \in [Ids -> User \cup {Missing}]
  BY <1>1, <1>2, Targeted DEF TypeOK
<1>5. ~overlapped => resets[a].status = "pending" /\ resets[a].hit = 0
  BY <1>1, <1>2, <1>4, RowFacts DEF ReadStillSo, StillSo, AskersKnown
<1> DEFINE x == IF n = 0 THEN [resets[a] EXCEPT !.status = "rejected"]
                ELSE [resets[a] EXCEPT !.status = "resolved", !.hit = n]
<1>6. /\ x \in Reset /\ x # NoReset /\ x.name = resets[a].name /\ x.asker = resets[a].asker
      /\ x.status # "pending" /\ (x.status = "rejected" => n = 0)
      /\ x.hit = IF n = 0 THEN resets[a].hit ELSE n
  <2>1. x \in Reset
    BY <1>4 DEF Reset
  <2> QED
    BY <2>1, <1>4, RowFacts DEF Reset
<1>7. resets' = [resets EXCEPT ![a] = x]
  <2>1. CASE n = 0
    BY <2>1, <1>2, <1>4 DEF ResolveCommit
  <2>2. CASE n # 0
    BY <2>2, <1>2, <1>4 DEF ResolveCommit, Reset
  <2> QED
    BY <2>1, <2>2
<1> HIDE DEF x
<1>8. /\ resets' \in [ResetIds -> Reset \cup {NoReset}]
      /\ resets'[a] = x /\ \A r \in ResetIds \ {a} : resets'[r] = resets[r]
  BY <1>4, <1>6, <1>7
<1>9. \A r \in ResetIds :
        /\ resets'[r] # NoReset <=> resets[r] # NoReset
        /\ resets[r] # NoReset => /\ resets'[r].name = resets[r].name
                                  /\ resets'[r].asker = resets[r].asker
                                  /\ resets'[r].status = "pending" => resets'[r].hit = 0
  BY <1>4, <1>6, <1>8, RowFacts DEF AskersKnown
<1>10. ResetsSettled'
  <2> SUFFICES ASSUME NEW r \in ResetIds, resets'[r] # NoReset
               PROVE  /\ resets'[r].hit # 0 => resets'[r].asker \in {0, resets'[r].hit} \cup renamed
                      /\ ~overlapped /\ resets'[r].status = "rejected" => resets'[r].hit = 0
    BY <1>3 DEF ResetsSettled
  <2>1. CASE r # a
    BY <2>1, <1>8 DEF ResetsSettled
  <2>2. CASE r = a
    <3>1. n # 0 => x.asker \in {0, n} \cup renamed
      BY <1>1, <1>2, <1>6 DEF AnswersHit
    <3>2. resets[a].hit # 0 => x.asker \in {0, resets[a].hit} \cup renamed
      BY <1>4, <1>6, RowFacts DEF ResetsSettled
    <3>3. resets'[r] = x
      BY <2>2, <1>8
    <3>4. ~overlapped /\ x.status = "rejected" => x.hit = 0
      BY <1>5, <1>6
    <3>5. x.hit # 0 => x.asker \in {0, x.hit} \cup renamed
      BY <3>1, <3>2, <1>6
    <3> QED
      BY <3>3, <3>4, <3>5
  <2> QED
    BY <2>1, <2>2
<1>11. CASE n # 0
  <2> DEFINE y == [users[n] EXCEPT !.pw = pw, !.source = "manual"]
  <2>1. n \in Ids /\ Exists(n) /\ users[n] \in User
    BY <1>1, <1>2, <1>4, <1>11, Targeted DEF Exists
  <2>2. /\ y \in User /\ y.name = users[n].name /\ y.role = users[n].role
        /\ y.status = users[n].status /\ y.pw = pw
    BY <1>2, <1>11, <2>1 DEF User
  <2>3. (y.role = "super_admin" /\ y.status = "active") \/ n \notin ActiveSupers
    BY <2>2 DEF ActiveSupers, IsSuper
  <2>4. chosen' = [chosen EXCEPT ![n] = pw]
    BY <1>2, <1>11 DEF ResolveCommit
  <2>5. users' = [users EXCEPT ![n] = y]
    BY <1>2, <1>4, <1>11, <2>1 DEF ResolveCommit, User
  <2> HIDE DEF y
  <2>6. /\ chosen' \in [Ids -> Passwords \cup {None}] /\ chosen'[n] = pw
        /\ \A u \in Ids \ {n} : chosen'[u] = chosen[u]
    BY <1>2, <1>4, <2>1, <2>4
  <2> QED
    BY <1>1, <1>3, <1>4, <1>8, <1>9, <1>10, <2>1, <2>2, <2>3, <2>5, <2>6, RowRewritten
<1>12. CASE n = 0
  <2>1. UNCHANGED <<users, chosen>>
    BY <1>2, <1>12 DEF ResolveCommit
  <2>2. \A q \in Threads : thread'[q].pc # "idle" => q # t /\ thread'[q] = thread[q]
    BY <1>3 DEF Idle, ThreadsTyped
  <2>3. \A q \in Threads : Writing(q)' => q # t /\ thread'[q] = thread[q] /\ Writing(q)
    BY <2>2 DEF Writing
  <2>4. ASSUME NEW q \in Threads, thread'[q].pc = "resolve"
        PROVE  /\ thread'[q] = thread[q] /\ thread[q].reset \in ResetIds
               /\ resets'[thread[q].reset] # NoReset
               /\ resets'[thread[q].reset].asker = resets[thread[q].reset].asker
    <3>1. thread'[q] = thread[q] /\ Writing(q)
      BY <2>2, <2>4 DEF Writing
    <3>2. thread[q].reset \in ResetIds /\ resets[thread[q].reset] # NoReset
      BY <3>1, <2>4, Targeted, RowFacts
    <3> QED
      BY <3>1, <3>2, <1>9
  <2>5. TypeOK'
    <3>1. ASSUME NEW q \in Threads, Writing(q)'
          PROVE  /\ thread'[q].pc = "resolve" => resets'[thread'[q].reset] # NoReset
                 /\ thread'[q].target # 0 => users'[thread'[q].target] # Missing
      <4>1. Writing(q) /\ thread'[q] = thread[q]
        BY <2>3, <3>1
      <4>2. thread[q].target # 0 => Exists(thread[q].target)
        BY <4>1 DEF TypeOK
      <4> QED
        BY <4>1, <4>2, <2>1, <2>4 DEF Exists
    <3> QED
      BY <3>1, <2>1, <1>3, <1>8 DEF TypeOK, Exists
  <2>6. ThreadsTyped' /\ OneWriter' /\ SeededFirst'
    BY <1>3, <2>1, <2>2, <2>3 DEF ThreadsTyped, OneWriter, SeededFirst, Exists
  <2>7. ReadStillSo'
    BY <1>1, <1>3, <2>3 DEF OneWriter, ReadStillSo, StillSo, Writing
  <2>8. AskersKnown'
    BY <1>3, <1>9, <2>1 DEF AskersKnown, Exists
  <2>9. AnswersHit'
    BY <1>3, <2>4 DEF AnswersHit
  <2>10. SuperRemains' /\ EnvNeverOverrides'
    BY <1>3, <2>1 DEF SuperRemains, EnvNeverOverrides, ActiveSupers, IsSuper, Exists
  <2> QED
    BY <1>10, <2>5, <2>6, <2>7, <2>8, <2>9, <2>10
<1> QED
  BY <1>11, <1>12

(* A restart forgets the requests in progress.                             *)
LEMMA RestartKeeps == AccountsInvariant /\ Restart => AccountsInvariant'
<1> SUFFICES ASSUME AccountsInvariant, Restart PROVE AccountsInvariant'
  OBVIOUS
<1> USE DEF AccountsInvariant, Restart
<1>1. \A q \in Threads : thread'[q] = Idle /\ thread'[q].pc = "idle"
  BY DEF Idle
<1>2. TypeOK'
  BY <1>1 DEF TypeOK, Exists, Writing
<1>3. ThreadsTyped' /\ OneWriter' /\ ReadStillSo' /\ SeededFirst' /\ AnswersHit'
  BY <1>1 DEF ThreadsTyped, OneWriter, ReadStillSo, StillSo, SeededFirst, AnswersHit, Writing
<1>4. AskersKnown' /\ ResetsSettled' /\ SuperRemains' /\ EnvNeverOverrides'
  BY DEF AskersKnown, ResetsSettled, SuperRemains, EnvNeverOverrides, ActiveSupers, IsSuper, Exists
<1> QED
  BY <1>2, <1>3, <1>4

(* Nothing happens.                                                        *)
LEMMA AccountsStutter == AccountsInvariant /\ UNCHANGED vars => AccountsInvariant'
<1> SUFFICES ASSUME AccountsInvariant, UNCHANGED vars PROVE AccountsInvariant'
  OBVIOUS
<1> USE DEF AccountsInvariant, vars
<1>1. TypeOK' /\ ThreadsTyped'
  BY DEF TypeOK, ThreadsTyped, Exists, Writing
<1>2. OneWriter' /\ ReadStillSo' /\ SeededFirst' /\ AnswersHit'
  BY DEF OneWriter, ReadStillSo, StillSo, SeededFirst, AnswersHit, Writing,
         LosesSuper, ActiveSupers, IsSuper, Exists
<1>3. AskersKnown' /\ ResetsSettled' /\ SuperRemains' /\ EnvNeverOverrides'
  BY DEF AskersKnown, ResetsSettled, SuperRemains, EnvNeverOverrides, ActiveSupers, IsSuper, Exists
<1> QED
  BY <1>1, <1>2, <1>3

-----------------------------------------------------------------------------
(* Every step keeps the invariant.                                         *)
LEMMA AccountsStep == AccountsInvariant /\ [Next]_vars => AccountsInvariant'
<1> SUFFICES ASSUME AccountsInvariant, [Next]_vars PROVE AccountsInvariant'
  OBVIOUS
<1>1. ASSUME NEW t \in Threads, NEW name \in Usernames, NEW pw \in Passwords,
             Arrive(t, "token", name, pw, None) \/ \E role \in Roles : Arrive(t, "register", name, pw, role)
      PROVE  AccountsInvariant'
  <2>1. CASE Arrive(t, "token", name, pw, None)
    BY <2>1, ArriveKeeps
  <2>2. ASSUME NEW role \in Roles, Arrive(t, "register", name, pw, role) PROVE AccountsInvariant'
    BY <2>2, ArriveKeeps
  <2> QED
    BY <1>1, <2>1, <2>2
<1>2. ASSUME NEW t \in Threads, NEW name \in Usernames, Arrive(t, "forgot", name, None, None)
      PROVE  AccountsInvariant'
  BY <1>2, ArriveKeeps
<1>3. ASSUME NEW t \in Threads, PublicStep(t) PROVE AccountsInvariant'
  BY <1>3, SeedKeeps, SignInKeeps, SyncKeeps, RegisterKeeps, RegisterCommitKeeps, ForgotKeeps
     DEF PublicStep
<1>4. ASSUME NEW t \in Threads, NEW k \in Ids, NEW u \in Ids,
             NEW body \in Edits \cup {SetStatus("rejected"), SetStatus("suspended")},
             Edit(t, k, u, body)
      PROVE  AccountsInvariant'
  <2>1. body \in Body
    BY StatusBodies, AccountsAssumption DEF Statuses
  <2> QED
    BY <1>4, <2>1, EditBegins DEF Edit
<1>5. ASSUME NEW t \in Threads, NEW k \in Ids, NEW u \in Ids, Approve(t, k, u) PROVE AccountsInvariant'
  <2>1. /\ SetStatus("active") \in Body /\ SetStatus("active").role = None
        /\ SetStatus("active").status = "active"
    BY StatusBodies DEF Statuses
  <2>2. ~LosesSuper(u, SetStatus("active"))
    BY <2>1 DEF LosesSuper
  <2> QED
    BY <1>5, <2>1, <2>2, EditBegins DEF Approve
<1>6. ASSUME NEW t \in Threads, NEW k \in Ids, NEW r \in ResetIds, NEW pw \in Passwords,
             Resolve(t, k, r, pw)
      PROVE  AccountsInvariant'
  <2>1. PICK u \in Named(resets[r].name) :
            AdminBegin(t, k, [pc |-> "resolve", reset |-> r, target |-> u, pw |-> pw])
    BY <1>6 DEF Resolve
  <2>2. u \in Ids
    BY <2>1 DEF Named
  <2> QED
    BY <1>6, <2>1, <2>2, AnswerBegins DEF Resolve
<1>7. ASSUME NEW t \in Threads, NEW k \in Ids, NEW r \in ResetIds, Reject(t, k, r)
      PROVE  AccountsInvariant'
  BY <1>7, AnswerBegins DEF Reject
<1>8. ASSUME NEW t \in Threads, EditCommit(t) \/ ResolveCommit(t) PROVE AccountsInvariant'
  BY <1>8, EditCommitKeeps, ResolveCommitKeeps
<1>9. CASE Restart
  BY <1>9, RestartKeeps
<1>10. CASE UNCHANGED vars
  BY <1>10, AccountsStutter
<1> QED
  BY <1>1, <1>2, <1>3, <1>4, <1>5, <1>6, <1>7, <1>8, <1>9, <1>10 DEF Next

(* The inductive invariant holds of every reachable state.                 *)
THEOREM AccountsInvariantHolds == Spec => []AccountsInvariant
BY AccountsInit, AccountsStep, PTL DEF Spec

(* The state of the accounts has its type, names are unique, and a request *)
(* that writes to an account names one that exists.                        *)
THEOREM AccountsTypeCorrect == Spec => []TypeOK
<1>1. AccountsInvariant => TypeOK
  BY DEF AccountsInvariant
<1> QED
  BY <1>1, AccountsInvariantHolds, PTL

(* As long as administrators do not overlap, an active super admin remains.*)
THEOREM ASuperAdminRemains == Spec => []SuperRemains
<1>1. AccountsInvariant => SuperRemains
  BY DEF AccountsInvariant
<1> QED
  BY <1>1, AccountsInvariantHolds, PTL

(* A password an administrator set is not overridden by the environment.   *)
THEOREM SetPasswordsStay == Spec => []EnvNeverOverrides
<1>1. AccountsInvariant => EnvNeverOverrides
  BY DEF AccountsInvariant
<1> QED
  BY <1>1, AccountsInvariantHolds, PTL

(* A request for a password is answered for the one who made it, and one   *)
(* that was rejected changed nothing.                                      *)
THEOREM ResetsReachTheAsker == Spec => []ResetsSettled
<1>1. AccountsInvariant => ResetsSettled
  BY DEF AccountsInvariant
<1> QED
  BY <1>1, AccountsInvariantHolds, PTL
=============================================================================
