------------------------------- MODULE Portal -------------------------------
(***************************************************************************)
(* Accounts and sessions (OJ_Judge/code/user_info.cpp): userRegist adds an *)
(* account to user_table for the admin or the teacher, userLogin looks an  *)
(* account up and leaves a token in Redis, under which every later request *)
(* of the browser is known.  Handlers run in several threads: the hash     *)
(* that crypt() returns is in one buffer of the process, the token is      *)
(* looked up by a call that blocks, and the queries come after it.         *)
(* Any query may fail, which no handler tells from an empty result or      *)
(* looks at, and the server may be stopped or crash between two queries.   *)
(* The names are those that URL decoding leaves alone (RequestTools).      *)
(***************************************************************************)
EXTENDS Integers, FiniteSets

CONSTANTS
    Names,      \* user names, "admin" and "teacher" among them
    Logins,     \* the login requests
    LoginAs,    \* the name and the password of each
    Regs,       \* the requests to register an account
    Form,       \* the name and the password each of them gives
    LastSecond, \* bound: the seconds that pass
    None        \* no user

Roles == {"student", "teacher", "admin"}

ASSUME PortalAssumption ==
    /\ {"admin", "teacher"} \subseteq Names /\ None \notin Names
    /\ \A l \in Logins : LoginAs[l].name \in Names
    /\ \A r \in Regs : Form[r].name \in Names
    /\ LastSecond \in Nat

VARIABLES
    users,      \* user_table: name, hash of the password, role, who registered it
    session,    \* per token: the user it stands for in Redis, or None
    timed,      \* the tokens that have a time to live
    unlimited,  \* history: the tokens whose EXPIRE, since their last SET, failed or
                \* was cut off by a restart
    buffer,     \* the buffer of crypt()
    now,        \* the time, in seconds
    login,      \* per login: where it is, the hash it looks for, its token
    reg         \* per registration: where it is, its cookie and role, who asked, the hash

vars == <<users, session, timed, unlimited, buffer, now, login, reg>>

\* md5(username + salt) followed by the time of day.
Tokens == Names \X (0..LastSecond)
NoToken == <<"admin", LastSecond + 1>>

\* A hash is as good as the password: crypt() is taken to have no collisions.  Two calls
\* that overlap may also leave a mixture in the buffer, the hash of no password.
crypt(password) == password

\* A request that holds nothing: it has not begun, or its handler has ended.
LoginAt(s) == [at |-> s, hash |-> "none", token |-> NoToken]
RegAt(s) == [at |-> s, token |-> NoToken, role |-> "student", by |-> None, hash |-> "none"]

Init ==
    /\ users = {[name |-> n, hash |-> crypt(n), given |-> n, role |-> n, by |-> "admin"] :
                  n \in {"admin", "teacher"}}
    /\ session = [t \in Tokens |-> None]
    /\ timed = {}
    /\ unlimited = {}
    /\ buffer = "none"
    /\ now = 0
    /\ login = [l \in Logins |-> LoginAt("new")]
    /\ reg = [r \in Regs |-> RegAt("new")]

LoginGoto(l, s) == login' = [login EXCEPT ![l].at = s]

-----------------------------------------------------------------------------
(* userLogin *)

LoginCrypt(l) ==
    /\ login[l].at = "new"
    /\ buffer' = crypt(LoginAs[l].password)
    /\ LoginGoto(l, "copy")
    /\ UNCHANGED <<users, session, timed, unlimited, now, reg>>

LoginCopy(l) ==
    /\ login[l].at = "copy"
    /\ login' = [login EXCEPT ![l] = [at |-> "select", hash |-> buffer, token |-> @.token]]
    /\ UNCHANGED <<users, session, timed, unlimited, buffer, now, reg>>

\* Mutant: an empty result is not looked at.
FoundAlways(l) == TRUE

\* The row with the name and the hash.
Found(l) == \E u \in users : u.name = LoginAs[l].name /\ u.hash = login[l].hash

\* Mutant: the token is made of the time alone.
generateTokenOfTime(name) == <<"admin", now>>

generateToken(name) == <<name, now>>

\* login_mysqlCallBack: 401 for no row, which may also mean that the query failed, or a
\* token and the two queries that store it.
LoginSelect(l) ==
    /\ login[l].at = "select"
    /\ \/ login' = [login EXCEPT ![l] = LoginAt("failed")]
       \/ /\ Found(l)
          /\ login' = [login EXCEPT ![l] = [at |-> "set", hash |-> "none",
                                            token |-> generateToken(LoginAs[l].name)]]
    /\ UNCHANGED <<users, session, timed, unlimited, buffer, now, reg>>

\* SET, which takes an earlier time to live away.
Stored(l) ==
    /\ session' = [session EXCEPT ![login[l].token] = LoginAs[l].name]
    /\ timed' = timed \ {login[l].token}
    /\ unlimited' = unlimited \ {login[l].token}

\* The callbacks of SET and EXPIRE are null: the series goes on when one fails.
LoginSet(l) ==
    /\ login[l].at = "set"
    /\ Stored(l) \/ UNCHANGED <<session, timed, unlimited>>
    /\ LoginGoto(l, "expire")
    /\ UNCHANGED <<users, buffer, now, reg>>

\* Mutant: EXPIRE names the token without its prefix, a key that does not exist.
WithoutPrefix(l) == timed

WithTimeToLive(l) ==
    IF session[login[l].token] = None THEN timed ELSE timed \cup {login[l].token}

\* The cookie is in the reply, which is sent when the series has ended.
LoginExpire(l) ==
    /\ login[l].at = "expire"
    /\ \/ timed' = WithTimeToLive(l) /\ unlimited' = unlimited \ {login[l].token}
       \/ timed' = timed /\ unlimited' = unlimited \cup {login[l].token}
    /\ LoginGoto(l, "in")
    /\ UNCHANGED <<users, session, buffer, now, reg>>

userLogin(l) ==
    \/ LoginCrypt(l) \/ LoginCopy(l) \/ LoginSelect(l) \/ LoginSet(l) \/ LoginExpire(l)

-----------------------------------------------------------------------------
(* userRegist, with the cookie of a browser that has logged in, or none *)

RegCrypt(r) ==
    /\ reg[r].at = "new"
    /\ \E t \in {NoToken} \cup {login[l].token : l \in {m \in Logins : login[m].at = "in"}},
          role \in Roles \cup {""} :
          reg' = [reg EXCEPT ![r] = [RegAt("check") EXCEPT !.token = t, !.role = role]]
    /\ buffer' = crypt(Form[r].password)
    /\ UNCHANGED <<users, session, timed, unlimited, now, login>>

\* my_sync_check_token: nobody for a token that is not there.
UserOf(t) == IF t = NoToken THEN None ELSE session[t]

\* Mutant: the teacher may give any role.
AllowedAnyRole(creator, role) == creator \in {"admin", "teacher"} /\ role \in Roles

Allowed(creator, role) ==
    /\ creator = "admin" \/ (creator = "teacher" /\ role = "student")
    /\ role \in Roles

\* The token is looked up, in vain if that fails, and then the query is put together
\* with the hash.
RegCheck(r) ==
    /\ reg[r].at = "check"
    /\ \E creator \in {UserOf(reg[r].token), None} :
          reg' = [reg EXCEPT ![r] = IF Allowed(creator, @.role)
                                    THEN [at |-> "insert", token |-> NoToken, role |-> @.role,
                                          by |-> creator, hash |-> buffer]
                                    ELSE RegAt("refused")]
    /\ UNCHANGED <<users, session, timed, unlimited, buffer, now, login>>

\* The table is taken to refuse a name it has; the reply is 200 all the same, also when
\* the query failed.
RegInsert(r) ==
    /\ reg[r].at = "insert"
    /\ \/ UNCHANGED users
       \/ /\ \A u \in users : u.name # Form[r].name
          /\ users' = users \cup {[name |-> Form[r].name, hash |-> reg[r].hash,
                                   given |-> Form[r].password, role |-> reg[r].role,
                                   by |-> reg[r].by]}
    /\ reg' = [reg EXCEPT ![r] = RegAt("done")]
    /\ UNCHANGED <<session, timed, unlimited, buffer, now, login>>

userRegist(r) == RegCrypt(r) \/ RegCheck(r) \/ RegInsert(r)

-----------------------------------------------------------------------------
TokenExpires(t) ==
    /\ t \in timed
    /\ session' = [session EXCEPT ![t] = None]
    /\ timed' = timed \ {t}
    /\ UNCHANGED <<users, unlimited, buffer, now, login, reg>>

Tick ==
    /\ now < LastSecond
    /\ now' = now + 1
    /\ UNCHANGED <<users, session, timed, unlimited, buffer, login, reg>>

\* The server is stopped or crashes, and is started again: handlers under way end where
\* they are, without a reply, and the tokens stay in Redis.
Restart ==
    /\ login' = [l \in Logins |-> IF login[l].at \in {"copy", "select", "set", "expire"}
                                 THEN LoginAt("failed") ELSE login[l]]
    /\ reg' = [r \in Regs |-> IF reg[r].at \in {"check", "insert"}
                              THEN RegAt("refused") ELSE reg[r]]
    /\ <<login, reg>>' # <<login, reg>>
    /\ buffer' = "none"
    /\ unlimited' =
          unlimited \cup {login[l].token : l \in {m \in Logins : login[m].at = "expire"}}
    /\ UNCHANGED <<users, session, timed, now>>

Next ==
    \/ Restart
    \/ \E l \in Logins : userLogin(l)
    \/ \E r \in Regs : userRegist(r)
    \/ \E t \in Tokens : TokenExpires(t)
    \/ Tick

Spec == Init /\ [][Next]_vars
-----------------------------------------------------------------------------
(* Properties *)

\* A browser that has logged in is known by its own name, or by none when its token has
\* expired, though others log in within the same second.
SessionsAreOwn ==
    \A l \in Logins : login[l].at = "in" => UserOf(login[l].token) \in {LoginAs[l].name, None}

\* A session lasts for ever only if the EXPIRE after the last SET of its token failed or
\* was cut off by a restart (user_info.cpp:98-102); any other token without a time to live
\* is about to get one.  Two logins of a user within a second share the token: the SET of
\* the second takes the time to live of the first away, and either EXPIRE gives it back.
SessionsExpire ==
    \A t \in Tokens : session[t] # None /\ t \notin timed =>
        \/ \E l \in Logins : login[l].at = "expire" /\ login[l].token = t
        \/ t \in unlimited

\* The user of a session has a row, so the role that add_problem, add_test_in and
\* add_test_out read from the first row of the result (judge.cpp:455) is there.
SessionsHaveRoles ==
    \A t \in Tokens : session[t] # None => \E u \in users : u.name = session[t]

\* userRegist goes by the names "admin" and "teacher"; what comes of it respects the
\* roles: a student registers nobody, and who is no admin registers students only.
RolesAreGranted ==
    \A u \in users : \E c \in users :
        /\ c.name = u.by
        /\ c.role # "student"
        /\ u.role # "student" => c.role = "admin"

\* The queries of the handlers, interleaved, come to what Accounts promises: nobody gets an
\* account but from one that may make it at that moment, no account is changed or lost,
\* and no token passes from one user to another.
AC == INSTANCE Accounts WITH People <- Names, Nobody <- None,
                             accounts <- {<<u.name, u.role>> : u \in users},
                             holder <- session
ImplementsAccounts == AC!AccountsSpec

\* The password of an account is the one it was registered with.
PasswordsAreOwn == \A u \in users : u.hash = crypt(u.given)
=============================================================================
