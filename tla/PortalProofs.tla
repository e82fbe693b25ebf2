---------------------------- MODULE PortalProofs ----------------------------
(***************************************************************************)
(* What TLAPS proves of Portal for any users, any logins and registrations *)
(* at the same time, and any number of seconds: the invariants of the run  *)
(* portal, that the portal implements Accounts, and under which condition  *)
(* the property holds that the run portal_crypt refutes.                   *)
(***************************************************************************)
EXTENDS Portal, TLAPS

-----------------------------------------------------------------------------
(* Sessions.  The fields of a login are known by what they may hold; the    *)
(* hashes are any values.                                                    *)

LoginStates == {"new", "copy", "select", "failed", "set", "expire", "in"}

LoginRecord(r) == r = [at |-> r.at, hash |-> r.hash, token |-> r.token]

\* The types of what the sessions are made of.
SessionTypes ==
    /\ session \in [Tokens -> Names \cup {None}]
    /\ timed \subseteq Tokens
    /\ now \in 0..LastSecond
    /\ DOMAIN login = Logins
    /\ \A l \in Logins : LoginRecord(login[l]) /\ login[l].at \in LoginStates

\* A login that has found its row.
Known(l) == login[l].at \in {"set", "expire", "in"}

\* A token names its user: the one it was made for, and the one it stands for.
TokensNameUsers ==
    /\ \A l \in Logins : Known(l) =>
          login[l].token \in Tokens /\ login[l].token[1] = LoginAs[l].name
    /\ \A t \in Tokens : session[t] \in {t[1], None}

\* Who has been found in the table has a row there, and rows are never deleted.
KnownHaveRows ==
    \A l \in Logins : Known(l) => \E u \in users : u.name = LoginAs[l].name

SessionInv ==
    /\ SessionTypes
    /\ TokensNameUsers
    /\ SessionsExpire
    /\ KnownHaveRows
    /\ SessionsHaveRoles

\* At the start nobody is logged in and no token is in Redis.
LEMMA SessionInit == Init => SessionInv
<1> SUFFICES ASSUME Init PROVE SessionInv
  OBVIOUS
<1>1. SessionTypes
  BY PortalAssumption DEF Init, LoginAt, SessionTypes, LoginRecord, LoginStates
<1>2. \A l \in Logins : ~Known(l)
  BY DEF Init, LoginAt, Known
<1>3. \A t \in Tokens : session[t] = None
  BY DEF Init
<1> QED
  BY <1>1, <1>2, <1>3
     DEF SessionInv, TokensNameUsers, SessionsExpire, KnownHaveRows, SessionsHaveRoles

\* A token made now is one of the tokens, and its first part is the name.
LEMMA GeneratedTokens ==
    ASSUME SessionTypes, NEW l \in Logins
    PROVE  /\ generateToken(LoginAs[l].name) \in Tokens
           /\ generateToken(LoginAs[l].name)[1] = LoginAs[l].name
  BY PortalAssumption DEF SessionTypes, generateToken, Tokens

\* Each step of userLogin keeps the invariant.
LEMMA LoginKeepsSessions ==
    ASSUME SessionInv, NEW l \in Logins, userLogin(l)
    PROVE  SessionInv'
<1> USE DEF SessionInv, SessionTypes, LoginRecord, LoginStates, TokensNameUsers, Known,
            SessionsExpire, KnownHaveRows, SessionsHaveRoles
<1>1. CASE LoginCrypt(l)
  BY <1>1 DEF LoginCrypt, LoginGoto
<1>2. CASE LoginCopy(l)
  <2>1. /\ DOMAIN login' = Logins
        /\ login'[l] = [at |-> "select", hash |-> buffer, token |-> login[l].token]
        /\ \A m \in Logins \ {l} : login'[m] = login[m]
    BY <1>2 DEF LoginCopy
  <2>2. UNCHANGED <<users, session, timed, now>>
    BY <1>2 DEF LoginCopy
  <2> QED
    BY <1>2, <2>1, <2>2 DEF LoginCopy
<1>3. CASE LoginSelect(l)
  <2>1. CASE login' = [login EXCEPT ![l] = LoginAt("failed")]
    BY <1>3, <2>1 DEF LoginSelect, LoginAt
  <2>2. CASE Found(l) /\ login' # [login EXCEPT ![l] = LoginAt("failed")]
    BY <1>3, <2>2, GeneratedTokens DEF LoginSelect, Found
  <2> QED
    BY <1>3, <2>1, <2>2 DEF LoginSelect
<1>4. CASE LoginSet(l)
  BY <1>4, PortalAssumption DEF LoginSet, Stored, LoginGoto
<1>5. CASE LoginExpire(l)
  BY <1>5 DEF LoginExpire, LoginGoto, WithTimeToLive
<1> QED
  BY <1>1, <1>2, <1>3, <1>4, <1>5 DEF userLogin

\* A registration touches no session and only adds to the table.
LEMMA RegistKeepsSessions ==
    ASSUME SessionInv, NEW r \in Regs, userRegist(r)
    PROVE  SessionInv'
<1>1. UNCHANGED <<session, timed, unlimited, now, login>> /\ users \subseteq users'
  BY DEF userRegist, RegCrypt, RegCheck, RegInsert
<1> QED
  BY <1>1 DEF SessionInv, SessionTypes, LoginRecord, LoginStates, TokensNameUsers, Known,
              SessionsExpire, KnownHaveRows, SessionsHaveRoles

\* A token that expires leaves nobody behind.
LEMMA ExpiryKeepsSessions ==
    ASSUME SessionInv, NEW t \in Tokens, TokenExpires(t)
    PROVE  SessionInv'
  BY DEF TokenExpires, SessionInv, SessionTypes, LoginRecord, LoginStates, TokensNameUsers,
         Known, SessionsExpire, KnownHaveRows, SessionsHaveRoles

\* A restart cuts logins short: one that had its EXPIRE to do leaves its token unlimited.
LEMMA RestartKeepsSessions ==
    ASSUME SessionInv, Restart
    PROVE  SessionInv'
<1>1. UNCHANGED <<users, session, timed, now>> /\ DOMAIN login' = Logins
  BY DEF Restart
<1>2. \A l \in Logins : \/ login'[l] = LoginAt("failed")
                        \/ login'[l] = login[l] /\ login[l].at # "expire"
  BY DEF Restart
<1>3. SessionTypes'
  BY <1>1, <1>2 DEF SessionInv, SessionTypes, LoginRecord, LoginStates, LoginAt
<1>4. \A l \in Logins : Known(l)' => Known(l) /\ login'[l] = login[l]
  BY <1>2 DEF Known, LoginAt
<1>5. SessionsExpire'
  BY <1>1 DEF SessionInv, SessionsExpire, Restart
<1> QED
  BY <1>1, <1>3, <1>4, <1>5
     DEF SessionInv, TokensNameUsers, KnownHaveRows, SessionsHaveRoles

\* The invariant of the sessions holds in every state.
LEMMA SessionInvHolds == Spec => []SessionInv
<1>1. SessionInv /\ [Next]_vars => SessionInv'
  <2> SUFFICES ASSUME SessionInv, [Next]_vars PROVE SessionInv'
    OBVIOUS
  <2>1. CASE Tick
    BY <2>1, PortalAssumption
       DEF Tick, SessionInv, SessionTypes, LoginRecord, LoginStates, TokensNameUsers, Known,
           SessionsExpire, KnownHaveRows, SessionsHaveRoles
  <2>2. CASE UNCHANGED vars
    BY <2>2 DEF vars, SessionInv, SessionTypes, LoginRecord, LoginStates, TokensNameUsers,
                Known, SessionsExpire, KnownHaveRows, SessionsHaveRoles
  <2> QED
    BY <2>1, <2>2, LoginKeepsSessions, RegistKeepsSessions, ExpiryKeepsSessions,
       RestartKeepsSessions DEF Next
<1> QED
  BY <1>1, SessionInit, PTL DEF Spec

\* A browser that has logged in is known by its own name or by none, whoever logs in
\* within the same second: a token has the name in it.
THEOREM SessionsAreOwnHolds == Spec => []SessionsAreOwn
<1>1. SessionInv => SessionsAreOwn
  BY DEF SessionInv, TokensNameUsers, Known, SessionsAreOwn, UserOf
<1> QED
  BY <1>1, SessionInvHolds, PTL

\* A token without a time to live is about to get one, or its EXPIRE failed or was cut off
\* after its last SET, however logins within a second and restarts interleave.
THEOREM SessionsExpireHolds == Spec => []SessionsExpire
<1>1. SessionInv => SessionsExpire
  BY DEF SessionInv
<1> QED
  BY <1>1, SessionInvHolds, PTL

\* The user a session stands for has a row in user_table, whose role the handlers of
\* the upload read.
THEOREM SessionsHaveRolesHolds == Spec => []SessionsHaveRoles
<1>1. SessionInv => SessionsHaveRoles
  BY DEF SessionInv
<1> QED
  BY <1>1, SessionInvHolds, PTL

-----------------------------------------------------------------------------
(* Roles.  The rows of the admin and the teacher are there from the start,   *)
(* and a registration that has passed the check carries the check's result   *)
(* to its INSERT.                                                            *)

\* The first two accounts keep their rows and their roles.
FirstAccounts ==
    \A n \in {"admin", "teacher"} : \E u \in users : u.name = n /\ u.role = n

RegRecord(r) ==
    r = [at |-> r.at, token |-> r.token, role |-> r.role, by |-> r.by, hash |-> r.hash]

\* A registration about to be inserted was allowed to its creator.
InsertsAreAllowed ==
    /\ DOMAIN reg = Regs
    /\ \A r \in Regs : /\ RegRecord(reg[r])
                       /\ reg[r].at = "insert" => Allowed(reg[r].by, reg[r].role)

RoleInv == FirstAccounts /\ InsertsAreAllowed /\ RolesAreGranted

\* The table starts with an admin and a teacher, both registered by the admin.
LEMMA RoleInit == Init => RoleInv
<1> SUFFICES ASSUME Init PROVE RoleInv
  OBVIOUS
<1>1. FirstAccounts
  <2> DEFINE row(n) == [name |-> n, hash |-> crypt(n), given |-> n, role |-> n, by |-> "admin"]
  <2>1. \A n \in {"admin", "teacher"} :
          row(n) \in users /\ row(n).name = n /\ row(n).role = n
    BY DEF Init
  <2> HIDE DEF row
  <2> QED
    BY <2>1 DEF FirstAccounts
<1>2. InsertsAreAllowed
  <2>1. \A r \in Regs : reg[r] = [at |-> "new", token |-> NoToken, role |-> "student",
                                  by |-> None, hash |-> "none"]
    BY DEF Init, RegAt
  <2>2. \A r \in Regs : RegRecord(reg[r]) /\ reg[r].at = "new"
    BY <2>1 DEF RegRecord
  <2> QED
    BY <2>2 DEF Init, InsertsAreAllowed
<1>3. RolesAreGranted
  <2> DEFINE row(n) == [name |-> n, hash |-> crypt(n), given |-> n, role |-> n, by |-> "admin"]
  <2>1. users = {row("admin"), row("teacher")}
    BY DEF Init
  <2>2. \A u \in users : u.by = "admin"
    BY <2>1
  <2>3. row("admin") \in users /\ row("admin").name = "admin" /\ row("admin").role = "admin"
    BY <2>1
  <2> HIDE DEF row
  <2> QED
    BY <2>2, <2>3 DEF RolesAreGranted
<1> QED
  BY <1>1, <1>2, <1>3 DEF RoleInv

\* A row that the check allows to its creator is granted, as admin and teacher have rows.
LEMMA AllowedIsGranted ==
    ASSUME FirstAccounts, NEW by, NEW role, Allowed(by, role)
    PROVE  \E c \in users : /\ c.name = by
                            /\ c.role # "student"
                            /\ role # "student" => c.role = "admin"
<1>1. CASE by = "admin"
  <2>1. PICK c \in users : c.name = "admin" /\ c.role = "admin"
    BY DEF FirstAccounts
  <2> QED
    BY <1>1, <2>1
<1>2. CASE by = "teacher" /\ role = "student"
  <2>1. PICK c \in users : c.name = "teacher" /\ c.role = "teacher"
    BY DEF FirstAccounts
  <2> QED
    BY <1>2, <2>1
<1> QED
  BY <1>1, <1>2 DEF Allowed

\* Each step of userRegist keeps the invariant of the roles.
LEMMA RegistKeepsRoles ==
    ASSUME RoleInv, NEW r \in Regs, userRegist(r)
    PROVE  RoleInv'
<1> USE DEF RoleInv
<1>4. ASSUME DOMAIN reg' = Regs, \A q \in Regs \ {r} : reg'[q] = reg[q], RegRecord(reg'[r]),
             reg'[r].at = "insert" => Allowed(reg'[r].by, reg'[r].role)
      PROVE  InsertsAreAllowed'
  <2>1. \A q \in Regs \ {r} : RegRecord(reg'[q]) /\ (reg'[q].at = "insert" =>
                                                  Allowed(reg'[q].by, reg'[q].role))
    BY <1>4 DEF InsertsAreAllowed
  <2> QED
    BY <1>4, <2>1 DEF InsertsAreAllowed
<1>1. CASE RegCrypt(r)
  <2>1. PICK t, role : reg' = [reg EXCEPT ![r] = [RegAt("check") EXCEPT !.token = t,
                                                                        !.role = role]]
    BY <1>1 DEF RegCrypt
  <2>2. DOMAIN reg' = Regs /\ RegRecord(reg'[r]) /\ reg'[r].at = "check"
    BY <2>1 DEF RegRecord, RegAt, InsertsAreAllowed
  <2>3. \A q \in Regs \ {r} : reg'[q] = reg[q]
    BY <2>1 DEF InsertsAreAllowed
  <2> QED
    BY <1>1, <1>4, <2>2, <2>3 DEF RegCrypt, FirstAccounts, RolesAreGranted
<1>2. CASE RegCheck(r)
  <2>1. PICK creator :
          reg' = [reg EXCEPT ![r] = IF Allowed(creator, reg[r].role)
                                    THEN [at |-> "insert", token |-> NoToken,
                                          role |-> reg[r].role, by |-> creator,
                                          hash |-> buffer]
                                    ELSE RegAt("refused")]
    BY <1>2 DEF RegCheck
  <2>2. DOMAIN reg' = Regs /\ \A q \in Regs \ {r} : reg'[q] = reg[q]
    BY <2>1 DEF InsertsAreAllowed
  <2>3. CASE Allowed(creator, reg[r].role)
    <3>1. reg'[r] = [at |-> "insert", token |-> NoToken, role |-> reg[r].role,
                     by |-> creator, hash |-> buffer]
      BY <2>1, <2>3 DEF InsertsAreAllowed
    <3>2. RegRecord(reg'[r]) /\ Allowed(reg'[r].by, reg'[r].role)
      BY <2>3, <3>1 DEF RegRecord
    <3> QED
      BY <1>2, <1>4, <2>2, <3>2 DEF RegCheck, FirstAccounts, RolesAreGranted
  <2>4. CASE ~Allowed(creator, reg[r].role)
    <3>1. reg'[r] = RegAt("refused")
      BY <2>1, <2>4 DEF InsertsAreAllowed
    <3>2. RegRecord(reg'[r]) /\ reg'[r].at = "refused"
      BY <3>1 DEF RegRecord, RegAt
    <3> QED
      BY <1>2, <1>4, <2>2, <3>2 DEF RegCheck, FirstAccounts, RolesAreGranted
  <2> QED
    BY <2>3, <2>4
<1>3. CASE RegInsert(r)
  <2>1. FirstAccounts'
    BY <1>3 DEF RegInsert, FirstAccounts
  <2>2. InsertsAreAllowed'
    <3>1. reg' = [reg EXCEPT ![r] = RegAt("done")]
      BY <1>3 DEF RegInsert
    <3>2. DOMAIN reg' = Regs /\ \A q \in Regs \ {r} : reg'[q] = reg[q]
      BY <3>1 DEF InsertsAreAllowed
    <3>3. RegRecord(reg'[r]) /\ reg'[r].at = "done"
      BY <3>1 DEF InsertsAreAllowed, RegRecord, RegAt
    <3> QED
      BY <1>4, <3>2, <3>3
  <2>3. RolesAreGranted'
    <3> DEFINE row == [name |-> Form[r].name, hash |-> reg[r].hash,
                       given |-> Form[r].password, role |-> reg[r].role, by |-> reg[r].by]
    <3>1. CASE users' = users
      BY <3>1 DEF RolesAreGranted
    <3>2. CASE users' = users \cup {row}
      <4>1. \E c \in users : /\ c.name = row.by
                             /\ c.role # "student"
                             /\ row.role # "student" => c.role = "admin"
        BY <1>3, AllowedIsGranted DEF RegInsert, InsertsAreAllowed
      <4> HIDE DEF row
      <4> QED
        BY <3>2, <4>1 DEF RolesAreGranted
    <3> QED
      BY <1>3, <3>1, <3>2 DEF RegInsert
  <2> QED
    BY <2>1, <2>2, <2>3
<1> QED
  BY <1>1, <1>2, <1>3 DEF userRegist

\* The invariant of the roles holds in every state.
LEMMA RoleInvHolds == Spec => []RoleInv
<1>1. RoleInv /\ [Next]_vars => RoleInv'
  <2> SUFFICES ASSUME RoleInv, [Next]_vars PROVE RoleInv'
    OBVIOUS
  <2>1. ASSUME UNCHANGED <<users, reg>> PROVE RoleInv'
    BY <2>1 DEF RoleInv, FirstAccounts, InsertsAreAllowed, RolesAreGranted
  <2>2. ASSUME NEW l \in Logins, userLogin(l) PROVE RoleInv'
    BY <2>1, <2>2 DEF userLogin, LoginCrypt, LoginCopy, LoginSelect, LoginSet, LoginExpire
  <2>3. ASSUME (\E t \in Tokens : TokenExpires(t)) \/ Tick \/ UNCHANGED vars PROVE RoleInv'
    BY <2>1, <2>3 DEF TokenExpires, Tick, vars
  <2>4. ASSUME Restart PROVE RoleInv'
    <3>1. DOMAIN reg' = Regs /\ users' = users
      BY <2>4 DEF Restart
    <3>2. \A r \in Regs : reg'[r] = RegAt("refused") \/ reg'[r] = reg[r]
      BY <2>4 DEF Restart
    <3>3. RegRecord(RegAt("refused")) /\ RegAt("refused").at = "refused"
      BY DEF RegRecord, RegAt
    <3>4. InsertsAreAllowed'
      BY <3>1, <3>2, <3>3 DEF RoleInv, InsertsAreAllowed
    <3> QED
      BY <3>1, <3>4 DEF RoleInv, FirstAccounts, RolesAreGranted
  <2> QED
    BY <2>2, <2>3, <2>4, RegistKeepsRoles DEF Next
<1> QED
  BY <1>1, RoleInit, PTL DEF Spec

\* Only who is admin registers an account that is no student's, and no student
\* registers anybody, though userRegist asks for names and never for roles.
THEOREM RolesAreGrantedHolds == Spec => []RolesAreGranted
<1>1. RoleInv => RolesAreGranted
  BY DEF RoleInv
<1> QED
  BY <1>1, RoleInvHolds, PTL

-----------------------------------------------------------------------------
(* The refinement.  A login's SET opens a session, a registration's INSERT   *)
(* makes an account, a key that expires ends a session, and no other step    *)
(* changes what Accounts is about.                                           *)

\* The table as Accounts sees it.
Rows == {<<u.name, u.role>> : u \in users}

\* The table starts with the admin and the teacher, and Redis without a token.
LEMMA AccountsStart == Init => AC!AccountsInit
<1> SUFFICES ASSUME Init PROVE AC!AccountsInit
  OBVIOUS
<1> DEFINE row(n) == [name |-> n, hash |-> crypt(n), given |-> n, role |-> n, by |-> "admin"]
<1>1. users = {row("admin"), row("teacher")}
  BY DEF Init
<1>2. Rows = {<<"admin", "admin">>, <<"teacher", "teacher">>}
  BY <1>1 DEF Rows
<1> QED
  BY <1>2 DEF Init, AC!AccountsInit, Rows

\* Who has a row has an account.
LEMMA RowIsAccount ==
    ASSUME NEW u \in users
    PROVE  <<u.name, u.role>> \in Rows /\ AC!HasAccount(u.name)
<1>1. <<u.name, u.role>> \in Rows /\ <<u.name, u.role>>[1] = u.name
  BY DEF Rows
<1> QED
  BY <1>1 DEF AC!HasAccount, Rows

\* The SET of a login, if it does not fail, opens a session of its user, under a token that
\* was free or his own.
LEMMA SetOpensSession ==
    ASSUME SessionInv, NEW l \in Logins, LoginSet(l), Stored(l)
    PROVE  AC!OpenSession
<1> DEFINE t == login[l].token
           n == LoginAs[l].name
<1>1. Known(l)
  BY DEF LoginSet, Known
<1>2. t \in Tokens /\ session[t] \in {n, None} /\ n \in Names
  BY <1>1, PortalAssumption DEF SessionInv, TokensNameUsers
<1>3. PICK u \in users : u.name = n
  BY <1>1 DEF SessionInv, KnownHaveRows
<1>4. AC!HasAccount(n)
  BY <1>3, RowIsAccount
<1>5. session' = [session EXCEPT ![t] = n] /\ users' = users
  BY DEF LoginSet, Stored
<1> HIDE DEF t, n
<1> QED
  BY <1>2, <1>4, <1>5 DEF AC!OpenSession

\* The INSERT of a registration makes an account, by an account that may, or the table
\* refuses it.
LEMMA InsertMakesAccount ==
    ASSUME RoleInv, NEW r \in Regs, RegInsert(r)
    PROVE  AC!MakeAccount \/ UNCHANGED <<Rows, session>>
<1>1. CASE users' = users
  BY <1>1 DEF RegInsert, Rows
<1>2. CASE users' # users
  <2> DEFINE n == Form[r].name
             role == reg[r].role
             row == [name |-> n, hash |-> reg[r].hash, given |-> Form[r].password,
                     role |-> role, by |-> reg[r].by]
  <2>1. users' = users \cup {row} /\ session' = session /\ \A u \in users : u.name # n
    BY <1>2 DEF RegInsert
  <2>2. row.name = n /\ row.role = role
    OBVIOUS
  <2>3. Allowed(reg[r].by, role) /\ role \in {"student", "teacher", "admin"} /\ n \in Names
    BY PortalAssumption DEF RegInsert, RoleInv, InsertsAreAllowed, Allowed, Roles
  <2>4. PICK c \in users : c.role # "student" /\ (role # "student" => c.role = "admin")
    BY <2>3, AllowedIsGranted DEF RoleInv
  <2> HIDE DEF row, n, role
  <2>5. Rows' = Rows \cup {<<n, role>>}
    BY <2>1, <2>2 DEF Rows
  <2>6. ~AC!HasAccount(n)
    BY <2>1 DEF AC!HasAccount
  <2> DEFINE creator == <<c.name, c.role>>
  <2>7. /\ creator \in Rows /\ creator[2] # "student"
        /\ role # "student" => creator[2] = "admin"
    BY <2>4, RowIsAccount
  <2> HIDE DEF creator
  <2> QED
    BY <2>1, <2>3, <2>5, <2>6, <2>7 DEF AC!MakeAccount, Rows
<1> QED
  BY <1>1, <1>2

\* Every step of the portal is a step of Accounts or changes nothing it is about.
LEMMA AccountsStep ==
    ASSUME SessionInv, RoleInv, [Next]_vars
    PROVE  [AC!AccountsNext]_<<Rows, session>>
<1>1. ASSUME UNCHANGED <<users, session>> PROVE UNCHANGED <<Rows, session>>
  BY <1>1 DEF Rows
<1>2. ASSUME NEW l \in Logins, userLogin(l) PROVE AC!OpenSession \/ UNCHANGED <<Rows, session>>
  <2>1. CASE LoginSet(l) /\ Stored(l)
    BY <2>1, SetOpensSession
  <2>2. CASE ~(LoginSet(l) /\ Stored(l))
    BY <1>1, <1>2, <2>2
       DEF userLogin, LoginCrypt, LoginCopy, LoginSelect, LoginSet, LoginExpire
  <2> QED
    BY <2>1, <2>2
<1>3. ASSUME NEW r \in Regs, userRegist(r) PROVE AC!MakeAccount \/ UNCHANGED <<Rows, session>>
  <2>1. CASE RegInsert(r)
    BY <2>1, InsertMakesAccount
  <2>2. CASE ~RegInsert(r)
    BY <1>1, <1>3, <2>2 DEF userRegist, RegCrypt, RegCheck
  <2> QED
    BY <2>1, <2>2
<1>4. ASSUME NEW t \in Tokens, TokenExpires(t) PROVE AC!EndSession
  BY <1>4 DEF TokenExpires, AC!EndSession
<1>5. CASE Restart \/ Tick \/ UNCHANGED vars
  BY <1>1, <1>5 DEF Restart, Tick, vars
<1> QED
  BY <1>2, <1>3, <1>4, <1>5 DEF Next, AC!AccountsNext

\* The portal implements Accounts, for any users and any number of handlers at the same
\* time: the check of the creator, made steps before the INSERT, still holds then, and
\* the token that a SET writes was free or its user's own.
THEOREM PortalImplementsAccounts == Spec => ImplementsAccounts
<1>1. SessionInv /\ RoleInv /\ [Next]_vars => [AC!AccountsNext]_(AC!accountVars)
  BY AccountsStep DEF AC!accountVars, Rows
<1> QED
  BY <1>1, AccountsStart, SessionInvHolds, RoleInvHolds, PTL
     DEF Spec, ImplementsAccounts, AC!AccountsSpec

-----------------------------------------------------------------------------
(* Passwords.  PasswordsAreOwn does not hold (run portal_crypt).  What makes *)
(* it fail is a second call of crypt() before the first caller has copied    *)
(* its hash out of the buffer, and nothing else: with calls kept apart, as a *)
(* lock or crypt_r() would, accounts and logins are right.                   *)

\* Some handler has called crypt() and not copied its hash yet.
BufferInUse ==
    (\E l \in Logins : login[l].at = "copy") \/ (\E r \in Regs : reg[r].at = "check")

\* No step calls crypt() while its buffer is in use.
CallsApart == [][BufferInUse => ~\E l \in Logins : LoginCrypt(l)]_vars
              /\ [][BufferInUse => ~\E r \in Regs : RegCrypt(r)]_vars

\* Who is logged in has given the password of the account.
LoginsAreOwn ==
    \A l \in Logins : Known(l) =>
        \E u \in users : u.name = LoginAs[l].name /\ u.given = LoginAs[l].password

\* A hash is that of the request's own password from the call to where it is used.
HashesAreOwn ==
    /\ \A l \in Logins :
          /\ login[l].at = "copy" => buffer = crypt(LoginAs[l].password)
          /\ login[l].at = "select" => login[l].hash = crypt(LoginAs[l].password)
    /\ \A r \in Regs :
          /\ reg[r].at = "check" => buffer = crypt(Form[r].password)
          /\ reg[r].at = "insert" => reg[r].hash = crypt(Form[r].password)

PasswordInv == HashesAreOwn /\ PasswordsAreOwn /\ LoginsAreOwn

LEMMA PasswordInit == Init => PasswordInv
<1> SUFFICES ASSUME Init PROVE PasswordInv
  OBVIOUS
<1>1. \A l \in Logins : login[l].at = "new"
  BY DEF Init, LoginAt
<1>2. \A r \in Regs : reg[r].at = "new"
  BY DEF Init, RegAt
<1>3. \A u \in users : u.hash = crypt(u.given)
  <2> DEFINE row(n) == [name |-> n, hash |-> crypt(n), given |-> n, role |-> n, by |-> "admin"]
  <2>1. users = {row("admin"), row("teacher")}
    BY DEF Init
  <2> QED
    BY <2>1
<1> QED
  BY <1>1, <1>2, <1>3 DEF PasswordInv, HashesAreOwn, PasswordsAreOwn, LoginsAreOwn, Known

\* The steps of a login, if it finds the buffer free.
LEMMA LoginKeepsPasswords ==
    ASSUME SessionInv, PasswordInv, NEW l \in Logins, userLogin(l),
           LoginCrypt(l) => ~BufferInUse
    PROVE  PasswordInv'
<1>1. /\ DOMAIN login = Logins /\ LoginRecord(login[l])
      /\ users' = users /\ reg' = reg
  BY DEF SessionInv, SessionTypes, userLogin, LoginCrypt, LoginCopy, LoginSelect, LoginSet,
         LoginExpire
<1>2. PasswordsAreOwn'
  BY <1>1 DEF PasswordInv, PasswordsAreOwn
<1>3. \A m \in Logins \ {l} : login'[m] = login[m]
  BY <1>1 DEF userLogin, LoginCrypt, LoginCopy, LoginSelect, LoginSet, LoginExpire, LoginGoto
<1>4. CASE LoginCrypt(l)
  <2>1. buffer' = crypt(LoginAs[l].password) /\ login'[l].at = "copy"
    BY <1>1, <1>4 DEF LoginCrypt, LoginGoto
  <2>2. /\ \A m \in Logins : login[m].at # "copy"
        /\ \A r \in Regs : reg[r].at # "check"
    BY <1>4 DEF BufferInUse
  <2>3. HashesAreOwn'
    BY <1>1, <1>3, <2>1, <2>2 DEF PasswordInv, HashesAreOwn
  <2>4. LoginsAreOwn'
    BY <1>1, <1>3, <2>1 DEF PasswordInv, LoginsAreOwn, Known
  <2> QED
    BY <1>2, <2>3, <2>4 DEF PasswordInv
<1>5. CASE LoginCopy(l)
  <2>1. login'[l].at = "select" /\ login'[l].hash = buffer /\ buffer' = buffer
    BY <1>1, <1>5 DEF LoginCopy
  <2>2. buffer = crypt(LoginAs[l].password)
    BY <1>5 DEF LoginCopy, PasswordInv, HashesAreOwn
  <2>3. HashesAreOwn'
    BY <1>1, <1>3, <2>1, <2>2 DEF PasswordInv, HashesAreOwn
  <2>4. LoginsAreOwn'
    BY <1>1, <1>3, <2>1 DEF PasswordInv, LoginsAreOwn, Known
  <2> QED
    BY <1>2, <2>3, <2>4 DEF PasswordInv
<1>6. CASE LoginSelect(l)
  <2>1. /\ login[l].at = "select" /\ login'[l].at \in {"failed", "set"}
        /\ buffer' = buffer
    BY <1>1, <1>6 DEF LoginSelect, LoginAt
  <2>2. HashesAreOwn'
    BY <1>1, <1>3, <2>1 DEF PasswordInv, HashesAreOwn
  <2>3. login'[l].at = "set" => Found(l)
    BY <1>1, <1>6 DEF LoginSelect, LoginAt
  <2>4. login'[l].at = "set" =>
           \E u \in users : u.name = LoginAs[l].name /\ u.given = LoginAs[l].password
    BY <2>1, <2>3 DEF Found, PasswordInv, HashesAreOwn, PasswordsAreOwn, crypt
  <2>5. LoginsAreOwn'
    BY <1>1, <1>3, <2>1, <2>4 DEF PasswordInv, LoginsAreOwn, Known
  <2> QED
    BY <1>2, <2>2, <2>5 DEF PasswordInv
<1>7. CASE LoginSet(l) \/ LoginExpire(l)
  <2>1. Known(l) /\ login'[l].at \in {"expire", "in"} /\ buffer' = buffer
    BY <1>1, <1>7 DEF LoginSet, LoginExpire, LoginGoto, LoginRecord, Known
  <2>2. HashesAreOwn'
    BY <1>1, <1>3, <2>1 DEF PasswordInv, HashesAreOwn, Known
  <2>3. LoginsAreOwn'
    BY <1>1, <1>3, <2>1 DEF PasswordInv, LoginsAreOwn, Known
  <2> QED
    BY <1>2, <2>2, <2>3 DEF PasswordInv
<1> QED
  BY <1>4, <1>5, <1>6, <1>7 DEF userLogin

\* The steps of a registration, if it finds the buffer free.
LEMMA RegistKeepsPasswords ==
    ASSUME RoleInv, PasswordInv, NEW r \in Regs, userRegist(r), RegCrypt(r) => ~BufferInUse
    PROVE  PasswordInv'
<1>1. /\ DOMAIN reg = Regs /\ RegRecord(reg[r]) /\ login' = login
      /\ users \subseteq users'
  BY DEF RoleInv, InsertsAreAllowed, userRegist, RegCrypt, RegCheck, RegInsert
<1>2. LoginsAreOwn'
  BY <1>1 DEF PasswordInv, LoginsAreOwn, Known
<1>3. \A q \in Regs \ {r} : reg'[q] = reg[q]
  BY <1>1 DEF userRegist, RegCrypt, RegCheck, RegInsert
<1>4. CASE RegCrypt(r)
  <2>1. /\ buffer' = crypt(Form[r].password) /\ reg'[r].at = "check"
        /\ users' = users
    <3>1. PICK t, role : reg' = [reg EXCEPT ![r] = [RegAt("check") EXCEPT !.token = t,
                                                                          !.role = role]]
      BY <1>4 DEF RegCrypt
    <3>2. reg'[r].at = "check"
      BY <1>1, <3>1 DEF RegAt
    <3> QED
      BY <1>4, <3>2 DEF RegCrypt
  <2>2. /\ \A m \in Logins : login[m].at # "copy"
        /\ \A q \in Regs : reg[q].at # "check"
    BY <1>4 DEF BufferInUse
  <2>3. HashesAreOwn'
    BY <1>1, <1>3, <2>1, <2>2 DEF PasswordInv, HashesAreOwn
  <2> QED
    BY <1>2, <2>1, <2>3 DEF PasswordInv, PasswordsAreOwn
<1>5. CASE RegCheck(r)
  <2>1. /\ reg'[r].at = "insert" => reg'[r].hash = buffer
        /\ reg'[r].at \in {"insert", "refused"}
        /\ buffer' = buffer /\ users' = users
    BY <1>1, <1>5 DEF RegCheck, RegAt
  <2>2. buffer = crypt(Form[r].password)
    BY <1>5 DEF RegCheck, PasswordInv, HashesAreOwn
  <2>3. HashesAreOwn'
    BY <1>1, <1>3, <2>1, <2>2 DEF PasswordInv, HashesAreOwn
  <2> QED
    BY <1>2, <2>1, <2>3 DEF PasswordInv, PasswordsAreOwn
<1>6. CASE RegInsert(r)
  <2> DEFINE row == [name |-> Form[r].name, hash |-> reg[r].hash,
                     given |-> Form[r].password, role |-> reg[r].role, by |-> reg[r].by]
  <2>1. reg'[r].at = "done" /\ buffer' = buffer
    BY <1>1, <1>6 DEF RegInsert, RegAt
  <2>2. HashesAreOwn'
    BY <1>1, <1>3, <2>1 DEF PasswordInv, HashesAreOwn
  <2>3. row.hash = crypt(row.given)
    BY <1>6 DEF RegInsert, PasswordInv, HashesAreOwn
  <2>4. users' \subseteq users \cup {row}
    BY <1>6 DEF RegInsert
  <2> HIDE DEF row
  <2>5. PasswordsAreOwn'
    BY <2>3, <2>4 DEF PasswordInv, PasswordsAreOwn, crypt
  <2> QED
    BY <1>2, <2>2, <2>5 DEF PasswordInv
<1> QED
  BY <1>4, <1>5, <1>6 DEF userRegist

\* If no call of crypt() comes between another and the copy of its hash, every account has
\* the password it was registered with and who is logged in has given it: the shared
\* buffer is all that portal_crypt's counterexample needs.
THEOREM PasswordsAreOwnIfApart == Spec /\ CallsApart => [](PasswordsAreOwn /\ LoginsAreOwn)
<1> DEFINE NoLogin == BufferInUse => ~\E l \in Logins : LoginCrypt(l)
           NoReg == BufferInUse => ~\E r \in Regs : RegCrypt(r)
<1>1. SessionInv /\ RoleInv /\ PasswordInv /\ [Next]_vars /\ [NoLogin]_vars /\ [NoReg]_vars
         => PasswordInv'
  <2> SUFFICES ASSUME SessionInv, RoleInv, PasswordInv, [Next]_vars, [NoLogin]_vars,
                      [NoReg]_vars
               PROVE  PasswordInv'
    OBVIOUS
  <2>1. ASSUME UNCHANGED <<users, buffer, login, reg>> PROVE PasswordInv'
    BY <2>1 DEF PasswordInv, HashesAreOwn, PasswordsAreOwn, LoginsAreOwn, Known
  <2>2. CASE (\E t \in Tokens : TokenExpires(t)) \/ Tick \/ UNCHANGED vars
    BY <2>1, <2>2 DEF TokenExpires, Tick, vars
  <2>5. CASE Restart
    <3>1. \A l \in Logins : \/ login'[l] = LoginAt("failed")
                            \/ login'[l] = login[l] /\ login[l].at # "copy"
      BY <2>5 DEF Restart
    <3>2. \A r \in Regs : \/ reg'[r] = RegAt("refused")
                          \/ reg'[r] = reg[r] /\ reg[r].at # "check"
      BY <2>5 DEF Restart
    <3>3. users' = users
      BY <2>5 DEF Restart
    <3>4. HashesAreOwn'
      BY <3>1, <3>2 DEF PasswordInv, HashesAreOwn, LoginAt, RegAt
    <3>5. LoginsAreOwn'
      BY <3>1, <3>3 DEF PasswordInv, LoginsAreOwn, Known, LoginAt
    <3> QED
      BY <3>3, <3>4, <3>5 DEF PasswordInv, PasswordsAreOwn
  <2>3. CASE ~UNCHANGED vars /\ \E l \in Logins : userLogin(l)
    BY <2>3, LoginKeepsPasswords
  <2>4. CASE ~UNCHANGED vars /\ \E r \in Regs : userRegist(r)
    BY <2>4, RegistKeepsPasswords
  <2> QED
    BY <2>2, <2>3, <2>4, <2>5 DEF Next
<1>2. PasswordInv => PasswordsAreOwn /\ LoginsAreOwn
  BY DEF PasswordInv
<1> QED
  BY <1>1, <1>2, PasswordInit, SessionInvHolds, RoleInvHolds, PTL DEF Spec, CallsApart
=============================================================================
