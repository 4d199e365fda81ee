----------------------------- MODULE AccountsProofs -----------------------------
(***************************************************************************)
(* Accounts for any number of people, requests and administrators.  What   *)
(* the properties say of accounts and sessions is inductive only together  *)
(* with what a session stands for: the phone its account has, or the       *)
(* identity that points to it.                                             *)
(***************************************************************************)
EXTENDS Accounts, TLAPS

LimitsInv ==
    /\ provider \in AuthProvider
    /\ count \in [Counters -> 0..(MaxRequests + MaxVerifyAttempts + 1)]
    /\ expires \in [Counters -> BOOLEAN]
    /\ interrupted \subseteq Counters
    /\ proved \subseteq Phones \cup {RootPhone}

Logins == [by : Phones \cup Subjects, phase : Phase]

(* Only a phone is asked for a code, and who has got as far as the login   *)
(* with a phone has proved it.                                             *)
LoginsInv ==
    /\ login \in [Threads -> Logins \cup {None}]
    /\ \A th \in Threads : login[th] # None =>
          IF login[th].phase \in {"login", "insert"}
          THEN login[th].by \in proved \cup Subjects
          ELSE login[th].by \in Phones

Belongs(u) == \E s \in Subjects : identity[s] = u

(* Accounts: phones are unique, every account can be logged in to, verified *)
(* ones were proved, and a session leads to the account of its proof.      *)
PeopleInv ==
    /\ user \in [Ids -> User \cup {None}]
    /\ identity \in [Subjects -> Existing \cup {None}]
    /\ merchants \subseteq Existing
    /\ \A u, v \in Existing : user[u].phone = user[v].phone /\ user[u].phone # None => u = v
    /\ \A u \in Existing : user[u].phone # None \/ Belongs(u)
    /\ \A u \in Existing : user[u].is_verified => user[u].phone \in proved \/ Belongs(u)
    /\ \A s \in sessions :
          /\ s.user \in Existing
          /\ \/ s.by \in Subjects /\ identity[s.by] = s.user
             \/ s.by \in proved /\ user[s.user].phone = s.by

AccountsInv == LimitsInv /\ LoginsInv /\ PeopleInv

LEMMA InitAccounts == Init => AccountsInv
  <1> SUFFICES ASSUME Init PROVE AccountsInv
    OBVIOUS
  <1> USE AccountsAssumption, RowsAssumption
  <1> DEFINE root == [phone |-> RootPhone, role |-> "admin", is_super_admin |-> TRUE,
                      is_active |-> TRUE, is_verified |-> TRUE]
  <1>1. LimitsInv /\ LoginsInv
    BY DEF Init, LimitsInv, LoginsInv
  <1>2. root \in User /\ root.phone = RootPhone
    BY DEF User, UserRole
  <1>3. user = [u \in Ids |-> IF u = Root THEN root ELSE None]
    BY DEF Init
  <1> HIDE DEF root
  <1>4. /\ Existing = {Root} /\ user[Root].phone = RootPhone
        /\ user \in [Ids -> User \cup {None}]
    BY <1>2, <1>3 DEF Existing
  <1>5. PeopleInv
    <2>1. /\ identity = [s \in Subjects |-> None] /\ merchants = {} /\ proved = {RootPhone}
          /\ sessions = {[by |-> RootPhone, user |-> Root]}
      BY DEF Init
    <2> QED
      BY <1>4, <2>1 DEF PeopleInv
  <1> QED
    BY <1>1, <1>5 DEF AccountsInv

-------------------------------------------------------------------------------
(* Requests. *)

LEMMA RequestGoes ==
    ASSUME LoginsInv, proved \subseteq proved', NEW th \in Threads,
           NEW x \in Phones \cup Subjects, NEW phase \in Phase, Goes(th, x, phase),
           IF phase \in {"login", "insert"} THEN x \in proved' \cup Subjects ELSE x \in Phones
    PROVE  LoginsInv'
  <1> DEFINE row == [by |-> x, phase |-> phase]
  <1>1. row \in Logins /\ row.by = x /\ row.phase = phase
    BY DEF Logins
  <1>2. login' = [login EXCEPT ![th] = row]
    BY DEF Goes
  <1> HIDE DEF row
  <1> QED
    BY <1>1, <1>2 DEF LoginsInv

LEMMA RequestEnds ==
    ASSUME LoginsInv, proved \subseteq proved', NEW th \in Threads,
           Ends(th) \/ UNCHANGED login
    PROVE  LoginsInv'
  BY DEF LoginsInv, Ends

LEMMA CounterIncremented ==
    ASSUME LimitsInv, NEW c \in Counters, incr(c)
    PROVE  count' \in [Counters -> 0..(MaxRequests + MaxVerifyAttempts + 1)]
  <1>1. Limit(c) \in Nat /\ Limit(c) <= MaxRequests + MaxVerifyAttempts
    BY AccountsAssumption DEF Limit
  <1>2. count[c] \in Nat /\ count[c] <= MaxRequests + MaxVerifyAttempts + 1
    BY AccountsAssumption DEF LimitsInv
  <1>3. (IF count[c] > Limit(c) THEN count[c] ELSE count[c] + 1)
           \in 0..(MaxRequests + MaxVerifyAttempts + 1)
    BY <1>1, <1>2, AccountsAssumption
  <1> QED
    BY <1>3 DEF LimitsInv, incr

(* Steps of a request before the login touch no account. *)
LEMMA RequestStep ==
    ASSUME LimitsInv, LoginsInv, NEW th \in Threads,
           \/ \E p \in Phones : \/ check_send_rate(th, p) \/ check_verify_rate(th, p)
                                \/ exchange_widget_token(th, p)
           \/ \E s \in Subjects : exchange_firebase_token(th, s)
           \/ expire(th) \/ request_dies(th) \/ verify(th)
    PROVE  /\ LimitsInv' /\ LoginsInv'
           /\ proved \subseteq proved'
           /\ UNCHANGED <<accountVars, sessions>>
  <1> DEFINE Goal == /\ LimitsInv' /\ LoginsInv'
                     /\ proved \subseteq proved'
                     /\ UNCHANGED <<accountVars, sessions>>
  <1> USE DEF Phase
  <1>0. \A p \in Phones : <<"send", p>> \in Counters /\ <<"verify", p>> \in Counters
    BY DEF Counters
  <1>1. ASSUME NEW p \in Phones, check_send_rate(th, p) PROVE Goal
    <2>1. LimitsInv'
      BY <1>0, <1>1, CounterIncremented DEF check_send_rate, LimitsInv
    <2>2. LoginsInv'
      BY <1>1, RequestGoes, RequestEnds DEF check_send_rate
    <2> QED
      BY <1>1, <2>1, <2>2 DEF check_send_rate
  <1>2. ASSUME NEW p \in Phones, check_verify_rate(th, p) PROVE Goal
    <2>1. LimitsInv'
      BY <1>0, <1>2, CounterIncremented DEF check_verify_rate, LimitsInv
    <2>2. LoginsInv'
      BY <1>2, RequestGoes, RequestEnds DEF check_verify_rate
    <2> QED
      BY <1>2, <2>1, <2>2 DEF check_verify_rate
  <1>3. ASSUME NEW p \in Phones, exchange_widget_token(th, p) PROVE Goal
    <2>1. LimitsInv'
      BY <1>3 DEF exchange_widget_token, limitVars, LimitsInv
    <2>2. LoginsInv'
      BY <1>3, RequestGoes DEF exchange_widget_token
    <2> QED
      BY <1>3, <2>1, <2>2 DEF exchange_widget_token
  <1>4. ASSUME NEW s \in Subjects, exchange_firebase_token(th, s) PROVE Goal
    <2>1. LimitsInv'
      BY <1>4 DEF exchange_firebase_token, limitVars, LimitsInv
    <2>2. LoginsInv'
      BY <1>4, RequestGoes DEF exchange_firebase_token
    <2> QED
      BY <1>4, <2>1, <2>2 DEF exchange_firebase_token
  <1>5. ASSUME At(th, "expire_send") \/ At(th, "expire_verify") \/ At(th, "verify")
        PROVE  login[th].by \in Phones
    BY <1>5 DEF At, LoginsInv, Logins
  <1>6. CASE expire(th)
    <2>1. login[th].by \in Phones
      BY <1>5, <1>6 DEF expire
    <2>2. LimitsInv'
      BY <1>0, <1>6, <2>1 DEF expire, LimitsInv
    <2>3. LoginsInv'
      BY <1>6, <2>1, RequestGoes, RequestEnds DEF expire
    <2> QED
      BY <1>6, <2>2, <2>3 DEF expire
  <1>7. CASE request_dies(th)
    <2>1. login[th].by \in Phones
      BY <1>5, <1>7 DEF request_dies
    <2>2. LimitsInv'
      BY <1>0, <1>7, <2>1 DEF request_dies, LimitsInv
    <2>3. LoginsInv'
      BY <1>7, RequestEnds DEF request_dies
    <2> QED
      BY <1>7, <2>2, <2>3 DEF request_dies
  <1>8. CASE verify(th)
    <2>1. login[th].by \in Phones
      BY <1>5, <1>8 DEF verify
    <2>2. LimitsInv'
      <3>1. 0 \in 0..(MaxRequests + MaxVerifyAttempts + 1)
        BY AccountsAssumption
      <3>2. \/ UNCHANGED <<count, expires>>
            \/ /\ count' = [count EXCEPT ![<<"verify", login[th].by>>] = 0]
               /\ expires' = [expires EXCEPT ![<<"verify", login[th].by>>] = FALSE]
        BY <1>8 DEF verify
      <3>3. proved' \subseteq Phones \cup {RootPhone} /\ UNCHANGED <<provider, interrupted>>
        BY <1>8, <2>1 DEF verify, LimitsInv
      <3> QED
        BY <3>1, <3>2, <3>3 DEF LimitsInv
    <2>3. LoginsInv'
      BY <1>8, <2>1, RequestGoes, RequestEnds DEF verify
    <2> QED
      BY <1>8, <2>2, <2>3 DEF verify
  <1> QED
    BY <1>1, <1>2, <1>3, <1>4, <1>6, <1>7, <1>8

-------------------------------------------------------------------------------
(* Accounts. *)

(* A row that changes but keeps its phone, and is verified only if it was, *)
(* or if its phone is proved or an identity points to it.                  *)
LEMMA AccountChanged ==
    ASSUME PeopleInv, proved \subseteq proved', NEW u \in Existing, NEW row \in User,
           user' = [user EXCEPT ![u] = row],
           row.phone = user[u].phone,
           row.is_verified => user[u].is_verified \/ row.phone \in proved' \/ Belongs(u),
           identity' = identity, merchants' \subseteq merchants \cup {u},
           \A s \in sessions' : \/ s \in sessions
                                \/ /\ s.user = u
                                   /\ \/ s.by \in Subjects /\ identity[s.by] = u
                                      \/ s.by \in proved' /\ row.phone = s.by
    PROVE  PeopleInv' /\ Existing' = Existing
  <1> USE RowsAssumption
  <1>1. u \in Ids /\ user \in [Ids -> User \cup {None}] /\ row # None
    BY DEF Existing, PeopleInv
  <1>2. /\ user' \in [Ids -> User \cup {None}]
        /\ user'[u] = row /\ \A v \in Ids : v # u => user'[v] = user[v]
    BY <1>1
  <1>3. Existing' = Existing
    BY <1>1, <1>2 DEF Existing
  <1>4. \A v \in Existing : v \in Ids /\ user'[v].phone = user[v].phone
    BY <1>2 DEF Existing
  <1>5. \A v : Belongs(v)' <=> Belongs(v)
    BY DEF Belongs
  <1>6. \A v \in Existing : user'[v].is_verified => user[v].phone \in proved' \/ Belongs(v)
    BY <1>2, <1>4 DEF PeopleInv
  <1>7. \A s \in sessions' :
          /\ s.user \in Existing
          /\ \/ s.by \in Subjects /\ identity[s.by] = s.user
             \/ s.by \in proved' /\ user'[s.user].phone = s.by
    BY <1>4 DEF PeopleInv
  <1>8. merchants' \subseteq Existing
    BY DEF PeopleInv
  <1>9. \A v, w \in Existing : user'[v].phone = user'[w].phone /\ user'[v].phone # None => v = w
    BY <1>4 DEF PeopleInv
  <1>10. \A v \in Existing : user'[v].phone # None \/ Belongs(v)
    BY <1>4 DEF PeopleInv
  <1>11. identity' \in [Subjects -> Existing \cup {None}]
    BY DEF PeopleInv
  <1> QED
    BY <1>2, <1>3, <1>4, <1>5, <1>6, <1>7, <1>8, <1>9, <1>10, <1>11 DEF PeopleInv

(* A row that is added, with a phone nobody has or an identity of its own. *)
LEMMA AccountAdded ==
    ASSUME PeopleInv, NEW u \in Ids \ Existing, NEW row \in User,
           user' = [user EXCEPT ![u] = row], UNCHANGED <<merchants, proved>>,
           row.phone # None => with_phone(row.phone) = {},
           row.is_verified => row.phone \in proved \/ Belongs(u)',
           row.phone # None \/ Belongs(u)',
           \/ identity' = identity
           \/ \E x \in Subjects : identity[x] = None /\ identity' = [identity EXCEPT ![x] = u],
           \A s \in sessions' : \/ s \in sessions
                                \/ /\ s.user = u
                                   /\ \/ s.by \in Subjects /\ identity'[s.by] = u
                                      \/ s.by \in proved' /\ row.phone = s.by
    PROVE  PeopleInv'
  <1> USE RowsAssumption
  <1>1. u \in Ids /\ user \in [Ids -> User \cup {None}] /\ row # None
    BY DEF PeopleInv
  <1>2. /\ user' \in [Ids -> User \cup {None}]
        /\ user'[u] = row /\ \A v \in Ids : v # u => user'[v] = user[v]
    BY <1>1
  <1>3. Existing' = Existing \cup {u} /\ \A v \in Existing : v \in Ids /\ user'[v] = user[v]
    BY <1>1, <1>2 DEF Existing
  <1>4. identity \in [Subjects -> Existing \cup {None}]
    BY DEF PeopleInv
  <1>5. \A x \in Subjects : identity[x] # None => identity'[x] = identity[x]
    BY <1>4
  <1>6. \A v \in Existing : Belongs(v) => Belongs(v)'
    <2> SUFFICES ASSUME NEW v \in Existing, NEW x \in Subjects, identity[x] = v
                 PROVE  identity'[x] = v
      BY DEF Belongs
    <2>1. v # None
      BY AccountsAssumption DEF Existing
    <2> QED
      BY <1>5, <2>1
  <1>7. identity' \in [Subjects -> Existing' \cup {None}]
    BY <1>3, <1>4
  <1>8. \A v, w \in Existing' : user'[v].phone = user'[w].phone /\ user'[v].phone # None => v = w
    <2>1. \A v \in Existing : row.phone # None => user[v].phone # row.phone
      BY DEF with_phone
    <2> QED
      BY <1>2, <1>3, <2>1 DEF PeopleInv
  <1>9. \A v \in Existing' : user'[v].phone # None \/ Belongs(v)'
    BY <1>2, <1>3, <1>6 DEF PeopleInv
  <1>10. \A v \in Existing' : user'[v].is_verified => user'[v].phone \in proved' \/ Belongs(v)'
    BY <1>2, <1>3, <1>6 DEF PeopleInv
  <1>11. \A s \in sessions' :
          /\ s.user \in Existing'
          /\ \/ s.by \in Subjects /\ identity'[s.by] = s.user
             \/ s.by \in proved' /\ user'[s.user].phone = s.by
    <2> SUFFICES ASSUME NEW s \in sessions'
                 PROVE  /\ s.user \in Existing'
                        /\ \/ s.by \in Subjects /\ identity'[s.by] = s.user
                           \/ s.by \in proved' /\ user'[s.user].phone = s.by
      OBVIOUS
    <2>1. CASE s \in sessions
      <3>1. s.user \in Existing /\ s.user # None
        BY <2>1, AccountsAssumption DEF PeopleInv, Existing
      <3> QED
        BY <1>3, <1>5, <2>1, <3>1 DEF PeopleInv
    <2>2. CASE s \notin sessions
      BY <1>2, <1>3, <2>2
    <2> QED
      BY <2>1, <2>2
  <1>12. merchants' \subseteq Existing'
    BY <1>3 DEF PeopleInv
  <1> QED
    BY <1>2, <1>7, <1>8, <1>9, <1>10, <1>11, <1>12 DEF PeopleInv

(* Nothing is known of accounts but what a growing proved can only confirm. *)
LEMMA AccountsKept ==
    ASSUME PeopleInv, proved \subseteq proved', UNCHANGED <<accountVars, sessions>>
    PROVE  PeopleInv'
  BY DEF PeopleInv, accountVars, Existing, Belongs

LEMMA LimitsKept ==
    ASSUME LimitsInv, UNCHANGED <<provider, limitVars, proved>>
    PROVE  LimitsInv'
  BY DEF LimitsInv, limitVars

(* Whoever is let in is let in to the account of what he proved. *)
LEMMA SomebodyEnters ==
    ASSUME AccountsInv, NEW th \in Threads, At(th, "login") \/ At(th, "insert"),
           NEW u \in account_of(login[th].by), enter(th, u)
    PROVE  AccountsInv'
  <1> DEFINE x == login[th].by
             row == IF x \in Phones /\ user[u].is_active
                    THEN [user[u] EXCEPT !.is_verified = TRUE] ELSE user[u]
  <1>1. x \in Phones \cup Subjects /\ x \in proved \cup Subjects
    BY DEF AccountsInv, LoginsInv, Logins, At
  <1>2. /\ u \in Existing
        /\ x \in Subjects => identity[x] = u
        /\ x \notin Subjects => user[u].phone = x /\ x \in proved
    BY <1>1 DEF account_of, with_phone, AccountsInv, PeopleInv
  <1>3. u \in Ids /\ user[u] \in User /\ user \in [Ids -> User \cup {None}]
    BY <1>2 DEF Existing, AccountsInv, PeopleInv
  <1>4. /\ row \in User /\ row.phone = user[u].phone
        /\ row.is_verified => user[u].is_verified \/ row.phone \in proved
    BY <1>1, <1>2, <1>3, AccountsAssumption DEF User
  <1>5. user' = [user EXCEPT ![u] = row]
    BY <1>3 DEF enter, User
  <1>6. \A s \in sessions' : s \in sessions \/ (s.user = u /\ s.by = x)
    BY DEF enter
  <1>7. UNCHANGED <<provider, identity, merchants, limitVars, proved>> /\ Ends(th)
    BY DEF enter
  <1> HIDE DEF row
  <1>8. PeopleInv'
    <2>1. \A s \in sessions' : \/ s \in sessions
                               \/ /\ s.user = u
                                  /\ \/ s.by \in Subjects /\ identity[s.by] = u
                                     \/ s.by \in proved' /\ row.phone = s.by
      BY <1>2, <1>4, <1>6, <1>7
    <2> QED
      BY <1>2, <1>4, <1>5, <1>7, <2>1, AccountChanged DEF AccountsInv
  <1>9. LoginsInv' /\ LimitsInv'
    BY <1>7, RequestEnds, LimitsKept DEF AccountsInv
  <1> QED
    BY <1>8, <1>9 DEF AccountsInv

LEMMA LoginLookedUp ==
    ASSUME AccountsInv, NEW th \in Threads, login_looks_up(th)
    PROVE  AccountsInv'
  <1>1. ASSUME NEW u \in account_of(login[th].by), enter(th, u) PROVE AccountsInv'
    BY <1>1, SomebodyEnters DEF login_looks_up
  <1>2. ASSUME Goes(th, login[th].by, "insert"),
               UNCHANGED <<provider, accountVars, limitVars, sessions, proved>>
        PROVE  AccountsInv'
    <2>1. login[th].by \in Phones \cup Subjects /\ login[th].by \in proved \cup Subjects
      BY DEF AccountsInv, LoginsInv, Logins, At, login_looks_up
    <2>2. LoginsInv'
      BY <1>2, <2>1, RequestGoes DEF AccountsInv, Phase
    <2> QED
      BY <1>2, <2>2, LimitsKept, AccountsKept DEF AccountsInv
  <1> QED
    BY <1>1, <1>2 DEF login_looks_up

LEMMA LoginInserted ==
    ASSUME AccountsInv, NEW th \in Threads, login_inserts(th)
    PROVE  AccountsInv'
  <1> DEFINE x == login[th].by
  <1>1. ASSUME NEW u \in known_on_insert(x), enter(th, u) PROVE AccountsInv'
    BY <1>1, SomebodyEnters DEF login_inserts, known_on_insert
  <1>2. ASSUME known_on_insert(x) = {}, NEW u \in Ids \ Existing,
               user' = [user EXCEPT ![u] = new_user(x)],
               identity' = IF x \in Subjects THEN [identity EXCEPT ![x] = u] ELSE identity,
               sessions' = sessions \cup {[by |-> x, user |-> u]},
               Ends(th), UNCHANGED <<provider, merchants, limitVars, proved>>
        PROVE  AccountsInv'
    <2>1. x \in Phones \cup Subjects /\ x \in proved \cup Subjects
      BY DEF AccountsInv, LoginsInv, Logins, At, login_inserts
    <2>2. x \in Subjects => identity[x] = None /\ identity'[x] = u /\ Belongs(u)'
      BY <1>2 DEF known_on_insert, account_of, AccountsInv, PeopleInv, Belongs
    <2>3. x \notin Subjects => with_phone(x) = {} /\ x \in Phones /\ x \in proved
      BY <1>2, <2>1 DEF known_on_insert, account_of
    <2>4. new_user(x) \in User /\ new_user(x).phone = IF x \in Phones THEN x ELSE None
      BY DEF new_user, User, UserRole
    <2>5. new_user(x).phone # None => x \in Phones /\ new_user(x).phone = x /\ x \notin Subjects
      BY <2>4, AccountsAssumption
    <2>6. x \notin Subjects => new_user(x).phone = x /\ x # None
      BY <2>3, <2>4, AccountsAssumption
    <2>7. \A s \in sessions' : s \in sessions \/ (s.user = u /\ s.by = x)
      BY <1>2
    <2>8. \A s \in sessions' : \/ s \in sessions
                               \/ /\ s.user = u
                                  /\ \/ s.by \in Subjects /\ identity'[s.by] = u
                                     \/ s.by \in proved' /\ new_user(x).phone = s.by
      BY <1>2, <2>2, <2>3, <2>6, <2>7
    <2>9. \/ identity' = identity
          \/ \E y \in Subjects : identity[y] = None /\ identity' = [identity EXCEPT ![y] = u]
      BY <1>2, <2>2
    <2>10. /\ new_user(x).phone # None => with_phone(new_user(x).phone) = {}
           /\ new_user(x).is_verified => new_user(x).phone \in proved \/ Belongs(u)'
           /\ new_user(x).phone # None \/ Belongs(u)'
      BY <2>2, <2>3, <2>5, <2>6
    <2>11. PeopleInv'
      BY <1>2, <2>4, <2>8, <2>9, <2>10, AccountAdded DEF AccountsInv
    <2> QED
      BY <1>2, <2>11, RequestEnds, LimitsKept DEF AccountsInv
  <1> QED
    BY <1>1, <1>2 DEF login_inserts

LEMMA UserOnboarded ==
    ASSUME AccountsInv, NEW a \in Existing, NEW p \in Phones, NEW role \in UserRole,
           admin_onboard_user(a, p, role)
    PROVE  AccountsInv'
  <1> DEFINE row == pre_registered(p, role)
  <1>1. PICK u \in Ids \ Existing : user' = [user EXCEPT ![u] = row]
    BY DEF admin_onboard_user
  <1>2. /\ with_phone(p) = {}
        /\ UNCHANGED <<provider, identity, merchants, limitVars, login, sessions, proved>>
    BY DEF admin_onboard_user
  <1>3. row \in User /\ row.phone = p /\ ~row.is_verified /\ p # None
    BY AccountsAssumption DEF pre_registered, User
  <1> HIDE DEF row
  <1>4. PeopleInv'
    BY <1>1, <1>2, <1>3, AccountAdded DEF AccountsInv
  <1>5. LimitsInv' /\ LoginsInv'
    BY <1>2, LimitsKept DEF AccountsInv, LoginsInv
  <1> QED
    BY <1>4, <1>5 DEF AccountsInv

LEMMA RoleChanged ==
    ASSUME AccountsInv, NEW a \in Existing,
           \/ apply_as_merchant(a)
           \/ \E u \in Existing, role \in UserRole, is_active \in BOOLEAN :
                 admin_update_user(a, u, role, is_active)
    PROVE  AccountsInv'
  <1>1. PICK u \in Existing, role \in UserRole, is_active \in BOOLEAN :
           /\ user' = [user EXCEPT ![u] = [user[u] EXCEPT !.role = role, !.is_active = is_active]]
           /\ merchants' \subseteq merchants \cup {u}
    <2>1. \A u \in Existing : u \in Ids /\ user[u] \in User
      BY DEF AccountsInv, PeopleInv, Existing
    <2>2. ASSUME apply_as_merchant(a)
          PROVE  /\ user' = [user EXCEPT ![a] =
                       [user[a] EXCEPT !.role = "merchant", !.is_active = user[a].is_active]]
                 /\ merchants' \subseteq merchants \cup {a}
                 /\ user[a].is_active \in BOOLEAN
      BY <2>1, <2>2 DEF apply_as_merchant, User, AccountsInv, PeopleInv
    <2>3. ASSUME NEW u \in Existing, NEW role \in UserRole, NEW is_active \in BOOLEAN,
                 admin_update_user(a, u, role, is_active)
          PROVE  /\ user' = [user EXCEPT ![u] =
                       [user[u] EXCEPT !.role = role, !.is_active = is_active]]
                 /\ merchants' \subseteq merchants \cup {u}
      BY <2>1, <2>3 DEF admin_update_user, User, AccountsInv, PeopleInv
    <2> QED
      BY <2>2, <2>3 DEF UserRole
  <1>2. UNCHANGED <<provider, identity, limitVars, login, sessions, proved>>
    BY DEF apply_as_merchant, admin_update_user
  <1> DEFINE row == [user[u] EXCEPT !.role = role, !.is_active = is_active]
  <1>3. row \in User /\ row.phone = user[u].phone /\ row.is_verified = user[u].is_verified
    <2>1. user[u] \in User
      BY DEF AccountsInv, PeopleInv, Existing
    <2> QED
      BY <2>1 DEF User
  <1> HIDE DEF row
  <1>4. PeopleInv'
    BY <1>1, <1>2, <1>3, AccountChanged DEF AccountsInv, row
  <1>5. LimitsInv' /\ LoginsInv'
    BY <1>2, LimitsKept DEF AccountsInv, LoginsInv
  <1> QED
    BY <1>4, <1>5 DEF AccountsInv

-------------------------------------------------------------------------------
LEMMA StepAccounts == AccountsInv /\ [Next]_vars => AccountsInv'
  <1> SUFFICES ASSUME AccountsInv, [Next]_vars PROVE AccountsInv'
    OBVIOUS
  <1>1. ASSUME NEW th \in Threads, LoginStep(th) PROVE AccountsInv'
    <2>1. CASE login_looks_up(th)
      BY <2>1, LoginLookedUp
    <2>2. CASE login_inserts(th)
      BY <2>2, LoginInserted
    <2>3. CASE \/ \E p \in Phones : \/ check_send_rate(th, p) \/ check_verify_rate(th, p)
                                    \/ exchange_widget_token(th, p)
               \/ \E s \in Subjects : exchange_firebase_token(th, s)
               \/ expire(th) \/ request_dies(th) \/ verify(th)
      BY <2>3, RequestStep, AccountsKept DEF AccountsInv
    <2> QED
      BY <1>1, <2>1, <2>2, <2>3 DEF LoginStep
  <1>2. ASSUME NEW c \in Counters, key_expires(c) PROVE AccountsInv'
    <2>1. LimitsInv'
      BY <1>2, AccountsAssumption DEF key_expires, AccountsInv, LimitsInv
    <2> QED
      BY <1>2, <2>1, AccountsKept DEF key_expires, AccountsInv, LoginsInv
  <1>3. ASSUME NEW a \in Existing, AccountStep(a) PROVE AccountsInv'
    BY <1>3, UserOnboarded, RoleChanged DEF AccountStep
  <1>4. CASE UNCHANGED vars
    BY <1>4, LimitsKept, AccountsKept DEF vars, AccountsInv, LoginsInv
  <1> QED
    BY <1>1, <1>2, <1>3, <1>4 DEF Next

(* The inductive invariant: what requests and counters are, and what       *)
(* accounts, identities and sessions have to do with each other.           *)
THEOREM AccountsInvariant == Spec => []AccountsInv
  BY InitAccounts, StepAccounts, PTL DEF Spec

(* Rows, counters and requests keep their types under every handler of     *)
(* auth.py, admin.py and commerce.py that touches accounts.                *)
THEOREM AccountsTypeCorrect == Spec => []AccountsTypeOK
  <1>1. AccountsInv => AccountsTypeOK
    <2> SUFFICES ASSUME AccountsInv PROVE AccountsTypeOK
      OBVIOUS
    <2>1. \A th \in Threads : login[th] # None =>
             login[th].by \in Phones \cup Subjects /\ login[th].phase \in Phase
      BY DEF AccountsInv, LoginsInv, Logins
    <2>2. \A s \in sessions :
             s.user \in Existing /\ s.by \in Phones \cup Subjects \cup {RootPhone}
      BY DEF AccountsInv, PeopleInv, LimitsInv
    <2> QED
      BY <2>1, <2>2 DEF AccountsInv, PeopleInv, LimitsInv, AccountsTypeOK
  <1> QED
    BY <1>1, AccountsInvariant, PTL

(* However many first logins and pre-registrations of one person race, they *)
(* end in one account, and no account is out of reach.                     *)
THEOREM PeopleHaveOneAccount == Spec => []OneAccountPerPerson
  <1>1. AccountsInv => OneAccountPerPerson
    <2> SUFFICES ASSUME AccountsInv PROVE OneAccountPerPerson
      OBVIOUS
    <2>1. ASSUME NEW s1 \in sessions, NEW s2 \in sessions, s1.by = s2.by
          PROVE  s1.user = s2.user
      <3>1. s1.by \in proved => s1.by \notin Subjects /\ s1.by # None
        BY AccountsAssumption DEF AccountsInv, LimitsInv
      <3> QED
        BY <2>1, <3>1 DEF AccountsInv, PeopleInv
    <2> QED
      BY <2>1 DEF AccountsInv, PeopleInv, OneAccountPerPerson, Belongs
  <1> QED
    BY <1>1, AccountsInvariant, PTL

(* Nobody has a session or counts as verified whose phone or Firebase      *)
(* subject was not proved, pre-registered accounts included.               *)
THEOREM VerifiedWereProved == Spec => []OnlyProvedAccountsAreVerified
  <1>1. AccountsInv => OnlyProvedAccountsAreVerified
    BY DEF AccountsInv, PeopleInv, OnlyProvedAccountsAreVerified, signed_in, Belongs
  <1> QED
    BY <1>1, AccountsInvariant, PTL
===============================================================================
