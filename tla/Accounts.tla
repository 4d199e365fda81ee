------------------------------- MODULE Accounts -------------------------------
(***************************************************************************)
(* Accounts: how a person who proves a phone number or a Firebase subject  *)
(* gets one, what requests per phone number are limited to, and who may    *)
(* change whose role.                                                      *)
(*                                                                         *)
(* A login looks its account up, and inserts it if there is none; nothing  *)
(* is locked, so it is two steps and the unique constraint decides.  The   *)
(* limits live in Redis: incrementing a counter and giving it its expiry   *)
(* are two calls, and the server may die between them.                     *)
(***************************************************************************)
EXTENDS Naturals

CONSTANTS
    Phones, Subjects,   \* phone numbers, Firebase subjects
    Ids,                \* users.id that may come to exist
    Root, RootPhone,    \* the super administrator that bootstrap_pilot provides
    Threads,            \* login requests the server works on at the same time
    MaxRequests,        \* OTP_MAX_REQUESTS_PER_WINDOW
    MaxVerifyAttempts,  \* OTP_MAX_VERIFY_ATTEMPTS
    None                \* NULL

ASSUME AccountsAssumption ==
    /\ Root \in Ids /\ RootPhone \notin Phones \cup Subjects
    /\ None \notin Phones \cup Subjects \cup Ids \cup {RootPhone}
    /\ Phones \cap Subjects = {}
    /\ MaxRequests \in Nat \ {0} /\ MaxVerifyAttempts \in Nat \ {0}

UserRole == {"customer", "merchant", "delivery", "admin"}
User == [phone : Phones \cup {RootPhone, None}, role : UserRole,
         is_super_admin : BOOLEAN, is_active : BOOLEAN, is_verified : BOOLEAN]
AuthProvider == {"local_otp", "msg91_widget", "firebase"}

(* Where a request is: at the expiry of a new counter, at the code, at the *)
(* look-up, at the insertion.                                              *)
Phase == {"expire_send", "expire_verify", "verify", "login", "insert"}

(* The counters: sends and verification attempts, per phone. *)
Counters == {"send", "verify"} \X Phones
Limit(c) == IF c[1] = "send" THEN MaxRequests ELSE MaxVerifyAttempts

ASSUME RowsAssumption ==
    None \notin User \cup [by : Phones \cup Subjects, phase : Phase]

VARIABLES
    provider,   \* AUTH_PROVIDER; not changed while the system runs
    user,       \* users
    identity,   \* external_identities
    merchants,  \* owners of a merchants row
    count, expires,     \* Redis: the counters and whether they have an expiry
    login,      \* requests that are being worked on
    sessions,   \* access tokens issued: for which proof, to which account
    proved,     \* history: the phones whose holder proved them
    interrupted \* history: counters whose first request died before the expiry

limitVars == <<count, expires, interrupted>>
accountVars == <<user, identity, merchants>>
vars == <<provider, accountVars, limitVars, login, sessions, proved>>

Existing == {u \in Ids : user[u] # None}
with_phone(p) == {u \in Existing : user[u].phone = p}

Init ==
    /\ provider \in AuthProvider
    /\ user = [u \in Ids |->
          IF u = Root THEN [phone |-> RootPhone, role |-> "admin", is_super_admin |-> TRUE,
                            is_active |-> TRUE, is_verified |-> TRUE]
                      ELSE None]
    /\ identity = [s \in Subjects |-> None]
    /\ merchants = {}
    /\ count = [c \in Counters |-> 0]
    /\ expires = [c \in Counters |-> FALSE]
    /\ interrupted = {}
    /\ login = [th \in Threads |-> None]
    /\ sessions = {[by |-> RootPhone, user |-> Root]}
    /\ proved = {RootPhone}

At(th, phase) == login[th] # None /\ login[th].phase = phase
Goes(th, by, phase) == login' = [login EXCEPT ![th] = [by |-> by, phase |-> phase]]
Ends(th) == login' = [login EXCEPT ![th] = None]

-------------------------------------------------------------------------------
(* Limits.  RateLimiter.enforce makes the same calls for its own keys that *)
(* request_otp makes for a phone, so "send" stands for both.  A counter is *)
(* not followed past the first value over its limit.                       *)

incr(c) == count' = [count EXCEPT ![c] = IF @ > Limit(c) THEN @ ELSE @ + 1]

(* Mutant: the increment's result is compared with 0. *)
sets_expiry_Never(c) == count[c] + 1 = 0

(* The request whose increment makes the counter 1 gives it its expiry. *)
sets_expiry(c) == count[c] = 0

(* request_otp: the rate check; sending the code changes nothing here. *)
check_send_rate(th, p) ==
    LET c == <<"send", p>>
    IN /\ provider = "local_otp" /\ login[th] = None
       /\ incr(c)
       /\ IF sets_expiry(c) THEN Goes(th, p, "expire_send") ELSE UNCHANGED login
       /\ UNCHANGED <<provider, accountVars, expires, interrupted, sessions, proved>>

(* verify_otp: the attempt is counted before the code is looked at. *)
check_verify_rate(th, p) ==
    LET c == <<"verify", p>>
    IN /\ provider = "local_otp" /\ login[th] = None
       /\ incr(c)
       /\ IF sets_expiry(c) THEN Goes(th, p, "expire_verify")
          ELSE IF count[c] + 1 <= Limit(c) THEN Goes(th, p, "verify")
          ELSE UNCHANGED login
       /\ UNCHANGED <<provider, accountVars, expires, interrupted, sessions, proved>>

(* EXPIRE does nothing if the key is gone. *)
expire(th) ==
    /\ At(th, "expire_send") \/ At(th, "expire_verify")
    /\ LET p == login[th].by
           c == IF At(th, "expire_send") THEN <<"send", p>> ELSE <<"verify", p>>
       IN /\ expires' = [expires EXCEPT ![c] = count[c] > 0]
          /\ IF At(th, "expire_send") THEN Ends(th) ELSE Goes(th, p, "verify")
    /\ UNCHANGED <<provider, accountVars, count, interrupted, sessions, proved>>

key_expires(c) ==
    /\ expires[c]
    /\ count' = [count EXCEPT ![c] = 0]
    /\ expires' = [expires EXCEPT ![c] = FALSE]
    /\ UNCHANGED <<provider, accountVars, interrupted, login, sessions, proved>>

(* The server dies, or Redis fails, between the two calls. *)
request_dies(th) ==
    /\ At(th, "expire_send") \/ At(th, "expire_verify")
    /\ LET c == <<IF At(th, "expire_send") THEN "send" ELSE "verify", login[th].by>>
       IN interrupted' = interrupted \cup {c}
    /\ Ends(th)
    /\ UNCHANGED <<provider, accountVars, count, expires, sessions, proved>>

-------------------------------------------------------------------------------
(* Proofs of identity. *)

(* MSG91 accepts the code, and the attempts are forgotten unless Redis has *)
(* failed meanwhile; or it does not.                                       *)
verify(th) ==
    /\ At(th, "verify")
    /\ LET p == login[th].by
           c == <<"verify", p>>
       IN \/ Ends(th) /\ UNCHANGED <<count, expires, proved>>
          \/ /\ proved' = proved \cup {p}
             /\ \/ /\ count' = [count EXCEPT ![c] = 0]
                   /\ expires' = [expires EXCEPT ![c] = FALSE]
                \/ UNCHANGED <<count, expires>>
             /\ Goes(th, p, "login")
    /\ UNCHANGED <<provider, accountVars, interrupted, sessions>>

exchange_widget_token(th, p) ==
    /\ provider = "msg91_widget" /\ login[th] = None
    /\ proved' = proved \cup {p}
    /\ Goes(th, p, "login")
    /\ UNCHANGED <<provider, accountVars, limitVars, sessions>>

exchange_firebase_token(th, s) ==
    /\ provider = "firebase" /\ login[th] = None
    /\ Goes(th, s, "login")
    /\ UNCHANGED <<provider, accountVars, limitVars, sessions, proved>>

-------------------------------------------------------------------------------
(* _login_verified_phone and _login_firebase_identity. *)

(* Mutant: the constraints are missing, so the insertion never fails. *)
known_on_insert_Never(x) == {}

account_of(x) ==
    IF x \in Subjects THEN {identity[x]} \ {None} ELSE with_phone(x)

(* IntegrityError, and the account that was there first. *)
known_on_insert(x) == account_of(x)

enter(th, u) ==
    /\ IF user[u].is_active
       THEN /\ sessions' = sessions \cup {[by |-> login[th].by, user |-> u]}
            /\ user' = IF login[th].by \in Phones
                       THEN [user EXCEPT ![u].is_verified = TRUE] ELSE user
       ELSE UNCHANGED <<sessions, user>>
    /\ Ends(th)
    /\ UNCHANGED <<provider, identity, merchants, limitVars, proved>>

login_looks_up(th) ==
    /\ At(th, "login")
    /\ \/ \E u \in account_of(login[th].by) : enter(th, u)
       \/ /\ account_of(login[th].by) = {}
          /\ Goes(th, login[th].by, "insert")
          /\ UNCHANGED <<provider, accountVars, limitVars, sessions, proved>>

new_user(x) ==
    [phone |-> IF x \in Phones THEN x ELSE None, role |-> "customer",
     is_super_admin |-> FALSE, is_active |-> TRUE, is_verified |-> TRUE]

(* Mutant: a pre-registered phone counts as verified. *)
pre_registered_Verified(p, role) ==
    [phone |-> p, role |-> role, is_super_admin |-> FALSE, is_active |-> TRUE,
     is_verified |-> TRUE]

pre_registered(p, role) ==
    [phone |-> p, role |-> role, is_super_admin |-> FALSE, is_active |-> TRUE,
     is_verified |-> FALSE]

(* Mutant: the identity is committed without its user. *)
login_inserts_Halfway(th) ==
    LET x == login[th].by
    IN /\ At(th, "insert")
       /\ known_on_insert(x) = {}
       /\ \E u \in Ids \ Existing :
             identity' = IF x \in Subjects THEN [identity EXCEPT ![x] = u] ELSE identity
       /\ Ends(th)
       /\ UNCHANGED <<provider, user, merchants, limitVars, sessions, proved>>

login_inserts(th) ==
    LET x == login[th].by
    IN /\ At(th, "insert")
       /\ \/ \E u \in known_on_insert(x) : enter(th, u)
          \/ /\ known_on_insert(x) = {}
             /\ \E u \in Ids \ Existing :
                   /\ user' = [user EXCEPT ![u] = new_user(x)]
                   /\ identity' = IF x \in Subjects THEN [identity EXCEPT ![x] = u]
                                                    ELSE identity
                   /\ sessions' = sessions \cup {[by |-> x, user |-> u]}
             /\ Ends(th)
             /\ UNCHANGED <<provider, merchants, limitVars, proved>>

-------------------------------------------------------------------------------
(* What accounts may do to each other. *)

(* get_current_user: a token is good while its account is active. *)
signed_in(u) == u \in Existing /\ user[u].is_active /\ \E s \in sessions : s.user = u

(* capabilities_for: ADMIN_MANAGE. *)
manages(u) == signed_in(u) /\ user[u].role = "admin" /\ user[u].is_super_admin

admin_onboard_user(a, p, role) ==
    /\ manages(a)
    /\ provider \in {"local_otp", "msg91_widget"}
    /\ role # "admin"
    /\ with_phone(p) = {}
    /\ \E u \in Ids \ Existing :
          user' = [user EXCEPT ![u] = pre_registered(p, role)]
    /\ UNCHANGED <<provider, identity, merchants, limitVars, login, sessions, proved>>

(* A super administrator's row is left alone, and nobody locks himself out. *)
may_change(a, u) == ~user[u].is_super_admin /\ a # u

admin_update_user(a, u, role, is_active) ==
    /\ manages(a)
    /\ may_change(a, u)
    /\ user' = [user EXCEPT ![u].role = role, ![u].is_active = is_active]
    /\ user' # user
    /\ UNCHANGED <<provider, identity, merchants, limitVars, login, sessions, proved>>

(* Whatever the applicant was, he is a merchant now. *)
apply_as_merchant(u) ==
    /\ signed_in(u)
    /\ u \notin merchants
    /\ merchants' = merchants \cup {u}
    /\ user' = [user EXCEPT ![u].role = "merchant"]
    /\ UNCHANGED <<provider, identity, limitVars, login, sessions, proved>>

-------------------------------------------------------------------------------
LoginStep(th) ==
    \/ \E p \in Phones :
          check_send_rate(th, p) \/ check_verify_rate(th, p) \/ exchange_widget_token(th, p)
    \/ \E s \in Subjects : exchange_firebase_token(th, s)
    \/ expire(th) \/ request_dies(th) \/ verify(th)
    \/ login_looks_up(th) \/ login_inserts(th)

AccountStep(a) ==
    \/ apply_as_merchant(a)
    \/ \E p \in Phones, role \in UserRole : admin_onboard_user(a, p, role)
    \/ \E u \in Existing, role \in UserRole, is_active \in BOOLEAN :
          admin_update_user(a, u, role, is_active)

Next ==
    \/ \E th \in Threads : LoginStep(th)
    \/ \E c \in Counters : key_expires(c)
    \/ \E a \in Existing : AccountStep(a)

Spec == Init /\ [][Next]_vars

(* A request that is being worked on goes on or dies, and Redis drops keys *)
(* that are past their expiry.                                             *)
FairSpec ==
    /\ Spec
    /\ \A th \in Threads : WF_vars(expire(th) \/ request_dies(th))
    /\ \A c \in Counters : WF_vars(key_expires(c))

-------------------------------------------------------------------------------
(* Properties. *)

(* Rows, counters and requests keep their types; identities, merchants and *)
(* sessions belong to accounts that exist.                                 *)
AccountsTypeOK ==
    /\ provider \in AuthProvider
    /\ user \in [Ids -> User \cup {None}]
    /\ identity \in [Subjects -> Existing \cup {None}]
    /\ merchants \subseteq Existing
    /\ count \in [Counters -> 0..(MaxRequests + MaxVerifyAttempts + 1)]
    /\ expires \in [Counters -> BOOLEAN]
    /\ interrupted \subseteq Counters
    /\ \A th \in Threads : login[th] # None =>
          /\ login[th].by \in Phones \cup Subjects
          /\ login[th].phase \in Phase
    /\ \A s \in sessions : s.user \in Existing /\ s.by \in Phones \cup Subjects \cup {RootPhone}
    /\ proved \subseteq Phones \cup {RootPhone}

(* However many first logins of one person race each other, with or        *)
(* without a pre-registration in between, they all end in the same account, *)
(* and no account is left behind that nobody can log in to.                *)
OneAccountPerPerson ==
    /\ \A s1, s2 \in sessions : s1.by = s2.by => s1.user = s2.user
    /\ \A u \in Existing :
          user[u].phone # None \/ \E s \in Subjects : identity[s] = u

(* Pre-registration gives nobody access: an account is verified, and has a *)
(* session, only after its own phone or Firebase subject was proved.       *)
OnlyProvedAccountsAreVerified ==
    \A u \in Existing :
        user[u].is_verified \/ signed_in(u) =>
            \/ user[u].phone \in proved
            \/ \E s \in Subjects : identity[s] = u

(* A limit that was hit ends, unless the request that should have set its  *)
(* expiry died: concurrent requests and successful verifications, which    *)
(* delete the counter in between, do not leave it without one.             *)
LimitsEnd ==
    \A c \in Counters : count[c] > Limit(c) ~> (count[c] = 0 \/ c \in interrupted)
===============================================================================
