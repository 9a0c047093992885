-------------------------------- MODULE Auth --------------------------------
(* The authentication service (auth/mod.rs, auth/jwt.rs) as the handlers   *)
(* and the middleware use it.  Users, names and the blocklist are three    *)
(* concurrent maps: each access is atomic, a method is not.  Tokens are    *)
(* signed and held by the clients, so that they outlive the process; the   *)
(* maps do not.  Passwords are abstracted to whether they match.           *)
EXTENDS Naturals

CONSTANTS Clients,      \* concurrent requests
          Usernames,
          UserIds,      \* fresh UUIDs
          Jtis,         \* fresh token identifiers
          expiry_secs, refresh_expiry_secs,
          MaxTime       \* bound on the clock, in seconds

VARIABLES users,        \* user id -> name
          usernames,    \* name -> user id
          blocklist,    \* token_blocklist, a set of token identifiers
          issued,       \* the claims of every token signed so far
          login,        \* per client: the method being executed
          drawn,        \* user ids drawn so far
          revoked,      \* tokens whose logout was carried out
          now           \* the clock in seconds

authVars == <<users, usernames, blocklist, issued, login, drawn, revoked, now>>

Claims == [sub : UserIds, refresh : BOOLEAN, exp : 0..(MaxTime + refresh_expiry_secs)]

AuthTypeOK ==
    /\ DOMAIN users \subseteq drawn /\ drawn \subseteq UserIds
    /\ DOMAIN usernames \subseteq Usernames
    /\ DOMAIN issued \subseteq Jtis
    /\ \A t \in DOMAIN issued : issued[t] \in Claims
    /\ blocklist \subseteq DOMAIN issued /\ revoked \subseteq DOMAIN issued

Put(f, k, v) == [x \in DOMAIN f \cup {k} |-> IF x = k THEN v ELSE f[x]]

Waiting == [op |-> "none"]

Init ==
    /\ users = [u \in {} |-> u]
    /\ usernames = [n \in {} |-> n]
    /\ blocklist = {}
    /\ issued = [t \in {} |-> t]
    /\ login = [c \in Clients |-> Waiting]
    /\ drawn = {}
    /\ revoked = {}
    /\ now = 0

Ready(c) == login[c] = Waiting

Done(c) == login' = [login EXCEPT ![c] = Waiting]

create_access_token(u)  == [sub |-> u, refresh |-> FALSE, exp |-> now + expiry_secs]
create_refresh_token(u) == [sub |-> u, refresh |-> TRUE, exp |-> now + refresh_expiry_secs]

\* Identifiers have no meaning: the next one drawn stands for any fresh one.
Fresh(ids, taken) == IF ids \subseteq taken THEN {} ELSE {CHOOSE i \in ids : i \notin taken}

\* The pair of tokens that ends register, login and refresh.
Sign(u) ==
    \E t \in Fresh(Jtis, DOMAIN issued) : \E r \in Fresh(Jtis, DOMAIN issued \cup {t}) :
        issued' = Put(Put(issued, t, create_access_token(u)), r, create_refresh_token(u))

\* The signature is good and the expiry (leeway 0, whole seconds) has not
\* passed; a refresh token is good only where refresh tokens are allowed.
validate_token(t, allow_refresh) ==
    /\ now <= issued[t].exp
    /\ issued[t].refresh => allow_refresh

\* register: the name is looked up, the password hashed ...
RegisterCheck(c) ==
    /\ Ready(c)
    /\ \E n \in Usernames \ DOMAIN usernames :
         login' = [login EXCEPT ![c] = [op |-> "hashed", name |-> n]]
    /\ UNCHANGED <<users, usernames, blocklist, issued, drawn, revoked, now>>

\* ... the user is stored under a fresh id ...
RegisterUser(c) ==
    /\ login[c].op = "hashed"
    /\ \E u \in Fresh(UserIds, drawn) :
         /\ users' = Put(users, u, login[c].name)
         /\ drawn' = drawn \cup {u}
         /\ login' = [login EXCEPT ![c] = [op |-> "stored", user |-> u]]
    /\ UNCHANGED <<usernames, blocklist, issued, revoked, now>>

\* ... and the name after it, which replaces the entry of a registration of
\* the same name that ran at the same time.
RegisterName(c) ==
    /\ login[c].op = "stored"
    /\ usernames' = Put(usernames, users[login[c].user], login[c].user)
    /\ Sign(login[c].user)
    /\ Done(c)
    /\ UNCHANGED <<users, blocklist, drawn, revoked, now>>

\* login (POST /v1/auth/token) with the right password.
Login(c) ==
    /\ Ready(c)
    /\ \E n \in DOMAIN usernames : usernames[n] \in DOMAIN users /\ Sign(usernames[n])
    /\ UNCHANGED <<users, usernames, blocklist, login, drawn, revoked, now>>

\* Mutant: the user of a token is not looked up.
refresh_without_user(t) == validate_token(t, TRUE) /\ t \notin blocklist

\* What refresh_token accepts: any token of a known user, access tokens too.
refresh_token(t) ==
    /\ validate_token(t, TRUE)
    /\ t \notin blocklist
    /\ issued[t].sub \in DOMAIN users

validate_access_token(t) ==
    /\ validate_token(t, FALSE)
    /\ t \notin blocklist
    /\ issued[t].sub \in DOMAIN users

\* POST /v1/auth/refresh: the token is checked, then a new pair is signed.
Refresh(c) ==
    /\ Ready(c)
    /\ \E t \in DOMAIN issued :
         /\ refresh_token(t)
         /\ login' = [login EXCEPT ![c] = [op |-> "refresh", user |-> issued[t].sub]]
    /\ UNCHANGED <<users, usernames, blocklist, issued, drawn, revoked, now>>

RefreshSign(c) ==
    /\ login[c].op = "refresh"
    /\ Sign(login[c].user)
    /\ Done(c)
    /\ UNCHANGED <<users, usernames, blocklist, drawn, revoked, now>>

\* logout: only a valid access token is entered in the blocklist; the answer
\* is the same for any other.
Logout(c) ==
    /\ Ready(c)
    /\ \E t \in DOMAIN issued :
         /\ validate_token(t, FALSE)
         /\ blocklist' = blocklist \cup {t}
         /\ revoked' = revoked \cup {t}
    /\ UNCHANGED <<users, usernames, issued, login, drawn, now>>

\* cleanup_blocklist: the entries whose expiry has passed.  The entry of a
\* token expires within the second that the token is still accepted in.
Cleanup ==
    /\ \E last \in SUBSET {t \in blocklist : issued[t].exp = now} :
         blocklist' = {t \in blocklist : issued[t].exp >= now} \ last
    /\ UNCHANGED <<users, usernames, issued, login, drawn, revoked, now>>

Tick ==
    /\ now < MaxTime
    /\ now' = now + 1
    /\ UNCHANGED <<users, usernames, blocklist, issued, login, drawn, revoked>>

\* A new process with the same signing secret and empty maps.
AuthRestart ==
    /\ users' = [u \in {} |-> u]
    /\ usernames' = [n \in {} |-> n]
    /\ blocklist' = {}
    /\ login' = [c \in Clients |-> Waiting]
    /\ UNCHANGED <<issued, drawn, revoked, now>>

Next ==
    \/ Cleanup \/ Tick \/ AuthRestart
    \/ \E c \in Clients :
         \/ RegisterCheck(c) \/ RegisterUser(c) \/ RegisterName(c)
         \/ Login(c) \/ Refresh(c) \/ RefreshSign(c) \/ Logout(c)

AuthSpec == Init /\ [][Next]_authVars
-----------------------------------------------------------------------------
\* A token that was logged out opens nothing again, neither a protected
\* route nor a refresh, whatever is cleaned up or restarted: until the last
\* second of its life the blocklist refuses it, and after a restart the
\* lookup of its user does.
RevokedRefused ==
    \A t \in revoked :
        validate_access_token(t) \/ refresh_token(t) => now = issued[t].exp
-----------------------------------------------------------------------------
\* A revoked token is on the blocklist, or its last second has come, or its
\* user is gone; and no identifier of a user is ever drawn again.
Shut(t) ==
    \/ t \in blocklist
    \/ now >= issued[t].exp
    \/ issued[t].sub \notin DOMAIN users

Signed ==
    \A t \in DOMAIN issued : issued[t].exp \in Nat /\ issued[t].sub \in drawn

AuthInv ==
    /\ now \in Nat
    /\ DOMAIN users \subseteq drawn
    /\ \A c \in Clients : login[c].op \in {"stored", "refresh"} => login[c].user \in drawn
    /\ login = [c \in Clients |-> login[c]]
    /\ Signed
    /\ revoked \subseteq DOMAIN issued
    /\ \A t \in revoked : Shut(t)
=============================================================================
