------------------------------ MODULE Accounts ------------------------------
(***************************************************************************)
(* Accounts, their tokens and pairing codes: AuthService                   *)
(* (internal/service/auth_service.go), the users and auth_tokens tables    *)
(* and the check every request passes (transport/http/auth.go).            *)
(*                                                                         *)
(* A request reads, decides and writes in statements of their own, and     *)
(* nothing holds them together.  So a right may be used after what it was  *)
(* based on has changed: a login compares a password that is replaced      *)
(* before its token is inserted.  UpdateUser therefore writes the account  *)
(* first and revokes its tokens after that.                                *)
(*                                                                         *)
(* A token that can never be used again (revoked, expired, its user        *)
(* deleted) is dropped: Authenticate refuses it like one it never saw.     *)
(* One whose time has not come is a token nobody has used yet.  Time       *)
(* passes by Expire and Lapse.  changed[u] counts the changes              *)
(* that are to revoke u's tokens; what was checked before one carries the  *)
(* count of its time, gen.  changed, owed, made and the field late are     *)
(* history that no action reads; MaxChanged, Codes and Tokens bound a      *)
(* behaviour.                                                              *)
(***************************************************************************)
EXTENDS Naturals, FiniteSets

CONSTANTS
  Users, NoUser, Gone,   \* user ids; a row not created yet; one deleted
  Passwords,
  Asks, Keep,            \* what an UpdateUser may ask, and a nil field of one
  Tokens, Free,          \* token hashes, and one not in use
  Codes, Unused, Spent,  \* pairing codes; one not drawn yet; one off the map
  Clients, Idle,         \* requests under way, and none
  MaxChanged

Roles == {"admin", "user"}
Kinds == {"session", "api"}
Gens == 0..MaxChanged
UserRow == [pw : Passwords, role : Roles, disabled : BOOLEAN]
Ask == [pw : Passwords \cup {Keep}, role : Roles \cup {Keep}, disabled : BOOLEAN \cup {Keep}]
TokenRow == [user : Users, kind : Kinds, gen : Gens, late : BOOLEAN]
Pairing == [user : Users, gen : Gens]

\* at: what the request does next.
Job == [at : {"login"}, user : Users, gen : Gens]                    \* insert its token
  \cup [at : {"claim", "claimed"}, code : Codes, user : Users, gen : Gens]
  \cup [at : {"tell"}, code : Codes]                                 \* signal the watchers
  \cup [at : {"check"}, user : Users, kind : Kinds, token : Tokens, gen : Gens]
  \cup [at : {"in"}, user : Users, role : Roles, kind : Kinds, token : Tokens, gen : Gens]
  \cup [at : {"write"}, user : Users, row : UserRow, ask : Ask]      \* UpdateUser has read
  \cup [at : {"revoke"}, user : Users]                               \* and has written

ASSUME AccountsAssumption ==
  /\ Keep \notin Passwords /\ Keep \notin Roles /\ Keep \notin BOOLEAN
  /\ NoUser \notin UserRow /\ Gone \notin UserRow /\ NoUser # Gone
  /\ Free \notin TokenRow
  /\ Unused \notin Pairing /\ Spent \notin Pairing /\ Unused # Spent
  /\ Idle \notin Job
  /\ Asks \subseteq Ask
  /\ MaxChanged \in Nat

VARIABLES
  users,     \* table users
  tokens,    \* table auth_tokens, those that may still be used
  codes,     \* AuthService.pairings
  told,      \* codes whose channel has had its value and is closed
  job,       \* the requests
  changed,   \* history: revoking changes of each account
  owed,      \* history: accounts whose tokens are still to be revoked
  made       \* history: codes that a session was made from

vars == <<users, tokens, codes, told, job, changed, owed, made>>

Exists(u) == users[u] \in UserRow
Live(k) == tokens[k] # Free
At(c, l) == job[c] # Idle /\ job[c].at = l
Go(c, j) == job' = [job EXCEPT ![c] = j]
End(c) == Go(c, Idle)
Or(new, old) == IF new = Keep THEN old ELSE new

(***************************************************************************)
(* Sessions.  Login compares the password; `session` inserts the token.    *)
(***************************************************************************)
Login(c, u, pw) ==
  /\ job[c] = Idle
  /\ Exists(u) /\ ~users[u].disabled /\ users[u].pw = pw
  /\ Go(c, [at |-> "login", user |-> u, gen |-> changed[u]])
  /\ UNCHANGED <<users, tokens, codes, told, changed, owed, made>>

\* As if the table did not refer to users: a deleted one's token goes in.
InsertUnreferenced(k, u, kind, g) ==
  /\ ~Live(k)
  /\ tokens' = [tokens EXCEPT ![k] =
       [user |-> u, kind |-> kind, gen |-> g, late |-> g # changed[u]]]

\* The row a request adds to auth_tokens: the foreign key wants its user.
Insert(k, u, kind, g) ==
  /\ ~Live(k) /\ Exists(u)
  /\ tokens' = [tokens EXCEPT ![k] =
       [user |-> u, kind |-> kind, gen |-> g, late |-> g # changed[u]]]

Session(c, k) ==
  /\ At(c, "login")
  /\ Insert(k, job[c].user, "session", job[c].gen)
  /\ End(c)
  /\ UNCHANGED <<users, codes, told, changed, owed, made>>

\* As if a code were only looked up: it signs in everyone who has seen it.
TakeCodeKeeping(c, k) ==
  /\ job[c] = Idle
  /\ codes[k] \in Pairing
  /\ Go(c, [at |-> "claim", code |-> k, user |-> codes[k].user, gen |-> codes[k].gen])
  /\ UNCHANGED <<users, tokens, codes, told, changed, owed, made>>

\* ClaimPairing takes the code off the map, whoever asks, and only then reads the account.
TakeCode(c, k) ==
  /\ job[c] = Idle
  /\ codes[k] \in Pairing
  /\ codes' = [codes EXCEPT ![k] = Spent]
  /\ Go(c, [at |-> "claim", code |-> k, user |-> codes[k].user, gen |-> codes[k].gen])
  /\ UNCHANGED <<users, tokens, told, changed, owed, made>>

CheckClaim(c) ==
  /\ At(c, "claim")
  /\ Exists(job[c].user) /\ ~users[job[c].user].disabled
  /\ Go(c, [job[c] EXCEPT !.at = "claimed"])
  /\ UNCHANGED <<users, tokens, codes, told, changed, owed, made>>

ClaimSession(c, k) ==
  /\ At(c, "claimed")
  /\ Insert(k, job[c].user, "session", job[c].gen)
  /\ made' = made \cup {job[c].code}
  /\ Go(c, [at |-> "tell", code |-> job[c].code])
  /\ UNCHANGED <<users, codes, told, changed, owed>>

Tell(c) ==
  /\ At(c, "tell")
  /\ told' = told \cup {job[c].code}
  /\ End(c)
  /\ UNCHANGED <<users, tokens, codes, changed, owed, made>>

(***************************************************************************)
(* Authenticate reads the token, then its user; authorize hands the copy   *)
(* of the user to the handler.                                             *)
(***************************************************************************)
FindToken(c, k) ==
  /\ job[c] = Idle
  /\ Live(k)
  /\ Go(c, [at |-> "check", user |-> tokens[k].user, kind |-> tokens[k].kind,
            token |-> k, gen |-> tokens[k].gen])
  /\ UNCHANGED <<users, tokens, codes, told, changed, owed, made>>

Admit(c) ==
  /\ At(c, "check")
  /\ Exists(job[c].user) /\ ~users[job[c].user].disabled
  /\ Go(c, [at |-> "in", user |-> job[c].user, role |-> users[job[c].user].role,
            kind |-> job[c].kind, token |-> job[c].token, gen |-> job[c].gen])
  /\ UNCHANGED <<users, tokens, codes, told, changed, owed, made>>

\* The routes of accounts and the level each asks for.
AccountRoutes ==
  [login |-> "public", claimPairing |-> "public",
   logout |-> "authed", me |-> "authed",
   startPairing |-> "session", watchPairing |-> "session", setAvatar |-> "session",
   listAPITokens |-> "session", createAPIToken |-> "session", revokeAPIToken |-> "session",
   listUsers |-> "admin", createUser |-> "admin", updateUser |-> "admin", deleteUser |-> "admin"]

In(c, route) ==
  /\ At(c, "in")
  /\ AccountRoutes[route] = "session" => job[c].kind = "session"
  /\ AccountRoutes[route] = "admin" => job[c].role = "admin"

StartPairing(c, k) ==
  /\ In(c, "startPairing")
  /\ codes[k] = Unused
  /\ codes' = [codes EXCEPT ![k] = [user |-> job[c].user, gen |-> job[c].gen]]
  /\ End(c)
  /\ UNCHANGED <<users, tokens, told, changed, owed, made>>

CreateAPIToken(c, k) ==
  /\ In(c, "createAPIToken")
  /\ Insert(k, job[c].user, "api", job[c].gen)
  /\ End(c)
  /\ UNCHANGED <<users, codes, told, changed, owed, made>>

\* Logout revokes the token it came with; RevokeAPIToken one of its user's.
Logout(c) ==
  /\ In(c, "logout")
  /\ tokens' = [tokens EXCEPT ![job[c].token] = Free]
  /\ End(c)
  /\ UNCHANGED <<users, codes, told, changed, owed, made>>

RevokeAPIToken(c, k) ==
  /\ In(c, "revokeAPIToken")
  /\ Live(k) /\ tokens[k].user = job[c].user /\ tokens[k].kind = "api"
  /\ tokens' = [tokens EXCEPT ![k] = Free]
  /\ End(c)
  /\ UNCHANGED <<users, codes, told, changed, owed, made>>

(***************************************************************************)
(* Administration.  The caller's role is the copy authorize made.          *)
(***************************************************************************)
CreateUser(c, u, pw, role) ==
  /\ In(c, "createUser")
  /\ users[u] = NoUser
  /\ users' = [users EXCEPT ![u] = [pw |-> pw, role |-> role, disabled |-> FALSE]]
  /\ End(c)
  /\ UNCHANGED <<tokens, codes, told, changed, owed, made>>

\* The whole row is read, and written back two steps later.
ReadUser(c, u, ask) ==
  /\ In(c, "updateUser")
  /\ Exists(u)
  /\ Go(c, [at |-> "write", user |-> u, row |-> users[u], ask |-> ask])
  /\ UNCHANGED <<users, tokens, codes, told, changed, owed, made>>

Revokes(ask) == ask.pw # Keep \/ ask.role # Keep \/ ask.disabled = TRUE

Edited(row, ask) ==
  [pw |-> Or(ask.pw, row.pw), role |-> Or(ask.role, row.role),
   disabled |-> Or(ask.disabled, row.disabled)]

WriteUser(c) ==
  /\ At(c, "write")
  /\ LET u == job[c].user
         ask == job[c].ask
     IN /\ Exists(u)
        /\ users' = [users EXCEPT ![u] = Edited(job[c].row, ask)]
        /\ IF Revokes(ask)
           THEN /\ changed[u] < MaxChanged
                /\ changed' = [changed EXCEPT ![u] = @ + 1]
                /\ owed' = owed \cup {u}
                /\ Go(c, [at |-> "revoke", user |-> u])
           ELSE End(c) /\ UNCHANGED <<changed, owed>>
  /\ UNCHANGED <<tokens, codes, told, made>>

\* As if only the login sessions were revoked.
WithoutSessions(u) ==
  [k \in Tokens |-> IF Live(k) /\ tokens[k].user = u /\ tokens[k].kind = "session"
                   THEN Free ELSE tokens[k]]

\* What is left of the tokens when u's are revoked or deleted with their user.
Without(u) == [k \in Tokens |-> IF Live(k) /\ tokens[k].user = u THEN Free ELSE tokens[k]]

RevokeAllForUser(c) ==
  /\ At(c, "revoke")
  /\ tokens' = Without(job[c].user)
  /\ owed' = owed \ {job[c].user}
  /\ End(c)
  /\ UNCHANGED <<users, codes, told, changed, made>>

\* The tokens go with the row, the codes stay on the map.
DeleteUser(c, u) ==
  /\ In(c, "deleteUser") /\ u # job[c].user
  /\ Exists(u)
  /\ users' = [users EXCEPT ![u] = Gone]
  /\ tokens' = Without(u)
  /\ owed' = owed \ {u}
  /\ End(c)
  /\ UNCHANGED <<codes, told, changed, made>>

\* A request that is refused, that only reads, whose next statement fails, or whose
\* client has gone, which cancels its statements.  Telling the watchers cannot fail.
Fail(c) ==
  /\ job[c] # Idle /\ ~At(c, "tell")
  /\ End(c)
  /\ UNCHANGED <<users, tokens, codes, told, changed, owed, made>>

(***************************************************************************)
(* Time, and a restart: the codes are in memory, the tables are not.       *)
(***************************************************************************)
Expire(k) ==
  /\ Live(k)
  /\ tokens' = [tokens EXCEPT ![k] = Free]
  /\ UNCHANGED <<users, codes, told, job, changed, owed, made>>

Lapse(k) ==
  /\ codes[k] \in Pairing
  /\ codes' = [codes EXCEPT ![k] = Spent]
  /\ UNCHANGED <<users, tokens, told, job, changed, owed, made>>

\* EnsureAdmin: an installation without a user is given an administrator.  It may have
\* the id of a deleted one here, which no token, code or request remembers any more.
EnsureAdmin(table) ==
  IF \E u \in Users : table[u] \in UserRow THEN {table}
  ELSE {[table EXCEPT ![u] = [pw |-> pw, role |-> "admin", disabled |-> FALSE]] :
          u \in Users, pw \in Passwords}

Restart ==
  /\ users' \in EnsureAdmin(users)
  /\ codes' = [k \in Codes |-> IF codes[k] = Unused THEN Unused ELSE Spent]
  /\ job' = [c \in Clients |-> Idle]
  /\ UNCHANGED <<tokens, told, changed, owed, made>>

Init ==
  /\ users \in EnsureAdmin([u \in Users |-> NoUser])
  /\ tokens = [k \in Tokens |-> Free]
  /\ codes = [k \in Codes |-> Unused]
  /\ told = {} /\ made = {} /\ owed = {}
  /\ job = [c \in Clients |-> Idle]
  /\ changed = [u \in Users |-> 0]

SignIn(c) ==
  \/ \E u \in Users, pw \in Passwords : Login(c, u, pw)
  \/ \E k \in Tokens : Session(c, k) \/ ClaimSession(c, k)
  \/ \E k \in Codes : TakeCode(c, k)
  \/ CheckClaim(c) \/ Tell(c)

Own(c) ==
  \/ \E k \in Tokens : FindToken(c, k) \/ CreateAPIToken(c, k) \/ RevokeAPIToken(c, k)
  \/ Admit(c) \/ Logout(c)
  \/ \E k \in Codes : StartPairing(c, k)

Administer(c) ==
  \/ \E u \in Users, pw \in Passwords, role \in Roles : CreateUser(c, u, pw, role)
  \/ \E u \in Users, ask \in Asks : ReadUser(c, u, ask)
  \/ WriteUser(c) \/ RevokeAllForUser(c)
  \/ \E u \in Users : DeleteUser(c, u)

Passing ==
  \/ \E k \in Tokens : Expire(k)
  \/ \E k \in Codes : Lapse(k)

Next ==
  \/ \E c \in Clients : SignIn(c) \/ Own(c) \/ Administer(c) \/ Fail(c)
  \/ Passing
  \/ Restart

Spec == Init /\ [][Next]_vars

(***************************************************************************)
(* Properties                                                              *)
(***************************************************************************)

\* The variables keep their types, and a token has a user: auth_tokens refers to users.
TypeOK ==
  /\ users \in [Users -> UserRow \cup {NoUser, Gone}]
  /\ tokens \in [Tokens -> TokenRow \cup {Free}]
  /\ codes \in [Codes -> Pairing \cup {Unused, Spent}]
  /\ told \subseteq Codes /\ made \subseteq Codes
  /\ job \in [Clients -> Job \cup {Idle}]
  /\ changed \in [Users -> Gens]
  /\ owed \subseteq Users
  /\ \A k \in Tokens : Live(k) => Exists(tokens[k].user)

\* A change of password or role, or disabling, revokes the tokens that are there (README:68):
\* a token older than its account's last such change was inserted after the change, by a
\* request that had been checked before it, or the statement that revokes is still to come
\* or has failed.  This is what the order of UpdateUser's two statements is for.
RevokedStayOut ==
  \A k \in Tokens : Live(k) =>
    \/ tokens[k].gen = changed[tokens[k].user]
    \/ tokens[k].late
    \/ tokens[k].user \in owed

Claimants(k) == {c \in Clients : /\ job[c] # Idle
                                 /\ job[c].at \in {"claim", "claimed", "tell"}
                                 /\ job[c].code = k}

\* A pairing code signs one device in (auth_service.go:98) and its channel, which has room
\* for one value and is then closed, is told once, after the session exists: however many
\* claim the code, one request has it.
PairingOnce ==
  \A k \in Codes :
    /\ codes[k] \in Pairing \cup {Unused} => Claimants(k) = {} /\ k \notin made
    /\ \A c, d \in Claimants(k) : c = d
    /\ \A c \in Claimants(k) : k \notin told /\ (k \in made <=> job[c].at = "tell")
    /\ told \subseteq made

AccountsInv == TypeOK /\ RevokedStayOut /\ PairingOnce
=============================================================================
