--------------------------- MODULE AccountsProofs ---------------------------
(***************************************************************************)
(* Proofs about Accounts, for any accounts, tokens, codes and requests: a  *)
(* revoking change leaves no older token behind, and a pairing code signs  *)
(* one device in.  The invariant falls in two parts that share nothing but *)
(* the requests: what users and tokens satisfy, and what codes do.         *)
(***************************************************************************)
EXTENDS Accounts, TLAPS

TokensInv ==
  /\ users \in [Users -> UserRow \cup {NoUser, Gone}]
  /\ tokens \in [Tokens -> TokenRow \cup {Free}]
  /\ changed \in [Users -> Gens]
  /\ owed \subseteq Users
  /\ \A k \in Tokens : Live(k) => Exists(tokens[k].user)
  /\ RevokedStayOut

CodesInv ==
  /\ codes \in [Codes -> Pairing \cup {Unused, Spent}]
  /\ told \subseteq Codes /\ made \subseteq Codes
  /\ PairingOnce

JobsInv == job \in [Clients -> Job \cup {Idle}]

LEMMA InvParts == AccountsInv <=> TokensInv /\ CodesInv /\ JobsInv
BY DEF AccountsInv, TypeOK, TokensInv, CodesInv, JobsInv

(***************************************************************************)
(* Requests.                                                               *)
(***************************************************************************)
LEMMA JobFields ==
  ASSUME NEW j \in Job
  PROVE  /\ j.at \in {"login", "claim", "claimed", "check", "in", "write", "revoke"} => j.user \in Users
         /\ j.at \in {"login", "claim", "claimed", "check", "in"} => j.gen \in Gens
         /\ j.at \in {"claim", "claimed", "tell"} => j.code \in Codes
         /\ j.at \in {"check", "in"} => j.kind \in Kinds /\ j.token \in Tokens
         /\ j.at = "in" => j.role \in Roles
         /\ j.at = "write" => j.row \in UserRow /\ j.ask \in Ask
BY DEF Job

LEMMA Jobs ==
  /\ \A u \in Users, g \in Gens : [at |-> "login", user |-> u, gen |-> g] \in Job
  /\ \A u \in Users, g \in Gens, k \in Codes :
       [at |-> "claim", code |-> k, user |-> u, gen |-> g] \in Job
  /\ \A k \in Codes : [at |-> "tell", code |-> k] \in Job
  /\ \A u \in Users, g \in Gens, kind \in Kinds, k \in Tokens :
       [at |-> "check", user |-> u, kind |-> kind, token |-> k, gen |-> g] \in Job
  /\ \A u \in Users, g \in Gens, kind \in Kinds, k \in Tokens, r \in Roles :
       [at |-> "in", user |-> u, role |-> r, kind |-> kind, token |-> k, gen |-> g] \in Job
  /\ \A u \in Users, row \in UserRow, ask \in Ask :
       [at |-> "write", user |-> u, row |-> row, ask |-> ask] \in Job
  /\ \A u \in Users : [at |-> "revoke", user |-> u] \in Job
BY DEF Job

LEMMA Claimed ==
  ASSUME NEW j \in Job, j.at = "claim"
  PROVE  /\ [j EXCEPT !.at = "claimed"] \in Job
         /\ [j EXCEPT !.at = "claimed"].at = "claimed"
         /\ [j EXCEPT !.at = "claimed"].code = j.code
BY DEF Job

LEMMA IdleIsNoJob == Idle \notin Job
BY AccountsAssumption

\* A request that does next what its job says.
LEMMA AtJob ==
  ASSUME JobsInv, NEW c \in Clients, NEW l, At(c, l)
  PROVE  job[c] \in Job /\ job[c].at = l
BY DEF JobsInv, At

(***************************************************************************)
(* Users and tokens.                                                       *)
(***************************************************************************)
LEMMA TokensUntouched ==
  ASSUME TokensInv, UNCHANGED <<users, tokens, changed, owed>>
  PROVE  TokensInv'
BY DEF TokensInv, RevokedStayOut, Live, Exists

LEMMA TokenInserted ==
  ASSUME TokensInv, NEW k \in Tokens, NEW u \in Users, NEW kind \in Kinds, NEW g \in Gens,
         Insert(k, u, kind, g), UNCHANGED <<users, changed, owed>>
  PROVE  TokensInv'
<1>. DEFINE row == [user |-> u, kind |-> kind, gen |-> g, late |-> g # changed[u]]
<1>1. row \in TokenRow
  BY DEF TokenRow
<1>2. row.user = u /\ row.gen = g /\ (row.late \/ row.gen = changed[u])
  OBVIOUS
<1>. HIDE DEF row
<1>3. tokens' = [tokens EXCEPT ![k] = row] /\ users[u] \in UserRow
  BY DEF Insert, Exists, row
<1>. QED
  BY <1>1, <1>2, <1>3 DEF TokensInv, RevokedStayOut, Live, Exists

LEMMA TokensFreed ==
  ASSUME TokensInv, NEW gone \in SUBSET Tokens,
         tokens' = [k \in Tokens |-> IF k \in gone THEN Free ELSE tokens[k]],
         UNCHANGED <<users, changed, owed>>
  PROVE  TokensInv'
BY DEF TokensInv, RevokedStayOut, Live, Exists

LEMMA OneFreed ==
  ASSUME TokensInv, NEW k \in Tokens, tokens' = [tokens EXCEPT ![k] = Free],
         UNCHANGED <<users, changed, owed>>
  PROVE  TokensInv'
<1>1. tokens' = [h \in Tokens |-> IF h \in {k} THEN Free ELSE tokens[h]]
  BY DEF TokensInv
<1>. QED
  BY <1>1, TokensFreed

LEMMA EditedRow ==
  ASSUME NEW row \in UserRow, NEW ask \in Ask
  PROVE  Edited(row, ask) \in UserRow
<1>1. /\ row.pw \in Passwords /\ row.role \in Roles /\ row.disabled \in BOOLEAN
      /\ ask.pw \in Passwords \cup {Keep} /\ ask.role \in Roles \cup {Keep}
      /\ ask.disabled \in BOOLEAN \cup {Keep}
  BY DEF UserRow, Ask
<1>2. Or(ask.pw, row.pw) \in Passwords /\ Or(ask.role, row.role) \in Roles
  BY <1>1 DEF Or
<1>3. Or(ask.disabled, row.disabled) \in BOOLEAN
  BY <1>1, Zenon DEF Or
<1>. QED
  BY <1>2, <1>3 DEF Edited, UserRow

(***************************************************************************)
(* Codes and requests.                                                     *)
(***************************************************************************)
ClaimLabels == {"claim", "claimed", "tell"}

\* A step of one request that takes up no code and tells nobody.
LEMMA CodesUntouched ==
  ASSUME CodesInv, JobsInv, NEW c \in Clients, NEW j \in Job \cup {Idle}, Go(c, j),
         UNCHANGED <<codes, told, made>>,
         j \in Job /\ j.at \in ClaimLabels =>
           /\ job[c] \in Job /\ job[c].at \in ClaimLabels /\ job[c].code = j.code
           /\ job[c].at = "tell" <=> j.at = "tell"
  PROVE  CodesInv' /\ JobsInv'
<1>1. JobsInv' /\ job' = [job EXCEPT ![c] = j]
  BY DEF JobsInv, Go
<1>2. \A d \in Clients : job'[d] = IF d = c THEN j ELSE job[d]
  BY <1>1 DEF JobsInv
<1>3. \A k \in Codes : Claimants(k)' \subseteq Claimants(k)
  BY <1>2, IdleIsNoJob DEF Claimants, ClaimLabels
<1>4. \A k \in Codes : \A d \in Claimants(k)' : job'[d].at = "tell" <=> job[d].at = "tell"
  BY <1>2, IdleIsNoJob DEF Claimants, ClaimLabels
<1>5. PairingOnce'
  BY <1>3, <1>4 DEF CodesInv, PairingOnce
<1>. QED
  BY <1>1, <1>5 DEF CodesInv

\* Also when it ends.
LEMMA CodesEnd ==
  ASSUME CodesInv, JobsInv, NEW c \in Clients, End(c), UNCHANGED <<codes, told, made>>
  PROVE  CodesInv' /\ JobsInv'
BY CodesUntouched, IdleIsNoJob DEF End

\* A request that is about to sign in, and no other, holds its code.
LEMMA Claimant ==
  ASSUME CodesInv, JobsInv, NEW c \in Clients, job[c] \in Job, job[c].at \in ClaimLabels
  PROVE  LET k == job[c].code
         IN /\ k \in Codes /\ c \in Claimants(k) /\ codes[k] \notin Pairing \cup {Unused}
            /\ \A d \in Claimants(k) : d = c
            /\ k \notin told /\ (k \in made <=> job[c].at = "tell")
<1>1. job[c].code \in Codes
  BY JobFields DEF ClaimLabels
<1>2. c \in Claimants(job[c].code)
  BY IdleIsNoJob DEF Claimants, ClaimLabels
<1>. QED
  BY <1>1, <1>2 DEF CodesInv, PairingOnce

(***************************************************************************)
(* The actions.                                                            *)
(***************************************************************************)
\* EnsureAdmin changes no account there is.
LEMMA NewAdmin ==
  ASSUME NEW table \in [Users -> UserRow \cup {NoUser, Gone}], NEW new \in EnsureAdmin(table)
  PROVE  /\ new \in [Users -> UserRow \cup {NoUser, Gone}]
         /\ \A u \in Users : table[u] \in UserRow => new[u] \in UserRow
<1>1. CASE \E u \in Users : table[u] \in UserRow
  BY <1>1 DEF EnsureAdmin
<1>2. CASE ~\E u \in Users : table[u] \in UserRow
  <2>1. PICK u \in Users, pw \in Passwords :
          new = [table EXCEPT ![u] = [pw |-> pw, role |-> "admin", disabled |-> FALSE]]
    BY <1>2 DEF EnsureAdmin
  <2>2. [pw |-> pw, role |-> "admin", disabled |-> FALSE] \in UserRow
    BY DEF UserRow, Roles
  <2>. QED
    BY <1>2, <2>1, <2>2
<1>. QED
  BY <1>1, <1>2

LEMMA InitInv == Init => AccountsInv
<1>. SUFFICES ASSUME Init PROVE AccountsInv
  OBVIOUS
<1>1. users \in [Users -> UserRow \cup {NoUser, Gone}]
  BY NewAdmin DEF Init
<1>2. \A k \in Tokens : ~Live(k)
  BY DEF Init, Live
<1>3. \A k \in Codes : Claimants(k) = {}
  BY DEF Init, Claimants
<1>4. TokensInv
  BY <1>1, <1>2, AccountsAssumption DEF Init, TokensInv, RevokedStayOut, Gens
<1>5. CodesInv /\ JobsInv
  BY <1>3 DEF Init, CodesInv, JobsInv, PairingOnce
<1>. QED
  BY <1>4, <1>5, InvParts

LEMMA SignInKeeps ==
  ASSUME TokensInv, CodesInv, JobsInv, NEW c \in Clients, SignIn(c)
  PROVE  TokensInv' /\ CodesInv' /\ JobsInv'
<1>1. ASSUME NEW u \in Users, NEW pw \in Passwords, Login(c, u, pw)
      PROVE  TokensInv' /\ CodesInv' /\ JobsInv'
  <2>. DEFINE j == [at |-> "login", user |-> u, gen |-> changed[u]]
  <2>1. j \in Job /\ j.at \notin ClaimLabels
    BY Jobs DEF TokensInv, ClaimLabels
  <2>. HIDE DEF j
  <2>2. Go(c, j)
    BY <1>1 DEF Login, j
  <2>. QED
    BY <1>1, <2>1, <2>2, TokensUntouched, CodesUntouched DEF Login
<1>2. ASSUME NEW k \in Tokens, Session(c, k)
      PROVE  TokensInv' /\ CodesInv' /\ JobsInv'
  <2>1. job[c].user \in Users /\ job[c].gen \in Gens
    BY <1>2, AtJob, JobFields DEF Session
  <2>2. TokensInv'
    BY <1>2, <2>1, TokenInserted DEF Session, Kinds
  <2>. QED
    BY <1>2, <2>2, CodesEnd DEF Session
<1>3. ASSUME NEW k \in Tokens, ClaimSession(c, k)
      PROVE  TokensInv' /\ CodesInv' /\ JobsInv'
  <2>1. job[c] \in Job /\ job[c].at = "claimed"
    BY <1>3, AtJob DEF ClaimSession
  <2>2. job[c].user \in Users /\ job[c].gen \in Gens /\ job[c].code \in Codes
    BY <2>1, JobFields
  <2>3. TokensInv'
    BY <1>3, <2>2, TokenInserted DEF ClaimSession, Kinds
  <2>. DEFINE h == job[c].code
              j == [at |-> "tell", code |-> h]
  <2>4. j \in Job /\ j.at = "tell" /\ j.code = h
    BY <2>2, Jobs
  <2>5. /\ codes[h] \notin Pairing \cup {Unused}
        /\ \A d \in Claimants(h) : d = c
        /\ h \notin told /\ h \notin made
    BY <2>1, Claimant DEF ClaimLabels
  <2>. HIDE DEF j
  <2>6. job' = [job EXCEPT ![c] = j] /\ made' = made \cup {h} /\ UNCHANGED <<codes, told>>
    BY <1>3 DEF ClaimSession, Go, j
  <2>7. JobsInv'
    BY <2>4, <2>6 DEF JobsInv
  <2>8. \A d \in Clients : job'[d] = IF d = c THEN j ELSE job[d]
    BY <2>6 DEF JobsInv
  <2>9. \A k2 \in Codes : Claimants(k2)' \subseteq Claimants(k2)
    BY <2>1, <2>4, <2>8, IdleIsNoJob DEF Claimants
  <2>10. PairingOnce'
    <3>. SUFFICES ASSUME NEW k2 \in Codes
         PROVE  /\ codes[k2] \in Pairing \cup {Unused} => Claimants(k2)' = {} /\ k2 \notin made'
                /\ \A d, e \in Claimants(k2)' : d = e
                /\ \A d \in Claimants(k2)' : k2 \notin told /\ (k2 \in made' <=> job'[d].at = "tell")
                /\ told \subseteq made'
      BY <2>6 DEF PairingOnce
    <3>1. CASE k2 = h
      BY <3>1, <2>4, <2>5, <2>6, <2>8, <2>9 DEF CodesInv, PairingOnce
    <3>2. CASE k2 # h
      <4>1. c \notin Claimants(k2)'
        BY <3>2, <2>4, <2>8 DEF Claimants
      <4>. QED
        BY <3>2, <4>1, <2>6, <2>8, <2>9 DEF CodesInv, PairingOnce
    <3>. QED
      BY <3>1, <3>2
  <2>. QED
    BY <2>2, <2>3, <2>6, <2>7, <2>10 DEF CodesInv
<1>4. ASSUME NEW k \in Codes, TakeCode(c, k)
      PROVE  TokensInv' /\ CodesInv' /\ JobsInv'
  <2>. DEFINE j == [at |-> "claim", code |-> k, user |-> codes[k].user, gen |-> codes[k].gen]
  <2>1. codes[k] \in Pairing
    BY <1>4 DEF TakeCode
  <2>2. j \in Job /\ j.at = "claim" /\ j.code = k
    BY <2>1, Jobs DEF Pairing
  <2>. HIDE DEF j
  <2>3. /\ job[c] = Idle /\ job' = [job EXCEPT ![c] = j]
        /\ codes' = [codes EXCEPT ![k] = Spent] /\ UNCHANGED <<told, made>>
    BY <1>4 DEF TakeCode, Go, j
  <2>4. \A d \in Clients : job'[d] = IF d = c THEN j ELSE job[d]
    BY <2>3 DEF JobsInv
  <2>5. Claimants(k)' = {c}
    <3>1. Claimants(k) = {}
      BY <2>1 DEF CodesInv, PairingOnce
    <3>. QED
      BY <3>1, <2>2, <2>4, IdleIsNoJob DEF Claimants
  <2>6. \A h \in Codes \ {k} : Claimants(h)' = Claimants(h)
    BY <2>2, <2>3, <2>4, IdleIsNoJob DEF Claimants
  <2>7. /\ codes'[k] \notin Pairing \cup {Unused}
        /\ k \notin made /\ k \notin told
    BY <2>1, <2>3, AccountsAssumption DEF CodesInv, PairingOnce
  <2>8. PairingOnce'
    <3>. SUFFICES ASSUME NEW h \in Codes
         PROVE  /\ codes'[h] \in Pairing \cup {Unused} => Claimants(h)' = {} /\ h \notin made
                /\ \A d, e \in Claimants(h)' : d = e
                /\ \A d \in Claimants(h)' : h \notin told /\ (h \in made <=> job'[d].at = "tell")
                /\ told \subseteq made
      BY <2>3 DEF PairingOnce
    <3>1. CASE h = k
      BY <3>1, <2>2, <2>4, <2>5, <2>7 DEF CodesInv, PairingOnce
    <3>2. CASE h # k
      <4>1. c \notin Claimants(h)
        BY <2>3 DEF Claimants
      <4>. QED
        BY <3>2, <4>1, <2>3, <2>4, <2>6 DEF CodesInv, PairingOnce
    <3>. QED
      BY <3>1, <3>2
  <2>9. CodesInv' /\ JobsInv'
    BY <2>2, <2>3, <2>8 DEF CodesInv, JobsInv
  <2>. QED
    BY <1>4, <2>9, TokensUntouched DEF TakeCode
<1>5. ASSUME CheckClaim(c)
      PROVE  TokensInv' /\ CodesInv' /\ JobsInv'
  <2>. DEFINE j == [job[c] EXCEPT !.at = "claimed"]
  <2>1. job[c] \in Job /\ job[c].at = "claim"
    BY <1>5, AtJob DEF CheckClaim
  <2>2. j \in Job /\ j.at = "claimed" /\ j.code = job[c].code
    BY <2>1, Claimed
  <2>. HIDE DEF j
  <2>3. Go(c, j)
    BY <1>5 DEF CheckClaim, j
  <2>. QED
    BY <1>5, <2>1, <2>2, <2>3, TokensUntouched, CodesUntouched DEF CheckClaim, ClaimLabels
<1>6. ASSUME Tell(c)
      PROVE  TokensInv' /\ CodesInv' /\ JobsInv'
  <2>1. job[c] \in Job /\ job[c].at = "tell"
    BY <1>6, AtJob DEF Tell
  <2>. PICK h \in Codes : h = job[c].code
    BY <2>1, JobFields
  <2>2. h \in made /\ \A d \in Claimants(h) : d = c
    BY <2>1, Claimant DEF ClaimLabels
  <2>3. /\ job' = [job EXCEPT ![c] = Idle] /\ told' = told \cup {h}
        /\ UNCHANGED <<codes, made>>
    BY <1>6 DEF Tell, End, Go
  <2>4. \A d \in Clients : job'[d] = IF d = c THEN Idle ELSE job[d]
    BY <2>3 DEF JobsInv
  <2>5. \A k \in Codes : Claimants(k)' \subseteq Claimants(k) \ {c}
    BY <2>4 DEF Claimants
  <2>6. PairingOnce'
    <3>. SUFFICES ASSUME NEW k \in Codes
         PROVE  /\ codes[k] \in Pairing \cup {Unused} => Claimants(k)' = {} /\ k \notin made
                /\ \A d, e \in Claimants(k)' : d = e
                /\ \A d \in Claimants(k)' : k \notin told' /\ (k \in made <=> job'[d].at = "tell")
                /\ told' \subseteq made
      BY <2>3 DEF PairingOnce
    <3>1. told' \subseteq made
      BY <2>2, <2>3 DEF CodesInv, PairingOnce
    <3>2. Claimants(h)' = {}
      BY <2>2, <2>5
    <3>. QED
      BY <3>1, <3>2, <2>3, <2>4, <2>5 DEF CodesInv, PairingOnce
  <2>7. CodesInv' /\ JobsInv'
    BY <2>2, <2>3, <2>6 DEF CodesInv, JobsInv
  <2>. QED
    BY <1>6, <2>7, TokensUntouched DEF Tell
<1>. QED
  BY <1>1, <1>2, <1>3, <1>4, <1>5, <1>6 DEF SignIn

LEMMA OwnKeeps ==
  ASSUME TokensInv, CodesInv, JobsInv, NEW c \in Clients, Own(c)
  PROVE  TokensInv' /\ CodesInv' /\ JobsInv'
<1>1. ASSUME NEW k \in Tokens, FindToken(c, k)
      PROVE  TokensInv' /\ CodesInv' /\ JobsInv'
  <2>. DEFINE j == [at |-> "check", user |-> tokens[k].user, kind |-> tokens[k].kind,
                    token |-> k, gen |-> tokens[k].gen]
  <2>1. tokens[k] \in TokenRow
    BY <1>1 DEF FindToken, Live, TokensInv
  <2>2. j \in Job /\ j.at \notin ClaimLabels
    BY <2>1, Jobs DEF TokenRow, ClaimLabels
  <2>. HIDE DEF j
  <2>3. Go(c, j)
    BY <1>1 DEF FindToken, j
  <2>. QED
    BY <1>1, <2>2, <2>3, TokensUntouched, CodesUntouched DEF FindToken
<1>2. ASSUME Admit(c)
      PROVE  TokensInv' /\ CodesInv' /\ JobsInv'
  <2>. DEFINE j == [at |-> "in", user |-> job[c].user, role |-> users[job[c].user].role,
                    kind |-> job[c].kind, token |-> job[c].token, gen |-> job[c].gen]
  <2>1. /\ job[c].user \in Users /\ job[c].gen \in Gens
        /\ job[c].kind \in Kinds /\ job[c].token \in Tokens
    BY <1>2, AtJob, JobFields DEF Admit
  <2>2. users[job[c].user].role \in Roles
    BY <1>2 DEF Admit, Exists, UserRow
  <2>3. j \in Job /\ j.at \notin ClaimLabels
    BY <2>1, <2>2, Jobs DEF ClaimLabels
  <2>. HIDE DEF j
  <2>4. Go(c, j)
    BY <1>2 DEF Admit, j
  <2>. QED
    BY <1>2, <2>3, <2>4, TokensUntouched, CodesUntouched DEF Admit
<1>3. ASSUME NEW k \in Codes, StartPairing(c, k)
      PROVE  TokensInv' /\ CodesInv' /\ JobsInv'
  <2>. DEFINE pairing == [user |-> job[c].user, gen |-> job[c].gen]
  <2>1. job[c].user \in Users /\ job[c].gen \in Gens
    BY <1>3, AtJob, JobFields DEF StartPairing, In
  <2>2. pairing \in Pairing
    BY <2>1 DEF Pairing
  <2>. HIDE DEF pairing
  <2>3. /\ job' = [job EXCEPT ![c] = Idle] /\ codes' = [codes EXCEPT ![k] = pairing]
        /\ codes[k] = Unused /\ UNCHANGED <<told, made>>
    BY <1>3 DEF StartPairing, End, Go, pairing
  <2>4. \A d \in Clients : job'[d] = IF d = c THEN Idle ELSE job[d]
    BY <2>3 DEF JobsInv
  <2>5. \A h \in Codes : Claimants(h)' \subseteq Claimants(h)
    BY <2>4 DEF Claimants
  <2>6. PairingOnce'
    BY <2>2, <2>3, <2>4, <2>5 DEF CodesInv, PairingOnce, Claimants
  <2>7. CodesInv' /\ JobsInv'
    BY <2>2, <2>3, <2>6 DEF CodesInv, JobsInv
  <2>. QED
    BY <1>3, <2>7, TokensUntouched DEF StartPairing
<1>4. ASSUME NEW k \in Tokens, CreateAPIToken(c, k)
      PROVE  TokensInv' /\ CodesInv' /\ JobsInv'
  <2>1. job[c].user \in Users /\ job[c].gen \in Gens
    BY <1>4, AtJob, JobFields DEF CreateAPIToken, In
  <2>2. TokensInv'
    BY <1>4, <2>1, TokenInserted DEF CreateAPIToken, Kinds
  <2>. QED
    BY <1>4, <2>2, CodesEnd DEF CreateAPIToken
<1>5. ASSUME Logout(c)
      PROVE  TokensInv' /\ CodesInv' /\ JobsInv'
  <2>1. job[c].token \in Tokens
    BY <1>5, AtJob, JobFields DEF Logout, In
  <2>. QED
    BY <1>5, <2>1, OneFreed, CodesEnd DEF Logout
<1>6. ASSUME NEW k \in Tokens, RevokeAPIToken(c, k)
      PROVE  TokensInv' /\ CodesInv' /\ JobsInv'
  BY <1>6, OneFreed, CodesEnd DEF RevokeAPIToken
<1>. QED
  BY <1>1, <1>2, <1>3, <1>4, <1>5, <1>6 DEF Own

LEMMA AdministerKeeps ==
  ASSUME TokensInv, CodesInv, JobsInv, NEW c \in Clients, Administer(c)
  PROVE  TokensInv' /\ CodesInv' /\ JobsInv'
<1>1. ASSUME NEW u \in Users, NEW pw \in Passwords, NEW role \in Roles, CreateUser(c, u, pw, role)
      PROVE  TokensInv' /\ CodesInv' /\ JobsInv'
  <2>. DEFINE row == [pw |-> pw, role |-> role, disabled |-> FALSE]
  <2>1. row \in UserRow
    BY DEF UserRow
  <2>. HIDE DEF row
  <2>2. users' = [users EXCEPT ![u] = row] /\ UNCHANGED <<tokens, changed, owed>>
    BY <1>1 DEF CreateUser, row
  <2>3. TokensInv'
    BY <2>1, <2>2 DEF TokensInv, RevokedStayOut, Live, Exists
  <2>. QED
    BY <1>1, <2>3, CodesEnd DEF CreateUser
<1>2. ASSUME NEW u \in Users, NEW ask \in Asks, ReadUser(c, u, ask)
      PROVE  TokensInv' /\ CodesInv' /\ JobsInv'
  <2>. DEFINE j == [at |-> "write", user |-> u, row |-> users[u], ask |-> ask]
  <2>1. users[u] \in UserRow /\ ask \in Ask
    BY <1>2, AccountsAssumption DEF ReadUser, Exists
  <2>2. j \in Job /\ j.at \notin ClaimLabels
    BY <2>1, Jobs DEF ClaimLabels
  <2>. HIDE DEF j
  <2>3. Go(c, j)
    BY <1>2 DEF ReadUser, j
  <2>. QED
    BY <1>2, <2>2, <2>3, TokensUntouched, CodesUntouched DEF ReadUser
<1>3. ASSUME WriteUser(c)
      PROVE  TokensInv' /\ CodesInv' /\ JobsInv'
  <2>1. job[c] \in Job /\ job[c].at = "write"
    BY <1>3, AtJob DEF WriteUser
  <2>. PICK u \in Users : u = job[c].user
    BY <2>1, JobFields
  <2>. DEFINE row == Edited(job[c].row, job[c].ask)
  <2>2. row \in UserRow
    BY <2>1, JobFields, EditedRow
  <2>. HIDE DEF row
  <2>3. users' = [users EXCEPT ![u] = row] /\ UNCHANGED <<tokens, codes, told, made>>
    BY <1>3 DEF WriteUser, row
  <2>4. CASE Revokes(job[c].ask)
    <3>1. /\ changed[u] < MaxChanged /\ changed' = [changed EXCEPT ![u] = @ + 1]
          /\ owed' = owed \cup {u}
          /\ Go(c, [at |-> "revoke", user |-> u])
      BY <1>3, <2>4 DEF WriteUser
    <3>2. changed' \in [Users -> Gens]
      BY <3>1, AccountsAssumption DEF TokensInv, Gens
    <3>3. TokensInv'
      BY <2>2, <2>3, <3>1, <3>2 DEF TokensInv, RevokedStayOut, Live, Exists
    <3>4. [at |-> "revoke", user |-> u] \in Job
      BY Jobs
    <3>5. CodesInv' /\ JobsInv'
      BY <2>3, <3>1, <3>4, CodesUntouched DEF ClaimLabels
    <3>. QED
      BY <3>3, <3>5
  <2>5. CASE ~Revokes(job[c].ask)
    <3>1. End(c) /\ UNCHANGED <<changed, owed>>
      BY <1>3, <2>5 DEF WriteUser
    <3>2. TokensInv'
      BY <2>2, <2>3, <3>1 DEF TokensInv, RevokedStayOut, Live, Exists
    <3>. QED
      BY <2>3, <3>1, <3>2, CodesEnd
  <2>. QED
    BY <2>4, <2>5
<1>4. ASSUME RevokeAllForUser(c)
      PROVE  TokensInv' /\ CodesInv' /\ JobsInv'
  <2>1. job[c] \in Job /\ job[c].at = "revoke"
    BY <1>4, AtJob DEF RevokeAllForUser
  <2>. PICK u \in Users : u = job[c].user
    BY <2>1, JobFields
  <2>2. tokens' = Without(u) /\ owed' = owed \ {u} /\ UNCHANGED <<users, changed>>
    BY <1>4 DEF RevokeAllForUser
  <2>3. TokensInv'
    BY <2>2 DEF TokensInv, RevokedStayOut, Live, Exists, Without
  <2>. QED
    BY <1>4, <2>3, CodesEnd DEF RevokeAllForUser
<1>5. ASSUME NEW u \in Users, DeleteUser(c, u)
      PROVE  TokensInv' /\ CodesInv' /\ JobsInv'
  <2>1. /\ users' = [users EXCEPT ![u] = Gone] /\ UNCHANGED changed
        /\ tokens' = Without(u) /\ owed' = owed \ {u}
    BY <1>5 DEF DeleteUser
  <2>2. TokensInv'
    BY <2>1 DEF TokensInv, RevokedStayOut, Live, Exists, Without
  <2>. QED
    BY <1>5, <2>2, CodesEnd DEF DeleteUser
<1>. QED
  BY <1>1, <1>2, <1>3, <1>4, <1>5 DEF Administer

\* Time passes, a request fails, Boreas restarts.
LEMMA OtherwiseKeeps ==
  ASSUME TokensInv, CodesInv, JobsInv, Passing \/ Restart \/ \E c \in Clients : Fail(c)
  PROVE  TokensInv' /\ CodesInv' /\ JobsInv'
<1>1. ASSUME NEW k \in Tokens, Expire(k)
      PROVE  TokensInv' /\ CodesInv' /\ JobsInv'
  <2>1. TokensInv'
    BY <1>1, OneFreed DEF Expire
  <2>. QED
    BY <1>1, <2>1 DEF Expire, CodesInv, JobsInv, PairingOnce, Claimants
<1>2. ASSUME NEW k \in Codes, Lapse(k)
      PROVE  TokensInv' /\ CodesInv' /\ JobsInv'
  <2>1. PairingOnce'
    BY <1>2, AccountsAssumption DEF Lapse, CodesInv, PairingOnce, Claimants
  <2>. QED
    BY <1>2, <2>1, TokensUntouched DEF Lapse, CodesInv, JobsInv
<1>3. ASSUME NEW c \in Clients, Fail(c)
      PROVE  TokensInv' /\ CodesInv' /\ JobsInv'
  BY <1>3, TokensUntouched, CodesEnd DEF Fail
<1>4. ASSUME Restart
      PROVE  TokensInv' /\ CodesInv' /\ JobsInv'
  <2>1. /\ users' \in [Users -> UserRow \cup {NoUser, Gone}]
        /\ \A u \in Users : users[u] \in UserRow => users'[u] \in UserRow
    BY <1>4, NewAdmin DEF Restart, TokensInv
  <2>2. \A k \in Tokens : tokens[k] # Free => tokens[k].user \in Users
    BY DEF TokensInv, TokenRow
  <2>3. TokensInv'
    BY <1>4, <2>1, <2>2 DEF Restart, TokensInv, RevokedStayOut, Live, Exists
  <2>4. \A k \in Codes : Claimants(k)' = {}
    BY <1>4 DEF Restart, Claimants
  <2>5. /\ codes' \in [Codes -> Pairing \cup {Unused, Spent}]
        /\ \A k \in Codes : codes'[k] \in Pairing \cup {Unused} => codes[k] = Unused
    BY <1>4, AccountsAssumption DEF Restart
  <2>6. PairingOnce'
    BY <1>4, <2>4, <2>5 DEF Restart, CodesInv, PairingOnce
  <2>7. CodesInv' /\ JobsInv'
    BY <1>4, <2>5, <2>6 DEF Restart, CodesInv, JobsInv
  <2>. QED
    BY <2>3, <2>7
<1>. QED
  BY <1>1, <1>2, <1>3, <1>4 DEF Passing

LEMMA NextKeeps == AccountsInv /\ [Next]_vars => AccountsInv'
<1>. SUFFICES ASSUME AccountsInv, [Next]_vars
     PROVE  TokensInv' /\ CodesInv' /\ JobsInv'
  BY InvParts, PTL
<1>1. TokensInv /\ CodesInv /\ JobsInv
  BY InvParts
<1>2. CASE \E c \in Clients : SignIn(c)
  BY <1>1, <1>2, SignInKeeps
<1>3. CASE \E c \in Clients : Own(c)
  BY <1>1, <1>3, OwnKeeps
<1>4. CASE \E c \in Clients : Administer(c)
  BY <1>1, <1>4, AdministerKeeps
<1>5. CASE Passing \/ Restart \/ \E c \in Clients : Fail(c)
  BY <1>1, <1>5, OtherwiseKeeps
<1>6. CASE UNCHANGED vars
  BY <1>1, <1>6 DEF vars, TokensInv, CodesInv, JobsInv, RevokedStayOut, PairingOnce, Claimants, Live, Exists
<1>. QED
  BY <1>2, <1>3, <1>4, <1>5, <1>6 DEF Next

(***************************************************************************)
(* Results.                                                                *)
(***************************************************************************)
\* The variables keep their types, and a token always has a user: what a deletion
\* of an account and a login that runs beside it leave in auth_tokens.
THEOREM TypeCorrect == Spec => []TypeOK
<1>1. AccountsInv => TypeOK
  BY DEF AccountsInv
<1>. QED
  BY <1>1, InitInv, NextKeeps, PTL DEF Spec

\* UpdateUser writes the account and then revokes its tokens, so that a token which
\* is older than a revoking change, and was there, does not outlive it, whatever
\* requests run beside it, fail or restart.
THEOREM RevocationHolds == Spec => []RevokedStayOut
<1>1. AccountsInv => RevokedStayOut
  BY DEF AccountsInv
<1>. QED
  BY <1>1, InitInv, NextKeeps, PTL DEF Spec

\* ClaimPairing takes a code off the map before it does anything else, so one
\* device is signed in by it and its channel gets one value, however many claim it.
THEOREM PairingSignsInOnce == Spec => []PairingOnce
<1>1. AccountsInv => PairingOnce
  BY DEF AccountsInv
<1>. QED
  BY <1>1, InitInv, NextKeeps, PTL DEF Spec
=============================================================================
