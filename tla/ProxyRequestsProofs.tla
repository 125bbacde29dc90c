------------------------ MODULE ProxyRequestsProofs ------------------------
(***************************************************************************)
(* Proofs about ProxyRequests, for any tasks, locks and routes, any tabs   *)
(* of the browser and any changes of the registry: a lock keeps out and    *)
(* lets in, an app's cookies stay with its task, its links come back to    *)
(* it, and no request goes through Boreas a third time.                    *)
(*                                                                         *)
(* The argument follows the lock's cookies: wherever one is that is fresh, *)
(* in the jar, with a request or in an answer, the password behind it was  *)
(* given today; and while a task's cookie was the last it gave today, the  *)
(* jar has it, or one of another task that took its place.                 *)
(***************************************************************************)
EXTENDS ProxyRequests, SequenceTheorems, TLAPS

IsLock(c) == c.name = "boreas_lock"

\* The lock's cookie was got with a password that is in e.
Earned(c, e) ==
  IsLock(c) /\ c.fresh => \E t \in Tasks : c.value \in Hashes[t] /\ <<t, c.value>> \in e

\* A cookie by which who was given hash by t is in, or that replaced it.
Stands(c, t, hash) == IsLock(c) /\ c.fresh /\ (c.value = hash \/ c.value \notin Hashes[t])

\* Records of these fields, whatever they hold.
IsAnswer(a) ==
  a \in [kind : {a.kind}, host : {a.host}, path : {a.path}, cookies : {a.cookies}, keep : {a.keep}]

AnswerOK(a, e) ==
  /\ IsAnswer(a) /\ a.cookies \subseteq Cookies
  /\ \A c \in a.cookies : Earned(c, e) /\ (IsLock(c) => c.fresh)

IsLeg(l) == l \in [path : {l.path}, cookies : {l.cookies}, typed : {l.typed}, routed : {l.routed},
                  hop : {l.hop}, lock : {l.lock}]

\* A leg before ServeHTTP, one that went through a hop, and one that ended.
Waits(l, e) ==
  /\ IsLeg(l) /\ l.hop = NoHop /\ l.lock = NoHash
  /\ l.cookies \subseteq Cookies /\ \A c \in l.cookies : Earned(c, e)

Gone(l, e) == IsLeg(l) /\ l.hop.task \in Tasks /\ (l.lock # NoHash => <<l.hop.task, l.lock>> \in e)

Ended(l) == IsLeg(l) /\ (l.hop = NoHop \/ l.hop.task \in Tasks)

\* The browser's own request brings what it holds of the task's lock.
Brings(l, held) ==
  held # NoHash /\ Addressed(l.path) /\ ~Bare(l.path) /\ l.path[2] = TaskAt(l.path)
    => \E c \in l.cookies : Stands(c, TaskAt(l.path), held)

\* Whom a lock asked did not hold its cookie, or another had replaced it.
AskedRightly(l, a, held) == a.kind = "lock" /\ l.hop = NoHop => l.lock # held \/ Replaced(l)

IsTab(v) == v \in [at : {v.at}, legs : {v.legs}, answer : {v.answer}, up : {v.up},
                  expects : {v.expects}, held : {v.held}]

One(s) == s = <<s[1]>>
Two(s) == s = <<s[1], s[2]>>

Resting(v) ==
  /\ v.answer.cookies = {}
  /\ (v.at = "idle" /\ v.legs = <<>>) \/ (v.at = "link" /\ One(v.legs))

SentFirst(v, e) ==
  v.at = "sent" /\ One(v.legs) /\ Waits(v.legs[1], e) /\ Brings(v.legs[1], v.held)

SentAgain(v, e) ==
  v.at = "sent" /\ Two(v.legs) /\ Gone(v.legs[1], e) /\ Waits(v.legs[2], e) /\ v.legs[2].routed

Away(v, e) ==
  /\ v.at = "upstream"
  /\ \/ One(v.legs) /\ Gone(v.legs[1], e)
     \/ Two(v.legs) /\ Gone(v.legs[1], e) /\ Gone(v.legs[2], e)

BackFirst(v, e) ==
  v.at = "back" /\ One(v.legs) /\ Ended(v.legs[1]) /\ AskedRightly(v.legs[1], v.answer, v.held)

BackAgain(v, e) ==
  v.at = "back" /\ Two(v.legs) /\ Gone(v.legs[1], e) /\ Ended(v.legs[2])

TabOK(v, e) ==
  /\ IsTab(v) /\ AnswerOK(v.answer, e)
  /\ \/ Resting(v)
     \/ SentFirst(v, e)
     \/ SentAgain(v, e)
     \/ Away(v, e)
     \/ BackFirst(v, e)
     \/ BackAgain(v, e)

SiteType == [up : BOOLEAN, routes : UNION {RoutesOf[t] : t \in Tasks}, lock : AllHashes \cup {NoHash}]

SiteOK(t, site) == site \in SiteType /\ site.routes \in RoutesOf[t] /\ site.lock \in Hashes[t] \cup {NoHash}

SitesInv ==
  /\ sites \in [Tasks -> SiteType] /\ \A t \in Tasks : SiteOK(t, sites[t])
  /\ spent \subseteq AllHashes \cup {NoHash} /\ changes \in 0..MaxChanges

JarInv ==
  /\ jar \subseteq Cookies /\ \A c \in jar : Earned(c, entered)
  /\ entered \subseteq Tasks \X AllHashes
  /\ \A t \in Tasks :
       /\ in[t] \in Hashes[t] \cup {NoHash}
       /\ in[t] # NoHash => \E c \in jar : c.at = <<Project, t>> /\ Stands(c, t, in[t])

TabsInv == tab \in [Tabs -> {tab[b] : b \in Tabs}] /\ \A b \in Tabs : TabOK(tab[b], entered)

Inv == SitesInv /\ JarInv /\ TabsInv

(***************************************************************************)
(* Sequences of one and of two.                                            *)
(***************************************************************************)
LEMMA IsOne ==
  ASSUME NEW S, NEW s \in Seq(S), NEW x \in S, Len(s) = 1, s[1] = x
  PROVE  s = <<x>>
<1>1. <<x>> \in Seq(S) /\ Len(<<x>>) = 1 /\ <<x>>[1] = x
  OBVIOUS
<1>2. \A i \in 1..Len(s) : s[i] = <<x>>[i]
  BY <1>1
<1>. QED
  BY <1>1, <1>2, SeqEqual, Zenon

LEMMA IsTwo ==
  ASSUME NEW S, NEW s \in Seq(S), NEW x \in S, NEW y \in S, Len(s) = 2, s[1] = x, s[2] = y
  PROVE  s = <<x, y>>
<1>1. <<x, y>> \in Seq(S) /\ Len(<<x, y>>) = 2 /\ <<x, y>>[1] = x /\ <<x, y>>[2] = y
  OBVIOUS
<1>2. \A i \in 1..Len(s) : s[i] = <<x, y>>[i]
  BY <1>1
<1>. QED
  BY <1>1, <1>2, SeqEqual, Zenon

LEMMA OfOne ==
  ASSUME NEW x, NEW y
  PROVE  /\ Len(<<x>>) = 1 /\ <<x>>[1] = x /\ Last(<<x>>) = x
         /\ Front(<<x>>) = <<>> /\ Append(<<>>, x) = <<x>> /\ Append(<<x>>, y) = <<x, y>>
<1>1. Len(<<x>>) = 1 /\ <<x>>[1] = x /\ Last(<<x>>) = x /\ Front(<<x>>) = <<>> /\ Append(<<>>, x) = <<x>>
  BY DEF Last, Front
<1>2. x \in {x, y} /\ y \in {x, y} /\ <<x>> \in Seq({x, y})
  OBVIOUS
<1>3. /\ Append(<<x>>, y) \in Seq({x, y}) /\ Len(Append(<<x>>, y)) = 2
      /\ Append(<<x>>, y)[1] = x /\ Append(<<x>>, y)[2] = y
  BY <1>1, <1>2, AppendProperties
<1>4. Append(<<x>>, y) = <<x, y>>
  BY <1>2, <1>3, IsTwo, Zenon
<1>. QED
  BY <1>1, <1>4

LEMMA OfTwo ==
  ASSUME NEW x, NEW y
  PROVE  /\ Len(<<x, y>>) = 2 /\ <<x, y>>[1] = x /\ <<x, y>>[2] = y
         /\ Last(<<x, y>>) = y /\ Front(<<x, y>>) = <<x>>
<1>1. /\ <<x, y>> \in Seq({x, y}) /\ Len(<<x, y>>) = 2 /\ <<x, y>>[1] = x /\ <<x, y>>[2] = y
      /\ Last(<<x, y>>) = y
  BY DEF Last
<1>2. /\ SubSeq(<<x, y>>, 1, 1) \in Seq({x, y}) /\ Len(SubSeq(<<x, y>>, 1, 1)) = 1
      /\ SubSeq(<<x, y>>, 1, 1)[1] = x
  BY <1>1, SubSeqProperties
<1>3. x \in {x, y}
  OBVIOUS
<1>4. SubSeq(<<x, y>>, 1, 1) = <<x>>
  BY <1>2, <1>3, IsOne, Zenon
<1>. QED
  BY <1>1, <1>4 DEF Front

LEMMA MadeOne ==
  ASSUME NEW s, NEW x, s = <<x>>
  PROVE  One(s) /\ s[1] = x /\ Last(s) = x /\ Len(s) = 1 /\ Front(s) = <<>>
BY OfOne DEF One

LEMMA MadeTwo ==
  ASSUME NEW s, NEW x, NEW y, s = <<x, y>>
  PROVE  /\ Two(s) /\ s[1] = x /\ s[2] = y /\ Last(s) = y /\ Len(s) = 2 /\ Front(s) = <<x>>
BY OfTwo DEF Two

(***************************************************************************)
(* Cookies, and what a hop hands on.                                       *)
(***************************************************************************)
LEMMA CookieMoved ==
  ASSUME NEW c \in Cookies, NEW t \in Tasks
  PROVE  LET d == [c EXCEPT !.at = <<Project, t>>]
         IN d \in Cookies /\ d.name = c.name /\ d.value = c.value /\ d.fresh = c.fresh
BY DEF Cookies

LEMMA CookieValues ==
  ASSUME NEW c \in Cookies
  PROVE  /\ IsLock(c) => c.value \in AllHashes /\ c.fresh \in BOOLEAN
         /\ ~IsLock(c) => c.value \in Tasks /\ c.fresh = TRUE
BY DEF Cookies, IsLock

LEMMA LockCookieOK ==
  ASSUME NEW t \in Tasks, NEW h \in Hashes[t], NEW e, <<t, h>> \in e
  PROVE  LET c == LockCookie(t, h)
         IN c \in Cookies /\ Earned(c, e) /\ IsLock(c) /\ c.fresh
<1>1. h \in AllHashes
  BY DEF AllHashes
<1>. QED
  BY <1>1 DEF LockCookie, Cookies, Earned, IsLock

LEMMA EarnedGrows ==
  ASSUME NEW c, NEW e, NEW f, e \subseteq f, Earned(c, e)
  PROVE  Earned(c, f)
BY DEF Earned

LEMMA AnswerGrows ==
  ASSUME NEW a, NEW e, NEW f, e \subseteq f, AnswerOK(a, e)
  PROVE  AnswerOK(a, f)
BY EarnedGrows, Zenon DEF AnswerOK

LEMMA Fresh ==
  ASSUME NEW kind
  PROVE  /\ IsAnswer(Answer(kind)) /\ Answer(kind).cookies = {} /\ Answer(kind).kind = kind
         /\ \A e : AnswerOK(Answer(kind), e)
BY DEF IsAnswer, AnswerOK, Answer

LEMMA SameCookies ==
  ASSUME NEW e, NEW a, AnswerOK(a, e), NEW r, IsAnswer(r), r.cookies = a.cookies
  PROVE  AnswerOK(r, e)
BY DEF AnswerOK

LEMMA LocationOK ==
  ASSUME NEW a, IsAnswer(a), NEW h
  PROVE  LET r == RewriteLocation(h, a)
         IN IsAnswer(r) /\ r.cookies = a.cookies /\ r.kind = a.kind
<1>1. SUFFICES ASSUME NEW p
               PROVE  LET r == [a EXCEPT !.host = Here, !.path = p]
                      IN IsAnswer(r) /\ r.cookies = a.cookies /\ r.kind = a.kind
  BY Zenon DEF RewriteLocation
<1>. QED
  BY DEF IsAnswer

LEMMA BaseOK ==
  ASSUME NEW a, IsAnswer(a), NEW h
  PROVE  LET r == RewriteBase(h, a)
         IN IsAnswer(r) /\ r.cookies = a.cookies /\ r.kind = a.kind
<1>1. SUFFICES ASSUME NEW p
               PROVE  LET r == [a EXCEPT !.path = p]
                      IN IsAnswer(r) /\ r.cookies = a.cookies /\ r.kind = a.kind
  BY DEF RewriteBase
<1>. QED
  BY DEF IsAnswer

LEMMA CookiesOK ==
  ASSUME NEW e, NEW a, AnswerOK(a, e), NEW h, h.task \in Tasks
  PROVE  AnswerOK(RewriteCookies(h, a), e) /\ RewriteCookies(h, a).kind = a.kind
<1>. DEFINE moved == {[c EXCEPT !.at = <<Project, h.task>>] : c \in a.cookies}
<1>1. ASSUME NEW d \in moved
      PROVE  d \in Cookies /\ Earned(d, e) /\ (IsLock(d) => d.fresh)
  <2>1. PICK c \in a.cookies : d = [c EXCEPT !.at = <<Project, h.task>>]
    OBVIOUS
  <2>2. c \in Cookies /\ Earned(c, e) /\ (IsLock(c) => c.fresh)
    BY DEF AnswerOK
  <2>3. d \in Cookies /\ d.name = c.name /\ d.value = c.value /\ d.fresh = c.fresh
    BY <2>1, <2>2, CookieMoved
  <2>. QED
    BY <2>2, <2>3 DEF Earned, IsLock
<1>2. RewriteCookies(h, a) = [a EXCEPT !.cookies = moved]
  BY DEF RewriteCookies
<1>. HIDE DEF moved
<1>3. /\ IsAnswer(RewriteCookies(h, a)) /\ RewriteCookies(h, a).cookies = moved
      /\ RewriteCookies(h, a).kind = a.kind
  BY <1>2 DEF AnswerOK, IsAnswer
<1>. QED
  BY <1>1, <1>3 DEF AnswerOK

\* What a hop hands on has earned its cookies as what it got has.
LEMMA HandedOK ==
  ASSUME NEW e, NEW a, AnswerOK(a, e), NEW h, h = NoHop \/ h.task \in Tasks
  PROVE  AnswerOK(ModifyResponse(h, a), e) /\ ModifyResponse(h, a).kind = a.kind
<1>1. CASE h = NoHop
  BY <1>1 DEF ModifyResponse
<1>2. CASE h # NoHop
  <2>1. AnswerOK(RewriteLocation(h, a), e) /\ RewriteLocation(h, a).kind = a.kind
    BY LocationOK, SameCookies DEF AnswerOK
  <2>2. AnswerOK(RewriteBase(h, a), e) /\ RewriteBase(h, a).kind = a.kind
    BY BaseOK, SameCookies DEF AnswerOK
  <2>3. CASE a.kind = "redirect"
    BY <1>2, <2>1, <2>3, CookiesOK DEF ModifyResponse
  <2>4. CASE a.kind = "page"
    BY <1>2, <2>2, <2>4, CookiesOK DEF ModifyResponse
  <2>5. CASE a.kind # "redirect" /\ a.kind # "page"
    BY <1>2, <2>5, CookiesOK DEF ModifyResponse
  <2>. QED
    BY <2>3, <2>4, <2>5
<1>. QED
  BY <1>1, <1>2

(***************************************************************************)
(* Legs and tabs.                                                          *)
(***************************************************************************)
LEMMA NewLeg ==
  ASSUME NEW e, NEW path, NEW cookies, NEW typed, NEW routed,
         cookies \subseteq Cookies, \A c \in cookies : Earned(c, e)
  PROVE  LET l == Leg(path, cookies, typed, routed)
         IN /\ Waits(l, e) /\ l.path = path /\ l.cookies = cookies /\ l.routed = routed
BY DEF Leg, Waits, IsLeg

LEMMA LegsGrow ==
  ASSUME NEW e, NEW f, e \subseteq f, NEW l
  PROVE  (Waits(l, e) => Waits(l, f)) /\ (Gone(l, e) => Gone(l, f))
BY EarnedGrows DEF Waits, Gone

\* More passwords given harm no tab.
LEMMA TabGrows ==
  ASSUME NEW e, NEW f, e \subseteq f, NEW v, TabOK(v, e)
  PROVE  TabOK(v, f)
<1>1. IsTab(v) /\ AnswerOK(v.answer, f)
  BY AnswerGrows DEF TabOK
<1>2. /\ SentFirst(v, e) => SentFirst(v, f)
      /\ SentAgain(v, e) => SentAgain(v, f)
      /\ Away(v, e) => Away(v, f)
      /\ BackFirst(v, e) => BackFirst(v, f)
      /\ BackAgain(v, e) => BackAgain(v, f)
  BY LegsGrow DEF SentFirst, SentAgain, Away, BackFirst, BackAgain
<1>. QED
  BY <1>1, <1>2 DEF TabOK

LEMMA TabMade ==
  ASSUME NEW v, NEW e, IsTab(v), AnswerOK(v.answer, e),
         Resting(v) \/ SentFirst(v, e) \/ SentAgain(v, e) \/ Away(v, e) \/ BackFirst(v, e) \/ BackAgain(v, e)
  PROVE  TabOK(v, e)
BY DEF TabOK

LEMMA TabsStep ==
  ASSUME TabsInv, NEW b \in Tabs, NEW v, TabOK(v, entered'), entered \subseteq entered',
         tab' = [tab EXCEPT ![b] = v]
  PROVE  TabsInv'
<1>1. tab' \in [Tabs -> {tab'[d] : d \in Tabs}]
  BY DEF TabsInv
<1>2. ASSUME NEW d \in Tabs
      PROVE  TabOK(tab'[d], entered')
  <2>1. TabOK(tab[d], entered)
    BY DEF TabsInv
  <2>2. TabOK(tab[d], entered')
    BY <2>1, TabGrows
  <2>3. tab'[d] = IF d = b THEN v ELSE tab[d]
    BY DEF TabsInv
  <2>. QED
    BY <2>2, <2>3
<1>. QED
  BY <1>1, <1>2 DEF TabsInv

LEMMA AskedLeg ==
  ASSUME NEW e, NEW v, TabOK(v, e), v.at = "sent"
  PROVE  /\ Waits(Last(v.legs), e)
         /\ \/ /\ v.legs = <<Last(v.legs)>> /\ One(v.legs) /\ Last(v.legs) = v.legs[1]
               /\ Brings(v.legs[1], v.held)
            \/ /\ v.legs = <<v.legs[1], Last(v.legs)>> /\ Two(v.legs) /\ Last(v.legs) = v.legs[2]
               /\ Gone(v.legs[1], e) /\ v.legs[2].routed
<1>1. CASE SentFirst(v, e)
  BY <1>1, OfOne DEF SentFirst, One
<1>2. CASE SentAgain(v, e)
  BY <1>2, OfTwo DEF SentAgain, Two
<1>3. ~Resting(v) /\ ~Away(v, e) /\ ~BackFirst(v, e) /\ ~BackAgain(v, e)
  BY DEF Resting, Away, BackFirst, BackAgain
<1>. QED
  BY <1>1, <1>2, <1>3 DEF TabOK

\* A leg that ends without a lock.
LEMMA Said ==
  ASSUME NEW e, NEW f, e \subseteq f, NEW v, TabOK(v, e), v.at = "sent",
         NEW a, AnswerOK(a, f), a.kind # "lock"
  PROVE  TabOK([v EXCEPT !.at = "back", !.answer = a], f)
<1>. DEFINE w == [v EXCEPT !.at = "back", !.answer = a]
<1>1. IsTab(w) /\ w.at = "back" /\ w.answer = a /\ w.legs = v.legs
  <2>1. IsTab(v)
    BY DEF TabOK
  <2>. QED
    BY <2>1 DEF IsTab
<1>2. Waits(Last(v.legs), e) => Ended(Last(v.legs))
  BY DEF Waits, Ended
<1>3. BackFirst(w, f) \/ BackAgain(w, f)
  <2>1. CASE One(v.legs) /\ Last(v.legs) = v.legs[1]
    BY <1>1, <1>2, <2>1, AskedLeg DEF BackFirst, AskedRightly
  <2>2. CASE Two(v.legs) /\ Last(v.legs) = v.legs[2] /\ Gone(v.legs[1], e)
    <3>1. Gone(v.legs[1], f)
      BY <2>2, LegsGrow
    <3>. QED
      BY <1>1, <1>2, <2>2, <3>1, AskedLeg DEF BackAgain
  <2>. QED
    BY <2>1, <2>2, AskedLeg
<1>. QED
  BY <1>1, <1>3 DEF TabOK

(***************************************************************************)
(* Sites and their locks.                                                  *)
(***************************************************************************)
LEMMA SiteFacts ==
  ASSUME SitesInv, NEW path
  PROVE  LET site == SiteAt(path)
         IN /\ Addressed(path) => TaskAt(path) \in Tasks /\ SiteOK(TaskAt(path), site)
            /\ site # EmptySite => Addressed(path)
            /\ site.lock # NoHash \/ site.up \/ site.routes # {} => site # EmptySite
<1>1. Addressed(path) => TaskAt(path) \in Tasks
  BY ProxyAssumption DEF Addressed, TaskAt
<1>. QED
  BY <1>1 DEF SiteAt, SitesInv, EmptySite

LEMMA HashOwner ==
  ASSUME NEW s \in Tasks, NEW t \in Tasks, NEW h, h \in Hashes[s], h \in Hashes[t]
  PROVE  s = t
BY ProxyAssumption

\* Whoever comes with a valid cookie has given the password.
LEMMA Admitted ==
  ASSUME NEW t \in Tasks, NEW h \in Hashes[t], NEW e, NEW c, Earned(c, e), Valid(c, h)
  PROVE  <<t, h>> \in e
<1>1. PICK s \in Tasks : h \in Hashes[s] /\ <<s, h>> \in e
  BY DEF Earned, Valid, IsLock
<1>. QED
  BY <1>1, HashOwner

(***************************************************************************)
(* The browser asks, and what ServeHTTP says itself.                       *)
(***************************************************************************)
LEMMA SitesSame ==
  ASSUME SitesInv, UNCHANGED <<sites, spent, changes>>
  PROVE  SitesInv'
BY DEF SitesInv, SiteOK

LEMMA JarSame ==
  ASSUME JarInv, UNCHANGED <<jar, in>>, entered \subseteq entered', entered' \subseteq Tasks \X AllHashes
  PROVE  JarInv'
BY EarnedGrows DEF JarInv

\* A cookie for a task goes to all below it.
LEMMA Covers ==
  ASSUME NEW path, NEW p, NEW t, Len(path) >= 2, Len(path) # 2, path[1] = p, path[2] = t
  PROVE  IsStrictPrefix(<<p, t>>, path)
BY DEF IsStrictPrefix, IsPrefix

LEMMA RequestKeeps ==
  ASSUME Inv, NEW b \in Tabs, NEW path, NEW typed, NEW expects, Request(b, path, typed, expects)
  PROVE  Inv'
<1>. DEFINE t == TaskAt(path)
            held == IF Addressed(path) THEN in[t] ELSE NoHash
            leg == Leg(path, Sent(path), typed, FALSE)
            v == [IdleTab EXCEPT !.at = "sent", !.legs = <<leg>>, !.expects = expects, !.held = held]
<1>1. Waits(leg, entered) /\ leg.path = path /\ leg.cookies = Sent(path)
  <2>1. Sent(path) \subseteq Cookies /\ \A c \in Sent(path) : Earned(c, entered)
    BY DEF Sent, Inv, JarInv
  <2>. QED
    BY <2>1 DEF Leg, Waits, IsLeg
<1>2. Brings(leg, held)
  <2>1. SUFFICES ASSUME held # NoHash, Addressed(path), ~Bare(path), path[2] = t
                 PROVE  \E c \in Sent(path) : Stands(c, t, held)
    BY <1>1, Zenon DEF Brings
  <2>2. t \in Tasks /\ held = in[t]
    BY <2>1, SiteFacts DEF Inv
  <2>3. PICK c \in jar : c.at = <<Project, t>> /\ Stands(c, t, held)
    BY <2>1, <2>2 DEF Inv, JarInv
  <2>4. path[1] = Project /\ Len(path) >= 2 /\ Len(path) # 2
    BY <2>1 DEF Addressed, Bare
  <2>5. IsStrictPrefix(<<Project, t>>, path)
    BY <2>1, <2>4, Covers
  <2>. QED
    BY <2>3, <2>5 DEF Sent
<1>3. /\ IsTab(v) /\ v.at = "sent" /\ v.legs = <<leg>> /\ v.held = held
      /\ v.answer = Answer("plain")
  BY DEF IsTab, IdleTab
<1>. HIDE DEF leg, held
<1>4. SentFirst(v, entered)
  BY <1>1, <1>2, <1>3, OfOne DEF SentFirst, One
<1>5. TabOK(v, entered)
  BY <1>3, <1>4, Fresh DEF TabOK
<1>6. tab' = [tab EXCEPT ![b] = v] /\ UNCHANGED <<sites, spent, changes, jar, entered, in>>
  BY Zenon DEF Request, leg, held
<1>. HIDE DEF v
<1>7. TabsInv'
  BY <1>5, <1>6, TabsStep DEF Inv
<1>. QED
  BY <1>6, <1>7, SitesSame, JarSame DEF Inv, JarInv

LEMMA SayKeeps ==
  ASSUME Inv, NEW b \in Tabs, Serving(b), NEW a, AnswerOK(a, entered'), a.kind # "lock", Say(b, a),
         UNCHANGED <<sites, spent, changes, jar, in>>,
         entered \subseteq entered', entered' \subseteq Tasks \X AllHashes
  PROVE  Inv'
<1>. DEFINE v == [tab[b] EXCEPT !.at = "back", !.answer = a]
<1>1. TabOK(tab[b], entered)
  BY DEF Inv, TabsInv
<1>2. TabOK(v, entered')
  BY <1>1, Said DEF Serving
<1>3. tab' = [tab EXCEPT ![b] = v]
  BY DEF Say, Inv, TabsInv
<1>. HIDE DEF v
<1>4. TabsInv'
  BY <1>2, <1>3, TabsStep DEF Inv
<1>. QED
  BY <1>4, SitesSame, JarSame DEF Inv

\* ServeHTTP's own redirects.
LEMMA RedirectOK ==
  ASSUME NEW path, NEW e, NEW a, a = [Answer("redirect") EXCEPT !.path = path, !.keep = TRUE]
  PROVE  AnswerOK(a, e) /\ a.kind # "lock"
BY DEF Answer, AnswerOK, IsAnswer

LEMMA SaysKeep ==
  ASSUME Inv, NEW b \in Tabs, Miss(b) \/ Rename(b) \/ Loop(b) \/ AddSlash(b)
  PROVE  Inv'
<1>1. Serving(b) /\ UNCHANGED <<sites, spent, changes, jar, entered, in>>
  BY DEF Miss, Rename, Loop, AddSlash, Open
<1>2. PICK a : Say(b, a) /\ AnswerOK(a, entered) /\ a.kind # "lock"
  <2>1. CASE Miss(b)
    BY <2>1, Fresh DEF Miss
  <2>2. CASE Rename(b)
    <3>1. PICK path, a : a = [Answer("redirect") EXCEPT !.path = path, !.keep = TRUE] /\ Say(b, a)
      BY <2>2, Zenon DEF Rename
    <3>. QED
      BY <3>1, RedirectOK
  <2>3. CASE Loop(b)
    BY <2>3, Fresh DEF Loop
  <2>4. CASE AddSlash(b)
    BY <2>4, RedirectOK DEF AddSlash
  <2>. QED
    BY <2>1, <2>2, <2>3, <2>4
<1>. QED
  BY <1>1, <1>2, SayKeeps DEF Inv, JarInv

(***************************************************************************)
(* The lock, and the way through a hop.                                    *)
(***************************************************************************)
LEMMA Asking ==
  ASSUME Inv, NEW b \in Tabs, Serving(b)
  PROVE  /\ TabOK(tab[b], entered) /\ IsTab(tab[b]) /\ Waits(Asked(b), entered)
         /\ Site(b) # EmptySite => /\ Addressed(Asked(b).path) /\ TaskAt(Asked(b).path) \in Tasks
                                   /\ SiteOK(TaskAt(Asked(b).path), Site(b))
         /\ Site(b).lock # NoHash \/ Site(b).up \/ Site(b).routes # {} => Site(b) # EmptySite
<1>1. TabOK(tab[b], entered) /\ IsTab(tab[b])
  BY DEF Inv, TabsInv, TabOK
<1>2. Waits(Asked(b), entered)
  BY <1>1, AskedLeg DEF Serving, Asked
<1>. QED
  BY <1>1, <1>2, SiteFacts DEF Inv, Site

LEMMA AskPasswordKeeps ==
  ASSUME Inv, NEW b \in Tabs, AskPassword(b)
  PROVE  Inv'
<1>. DEFINE u == tab[b]
            l == Asked(b)
            k == Site(b).lock
            m == [l EXCEPT !.lock = k]
            legs == [u.legs EXCEPT ![Len(u.legs)] = m]
            v == [u EXCEPT !.at = "back", !.answer = Answer("lock"), !.legs = legs]
<1>1. /\ Serving(b) /\ Locked(b)
      /\ UNCHANGED <<sites, spent, changes, jar, entered, in>>
  BY DEF AskPassword
<1>2. TabOK(u, entered) /\ IsTab(u) /\ Waits(l, entered) /\ u.at = "sent" /\ l = Last(u.legs)
  BY <1>1, Asking DEF Serving, Asked
<1>3. /\ k # NoHash /\ Addressed(l.path) /\ ~Bare(l.path) /\ l.path[2] = TaskAt(l.path)
      /\ \A c \in l.cookies : ~Valid(c, k)
  BY <1>1, Asking DEF Locked, Misspelt
<1>4. IsLeg(m) /\ m.hop = NoHop /\ m.lock = k /\ m.path = l.path /\ m.cookies = l.cookies
  BY <1>2 DEF Waits, IsLeg
<1>5. IsTab(v) /\ v.at = "back" /\ v.answer = Answer("lock") /\ v.legs = legs /\ v.held = u.held
  BY <1>2 DEF IsTab
<1>6. tab' = [tab EXCEPT ![b] = v]
  BY DEF AskPassword, Inv, TabsInv, Asked, Last
<1>. HIDE DEF m, v
<1>7. BackFirst(v, entered) \/ BackAgain(v, entered)
  <2>1. CASE u.legs = <<l>> /\ l = u.legs[1] /\ Brings(u.legs[1], u.held)
    <3>1. legs = <<m>>
      BY <2>1, OfOne
    <3>2. ASSUME k = u.held
          PROVE  Replaced(m)
      <4>1. PICK c \in l.cookies : Stands(c, TaskAt(l.path), k)
        BY <1>3, <2>1, <3>2 DEF Brings
      <4>. QED
        BY <1>3, <1>4, <4>1 DEF Stands, Valid, Replaced, IsLock
    <3>3. One(v.legs) /\ v.legs[1] = m
      BY <1>5, <3>1, MadeOne
    <3>. QED
      BY <1>4, <1>5, <3>2, <3>3 DEF BackFirst, Ended, AskedRightly
  <2>2. CASE u.legs = <<u.legs[1], l>> /\ Gone(u.legs[1], entered)
    <3>1. Len(u.legs) = 2
      BY <2>2, MadeTwo
    <3>2. legs = <<u.legs[1], m>>
      BY <2>2, <3>1
    <3>3. PICK first : first = u.legs[1]
      OBVIOUS
    <3>4. v.legs = <<first, m>>
      BY <1>5, <3>2, <3>3
    <3>5. Two(v.legs) /\ v.legs[1] = u.legs[1] /\ v.legs[2] = m
      BY <3>3, <3>4, MadeTwo
    <3>. QED
      BY <1>4, <1>5, <2>2, <3>5 DEF BackAgain, Ended
  <2>. QED
    BY <1>2, <2>1, <2>2, AskedLeg
<1>8. TabOK(v, entered')
  BY <1>1, <1>5, <1>7, Fresh DEF TabOK
<1>9. TabsInv'
  BY <1>1, <1>6, <1>8, TabsStep DEF Inv
<1>. QED
  BY <1>1, <1>9, SitesSame, JarSame DEF Inv, JarInv

LEMMA UnlockKeeps ==
  ASSUME Inv, NEW b \in Tabs, Unlock(b)
  PROVE  Inv'
<1>. DEFINE t == TaskAt(Asked(b).path)
            h == Site(b).lock
            a == [Answer("redirect") EXCEPT !.path = Asked(b).path, !.cookies = {LockCookie(t, h)}]
<1>1. /\ Serving(b) /\ Locked(b) /\ Say(b, a) /\ entered' = entered \cup {<<t, h>>}
      /\ UNCHANGED <<sites, spent, changes, jar, in>>
  BY Zenon DEF Unlock
<1>2. t \in Tasks /\ h \in Hashes[t]
  BY <1>1, Asking DEF Locked, SiteOK
<1>3. /\ LockCookie(t, h) \in Cookies /\ Earned(LockCookie(t, h), entered')
      /\ LockCookie(t, h).fresh
  BY <1>1, <1>2, LockCookieOK
<1>4. IsAnswer(a) /\ a.cookies = {LockCookie(t, h)} /\ a.kind = "redirect"
  BY DEF IsAnswer, Answer
<1>5. AnswerOK(a, entered')
  BY <1>3, <1>4 DEF AnswerOK
<1>6. entered' \subseteq Tasks \X AllHashes
  BY <1>1, <1>2 DEF Inv, JarInv, AllHashes
<1>. HIDE DEF a, t, h
<1>. QED
  BY <1>1, <1>4, <1>5, <1>6, SayKeeps

LEMMA DispatchKeeps ==
  ASSUME Inv, NEW b \in Tabs, Open(b), Site(b) # EmptySite, ~Bare(Asked(b).path),
         NEW h, h.task = TaskAt(Asked(b).path),
         h.host = Boreas => h.path # <<>> /\ ~Asked(b).routed,
         Dispatch(b, h)
  PROVE  Inv'
<1>. DEFINE u == tab[b]
            l == Asked(b)
            k == Site(b).lock
            leg == [l EXCEPT !.hop = h, !.lock = k]
            out == Rewrite(h, leg)
            legs == Append(Front(u.legs), leg)
            up == [host |-> h.host, path |-> out.path, cookies |-> out.cookies]
            v == IF h.host = Boreas THEN [u EXCEPT !.legs = Append(legs, out)]
                 ELSE [u EXCEPT !.at = "upstream", !.legs = legs, !.up = up]
<1>1. tab' = [tab EXCEPT ![b] = v] /\ UNCHANGED <<sites, spent, changes, jar, entered, in>>
  BY Zenon DEF Dispatch
<1>2. /\ TabOK(u, entered) /\ IsTab(u) /\ AnswerOK(u.answer, entered)
      /\ Waits(l, entered) /\ u.at = "sent" /\ l = Last(u.legs)
  BY Asking DEF Open, Serving, Asked, TabOK
<1>3. /\ IsLeg(leg) /\ leg.hop = h /\ leg.lock = k /\ leg.path = l.path
      /\ leg.cookies = l.cookies /\ leg.typed = l.typed /\ leg.routed = l.routed
  BY <1>2 DEF Waits, IsLeg
<1>4. Gone(leg, entered)
  <2>1. h.task \in Tasks /\ k \in Hashes[h.task] \cup {NoHash}
    BY Asking DEF Open, SiteOK
  <2>2. ASSUME k # NoHash
        PROVE  <<h.task, k>> \in entered
    <3>1. PICK c \in l.cookies : Valid(c, k)
      BY <2>2 DEF Open, Locked
    <3>2. Earned(c, entered)
      BY <1>2, <3>1 DEF Waits
    <3>. QED
      BY <2>1, <2>2, <3>1, <3>2, Admitted
  <2>. QED
    BY <1>3, <2>1, <2>2 DEF Gone
<1>. HIDE DEF leg
<1>5. Waits(out, entered) /\ (h.path # <<>> => out.routed)
  <2>1. \A c \in DropLockCookie(leg.cookies) : c \in Cookies /\ Earned(c, entered)
    BY <1>2, <1>3 DEF DropLockCookie, Waits
  <2>. QED
    BY <2>1 DEF Rewrite, Leg, Waits, IsLeg
<1>. HIDE DEF out, up
<1>6. ASSUME h.host = Boreas
      PROVE  TabOK(v, entered)
  <2>1. u.legs = <<l>> /\ l = u.legs[1]
    BY <1>2, <1>6, AskedLeg
  <2>2. Append(legs, out) = <<leg, out>>
    <3>1. Front(u.legs) = <<>>
      BY <2>1, MadeOne
    <3>2. legs = <<leg>>
      BY <3>1, OfOne
    <3>. QED
      BY <3>2, OfOne
  <2>3. IsTab(v) /\ v.at = "sent" /\ v.answer = u.answer /\ v.legs = <<leg, out>>
    BY <1>2, <1>6, <2>2 DEF IsTab
  <2>4. SentAgain(v, entered)
    BY <1>4, <1>5, <1>6, <2>3, OfTwo DEF SentAgain, Two
  <2>. HIDE DEF v
  <2>5. AnswerOK(v.answer, entered)
    BY <1>2, <2>3
  <2>. QED
    BY <2>3, <2>4, <2>5, TabMade, Zenon
<1>7. ASSUME h.host # Boreas
      PROVE  TabOK(v, entered)
  <2>1. IsTab(v) /\ v.at = "upstream" /\ v.answer = u.answer /\ v.legs = legs
    BY <1>2, <1>7 DEF IsTab
  <2>2. Away(v, entered)
    <3>1. CASE u.legs = <<l>>
      <4>1. legs = <<leg>>
        BY <3>1, OfOne
      <4>. QED
        BY <1>4, <2>1, <4>1, OfOne DEF Away, One
    <3>2. CASE u.legs = <<u.legs[1], l>> /\ Gone(u.legs[1], entered)
      <4>1. legs = <<u.legs[1], leg>>
        <5>0. PICK first : first = u.legs[1] /\ u.legs = <<first, l>>
          BY <3>2
        <5>1. Front(u.legs) = <<first>>
          BY <5>0, MadeTwo
        <5>. QED
          BY <5>0, <5>1, OfOne
      <4>. QED
        BY <1>4, <2>1, <3>2, <4>1, OfTwo DEF Away, Two
    <3>. QED
      BY <1>2, <3>1, <3>2, AskedLeg
  <2>. HIDE DEF v
  <2>3. AnswerOK(v.answer, entered)
    BY <1>2, <2>1
  <2>. QED
    BY <2>1, <2>2, <2>3, TabMade, Zenon
<1>. HIDE DEF v
<1>8. TabOK(v, entered')
  <2>1. entered' = entered /\ TabOK(v, entered)
    BY <1>1, <1>6, <1>7, Zenon
  <2>. QED
    BY <2>1, Zenon
<1>9. TabsInv'
  BY <1>1, <1>8, TabsStep DEF Inv
<1>. QED
  BY <1>1, <1>9, SitesSame, JarSame DEF Inv, JarInv

LEMMA RoutePaths ==
  ASSUME NEW p \in Seq(STRING), p # <<>>, NEW t
  PROVE  Len(<<Project, t>> \o p) > 2
<1>. DEFINE S == STRING \cup {Project, t}
<1>1. <<Project, t>> \in Seq(S) /\ Len(<<Project, t>>) = 2
  OBVIOUS
<1>2. p \in Seq(S) /\ Len(p) \in Nat /\ Len(p) # 0
  OBVIOUS
<1>3. Len(<<Project, t>> \o p) = 2 + Len(p)
  BY <1>1, <1>2, ConcatProperties
<1>. QED
  BY <1>2, <1>3

LEMMA ByRouteKeeps ==
  ASSUME Inv, NEW b \in Tabs, ByRoute(b)
  PROVE  Inv'
<1>. DEFINE t == TaskAt(Asked(b).path)
            r == Longest(Routed(b))
<1>1. Open(b) /\ Routed(b) # {} /\ ~Asked(b).routed /\ Dispatch(b, RouteHop(t, r))
  BY DEF ByRoute
<1>2. Routed(b) \subseteq Site(b).routes
  BY DEF Routed
<1>3. Serving(b) /\ Site(b) # EmptySite /\ t \in Tasks /\ Site(b).routes \in RoutesOf[t]
  BY <1>1, <1>2, Asking DEF Open, SiteOK
<1>4. r \in Routed(b)
  <2>1. \E q \in Routed(b) : \A o \in Routed(b) : Len(o.path) <= Len(q.path)
    BY <1>1, <1>2, <1>3, RoutesAssumption
  <2>. QED
    BY <2>1 DEF Longest
<1>. HIDE DEF r
<1>5. r.path \in Seq(STRING) /\ r.path # <<>> /\ Under(Asked(b).path, Public(RouteHop(t, r)))
  BY <1>2, <1>3, <1>4, RoutesAssumption DEF Routed
<1>6. RouteHop(t, r).task = t /\ RouteHop(t, r).path = r.path
  BY DEF RouteHop
<1>7. ~Bare(Asked(b).path)
  <2>1. Len(Public(RouteHop(t, r))) > 2
    BY <1>5, <1>6, RoutePaths DEF Public
  <2>. QED
    BY <1>5, <2>1 DEF Under, IsPrefix, Bare
<1>. QED
  BY <1>1, <1>3, <1>5, <1>6, <1>7, DispatchKeeps

LEMMA ByTaskKeeps ==
  ASSUME Inv, NEW b \in Tabs, ByTask(b)
  PROVE  Inv'
<1>. DEFINE t == TaskAt(Asked(b).path)
<1>1. Open(b) /\ Site(b).up /\ ~Bare(Asked(b).path) /\ Dispatch(b, TaskHop(t))
  BY DEF ByTask
<1>2. Site(b) # EmptySite /\ t \in Tasks
  BY <1>1, Asking DEF Open
<1>3. TaskHop(t).task = t /\ TaskHop(t).host # Boreas
  BY <1>2, ProxyAssumption DEF TaskHop, Hosts
<1>. QED
  BY <1>1, <1>2, <1>3, DispatchKeeps

(***************************************************************************)
(* The app answers.                                                        *)
(***************************************************************************)
LEMMA AnswersKeep ==
  ASSUME Inv, NEW b \in Tabs, tab[b].at = "upstream",
         NEW a, AnswerOK(a, entered), a.kind # "lock", NEW expects, Answers(b, a, expects)
  PROVE  Inv'
<1>. DEFINE u == tab[b]
            v == [u EXCEPT !.at = "back", !.answer = a, !.up = NoTarget, !.expects = expects]
<1>1. TabOK(u, entered) /\ IsTab(u)
  BY DEF Inv, TabsInv, TabOK
<1>2. Away(u, entered)
  BY <1>1 DEF TabOK, Resting, SentFirst, SentAgain, BackFirst, BackAgain
<1>3. IsTab(v) /\ v.at = "back" /\ v.answer = a /\ v.legs = u.legs
  BY <1>1 DEF IsTab
<1>4. tab' = [tab EXCEPT ![b] = v] /\ UNCHANGED <<sites, spent, changes, jar, entered, in>>
  BY DEF Answers, Inv, TabsInv
<1>. HIDE DEF v
<1>5. BackFirst(v, entered) \/ BackAgain(v, entered)
  BY <1>2, <1>3 DEF Away, BackFirst, BackAgain, Gone, Ended, AskedRightly
<1>6. TabOK(v, entered')
  BY <1>3, <1>4, <1>5, TabMade
<1>7. TabsInv'
  BY <1>4, <1>6, TabsStep DEF Inv
<1>. QED
  BY <1>4, <1>7, SitesSame, JarSame DEF Inv, JarInv

LEMMA NoCookies ==
  ASSUME NEW e, NEW a, IsAnswer(a), a.cookies = {}
  PROVE  AnswerOK(a, e)
BY DEF AnswerOK

LEMMA AppKeeps ==
  ASSUME Inv, NEW b \in Tabs, AppNext(b)
  PROVE  Inv'
<1>1. tab[b].at = "upstream"
  BY DEF AppNext, Shows, SetsCookie, Redirects, Pages
<1>2. CASE Shows(b)
  BY <1>1, <1>2, Fresh, AnswersKeep DEF Shows
<1>3. CASE SetsCookie(b)
  <2>. DEFINE c == [name |-> "app", at |-> <<>>, value |-> tab[b].legs[1].hop.task, fresh |-> TRUE]
              a == [Answer("plain") EXCEPT !.cookies = {c}]
  <2>1. tab[b].legs[1].hop.task \in Tasks
    BY <1>1 DEF Inv, TabsInv, TabOK, Away, Gone, Resting, SentFirst, SentAgain, BackFirst, BackAgain
  <2>2. c \in Cookies /\ ~IsLock(c)
    BY <2>1 DEF Cookies, IsLock
  <2>3. IsAnswer(a) /\ a.cookies = {c} /\ a.kind = "plain"
    BY DEF Answer, IsAnswer
  <2>4. AnswerOK(a, entered)
    BY <2>2, <2>3 DEF AnswerOK, Earned
  <2>5. Answers(b, a, NoTarget)
    BY <1>3 DEF SetsCookie
  <2>. QED
    BY <1>1, <2>3, <2>4, <2>5, AnswersKeep
<1>4. ASSUME NEW rest \in Rests, Redirects(b, rest)
      PROVE  Inv'
  <2>1. PICK host, path, expects :
          Answers(b, [Answer("redirect") EXCEPT !.host = host, !.path = path], expects)
    BY <1>4, Zenon DEF Redirects
  <2>. DEFINE a == [Answer("redirect") EXCEPT !.host = host, !.path = path]
  <2>2. IsAnswer(a) /\ a.cookies = {} /\ a.kind = "redirect"
    BY DEF Answer, IsAnswer
  <2>3. AnswerOK(a, entered)
    BY <2>2, NoCookies
  <2>. QED
    BY <1>1, <2>1, <2>2, <2>3, AnswersKeep
<1>5. ASSUME NEW rest \in Rests, Pages(b, rest)
      PROVE  Inv'
  <2>1. PICK path, expects : Answers(b, [Answer("page") EXCEPT !.path = path], expects)
    BY <1>5, Zenon DEF Pages
  <2>. DEFINE a == [Answer("page") EXCEPT !.path = path]
  <2>2. IsAnswer(a) /\ a.cookies = {} /\ a.kind = "page"
    BY DEF Answer, IsAnswer
  <2>3. AnswerOK(a, entered)
    BY <2>2, NoCookies
  <2>. QED
    BY <1>1, <2>1, <2>2, <2>3, AnswersKeep
<1>. QED
  BY <1>2, <1>3, <1>4, <1>5 DEF AppNext

(***************************************************************************)
(* Back to the browser, the day's end, and changes of the registry.        *)
(***************************************************************************)
LEMMA Returning ==
  ASSUME Inv, NEW b \in Tabs, tab[b].at = "back"
  PROVE  /\ IsTab(tab[b]) /\ (BackFirst(tab[b], entered) \/ BackAgain(tab[b], entered))
         /\ Ended(Last(tab[b].legs))
         /\ AnswerOK(Handed(b), entered) /\ Handed(b).kind = tab[b].answer.kind
<1>. DEFINE u == tab[b]
<1>1. TabOK(u, entered) /\ IsTab(u) /\ AnswerOK(u.answer, entered)
  BY DEF Inv, TabsInv, TabOK
<1>2. BackFirst(u, entered) \/ BackAgain(u, entered)
  BY <1>1 DEF TabOK, Resting, SentFirst, SentAgain, Away
<1>3. Ended(Last(u.legs))
  <2>1. CASE BackFirst(u, entered)
    <3>1. PICK l : l = u.legs[1] /\ u.legs = <<l>>
      BY <2>1 DEF BackFirst, One
    <3>. QED
      BY <2>1, <3>1, MadeOne DEF BackFirst
  <2>2. CASE BackAgain(u, entered)
    <3>1. PICK k, l : k = u.legs[1] /\ l = u.legs[2] /\ u.legs = <<k, l>>
      BY <2>2 DEF BackAgain, Two
    <3>. QED
      BY <2>2, <3>1, MadeTwo DEF BackAgain
  <2>. QED
    BY <1>2, <2>1, <2>2
<1>. QED
  BY <1>1, <1>2, <1>3, HandedOK DEF Handed, Ended

LEMMA PassKeeps ==
  ASSUME Inv, NEW b \in Tabs, Pass(b)
  PROVE  Inv'
<1>. DEFINE u == tab[b]
            v == [u EXCEPT !.answer = Handed(b), !.legs = Front(@)]
<1>1. /\ u.at = "back" /\ Len(u.legs) > 1
      /\ tab' = [tab EXCEPT ![b] = v]
      /\ UNCHANGED <<sites, spent, changes, jar, entered, in>>
  BY DEF Pass, Inv, TabsInv
<1>2. /\ IsTab(u) /\ AnswerOK(Handed(b), entered)
      /\ BackFirst(u, entered) \/ BackAgain(u, entered)
  BY <1>1, Returning
<1>3. ~BackFirst(u, entered)
  <2>1. SUFFICES ASSUME One(u.legs)
                 PROVE  FALSE
    BY DEF BackFirst
  <2>2. PICK l : u.legs = <<l>>
    BY <2>1 DEF One
  <2>. QED
    BY <1>1, <2>2, MadeOne
<1>4. PICK k, l : k = u.legs[1] /\ u.legs = <<k, l>>
  BY <1>2, <1>3 DEF BackAgain, Two
<1>5. Front(u.legs) = <<k>>
  BY <1>4, MadeTwo
<1>6. IsTab(v) /\ v.at = "back" /\ v.answer = Handed(b) /\ v.legs = <<k>>
  BY <1>1, <1>2, <1>5 DEF IsTab
<1>. HIDE DEF v
<1>7. BackFirst(v, entered)
  <2>1. Gone(k, entered)
    BY <1>2, <1>3, <1>4 DEF BackAgain
  <2>2. k.hop # NoHop /\ Ended(k)
    BY <2>1, ProxyAssumption DEF Gone, Ended, NoHop, Hosts
  <2>. QED
    BY <1>6, <2>2, MadeOne DEF BackFirst, AskedRightly
<1>8. TabOK(v, entered')
  BY <1>1, <1>2, <1>6, <1>7, TabMade
<1>9. TabsInv'
  BY <1>1, <1>8, TabsStep DEF Inv
<1>. QED
  BY <1>1, <1>9, SitesSame, JarSame DEF Inv, JarInv

LEMMA DeliverKeeps ==
  ASSUME Inv, NEW b \in Tabs, Deliver(b)
  PROVE  Inv'
<1>. DEFINE own(t) == {c \in Handed(b).cookies : c.at = <<Project, t>> /\ c.value \in Hashes[t]}
            link == Leg(Link(Handed(b)), {}, Handed(b).keep /\ tab[b].legs[1].typed, FALSE)
            v == IF Linked(Handed(b))
                 THEN [IdleTab EXCEPT !.at = "link", !.expects = tab[b].expects, !.legs = <<link>>]
                 ELSE IdleTab
<1>1. /\ tab[b].at = "back" /\ jar' = Stored(Handed(b).cookies)
      /\ in' = [t \in Tasks |-> IF own(t) = {} THEN in[t] ELSE (CHOOSE c \in own(t) : TRUE).value]
      /\ tab' = [tab EXCEPT ![b] = v]
      /\ UNCHANGED <<sites, spent, changes, entered>>
  BY DEF Deliver
<1>2. /\ Handed(b).cookies \subseteq Cookies
      /\ \A c \in Handed(b).cookies : Earned(c, entered) /\ (IsLock(c) => c.fresh)
  BY <1>1, Returning DEF AnswerOK
<1>3. TabsInv'
  <2>1. IsTab(v) /\ v.answer = Answer("plain") /\ Resting(v)
    <3>1. CASE Linked(Handed(b))
      <4>1. IsTab(v) /\ v.at = "link" /\ v.legs = <<link>> /\ v.answer = Answer("plain")
        BY <3>1 DEF IdleTab, IsTab
      <4>. HIDE DEF v, link
      <4>. QED
        BY <4>1, MadeOne, Fresh DEF Resting
    <3>2. CASE ~Linked(Handed(b))
      BY <3>2, Fresh DEF IdleTab, IsTab, Resting
    <3>. QED
      BY <3>1, <3>2
  <2>. HIDE DEF v
  <2>2. TabOK(v, entered')
    BY <2>1, Fresh, TabMade
  <2>. QED
    BY <1>1, <2>2, TabsStep DEF Inv
<1>4. jar' \subseteq Cookies /\ \A c \in jar' : Earned(c, entered')
  BY <1>1, <1>2 DEF Stored, Inv, JarInv
<1>5. ASSUME NEW t \in Tasks
      PROVE  /\ in'[t] \in Hashes[t] \cup {NoHash}
             /\ in'[t] # NoHash => \E c \in jar' : c.at = <<Project, t>> /\ Stands(c, t, in'[t])
  <2>1. CASE own(t) = {}
    <3>1. in'[t] = in[t] /\ in[t] \in Hashes[t] \cup {NoHash}
      BY <1>1, <2>1 DEF Inv, JarInv
    <3>2. ASSUME in[t] # NoHash
          PROVE  \E c \in jar' : c.at = <<Project, t>> /\ Stands(c, t, in[t])
      <4>1. PICK c \in jar : c.at = <<Project, t>> /\ Stands(c, t, in[t])
        BY <3>2 DEF Inv, JarInv
      <4>2. CASE \A d \in Handed(b).cookies : <<c.name, c.at>> # <<d.name, d.at>>
        BY <1>1, <4>1, <4>2 DEF Stored
      <4>3. ASSUME NEW d \in Handed(b).cookies, d.name = c.name, d.at = c.at
            PROVE  \E e \in jar' : e.at = <<Project, t>> /\ Stands(e, t, in[t])
        <5>1. IsLock(d) /\ d.fresh /\ d.at = <<Project, t>>
          BY <1>2, <4>1, <4>3 DEF Stands, IsLock
        <5>2. d.value \notin Hashes[t]
          BY <2>1, <5>1
        <5>3. d \in jar'
          BY <1>1 DEF Stored
        <5>. QED
          BY <5>1, <5>2, <5>3 DEF Stands
      <4>. QED
        BY <4>2, <4>3
    <3>. QED
      BY <3>1, <3>2
  <2>2. CASE own(t) # {}
    <3>1. PICK c \in own(t) : in'[t] = c.value
      BY <1>1, <2>2
    <3>2. c \in Handed(b).cookies /\ c.at = <<Project, t>> /\ c.value \in Hashes[t]
      BY <3>1
    <3>3. IsLock(c) /\ c.fresh
      <4>1. c.value \in AllHashes
        BY <3>2 DEF AllHashes
      <4>2. IsLock(c)
        BY <1>2, <3>2, <4>1, CookieValues, ProxyAssumption
      <4>. QED
        BY <1>2, <3>2, <4>2
    <3>4. c \in jar'
      BY <1>1, <3>2 DEF Stored
    <3>. QED
      BY <3>1, <3>2, <3>3, <3>4 DEF Stands
  <2>. QED
    BY <2>1, <2>2
<1>6. JarInv'
  BY <1>1, <1>4, <1>5 DEF Inv, JarInv
<1>. QED
  BY <1>1, <1>3, <1>6, SitesSame DEF Inv

LEMMA DayKeeps ==
  ASSUME Inv, DayPasses
  PROVE  Inv'
<1>1. /\ \A b \in Tabs : tab[b].at \in {"idle", "link"}
      /\ jar' = {[c EXCEPT !.fresh = @ /\ c.name # "boreas_lock"] : c \in jar}
      /\ entered' = {} /\ in' = [t \in Tasks |-> NoHash]
      /\ UNCHANGED <<sites, spent, changes, tab>>
  BY DEF DayPasses
<1>2. ASSUME NEW b \in Tabs
      PROVE  TabOK(tab[b], {})
  <2>1. TabOK(tab[b], entered)
    BY DEF Inv, TabsInv
  <2>2. Resting(tab[b])
    BY <1>1, <2>1 DEF TabOK, SentFirst, SentAgain, Away, BackFirst, BackAgain
  <2>. QED
    BY <2>1, <2>2, NoCookies DEF TabOK, AnswerOK, Resting
<1>3. TabsInv'
  BY <1>1, <1>2 DEF Inv, TabsInv
<1>4. ASSUME NEW d \in jar'
      PROVE  d \in Cookies /\ Earned(d, {})
  <2>1. PICK c \in jar : d = [c EXCEPT !.fresh = @ /\ c.name # "boreas_lock"]
    BY <1>1
  <2>2. c \in Cookies
    BY DEF Inv, JarInv
  <2>3. CASE IsLock(c)
    BY <2>1, <2>2, <2>3 DEF Cookies, Earned, IsLock
  <2>4. CASE ~IsLock(c)
    BY <2>1, <2>2, <2>4 DEF Cookies, Earned, IsLock
  <2>. QED
    BY <2>3, <2>4
<1>5. JarInv'
  BY <1>1, <1>4 DEF JarInv
<1>. QED
  BY <1>1, <1>3, <1>5, SitesSame DEF Inv

LEMMA ChangeKeeps ==
  ASSUME Inv, NEW t \in Tasks, RegistryNext(t)
  PROVE  Inv'
<1>1. PICK site : SiteOK(t, site) /\ Change(t, site) /\ spent' \subseteq AllHashes \cup {NoHash}
  <2>1. SiteOK(t, sites[t]) /\ spent \subseteq AllHashes \cup {NoHash}
    BY DEF Inv, SitesInv
  <2>2. CASE Register(t)
    BY <2>1, <2>2 DEF Register, SiteOK, SiteType
  <2>3. CASE Unregister(t)
    BY <2>1, <2>3 DEF Unregister, SiteOK, SiteType
  <2>4. CASE SetRoutes(t)
    <3>1. PICK routes \in RoutesOf[t] :
            Change(t, [sites[t] EXCEPT !.routes = routes]) /\ UNCHANGED spent
      BY <2>4 DEF SetRoutes
    <3>2. SiteOK(t, [sites[t] EXCEPT !.routes = routes])
      BY <2>1 DEF SiteOK, SiteType
    <3>. QED
      BY <2>1, <3>1, <3>2
  <2>5. CASE SetLock(t)
    <3>1. PICK h \in (Hashes[t] \ spent) \cup {NoHash} :
            Change(t, [sites[t] EXCEPT !.lock = h]) /\ spent' = spent \cup {sites[t].lock}
      BY <2>5 DEF SetLock
    <3>2. SiteOK(t, [sites[t] EXCEPT !.lock = h])
      BY <2>1 DEF SiteOK, SiteType, AllHashes
    <3>3. spent' \subseteq AllHashes \cup {NoHash}
      BY <2>1, <3>1 DEF SiteOK, AllHashes
    <3>. QED
      BY <3>1, <3>2, <3>3
  <2>. QED
    BY <2>2, <2>3, <2>4, <2>5 DEF RegistryNext
<1>2. SitesInv'
  BY <1>1, ProxyAssumption DEF Change, Inv, SitesInv, SiteOK
<1>3. JarInv'
  BY <1>1 DEF Change, Inv, JarInv
<1>4. TabsInv'
  <2>1. tab' = [b \in Tabs |-> [tab[b] EXCEPT !.expects = NoTarget]] /\ entered' = entered
    BY <1>1 DEF Change
  <2>2. ASSUME NEW b \in Tabs
        PROVE  TabOK(tab'[b], entered')
    <3>. DEFINE v == [tab[b] EXCEPT !.expects = NoTarget]
    <3>1. TabOK(tab[b], entered) /\ IsTab(tab[b])
      BY DEF Inv, TabsInv, TabOK
    <3>2. /\ IsTab(v) /\ v.at = tab[b].at /\ v.legs = tab[b].legs
          /\ v.answer = tab[b].answer /\ v.held = tab[b].held
      BY <3>1 DEF IsTab
    <3>. HIDE DEF v
    <3>3. TabOK(v, entered)
      BY <3>1, <3>2 DEF TabOK, Resting, SentFirst, SentAgain, Away, BackFirst, BackAgain
    <3>. QED
      BY <2>1, <3>3 DEF v
  <2>. QED
    BY <2>1, <2>2 DEF TabsInv
<1>. QED
  BY <1>2, <1>3, <1>4 DEF Inv

(***************************************************************************)
(* The theorems.                                                           *)
(***************************************************************************)
LEMMA InitInv == Init => Inv
<1>. SUFFICES ASSUME Init
              PROVE  Inv
  OBVIOUS
<1>1. SitesInv
  BY ProxyAssumption DEF Init, SitesInv, SiteOK, SiteType
<1>2. JarInv
  BY DEF Init, JarInv
<1>3. IsTab(IdleTab) /\ Resting(IdleTab) /\ IdleTab.answer = Answer("plain")
  BY Fresh DEF IdleTab, IsTab, Resting
<1>4. TabOK(IdleTab, entered)
  BY <1>3, Fresh, TabMade
<1>5. TabsInv
  BY <1>4 DEF Init, TabsInv
<1>. QED
  BY <1>1, <1>2, <1>5 DEF Inv

LEMMA NextInv == Inv /\ [Next]_vars => Inv'
<1>. SUFFICES ASSUME Inv, [Next]_vars
              PROVE  Inv'
  OBVIOUS
<1>1. ASSUME NEW b \in Tabs, Browse(b)
      PROVE  Inv'
  <2>1. PICK path, typed, expects : Request(b, path, typed, expects)
    BY <1>1 DEF Browse, Visit, Follow
  <2>. QED
    BY <2>1, RequestKeeps
<1>2. ASSUME NEW b \in Tabs, ServeHTTP(b)
      PROVE  Inv'
  BY <1>2, SaysKeep, AskPasswordKeeps, UnlockKeeps, ByRouteKeeps, ByTaskKeeps, PassKeeps, DeliverKeeps
     DEF ServeHTTP
<1>3. CASE UNCHANGED vars
  <2>1. TabsInv'
    BY <1>3 DEF vars, Inv, TabsInv
  <2>. QED
    BY <1>3, <2>1, SitesSame, JarSame DEF vars, Inv, JarInv
<1>. QED
  BY <1>1, <1>2, <1>3, AppKeeps, ChangeKeeps, DayKeeps DEF Next

LEMMA Invariance == Spec => []Inv
BY InitInv, NextInv, PTL DEF Spec

\* Registry, jar and passwords are what they should be, and a request goes through
\* Boreas twice at most: no routes of any tasks send one round (newHop's mark).
THEOREM TypeCorrect == Spec => []TypeOK
<1>1. Inv => TypeOK
  <2>. SUFFICES ASSUME Inv
                PROVE  TypeOK
    OBVIOUS
  <2>1. ASSUME NEW b \in Tabs
        PROVE  Len(tab[b].legs) <= 2
    <3>1. TabOK(tab[b], entered)
      BY DEF Inv, TabsInv
    <3>2. tab[b].legs = <<>> \/ (\E l : tab[b].legs = <<l>>) \/ (\E k, l : tab[b].legs = <<k, l>>)
      BY <3>1 DEF TabOK, Resting, SentFirst, SentAgain, Away, BackFirst, BackAgain, One, Two
    <3>3. CASE tab[b].legs = <<>>
      BY <3>3
    <3>4. ASSUME NEW l, tab[b].legs = <<l>>
          PROVE  Len(tab[b].legs) <= 2
      BY <3>4, MadeOne
    <3>5. ASSUME NEW k, NEW l, tab[b].legs = <<k, l>>
          PROVE  Len(tab[b].legs) <= 2
      BY <3>5, MadeTwo
    <3>. QED
      BY <3>2, <3>3, <3>4, <3>5
  <2>. QED
    BY <2>1 DEF Inv, SitesInv, SiteOK, SiteType, JarInv, TypeOK
<1>. QED
  BY <1>1, Invariance, PTL

\* A lock keeps out who has not given its password since it was set and today, and
\* asks none again who has (lock.admits): for any tasks, routes, locks and tabs.
THEOREM LockHolds == Spec => []LockKeeps
<1>1. Inv => LockKeeps
  <2>. SUFFICES ASSUME Inv
                PROVE  LockKeeps
    OBVIOUS
  <2>1. ASSUME NEW b \in Tabs
        PROVE  TabOK(tab[b], entered)
    BY DEF Inv, TabsInv
  <2>2. ASSUME NEW b \in Tabs, tab[b].at = "upstream", NEW i \in 1..Len(tab[b].legs)
        PROVE  Gone(tab[b].legs[i], entered)
    <3>1. Away(tab[b], entered)
      BY <2>1, <2>2 DEF TabOK, Resting, SentFirst, SentAgain, BackFirst, BackAgain
    <3>2. CASE One(tab[b].legs) /\ Gone(tab[b].legs[1], entered)
      <4>1. PICK l : tab[b].legs = <<l>>
        BY <3>2 DEF One
      <4>2. i = 1
        BY <2>2, <4>1, MadeOne
      <4>. QED
        BY <3>2, <4>2
    <3>3. CASE Two(tab[b].legs) /\ Gone(tab[b].legs[1], entered) /\ Gone(tab[b].legs[2], entered)
      <4>1. PICK k, l : tab[b].legs = <<k, l>>
        BY <3>3 DEF Two
      <4>2. i = 1 \/ i = 2
        BY <2>2, <4>1, MadeTwo
      <4>. QED
        BY <3>3, <4>2
    <3>. QED
      BY <3>1, <3>2, <3>3 DEF Away
  <2>3. LockKeepsOut
    BY <2>2 DEF LockKeepsOut, Gone
  <2>4. ASSUME NEW b \in Tabs, tab[b].at = "back", tab[b].answer.kind = "lock", tab[b].legs[1].hop = NoHop
        PROVE  tab[b].legs[1].lock # tab[b].held \/ Replaced(tab[b].legs[1])
    <3>1. BackFirst(tab[b], entered) \/ BackAgain(tab[b], entered)
      BY <2>4, Returning
    <3>2. CASE BackFirst(tab[b], entered)
      BY <2>4, <3>2 DEF BackFirst, AskedRightly
    <3>3. CASE BackAgain(tab[b], entered)
      BY <2>4, <3>3, ProxyAssumption DEF BackAgain, Gone, NoHop, Hosts
    <3>. QED
      BY <3>1, <3>2, <3>3
  <2>5. LockLetsIn
    BY <2>4 DEF LockLetsIn
  <2>. QED
    BY <2>3, <2>5 DEF LockKeeps
<1>. QED
  BY <1>1, Invariance, PTL

(***************************************************************************)
(* The apps' cookies.  One in the jar is at the URL of the task it is of,  *)
(* so the browser brings it to this URL alone; and what an app sets goes   *)
(* back through the hop it came by, which gives it this path.              *)
(***************************************************************************)
JarHome == \A c \in jar : ~IsLock(c) => c.at = <<Project, c.value>>

HomeOK(v) ==
  /\ v.at = "sent" /\ One(v.legs) =>
       \A c \in v.legs[1].cookies : ~IsLock(c) => c.value = v.legs[1].path[2]
  /\ v.at = "sent" /\ Two(v.legs) =>
       \A c \in v.legs[2].cookies : ~IsLock(c) => c.value = v.legs[1].hop.task
  /\ v.at = "upstream" => \A c \in v.up.cookies : c.name = "app" /\ c.value = v.legs[1].hop.task
  /\ v.at = "back" =>
       \A c \in v.answer.cookies : ~IsLock(c) => /\ v.legs[1].hop # NoHop
                                                 /\ c.value = v.legs[1].hop.task

HomeInv == JarHome /\ \A b \in Tabs : HomeOK(tab[b])

\* A step that leaves the jar and puts one tab right.
LEMMA HomeStep ==
  ASSUME Inv, HomeInv, NEW b \in Tabs, NEW v, HomeOK(v), tab' = [tab EXCEPT ![b] = v], jar' = jar
  PROVE  HomeInv'
<1>1. \A d \in Tabs : tab'[d] = IF d = b THEN v ELSE tab[d]
  BY DEF Inv, TabsInv
<1>. QED
  BY <1>1 DEF HomeInv, JarHome

LEMMA OneNotTwo ==
  ASSUME NEW s
  PROVE  ~(One(s) /\ Two(s))
<1>1. SUFFICES ASSUME NEW x, NEW y, NEW z, <<x>> = <<y, z>>
               PROVE  FALSE
  BY Zenon DEF One, Two
<1>. QED
  BY <1>1, OfOne, OfTwo

\* The browser brings a cookie to nothing but what is below its path.
LEMMA BroughtTo ==
  ASSUME NEW path, NEW p, NEW t, IsStrictPrefix(<<p, t>>, path)
  PROVE  path[2] = t
<1>1. SubSeq(<<p, t>>, 1, 2) = SubSeq(path, 1, 2) /\ Len(<<p, t>>) = 2
  BY DEF IsStrictPrefix, IsPrefix
<1>2. SubSeq(<<p, t>>, 1, 2)[2] = t
  OBVIOUS
<1>3. SubSeq(path, 1, 2)[2] = path[2]
  OBVIOUS
<1>. QED
  BY <1>1, <1>2, <1>3

LEMMA RequestHome ==
  ASSUME Inv, HomeInv, NEW b \in Tabs, NEW path, NEW typed, NEW expects, Request(b, path, typed, expects)
  PROVE  HomeInv'
<1>. DEFINE leg == Leg(path, Sent(path), typed, FALSE)
            held == IF Addressed(path) THEN in[TaskAt(path)] ELSE NoHash
            v == [IdleTab EXCEPT !.at = "sent", !.legs = <<leg>>, !.expects = expects, !.held = held]
<1>1. ASSUME NEW c \in Sent(path), ~IsLock(c)
      PROVE  c.value = path[2]
  <2>1. c.at = <<Project, c.value>> /\ IsStrictPrefix(c.at, path)
    BY <1>1 DEF Sent, HomeInv, JarHome
  <2>2. IsStrictPrefix(<<Project, c.value>>, path)
    BY <2>1
  <2>. QED
    BY <2>2, BroughtTo
<1>2. leg.cookies = Sent(path) /\ leg.path = path
  BY DEF Leg
<1>3. v.at = "sent" /\ v.legs = <<leg>>
  BY DEF IdleTab
<1>4. tab' = [tab EXCEPT ![b] = v] /\ jar' = jar
  BY Zenon DEF Request
<1>. HIDE DEF leg, held, v
<1>5. HomeOK(v)
  BY <1>1, <1>2, <1>3, MadeOne, OneNotTwo DEF HomeOK
<1>. QED
  BY <1>4, <1>5, HomeStep

\* ServeHTTP's own answers set no app's cookie.
LEMMA SayHome ==
  ASSUME Inv, HomeInv, NEW b \in Tabs, NEW a, \A c \in a.cookies : IsLock(c), Say(b, a), jar' = jar
  PROVE  HomeInv'
<1>. DEFINE v == [tab[b] EXCEPT !.at = "back", !.answer = a]
<1>1. IsTab(tab[b])
  BY DEF Inv, TabsInv, TabOK
<1>2. v.at = "back" /\ v.answer = a
  BY <1>1 DEF IsTab
<1>3. tab' = [tab EXCEPT ![b] = v]
  BY DEF Say, Inv, TabsInv
<1>. HIDE DEF v
<1>4. HomeOK(v)
  BY <1>2 DEF HomeOK
<1>. QED
  BY <1>3, <1>4, HomeStep

LEMMA SaysHome ==
  ASSUME Inv, HomeInv, NEW b \in Tabs,
         Miss(b) \/ Rename(b) \/ Loop(b) \/ AddSlash(b) \/ Unlock(b)
  PROVE  HomeInv'
<1>1. jar' = jar
  BY DEF Miss, Rename, Loop, AddSlash, Unlock
<1>2. PICK a : Say(b, a) /\ \A c \in a.cookies : IsLock(c)
  <2>1. CASE Miss(b)
    BY <2>1, Fresh DEF Miss
  <2>2. CASE Rename(b)
    <3>1. PICK path, a : a = [Answer("redirect") EXCEPT !.path = path, !.keep = TRUE] /\ Say(b, a)
      BY <2>2, Zenon DEF Rename
    <3>2. a.cookies = {}
      BY <3>1 DEF Answer
    <3>. QED
      BY <3>1, <3>2
  <2>3. CASE Loop(b)
    BY <2>3, Fresh DEF Loop
  <2>4. CASE AddSlash(b)
    <3>1. PICK path, a : a = [Answer("redirect") EXCEPT !.path = path, !.keep = TRUE] /\ Say(b, a)
      BY <2>4, Zenon DEF AddSlash
    <3>2. a.cookies = {}
      BY <3>1 DEF Answer
    <3>. QED
      BY <3>1, <3>2
  <2>5. CASE Unlock(b)
    <3>1. PICK path, a, t, h :
            a = [Answer("redirect") EXCEPT !.path = path, !.cookies = {LockCookie(t, h)}] /\ Say(b, a)
      BY <2>5, Zenon DEF Unlock
    <3>2. a.cookies = {LockCookie(t, h)}
      BY <3>1 DEF Answer
    <3>3. IsLock(LockCookie(t, h))
      BY DEF LockCookie, IsLock
    <3>4. \A c \in a.cookies : IsLock(c)
      BY <3>2, <3>3
    <3>. QED
      BY <3>1, <3>4
  <2>. QED
    BY <2>1, <2>2, <2>3, <2>4, <2>5
<1>. QED
  BY <1>1, <1>2, SayHome

LEMMA AskPasswordHome ==
  ASSUME Inv, HomeInv, NEW b \in Tabs, AskPassword(b)
  PROVE  HomeInv'
<1>. DEFINE u == tab[b]
            legs == [u.legs EXCEPT ![Len(u.legs)] = [Asked(b) EXCEPT !.lock = Site(b).lock]]
            v == [u EXCEPT !.at = "back", !.answer = Answer("lock"), !.legs = legs]
<1>1. IsTab(u)
  BY DEF Inv, TabsInv, TabOK
<1>2. tab' = [tab EXCEPT ![b] = v] /\ jar' = jar
  BY DEF AskPassword, Inv, TabsInv, Asked, Last
<1>. HIDE DEF legs
<1>3. v.at = "back" /\ v.answer = Answer("lock")
  BY <1>1 DEF IsTab
<1>. HIDE DEF v
<1>4. HomeOK(v)
  BY <1>3, Fresh DEF HomeOK
<1>. QED
  BY <1>2, <1>4, HomeStep

LEMMA DispatchHome ==
  ASSUME Inv, HomeInv, NEW b \in Tabs, Open(b), Site(b) # EmptySite,
         NEW h, h.task = TaskAt(Asked(b).path), h.host = Boreas => ~Asked(b).routed, Dispatch(b, h)
  PROVE  HomeInv'
<1>. DEFINE u == tab[b]
            l == Asked(b)
            leg == [l EXCEPT !.hop = h, !.lock = Site(b).lock]
            out == Rewrite(h, leg)
            legs == Append(Front(u.legs), leg)
            up == [host |-> h.host, path |-> out.path, cookies |-> out.cookies]
            v == IF h.host = Boreas THEN [u EXCEPT !.legs = Append(legs, out)]
                 ELSE [u EXCEPT !.at = "upstream", !.legs = legs, !.up = up]
<1>1. tab' = [tab EXCEPT ![b] = v] /\ jar' = jar
  BY Zenon DEF Dispatch
<1>2. /\ TabOK(u, entered) /\ IsTab(u) /\ HomeOK(u)
      /\ Waits(l, entered) /\ u.at = "sent" /\ l = Last(u.legs)
  BY Asking DEF Open, Serving, Asked, HomeInv
<1>3. leg.hop = h /\ leg.cookies = l.cookies
  BY <1>2 DEF Waits, IsLeg
<1>4. l.path[2] = h.task
  BY Asking DEF Open, Misspelt
<1>. HIDE DEF leg
<1>5. out.cookies = {c \in l.cookies : ~IsLock(c)}
  BY <1>3 DEF Rewrite, DropLockCookie, Leg, IsLock
<1>6. \A c \in out.cookies : c.name = "app"
  BY <1>2, <1>5 DEF Waits, Cookies, IsLock
<1>. HIDE DEF out
<1>7. PICK first : first = u.legs[1]
  OBVIOUS
<1>8. CASE u.legs = <<l>> /\ l = u.legs[1] /\ One(u.legs)
  <2>1. \A c \in out.cookies : c.value = h.task
    BY <1>2, <1>4, <1>5, <1>8 DEF HomeOK
  <2>2. Front(u.legs) = <<>>
    BY <1>8, MadeOne
  <2>3. legs = <<leg>>
    BY <2>2, OfOne
  <2>4. Append(legs, out) = <<leg, out>>
    BY <2>3, OfOne
  <2>5. CASE h.host = Boreas
    <3>1. v.at = "sent" /\ v.legs = <<leg, out>>
      BY <1>2, <2>4, <2>5 DEF IsTab
    <3>. HIDE DEF v
    <3>2. Two(v.legs) /\ v.legs[1] = leg /\ v.legs[2] = out
      BY <3>1, MadeTwo
    <3>3. HomeOK(v)
      BY <1>3, <2>1, <3>1, <3>2, OneNotTwo DEF HomeOK
    <3>. QED
      BY <1>1, <3>3, HomeStep
  <2>6. CASE h.host # Boreas
    <3>1. v.at = "upstream" /\ v.legs = <<leg>> /\ v.up.cookies = out.cookies
      BY <1>2, <2>3, <2>6 DEF IsTab
    <3>. HIDE DEF v
    <3>2. v.legs[1] = leg
      BY <3>1, MadeOne
    <3>3. HomeOK(v)
      BY <1>3, <1>6, <2>1, <3>1, <3>2 DEF HomeOK
    <3>. QED
      BY <1>1, <3>3, HomeStep
  <2>. QED
    BY <2>5, <2>6
<1>9. CASE u.legs = <<u.legs[1], l>> /\ Two(u.legs) /\ l = u.legs[2] /\ l.routed
  <2>1. \A c \in out.cookies : c.value = first.hop.task
    BY <1>2, <1>5, <1>7, <1>9 DEF HomeOK
  <2>2. u.legs = <<first, l>>
    BY <1>7, <1>9
  <2>3. Front(u.legs) = <<first>>
    BY <2>2, MadeTwo
  <2>4. legs = <<first, leg>>
    BY <2>3, OfOne
  <2>5. v.at = "upstream" /\ v.legs = <<first, leg>> /\ v.up.cookies = out.cookies
    BY <1>2, <1>9, <2>4 DEF IsTab
  <2>. HIDE DEF v
  <2>6. v.legs[1] = first
    BY <2>5, MadeTwo
  <2>7. HomeOK(v)
    BY <1>6, <2>1, <2>5, <2>6 DEF HomeOK
  <2>. QED
    BY <1>1, <2>7, HomeStep
<1>. QED
  BY <1>2, <1>8, <1>9, AskedLeg

LEMMA ByRouteHome ==
  ASSUME Inv, HomeInv, NEW b \in Tabs, ByRoute(b)
  PROVE  HomeInv'
<1>. DEFINE h == RouteHop(TaskAt(Asked(b).path), Longest(Routed(b)))
<1>1. Open(b) /\ Routed(b) # {} /\ ~Asked(b).routed /\ Dispatch(b, h)
  BY DEF ByRoute
<1>2. Site(b) # EmptySite
  BY <1>1, Asking DEF Open, Routed
<1>3. h.task = TaskAt(Asked(b).path)
  BY DEF RouteHop
<1>. HIDE DEF h
<1>. QED
  BY <1>1, <1>2, <1>3, DispatchHome

LEMMA ByTaskHome ==
  ASSUME Inv, HomeInv, NEW b \in Tabs, ByTask(b)
  PROVE  HomeInv'
<1>. DEFINE t == TaskAt(Asked(b).path)
<1>1. Open(b) /\ Site(b).up /\ Dispatch(b, TaskHop(t))
  BY DEF ByTask
<1>2. Site(b) # EmptySite /\ t \in Tasks
  BY <1>1, Asking DEF Open
<1>3. TaskHop(t).task = t /\ TaskHop(t).host # Boreas
  BY <1>2, ProxyAssumption DEF TaskHop, Hosts
<1>. QED
  BY <1>1, <1>2, <1>3, DispatchHome

LEMMA AnswersHome ==
  ASSUME Inv, HomeInv, NEW b \in Tabs, tab[b].at = "upstream", NEW a,
         \A c \in a.cookies : c.value = tab[b].legs[1].hop.task,
         NEW expects, Answers(b, a, expects)
  PROVE  HomeInv'
<1>. DEFINE u == tab[b]
            v == [u EXCEPT !.at = "back", !.answer = a, !.up = NoTarget, !.expects = expects]
<1>1. IsTab(u) /\ TabOK(u, entered)
  BY DEF Inv, TabsInv, TabOK
<1>2. u.legs[1].hop # NoHop
  BY <1>1, ProxyAssumption DEF TabOK, Away, Gone, Resting, SentFirst, SentAgain, BackFirst, BackAgain, NoHop, Hosts
<1>3. v.at = "back" /\ v.answer = a /\ v.legs = u.legs
  BY <1>1 DEF IsTab
<1>4. tab' = [tab EXCEPT ![b] = v] /\ jar' = jar
  BY DEF Answers, Inv, TabsInv
<1>. HIDE DEF v
<1>5. HomeOK(v)
  BY <1>2, <1>3 DEF HomeOK
<1>. QED
  BY <1>4, <1>5, HomeStep

LEMMA AppHome ==
  ASSUME Inv, HomeInv, NEW b \in Tabs, AppNext(b)
  PROVE  HomeInv'
<1>1. tab[b].at = "upstream"
  BY DEF AppNext, Shows, SetsCookie, Redirects, Pages
<1>2. CASE Shows(b)
  BY <1>1, <1>2, Fresh, AnswersHome DEF Shows
<1>3. CASE SetsCookie(b)
  <2>. DEFINE c == [name |-> "app", at |-> <<>>, value |-> tab[b].legs[1].hop.task, fresh |-> TRUE]
              a == [Answer("plain") EXCEPT !.cookies = {c}]
  <2>1. a.cookies = {c} /\ c.value = tab[b].legs[1].hop.task
    BY DEF Answer
  <2>2. Answers(b, a, NoTarget)
    BY <1>3 DEF SetsCookie
  <2>. HIDE DEF a, c
  <2>. QED
    BY <1>1, <2>1, <2>2, AnswersHome
<1>4. ASSUME NEW rest \in Rests, Redirects(b, rest)
      PROVE  HomeInv'
  <2>1. PICK host, path, expects :
          Answers(b, [Answer("redirect") EXCEPT !.host = host, !.path = path], expects)
    BY <1>4, Zenon DEF Redirects
  <2>. DEFINE a == [Answer("redirect") EXCEPT !.host = host, !.path = path]
  <2>2. a.cookies = {}
    BY DEF Answer
  <2>. HIDE DEF a
  <2>3. Answers(b, a, expects)
    BY <2>1 DEF a
  <2>. QED
    BY <1>1, <2>2, <2>3, AnswersHome
<1>5. ASSUME NEW rest \in Rests, Pages(b, rest)
      PROVE  HomeInv'
  <2>1. PICK path, expects : Answers(b, [Answer("page") EXCEPT !.path = path], expects)
    BY <1>5, Zenon DEF Pages
  <2>. DEFINE a == [Answer("page") EXCEPT !.path = path]
  <2>2. a.cookies = {}
    BY DEF Answer
  <2>. HIDE DEF a
  <2>3. Answers(b, a, expects)
    BY <2>1 DEF a
  <2>. QED
    BY <1>1, <2>2, <2>3, AnswersHome
<1>. QED
  BY <1>2, <1>3, <1>4, <1>5 DEF AppNext

\* A hop hands the cookies on under its task's path, with the values they had.
LEMMA HandedFrom ==
  ASSUME NEW a, IsAnswer(a), NEW h, h # NoHop, NEW d \in ModifyResponse(h, a).cookies
  PROVE  \E c \in a.cookies : d = [c EXCEPT !.at = <<Project, h.task>>]
<1>1. PICK r : IsAnswer(r) /\ r.cookies = a.cookies /\ ModifyResponse(h, a) = RewriteCookies(h, r)
  <2>1. IsAnswer(RewriteLocation(h, a)) /\ RewriteLocation(h, a).cookies = a.cookies
    BY LocationOK
  <2>2. IsAnswer(RewriteBase(h, a)) /\ RewriteBase(h, a).cookies = a.cookies
    BY BaseOK
  <2>. QED
    BY <2>1, <2>2, Zenon DEF ModifyResponse
<1>. DEFINE moved == {[c EXCEPT !.at = <<Project, h.task>>] : c \in a.cookies}
<1>2. RewriteCookies(h, r) = [r EXCEPT !.cookies = moved]
  BY <1>1 DEF RewriteCookies
<1>. HIDE DEF moved
<1>3. RewriteCookies(h, r).cookies = moved
  BY <1>1, <1>2 DEF IsAnswer
<1>4. d \in moved
  BY <1>1, <1>3
<1>. QED
  BY <1>4 DEF moved

LEMMA HandedHome ==
  ASSUME Inv, HomeInv, NEW b \in Tabs, tab[b].at = "back", NEW d \in Handed(b).cookies, ~IsLock(d)
  PROVE  LET first == tab[b].legs[1]
             last == Last(tab[b].legs)
         IN /\ first.hop # NoHop /\ d.value = first.hop.task
            /\ last.hop # NoHop => d.at = <<Project, last.hop.task>>
<1>. DEFINE u == tab[b]
            h == Last(u.legs).hop
<1>1. /\ AnswerOK(u.answer, entered) /\ HomeOK(u) /\ Ended(Last(u.legs))
      /\ Handed(b) = ModifyResponse(h, u.answer)
  BY Returning DEF Inv, TabsInv, TabOK, HomeInv, Handed
<1>2. ASSUME NEW c \in u.answer.cookies, ~IsLock(c)
      PROVE  u.legs[1].hop # NoHop /\ c.value = u.legs[1].hop.task
  BY <1>1, <1>2 DEF HomeOK
<1>3. CASE h = NoHop
  <2>1. d \in u.answer.cookies
    BY <1>1, <1>3 DEF ModifyResponse
  <2>. QED
    BY <1>2, <1>3, <2>1
<1>4. CASE h # NoHop
  <2>1. IsAnswer(u.answer) /\ h.task \in Tasks
    BY <1>1, <1>4 DEF AnswerOK, Ended
  <2>2. PICK c \in u.answer.cookies : d = [c EXCEPT !.at = <<Project, h.task>>]
    BY <1>1, <1>4, <2>1, HandedFrom
  <2>3. c \in Cookies
    BY <1>1 DEF AnswerOK
  <2>4. d.name = c.name /\ d.value = c.value
    BY <2>1, <2>2, <2>3, CookieMoved
  <2>5. d.at = <<Project, h.task>>
    BY <2>2, <2>3 DEF Cookies
  <2>. QED
    BY <1>2, <2>4, <2>5 DEF IsLock
<1>. QED
  BY <1>3, <1>4

LEMMA PassHome ==
  ASSUME Inv, HomeInv, NEW b \in Tabs, Pass(b)
  PROVE  HomeInv'
<1>. DEFINE u == tab[b]
            v == [u EXCEPT !.answer = Handed(b), !.legs = Front(@)]
<1>1. u.at = "back" /\ Len(u.legs) > 1 /\ tab' = [tab EXCEPT ![b] = v] /\ jar' = jar
  BY DEF Pass, Inv, TabsInv
<1>2. IsTab(u) /\ (One(u.legs) \/ Two(u.legs))
  BY <1>1, Returning DEF BackFirst, BackAgain
<1>3. ~One(u.legs)
  <2>1. SUFFICES ASSUME One(u.legs)
                 PROVE  FALSE
    OBVIOUS
  <2>2. PICK l : u.legs = <<l>>
    BY <2>1 DEF One
  <2>. QED
    BY <1>1, <2>2, MadeOne
<1>4. PICK k, l : k = u.legs[1] /\ u.legs = <<k, l>>
  BY <1>2, <1>3 DEF Two
<1>5. Front(u.legs) = <<k>>
  BY <1>4, MadeTwo
<1>6. v.at = "back" /\ v.answer = Handed(b) /\ v.legs = <<k>>
  BY <1>1, <1>2, <1>5 DEF IsTab
<1>. HIDE DEF v
<1>7. v.legs[1] = k
  BY <1>6, MadeOne
<1>8. \A c \in Handed(b).cookies : ~IsLock(c) => k.hop # NoHop /\ c.value = k.hop.task
  BY <1>1, <1>4, HandedHome
<1>9. HomeOK(v)
  BY <1>6, <1>7, <1>8 DEF HomeOK
<1>. QED
  BY <1>1, <1>9, HomeStep

LEMMA DeliverHome ==
  ASSUME Inv, HomeInv, NEW b \in Tabs, Deliver(b)
  PROVE  HomeInv'
<1>. DEFINE u == tab[b]
<1>1. u.at = "back" /\ Len(u.legs) = 1 /\ jar' = Stored(Handed(b).cookies)
  BY DEF Deliver
<1>2. PICK l : l = u.legs[1] /\ u.legs = <<l>>
  <2>1. CASE One(u.legs)
    BY <2>1 DEF One
  <2>2. CASE Two(u.legs)
    <3>1. PICK j, k : u.legs = <<j, k>>
      BY <2>2 DEF Two
    <3>. QED
      BY <1>1, <3>1, MadeTwo
  <2>. QED
    BY <1>1, <2>1, <2>2, Returning DEF BackFirst, BackAgain
<1>3. Last(u.legs) = l
  BY <1>2, MadeOne
<1>4. \A d \in Handed(b).cookies : ~IsLock(d) => d.at = <<Project, d.value>>
  BY <1>1, <1>2, <1>3, HandedHome
<1>5. JarHome'
  BY <1>1, <1>4 DEF Stored, HomeInv, JarHome
<1>6. PICK v : tab' = [tab EXCEPT ![b] = v] /\ v.at \in {"idle", "link"}
  <2>. DEFINE a == Handed(b)
              link == <<Leg(Link(a), {}, a.keep /\ u.legs[1].typed, FALSE)>>
              w == IF Linked(a) THEN [IdleTab EXCEPT !.at = "link", !.expects = u.expects, !.legs = link]
                   ELSE IdleTab
  <2>1. tab' = [tab EXCEPT ![b] = w]
    BY Zenon DEF Deliver
  <2>. HIDE DEF a, link
  <2>2. w.at \in {"idle", "link"}
    BY DEF IdleTab
  <2>. QED
    BY <2>1, <2>2
<1>7. \A e \in Tabs : tab'[e] = IF e = b THEN v ELSE tab[e]
  BY <1>6 DEF Inv, TabsInv
<1>8. HomeOK(v)
  BY <1>6 DEF HomeOK
<1>. QED
  BY <1>5, <1>7, <1>8 DEF HomeInv

LEMMA DayHome ==
  ASSUME Inv, HomeInv, DayPasses
  PROVE  HomeInv'
<1>1. tab' = tab /\ jar' = {[c EXCEPT !.fresh = @ /\ c.name # "boreas_lock"] : c \in jar}
  BY DEF DayPasses
<1>2. ASSUME NEW d \in jar', ~IsLock(d)
      PROVE  d.at = <<Project, d.value>>
  <2>1. PICK c \in jar : d = [c EXCEPT !.fresh = @ /\ c.name # "boreas_lock"]
    BY <1>1
  <2>2. d.name = c.name /\ d.at = c.at /\ d.value = c.value
    BY <2>1 DEF Inv, JarInv, Cookies
  <2>. QED
    BY <1>2, <2>2 DEF IsLock, HomeInv, JarHome
<1>. QED
  BY <1>1, <1>2 DEF HomeInv, JarHome

\* A tab's request, its answer and its cookies are its own, whatever is registered.
LEMMA ChangeHome ==
  ASSUME Inv, HomeInv, NEW t \in Tasks, RegistryNext(t)
  PROVE  HomeInv'
<1>1. jar' = jar /\ tab' = [b \in Tabs |-> [tab[b] EXCEPT !.expects = NoTarget]]
  BY DEF RegistryNext, Register, Unregister, SetRoutes, SetLock, Change
<1>2. ASSUME NEW b \in Tabs
      PROVE  HomeOK(tab'[b])
  <2>. DEFINE v == [tab[b] EXCEPT !.expects = NoTarget]
  <2>1. IsTab(tab[b]) /\ HomeOK(tab[b])
    BY DEF Inv, TabsInv, TabOK, HomeInv
  <2>2. v.at = tab[b].at /\ v.legs = tab[b].legs /\ v.answer = tab[b].answer /\ v.up = tab[b].up
    BY <2>1 DEF IsTab
  <2>. HIDE DEF v
  <2>3. HomeOK(v)
    BY <2>1, <2>2 DEF HomeOK
  <2>. QED
    BY <1>1, <2>3 DEF v
<1>. QED
  BY <1>1, <1>2 DEF HomeInv, JarHome

LEMMA InitHome == Init => HomeInv
<1>. SUFFICES ASSUME Init
              PROVE  HomeInv
  OBVIOUS
<1>1. HomeOK(IdleTab)
  BY DEF IdleTab, HomeOK
<1>. QED
  BY <1>1 DEF Init, HomeInv, JarHome

LEMMA NextHome == Inv /\ HomeInv /\ [Next]_vars => HomeInv'
<1>. SUFFICES ASSUME Inv, HomeInv, [Next]_vars
              PROVE  HomeInv'
  OBVIOUS
<1>1. ASSUME NEW b \in Tabs, Browse(b)
      PROVE  HomeInv'
  <2>1. PICK path, typed, expects : Request(b, path, typed, expects)
    BY <1>1 DEF Browse, Visit, Follow
  <2>. QED
    BY <2>1, RequestHome
<1>2. ASSUME NEW b \in Tabs, ServeHTTP(b)
      PROVE  HomeInv'
  BY <1>2, SaysHome, AskPasswordHome, ByRouteHome, ByTaskHome, PassHome, DeliverHome DEF ServeHTTP
<1>3. CASE UNCHANGED vars
  BY <1>3 DEF vars, HomeInv, JarHome
<1>. QED
  BY <1>1, <1>2, <1>3, AppHome, ChangeHome, DayHome DEF Next

\* What is behind a task's URL sees the cookies that were set under this URL and no
\* lock's (rewriteCookies, dropLockCookie), whichever hops they came and went by.
THEOREM CookiesHome == Spec => []CookiesStayHome
<1>1. HomeInv => CookiesStayHome
  BY DEF HomeInv, HomeOK, CookiesStayHome
<1>. QED
  BY <1>1, InitHome, NextHome, InitInv, NextInv, PTL DEF Spec

(***************************************************************************)
(* Paths.                                                                  *)
(***************************************************************************)
LEMMA UnderElements ==
  ASSUME NEW S, NEW p \in Seq(S), NEW s \in Seq(S)
  PROVE  Under(p, s) <=> Len(s) <= Len(p) /\ \A i \in 1..Len(s) : p[i] = s[i]
<1>. DEFINE n == Len(s)
<1>1. n \in Nat /\ Len(p) \in Nat /\ \A i \in 1..n : s[i] \in S
  OBVIOUS
<1>2. SubSeq(s, 1, n) = s
  BY SubSeqFull
<1>3. ASSUME n <= Len(p)
      PROVE  /\ SubSeq(p, 1, n) \in Seq(S) /\ Len(SubSeq(p, 1, n)) = n
             /\ \A i \in 1..n : SubSeq(p, 1, n)[i] = p[i]
  <2>1. \A i \in 1..n : p[i] \in S
    BY <1>1, <1>3
  <2>2. /\ SubSeq(p, 1, n) \in Seq(S)
        /\ Len(SubSeq(p, 1, n)) = IF 1 <= n THEN n - 1 + 1 ELSE 0
        /\ \A i \in 1..(n - 1 + 1) : SubSeq(p, 1, n)[i] = p[1 + i - 1]
    BY <1>1, <2>1, SubSeqProperties
  <2>. QED
    BY <1>1, <2>2
<1>4. CASE n <= Len(p) /\ \A i \in 1..n : p[i] = s[i]
  <2>1. SubSeq(p, 1, n) = s
    BY <1>3, <1>4, SeqEqual
  <2>. QED
    BY <1>2, <1>4, <2>1 DEF Under, IsPrefix
<1>5. CASE Under(p, s)
  BY <1>2, <1>3, <1>5 DEF Under, IsPrefix
<1>. QED
  BY <1>4, <1>5

\* A path below a prefix is the prefix and what comes after it.
LEMMA CutPath ==
  ASSUME NEW S, NEW p \in Seq(S), NEW s \in Seq(S), Under(p, s)
  PROVE  After(p, s) \in Seq(S) /\ p = s \o After(p, s)
<1>. DEFINE m == Len(s)
            n == Len(p)
            z == After(p, s)
<1>1. m \in Nat /\ n \in Nat /\ m <= n /\ \A i \in 1..m : p[i] = s[i]
  BY UnderElements
<1>2. \A i \in (m + 1)..n : p[i] \in S
  BY <1>1
<1>3. /\ z \in Seq(S) /\ Len(z) = IF m + 1 <= n THEN n - (m + 1) + 1 ELSE 0
      /\ \A i \in 1..(n - (m + 1) + 1) : z[i] = p[(m + 1) + i - 1]
  BY <1>1, <1>2, SubSeqProperties DEF After
<1>. HIDE DEF z
<1>4. Len(z) = n - m /\ \A i \in 1..(n - m) : z[i] = p[m + i]
  BY <1>1, <1>3
<1>5. /\ s \o z \in Seq(S) /\ Len(s \o z) = m + Len(z)
      /\ \A i \in 1..(m + Len(z)) : (s \o z)[i] = IF i <= m THEN s[i] ELSE z[i - m]
  BY <1>3, ConcatProperties
<1>6. Len(s \o z) = n
  BY <1>1, <1>4, <1>5
<1>7. ASSUME NEW i \in 1..n
      PROVE  p[i] = (s \o z)[i]
  <2>1. CASE i <= m
    BY <1>1, <1>4, <1>5, <2>1
  <2>2. CASE ~(i <= m)
    <3>1. i - m \in 1..(n - m) /\ m + (i - m) = i
      BY <1>1, <2>2
    <3>2. z[i - m] = p[i]
      BY <1>4, <3>1
    <3>3. (s \o z)[i] = z[i - m]
      BY <1>1, <1>4, <1>5, <2>2
    <3>. QED
      BY <3>2, <3>3
  <2>. QED
    BY <1>1, <2>1, <2>2
<1>8. p = s \o z
  BY <1>5, <1>6, <1>7, SeqEqual
<1>. QED
  BY <1>3, <1>8 DEF z

LEMMA JoinedPath ==
  ASSUME NEW S, NEW s \in Seq(S), NEW z \in Seq(S)
  PROVE  s \o z \in Seq(S) /\ Under(s \o z, s) /\ After(s \o z, s) = z
<1>1. /\ s \o z \in Seq(S) /\ Len(s \o z) = Len(s) + Len(z)
      /\ \A i \in 1..(Len(s) + Len(z)) : (s \o z)[i] = IF i <= Len(s) THEN s[i] ELSE z[i - Len(s)]
  BY ConcatProperties
<1>2. Len(s) \in Nat /\ Len(z) \in Nat
  OBVIOUS
<1>3. Under(s \o z, s)
  <2>1. Len(s) <= Len(s \o z) /\ \A i \in 1..Len(s) : (s \o z)[i] = s[i]
    BY <1>1, <1>2
  <2>. QED
    BY <1>1, <2>1, UnderElements
<1>4. After(s \o z, s) \in Seq(S) /\ s \o z = s \o After(s \o z, s)
  BY <1>1, <1>3, CutPath
<1>5. After(s \o z, s) = z
  BY <1>4, ConcatSimplifications
<1>. QED
  BY <1>1, <1>3, <1>5

\* Of two prefixes of a path the longer is below the shorter.
LEMMA PrefixesNest ==
  ASSUME NEW S, NEW p \in Seq(S), NEW s \in Seq(S), NEW r \in Seq(S), Under(p, s), Under(p, r)
  PROVE  /\ Len(s) <= Len(r) => Under(r, s)
         /\ Len(s) = Len(r) => s = r
         /\ Len(s) < Len(r) => IsStrictPrefix(s, r)
<1>1. /\ Len(s) \in Nat /\ Len(r) \in Nat /\ Len(p) \in Nat /\ Len(s) <= Len(p) /\ Len(r) <= Len(p)
      /\ \A i \in 1..Len(s) : p[i] = s[i]
      /\ \A i \in 1..Len(r) : p[i] = r[i]
  BY UnderElements
<1>2. Len(s) <= Len(r) => Under(r, s)
  BY <1>1, UnderElements
<1>3. Len(s) = Len(r) => s = r
  <2>1. Len(s) = Len(r) => \A i \in 1..Len(s) : s[i] = r[i]
    BY <1>1
  <2>. QED
    BY <2>1, SeqEqual
<1>. QED
  BY <1>1, <1>2, <1>3 DEF IsStrictPrefix, Under

LEMMA UnderJoined ==
  ASSUME NEW S, NEW c \in Seq(S), NEW z \in Seq(S), NEW r \in Seq(S)
  PROVE  Under(c \o z, c \o r) <=> Under(z, r)
<1>. DEFINE m == Len(c)
            p == c \o z
            s == c \o r
<1>1. m \in Nat /\ Len(z) \in Nat /\ Len(r) \in Nat
  OBVIOUS
<1>2. p \in Seq(S) /\ s \in Seq(S) /\ Len(p) = m + Len(z) /\ Len(s) = m + Len(r)
  BY ConcatProperties
<1>3. /\ \A i \in 1..(m + Len(z)) : p[i] = IF i <= m THEN c[i] ELSE z[i - m]
      /\ \A i \in 1..(m + Len(r)) : s[i] = IF i <= m THEN c[i] ELSE r[i - m]
  BY ConcatProperties
<1>. HIDE DEF p, s
<1>4. Under(p, s) <=> Len(s) <= Len(p) /\ \A i \in 1..Len(s) : p[i] = s[i]
  BY <1>2, UnderElements
<1>5. Under(z, r) <=> Len(r) <= Len(z) /\ \A i \in 1..Len(r) : z[i] = r[i]
  BY UnderElements
<1>6. ASSUME Under(z, r)
      PROVE  Under(p, s)
  <2>1. ASSUME NEW i \in 1..(m + Len(r))
        PROVE  p[i] = s[i]
    <3>1. i \in 1..(m + Len(z))
      BY <1>1, <1>5, <1>6
    <3>2. CASE i <= m
      BY <1>3, <3>1, <3>2
    <3>3. CASE ~(i <= m)
      <4>1. i - m \in 1..Len(r)
        BY <1>1, <3>3
      <4>2. z[i - m] = r[i - m]
        BY <1>5, <1>6, <4>1
      <4>. QED
        BY <1>3, <3>1, <3>3, <4>2
    <3>. QED
      BY <3>2, <3>3
  <2>2. Len(s) <= Len(p)
    BY <1>1, <1>2, <1>5, <1>6
  <2>. QED
    BY <1>2, <1>4, <2>1, <2>2
<1>7. ASSUME Under(p, s)
      PROVE  Under(z, r)
  <2>1. ASSUME NEW j \in 1..Len(r)
        PROVE  z[j] = r[j]
    <3>1. /\ m + j \in 1..(m + Len(r)) /\ m + j \in 1..(m + Len(z))
          /\ ~(m + j <= m) /\ (m + j) - m = j
      BY <1>1, <1>2, <1>4, <1>7
    <3>2. p[m + j] = s[m + j]
      BY <1>2, <1>4, <1>7, <3>1
    <3>3. p[m + j] = z[(m + j) - m] /\ s[m + j] = r[(m + j) - m]
      BY <1>3, <3>1
    <3>. QED
      BY <3>1, <3>2, <3>3
  <2>2. Len(r) <= Len(z)
    BY <1>1, <1>2, <1>4, <1>7
  <2>. QED
    BY <1>5, <2>1, <2>2
<1>. QED
  BY <1>6, <1>7 DEF p, s

\* An element at the end takes a path below no prefix that does not end in it.
LEMMA UnderLonger ==
  ASSUME NEW S, NEW e \in S, NEW p \in Seq(S), NEW c \in Seq(S), NEW r \in Seq(S),
         r # <<>>, \A i \in 1..Len(r) : r[i] # e
  PROVE  Under(p \o <<e>>, c \o r) <=> Under(p, c \o r)
<1>. DEFINE s == c \o r
            q == p \o <<e>>
<1>1. Len(p) \in Nat /\ Len(c) \in Nat /\ Len(r) \in Nat \ {0}
  BY EmptySeq
<1>2. s \in Seq(S) /\ Len(s) = Len(c) + Len(r) /\ s[Len(s)] = r[Len(r)]
  <2>1. /\ s \in Seq(S) /\ Len(s) = Len(c) + Len(r)
        /\ \A i \in 1..(Len(c) + Len(r)) : s[i] = IF i <= Len(c) THEN c[i] ELSE r[i - Len(c)]
    BY ConcatProperties
  <2>. HIDE DEF s
  <2>2. Len(s) \in 1..(Len(c) + Len(r)) /\ ~(Len(s) <= Len(c)) /\ Len(s) - Len(c) = Len(r)
    BY <1>1, <2>1
  <2>. QED
    BY <2>1, <2>2
<1>3. <<e>> \in Seq(S) /\ Len(<<e>>) = 1 /\ <<e>>[1] = e
  OBVIOUS
<1>4. /\ q \in Seq(S) /\ Len(q) = Len(p) + 1 /\ q[Len(p) + 1] = e
      /\ \A i \in 1..Len(p) : q[i] = p[i]
  <2>1. /\ q \in Seq(S) /\ Len(q) = Len(p) + 1
        /\ \A i \in 1..(Len(p) + 1) : q[i] = IF i <= Len(p) THEN p[i] ELSE <<e>>[i - Len(p)]
    BY <1>3, ConcatProperties
  <2>. HIDE DEF q
  <2>2. /\ Len(p) + 1 \in 1..(Len(p) + 1) /\ ~(Len(p) + 1 <= Len(p)) /\ (Len(p) + 1) - Len(p) = 1
        /\ \A i \in 1..Len(p) : i \in 1..(Len(p) + 1) /\ i <= Len(p)
    BY <1>1
  <2>. QED
    BY <1>3, <2>1, <2>2
<1>. HIDE DEF s, q
<1>5. /\ Under(q, s) <=> Len(s) <= Len(q) /\ \A i \in 1..Len(s) : q[i] = s[i]
      /\ Under(p, s) <=> Len(s) <= Len(p) /\ \A i \in 1..Len(s) : p[i] = s[i]
  <2>1. q \in Seq(S) /\ s \in Seq(S)
    BY <1>2, <1>4
  <2>. QED
    BY <2>1, UnderElements
<1>6. ASSUME Under(q, s)
      PROVE  Len(s) <= Len(p)
  <2>1. r[Len(r)] # e
    BY <1>1
  <2>2. Len(s) # Len(p) + 1
    BY <1>1, <1>2, <1>4, <1>5, <1>6, <2>1
  <2>. QED
    BY <1>1, <1>2, <1>4, <1>5, <1>6, <2>2
<1>7. ASSUME Len(s) <= Len(p)
      PROVE  \A i \in 1..Len(s) : q[i] = p[i]
  BY <1>1, <1>2, <1>4, <1>7
<1>8. Under(q, s) => Under(p, s)
  BY <1>5, <1>6, <1>7
<1>9. ASSUME Under(p, s)
      PROVE  Under(q, s)
  <2>1. Len(s) <= Len(p) /\ \A i \in 1..Len(s) : p[i] = s[i]
    BY <1>5, <1>9
  <2>2. Len(s) <= Len(q)
    BY <1>1, <1>2, <1>4, <2>1
  <2>. QED
    BY <1>5, <1>7, <2>1, <2>2
<1>. QED
  BY <1>8, <1>9 DEF s, q

(***************************************************************************)
(* Links.  While a tab's link is expected to reach an app, the registry is *)
(* as it was when the app gave it; so where the link's path leads can be   *)
(* read off the sites, and every way through Boreas keeps to it.           *)
(***************************************************************************)
Slash == ""
Asset == "asset"
Segments == STRING \cup {Slash, Asset, Project} \cup DOMAIN Means

SitesOK(s) == \A t \in Tasks : s[t].routes \in RoutesOf[t]

\* An address under a task, spelled as it is registered.
Own(path) == path \in Seq(Segments) /\ Addressed(path) /\ path[2] = TaskAt(path)

RoutesFor(s, path) == {r \in s[TaskAt(path)].routes : Under(path, Public(RouteHop(TaskAt(path), r)))}

FirstHop(s, path) == RouteHop(TaskAt(path), Longest(RoutesFor(s, path)))

\* Where a hop sends a path on to.
Onward(h, path) == Rooted(h.base \o After(path, Public(h)))

\* The path is the container's and reaches it as x.
Reaches(s, path, x) ==
  /\ Own(path) /\ RoutesFor(s, path) = {} /\ s[TaskAt(path)].up
  /\ x = [host |-> TaskAt(path), path |-> Onward(TaskHop(TaskAt(path)), path)]

\* The path is a route's and reaches x, perhaps through Boreas.
Routes(s, path, x) ==
  /\ Own(path) /\ RoutesFor(s, path) # {}
  /\ LET h == FirstHop(s, path)
         on == Onward(h, path)
     IN IF h.host = Boreas THEN Reaches(s, on, x) ELSE x = [host |-> h.host, path |-> on]

Leads(s, path, x) == Reaches(s, path, x) \/ Routes(s, path, x)

\* No longer route of the task takes what goes on with z.
Clear(s, t, path, z) == \A q \in s[t].routes : ~(IsStrictPrefix(path, q.path) /\ Under(path \o z, q.path))

\* A first leg that goes on through Boreas, and one that ends at a container.
Through(h) == h.host = Boreas /\ h.path # <<>>
OfTask(h) == h = TaskHop(h.task)

\* The second leg is where the first, for a link to x, leads on.
Conveys(s, v, x) ==
  LET path == v.legs[1].path
  IN /\ Routes(s, path, x) /\ v.legs[1].hop = FirstHop(s, path)
     /\ v.legs[2].path = Onward(FirstHop(s, path), path)

\* What the browser will get is a link to x, or nothing to follow.
Good(s, a, x) ==
  /\ a.host = Here /\ a.kind \notin {"missed", "loop"}
  /\ a.kind \in {"redirect", "page"} => Leads(s, Link(a), x)

Returned(v) ==
  IF Two(v.legs) THEN ModifyResponse(v.legs[1].hop, ModifyResponse(v.legs[2].hop, v.answer))
  ELSE ModifyResponse(v.legs[1].hop, v.answer)

\* The hops a request went by, whatever is expected of it.
WayOK(v) ==
  /\ v.at = "sent" /\ One(v.legs) => ~v.legs[1].routed
  /\ v.at = "sent" /\ Two(v.legs) => Through(v.legs[1].hop)
  /\ v.at = "upstream" /\ One(v.legs) =>
       v.legs[1].hop.host # Boreas /\ (v.legs[1].hop.path = <<>> => OfTask(v.legs[1].hop))
  /\ v.at = "upstream" /\ Two(v.legs) => Through(v.legs[1].hop) /\ OfTask(v.legs[2].hop)

AimOK(s, v) ==
  LET x == v.expects
  IN x # NoTarget =>
       /\ v.at = "link" => Leads(s, v.legs[1].path, x)
       /\ v.at = "sent" /\ One(v.legs) => Leads(s, v.legs[1].path, x)
       /\ v.at = "sent" /\ Two(v.legs) => Conveys(s, v, x)
       /\ v.at = "upstream" => v.up.host = x.host /\ v.up.path = x.path
       /\ v.at = "back" => Good(s, Returned(v), x)

LinkInv == \A b \in Tabs : WayOK(tab[b]) /\ AimOK(sites, tab[b])

\* An app's redirect, as Redirects writes it.
RedirectTo(host, path) == [Answer("redirect") EXCEPT !.host = host, !.path = path]

LEMMA Spelled ==
  /\ Slash \in Segments /\ Asset \in Segments /\ Project \in Segments
  /\ \A t \in Tasks : t \in Segments /\ t \in DOMAIN Means /\ Means[t] = t
  /\ \A p \in Seq(STRING) : p \in Seq(Segments)
<1>1. STRING \subseteq Segments
  BY DEF Segments
<1>2. ASSUME NEW p \in Seq(STRING)
      PROVE  p \in Seq(Segments)
  BY <1>1, SeqMonotonic
<1>3. \A t \in Tasks : t \in Segments /\ t \in DOMAIN Means /\ Means[t] = t
  BY ProxyAssumption DEF Segments
<1>4. Slash \in Segments /\ Asset \in Segments /\ Project \in Segments
  BY DEF Segments
<1>. QED
  BY <1>2, <1>3, <1>4

LEMMA RootedPath ==
  ASSUME NEW p \in Seq(Segments)
  PROVE  /\ Rooted(p) \in Seq(Segments)
         /\ p # <<>> => Rooted(p) = p
         /\ p = <<>> => Rooted(p) = <<Slash>>
<1>1. Rooted(p) = IF p = <<>> THEN <<Slash>> ELSE p
  BY DEF Rooted, Slash
<1>2. <<Slash>> \in Seq(Segments)
  BY Spelled
<1>. QED
  BY <1>1, <1>2

\* What CleanRoutes leaves of a route.
LEMMA RouteFacts ==
  ASSUME NEW t \in Tasks, NEW routes \in RoutesOf[t], NEW r \in routes
  PROVE  /\ r.path \in Seq(Segments) /\ r.path # <<>> /\ \A i \in 1..Len(r.path) : r.path[i] # Slash
         /\ r.base \in Seq(Segments) /\ AppRoot(RouteHop(t, r)) = r.base
         /\ \A q \in routes : q.path = r.path => q = r
<1>2. PICK offered \in Offered[t] :
        Acceptable(offered) /\ routes = {CleanRoute(o) : o \in offered}
  BY DEF RoutesOf
<1>3. PICK o \in offered : r = CleanRoute(o)
  BY <1>2
<1>. DEFINE clean == CleanPath(o.path)
<1>4. r.path = clean
  BY <1>3 DEF CleanRoute
<1>5. Slash \notin Range(clean)
  BY <1>2, Zenon DEF Acceptable, Slash
<1>6. r.path \in Seq(STRING) /\ r.path # <<>> /\ r.base \in Seq(STRING) /\ AppRoot(RouteHop(t, r)) = r.base
  BY RoutesAssumption, PathsAssumption
<1>. HIDE DEF clean
<1>7. \A i \in 1..Len(r.path) : r.path[i] # Slash
  <2>1. DOMAIN r.path = 1..Len(r.path)
    BY <1>6
  <2>. QED
    BY <1>4, <1>5, <2>1 DEF Range
<1>8. ASSUME NEW q \in routes, q.path = r.path
      PROVE  q = r
  <2>1. PICK n \in offered : q = CleanRoute(n)
    BY <1>2
  <2>2. q.path = CleanPath(n.path) /\ r.path = CleanPath(o.path)
    BY <1>3, <2>1 DEF CleanRoute
  <2>3. n = o
    BY <1>2, <1>8, <2>2, Zenon DEF Acceptable
  <2>. QED
    BY <1>3, <2>1, <2>3
<1>. QED
  BY <1>6, <1>7, <1>8, Spelled

LEMMA HopFields ==
  ASSUME NEW t \in Tasks, NEW r
  PROVE  /\ Public(RouteHop(t, r)) = <<Project, t>> \o r.path
         /\ RouteHop(t, r).task = t /\ RouteHop(t, r).path = r.path
         /\ RouteHop(t, r).host = r.host /\ RouteHop(t, r).base = r.base
         /\ Public(TaskHop(t)) = <<Project, t>>
         /\ TaskHop(t).task = t /\ TaskHop(t).path = <<>> /\ TaskHop(t).host = t /\ TaskHop(t).base = <<>>
<1>1. <<Project, t>> \in Seq(Segments)
  BY Spelled
<1>2. <<Project, t>> \o <<>> = <<Project, t>>
  BY <1>1, ConcatEmptySeq
<1>. QED
  BY <1>2 DEF Public, RouteHop, TaskHop

\* Paths below a task are the task's prefix and a rest.
LEMMA BelowTask ==
  ASSUME NEW t \in Tasks, NEW z \in Seq(Segments)
  PROVE  LET p == <<Project, t>> \o z
         IN /\ Own(p) /\ TaskAt(p) = t /\ Len(p) = 2 + Len(z)
            /\ Under(p, <<Project, t>>) /\ After(p, <<Project, t>>) = z
<1>. DEFINE c == <<Project, t>>
            p == c \o z
<1>1. c \in Seq(Segments) /\ Len(c) = 2 /\ c[1] = Project /\ c[2] = t
  BY Spelled
<1>2. Len(z) \in Nat
  OBVIOUS
<1>3. /\ p \in Seq(Segments) /\ Len(p) = 2 + Len(z)
      /\ \A i \in 1..(2 + Len(z)) : p[i] = IF i <= 2 THEN c[i] ELSE z[i - 2]
  BY <1>1, ConcatProperties
<1>4. Under(p, c) /\ After(p, c) = z
  BY <1>1, JoinedPath
<1>. HIDE DEF p, c
<1>5. 1 \in 1..(2 + Len(z)) /\ 2 \in 1..(2 + Len(z)) /\ 1 <= 2 /\ 2 <= 2
  BY <1>2
<1>6. p[1] = Project /\ p[2] = t
  BY <1>1, <1>3, <1>5
<1>7. Addressed(p) /\ TaskAt(p) = t
  BY <1>2, <1>3, <1>6, Spelled DEF Addressed, TaskAt
<1>8. Own(p)
  BY <1>3, <1>6, <1>7 DEF Own
<1>. QED
  BY <1>3, <1>4, <1>7, <1>8 DEF p, c

LEMMA OwnIsBelow ==
  ASSUME NEW p, Own(p)
  PROVE  /\ TaskAt(p) \in Tasks
         /\ \E z \in Seq(Segments) : p = <<Project, TaskAt(p)>> \o z
<1>. DEFINE t == TaskAt(p)
            c == <<Project, t>>
<1>1. p \in Seq(Segments) /\ Len(p) >= 2 /\ p[1] = Project /\ p[2] = t /\ t \in Tasks
  BY ProxyAssumption DEF Own, Addressed, TaskAt
<1>2. c \in Seq(Segments) /\ Len(c) = 2 /\ c[1] = Project /\ c[2] = t
  BY <1>1, Spelled
<1>. HIDE DEF c, t
<1>3. Under(p, c)
  <2>1. \A i \in 1..2 : i = 1 \/ i = 2
    OBVIOUS
  <2>2. Len(c) <= Len(p) /\ \A i \in 1..Len(c) : p[i] = c[i]
    BY <1>1, <1>2, <2>1
  <2>. QED
    BY <1>1, <1>2, <2>2, UnderElements
<1>4. After(p, c) \in Seq(Segments) /\ p = c \o After(p, c)
  BY <1>1, <1>2, <1>3, CutPath
<1>. QED
  BY <1>1, <1>4 DEF c, t

LEMMA RoutesBelow ==
  ASSUME NEW s, SitesOK(s), NEW t \in Tasks, NEW z \in Seq(Segments)
  PROVE  RoutesFor(s, <<Project, t>> \o z) = {r \in s[t].routes : Under(z, r.path)}
<1>. DEFINE c == <<Project, t>>
            p == c \o z
<1>1. TaskAt(p) = t /\ c \in Seq(Segments)
  BY BelowTask, Spelled
<1>2. ASSUME NEW r \in s[t].routes
      PROVE  Under(p, Public(RouteHop(t, r))) <=> Under(z, r.path)
  <2>1. Public(RouteHop(t, r)) = c \o r.path
    BY HopFields
  <2>2. r.path \in Seq(Segments)
    BY RouteFacts DEF SitesOK
  <2>. HIDE DEF c
  <2>. QED
    BY <1>1, <2>1, <2>2, UnderJoined
<1>. HIDE DEF p
<1>3. RoutesFor(s, p) = {r \in s[t].routes : Under(p, Public(RouteHop(t, r)))}
  BY <1>1 DEF RoutesFor
<1>4. RoutesFor(s, p) = {r \in s[t].routes : Under(z, r.path)}
  BY <1>2, <1>3
<1>. QED
  BY <1>4 DEF p

LEMMA TaskReached ==
  ASSUME NEW s, SitesOK(s), NEW t \in Tasks, s[t].up, NEW z \in Seq(Segments),
         \A r \in s[t].routes : ~Under(z, r.path)
  PROVE  Reaches(s, <<Project, t>> \o z, [host |-> t, path |-> Rooted(z)])
<1>. DEFINE c == <<Project, t>>
            p == c \o z
<1>1. Own(p) /\ TaskAt(p) = t /\ After(p, c) = z
  BY BelowTask
<1>2. RoutesFor(s, p) = {}
  <2>1. RoutesFor(s, p) = {r \in s[t].routes : Under(z, r.path)}
    BY RoutesBelow
  <2>. QED
    BY <2>1
<1>3. Onward(TaskHop(t), p) = Rooted(z)
  <2>1. TaskHop(t).base = <<>> /\ Public(TaskHop(t)) = c
    BY HopFields
  <2>2. <<>> \o z = z
    BY ConcatEmptySeq
  <2>. QED
    BY <1>1, <2>1, <2>2 DEF Onward
<1>. HIDE DEF p
<1>. QED
  BY <1>1, <1>2, <1>3 DEF Reaches, p

\* Of the routes that match one path, the longest is one and no other as long.
LEMMA LongestRoute ==
  ASSUME NEW t \in Tasks, NEW routes \in RoutesOf[t], NEW some \in SUBSET routes, some # {}
  PROVE  Longest(some) \in some /\ \A q \in some : Len(q.path) <= Len(Longest(some).path)
<1>1. \E r \in some : \A q \in some : Len(q.path) <= Len(r.path)
  BY RoutesAssumption
<1>. QED
  BY <1>1 DEF Longest

LEMMA Regrouped ==
  ASSUME NEW p \in Seq(Segments), NEW q \in Seq(Segments), NEW z \in Seq(Segments)
  PROVE  (p \o q) \o z = p \o (q \o z)
BY ConcatAssociative

LEMMA RouteTaken ==
  ASSUME NEW s, SitesOK(s), NEW t \in Tasks, NEW r \in s[t].routes, NEW z \in Seq(Segments),
         Clear(s, t, r.path, z)
  PROVE  LET h == RouteHop(t, r)
             p == Public(h) \o z
         IN /\ Own(p) /\ RoutesFor(s, p) # {} /\ FirstHop(s, p) = h
            /\ Onward(h, p) = Rooted(r.base \o z)
<1>. DEFINE c == <<Project, t>>
            h == RouteHop(t, r)
            p == Public(h) \o z
            y == r.path \o z
<1>1. r.path \in Seq(Segments) /\ c \in Seq(Segments) /\ s[t].routes \in RoutesOf[t]
  BY RouteFacts, Spelled DEF SitesOK
<1>2. Public(h) = c \o r.path /\ h.base = r.base
  BY HopFields
<1>3. Public(h) \in Seq(Segments) /\ y \in Seq(Segments) /\ Under(y, r.path)
  BY <1>1, <1>2, JoinedPath
<1>4. p = c \o y
  <2>. HIDE DEF c
  <2>1. (c \o r.path) \o z = c \o (r.path \o z)
    BY <1>1, Regrouped
  <2>. QED
    BY <1>2, <2>1
<1>5. Own(p) /\ TaskAt(p) = t
  BY <1>3, <1>4, BelowTask
<1>6. RoutesFor(s, p) = {q \in s[t].routes : Under(y, q.path)}
  <2>. HIDE DEF p, y
  <2>1. RoutesFor(s, c \o y) = {q \in s[t].routes : Under(y, q.path)}
    BY <1>3, RoutesBelow
  <2>. QED
    BY <1>4, <2>1
<1>7. After(p, Public(h)) = z
  BY <1>3, JoinedPath
<1>. HIDE DEF p, y, h, c
<1>8. r \in RoutesFor(s, p)
  BY <1>3, <1>6
<1>. DEFINE long == Longest(RoutesFor(s, p))
<1>9. long \in RoutesFor(s, p) /\ Len(r.path) <= Len(long.path)
  BY <1>1, <1>6, <1>8, LongestRoute
<1>. HIDE DEF long
<1>10. long \in s[t].routes /\ Under(y, long.path) /\ long.path \in Seq(Segments)
  BY <1>1, <1>6, <1>9, RouteFacts
<1>11. ~IsStrictPrefix(r.path, long.path)
  BY <1>10 DEF Clear, y
<1>12. long.path = r.path
  BY <1>1, <1>3, <1>9, <1>10, <1>11, PrefixesNest, LenProperties
<1>13. long = r
  BY <1>1, <1>10, <1>12, RouteFacts
<1>14. FirstHop(s, p) = h
  BY <1>5, <1>13 DEF FirstHop, h, long
<1>15. Onward(h, p) = Rooted(r.base \o z)
  BY <1>2, <1>7 DEF Onward
<1>. QED
  BY <1>5, <1>8, <1>14, <1>15 DEF p, h

\* A path that no longer route takes goes on from where its route leads.
LEMMA RouteLeads ==
  ASSUME NEW s, SitesOK(s), NEW t \in Tasks, NEW r \in s[t].routes, NEW z \in Seq(Segments),
         Clear(s, t, r.path, z), NEW x,
         IF r.host = Boreas THEN Reaches(s, Rooted(r.base \o z), x)
         ELSE x = [host |-> r.host, path |-> Rooted(r.base \o z)]
  PROVE  Routes(s, Public(RouteHop(t, r)) \o z, x)
<1>. DEFINE h == RouteHop(t, r)
            p == Public(h) \o z
<1>1. h.host = r.host
  BY HopFields
<1>2. /\ Own(p) /\ RoutesFor(s, p) # {} /\ FirstHop(s, p) = h
      /\ Onward(h, p) = Rooted(r.base \o z)
  BY RouteTaken
<1>. HIDE DEF h, p
<1>3. Routes(s, p, x)
  BY <1>1, <1>2 DEF Routes
<1>. QED
  BY <1>3 DEF p, h

\* The route that takes a path, and what the path is by it.
TakenBy(s, p, t, r, z) ==
  /\ t = TaskAt(p) /\ FirstHop(s, p) = RouteHop(t, r) /\ p = Public(RouteHop(t, r)) \o z
  /\ Clear(s, t, r.path, z) /\ Onward(FirstHop(s, p), p) = Rooted(r.base \o z)

LEMMA RoutedParts ==
  ASSUME NEW s, SitesOK(s), NEW p, Own(p), RoutesFor(s, p) # {}
  PROVE  \E t \in Tasks, z \in Seq(Segments) : \E r \in s[t].routes : TakenBy(s, p, t, r, z)
<1>1. PICK t \in Tasks, y \in Seq(Segments) : t = TaskAt(p) /\ p = <<Project, t>> \o y
  BY OwnIsBelow
<1>. DEFINE c == <<Project, t>>
            r == Longest(RoutesFor(s, p))
            z == After(y, r.path)
            h == RouteHop(t, r)
<1>2. s[t].routes \in RoutesOf[t] /\ c \in Seq(Segments)
  BY Spelled DEF SitesOK
<1>3. RoutesFor(s, p) = {q \in s[t].routes : Under(y, q.path)}
  BY <1>1, RoutesBelow
<1>4. r \in RoutesFor(s, p) /\ \A q \in RoutesFor(s, p) : Len(q.path) <= Len(r.path)
  BY <1>2, <1>3, LongestRoute
<1>5. FirstHop(s, p) = h
  BY <1>1 DEF FirstHop
<1>. HIDE DEF r
<1>6. r \in s[t].routes /\ Under(y, r.path)
  BY <1>3, <1>4
<1>7. r.path \in Seq(Segments)
  BY <1>2, <1>6, RouteFacts
<1>8. z \in Seq(Segments) /\ y = r.path \o z
  BY <1>6, <1>7, CutPath
<1>9. Public(h) = c \o r.path /\ h.base = r.base
  BY HopFields
<1>. HIDE DEF z, h, c
<1>10. Public(h) \in Seq(Segments) /\ p = Public(h) \o z
  <2>1. (c \o r.path) \o z = c \o (r.path \o z)
    BY <1>2, <1>7, <1>8, Regrouped
  <2>2. p = c \o y
    BY <1>1 DEF c
  <2>3. c \o r.path \in Seq(Segments)
    BY <1>2, <1>7, ConcatProperties
  <2>. QED
    BY <1>8, <1>9, <2>1, <2>2, <2>3
<1>11. After(p, Public(h)) = z
  BY <1>8, <1>10, JoinedPath
<1>12. Clear(s, t, r.path, z)
  <2>1. SUFFICES ASSUME NEW q \in s[t].routes, IsStrictPrefix(r.path, q.path), Under(r.path \o z, q.path)
                 PROVE  FALSE
    BY DEF Clear
  <2>2. q \in RoutesFor(s, p) /\ q.path \in Seq(Segments)
    BY <1>2, <1>3, <1>8, <2>1, RouteFacts
  <2>3. Len(q.path) <= Len(r.path)
    BY <1>4, <2>2
  <2>4. Under(q.path, r.path) /\ r.path # q.path
    BY <2>1 DEF IsStrictPrefix, Under
  <2>5. Len(r.path) <= Len(q.path)
    BY <1>7, <2>2, <2>4, UnderElements
  <2>6. r.path = q.path
    <3>1. y \in Seq(Segments) /\ Under(y, q.path) /\ Len(r.path) = Len(q.path)
      BY <1>1, <1>7, <1>8, <2>1, <2>2, <2>3, <2>5, LenProperties
    <3>. QED
      BY <1>6, <1>7, <2>2, <3>1, PrefixesNest
  <2>. QED
    BY <2>4, <2>6
<1>13. Onward(h, p) = Rooted(r.base \o z)
  BY <1>9, <1>11 DEF Onward
<1>14. TakenBy(s, p, t, r, z)
  BY <1>1, <1>5, <1>10, <1>12, <1>13 DEF TakenBy, h
<1>. QED
  BY <1>1, <1>6, <1>8, <1>14

LEMMA FrontOf ==
  ASSUME NEW S, NEW f \in Seq(S), NEW e \in S
  PROVE  Front(f \o <<e>>) = f
<1>. DEFINE q == f \o <<e>>
            g == SubSeq(q, 1, Len(f))
<1>1. <<e>> \in Seq(S) /\ Len(<<e>>) = 1 /\ Len(f) \in Nat
  OBVIOUS
<1>2. /\ q \in Seq(S) /\ Len(q) = Len(f) + 1
      /\ \A i \in 1..(Len(f) + 1) : q[i] = IF i <= Len(f) THEN f[i] ELSE <<e>>[i - Len(f)]
  BY <1>1, ConcatProperties
<1>. HIDE DEF q
<1>3. \A i \in 1..Len(f) : q[i] \in S /\ q[i] = f[i]
  BY <1>1, <1>2
<1>4. /\ g \in Seq(S) /\ Len(g) = IF 1 <= Len(f) THEN Len(f) - 1 + 1 ELSE 0
      /\ \A i \in 1..(Len(f) - 1 + 1) : g[i] = q[1 + i - 1]
  BY <1>1, <1>3, SubSeqProperties
<1>. HIDE DEF g
<1>5. Len(g) = Len(f) /\ \A i \in 1..Len(g) : g[i] = f[i]
  BY <1>1, <1>3, <1>4
<1>6. g = f
  BY <1>4, <1>5, SeqEqual
<1>7. Front(q) = g
  <2>1. Len(q) - 1 = Len(f)
    BY <1>1, <1>2
  <2>. QED
    BY <2>1 DEF Front, g
<1>. QED
  BY <1>6, <1>7 DEF q

\* What a page loads is next to its base, wherever this is moved.
LEMMA NextTo ==
  ASSUME NEW c \in Seq(Segments), NEW z \in Seq(Segments), z # <<>>
  PROVE  /\ Front(z) \o <<Asset>> \in Seq(Segments)
         /\ Front(c \o z) \o <<Asset>> = c \o (Front(z) \o <<Asset>>)
<1>1. PICK f \in Seq(Segments), e \in Segments : z = f \o <<e>>
  <2>1. PICK f \in Seq(Segments), e \in Segments : z = Append(f, e)
    BY SequenceEmptyOrAppend
  <2>2. Append(f, e) = f \o <<e>>
    BY AppendIsConcat
  <2>. QED
    BY <2>1, <2>2
<1>2. <<e>> \in Seq(Segments) /\ <<Asset>> \in Seq(Segments) /\ c \o f \in Seq(Segments)
  BY Spelled, ConcatProperties
<1>3. Front(z) = f
  BY <1>1, FrontOf
<1>4. c \o z = (c \o f) \o <<e>>
  BY <1>1, <1>2, Regrouped
<1>5. Front(c \o z) = c \o f
  BY <1>2, <1>4, FrontOf
<1>6. (c \o f) \o <<Asset>> = c \o (f \o <<Asset>>)
  BY <1>2, Regrouped
<1>. QED
  BY <1>2, <1>3, <1>5, <1>6, ConcatProperties

LEMMA HandedLink ==
  ASSUME NEW a, IsAnswer(a), NEW h, h # NoHop
  PROVE  LET m == ModifyResponse(h, a)
         IN /\ IsAnswer(m) /\ m.kind = a.kind
            /\ a.kind = "redirect" =>
                 m.host = RewriteLocation(h, a).host /\ m.path = RewriteLocation(h, a).path
            /\ a.kind = "page" => m.host = RewriteBase(h, a).host /\ m.path = RewriteBase(h, a).path
            /\ a.kind # "redirect" /\ a.kind # "page" => m.host = a.host
<1>. DEFINE m == ModifyResponse(h, a)
<1>1. ASSUME NEW r, IsAnswer(r)
      PROVE  LET q == RewriteCookies(h, r)
             IN IsAnswer(q) /\ q.kind = r.kind /\ q.host = r.host /\ q.path = r.path
  <2>. DEFINE moved == {[c EXCEPT !.at = <<Project, h.task>>] : c \in r.cookies}
              q == RewriteCookies(h, r)
  <2>1. q = [r EXCEPT !.cookies = moved]
    BY DEF RewriteCookies
  <2>. HIDE DEF moved, q
  <2>2. IsAnswer(q) /\ q.kind = r.kind /\ q.host = r.host /\ q.path = r.path
    BY <1>1, <2>1 DEF IsAnswer
  <2>. QED
    BY <2>2 DEF q
<1>2. CASE a.kind = "redirect"
  <2>1. m = RewriteCookies(h, RewriteLocation(h, a))
    BY <1>2 DEF ModifyResponse
  <2>2. IsAnswer(RewriteLocation(h, a)) /\ RewriteLocation(h, a).kind = a.kind
    BY LocationOK
  <2>. QED
    BY <1>1, <1>2, <2>1, <2>2
<1>3. CASE a.kind = "page"
  <2>1. m = RewriteCookies(h, RewriteBase(h, a))
    BY <1>3 DEF ModifyResponse
  <2>2. IsAnswer(RewriteBase(h, a)) /\ RewriteBase(h, a).kind = a.kind
    BY BaseOK
  <2>. QED
    BY <1>1, <1>3, <2>1, <2>2
<1>4. CASE a.kind # "redirect" /\ a.kind # "page"
  <2>1. m = RewriteCookies(h, a)
    BY <1>4 DEF ModifyResponse
  <2>. QED
    BY <1>1, <1>4, <2>1
<1>. QED
  BY <1>2, <1>3, <1>4

LEMMA Relocated ==
  ASSUME NEW a, IsAnswer(a), NEW h, a.host \in {Here, h.host}
  PROVE  LET r == RewriteLocation(h, a)
             moves == a.path # <<>> /\ Under(a.path, h.base) /\ ~Under(a.path, Public(h))
         IN /\ moves => r.host = Here /\ r.path = Public(h) \o After(a.path, h.base)
            /\ ~moves => r = a
<1>1. ASSUME NEW p
      PROVE  LET r == [a EXCEPT !.host = Here, !.path = p]
             IN r.host = Here /\ r.path = p
  BY DEF IsAnswer
<1>. QED
  BY <1>1, Zenon DEF RewriteLocation

\* A redirect to what the target serves, or to what is public, comes back as public.
LEMMA RedirectMoved ==
  ASSUME NEW h, h # NoHop, Public(h) \in Seq(Segments), h.base \in Seq(Segments),
         NEW z \in Seq(Segments), NEW a, IsAnswer(a), a.kind = "redirect",
         \/ /\ a.host \in {Here, h.host} /\ a.path = h.base \o z
            /\ a.path # <<>> /\ ~Under(a.path, Public(h))
         \/ a.host = Here /\ a.path = Public(h) \o z
  PROVE  LET m == ModifyResponse(h, a)
         IN IsAnswer(m) /\ m.kind = "redirect" /\ m.host = Here /\ m.path = Public(h) \o z
<1>. DEFINE r == RewriteLocation(h, a)
            m == ModifyResponse(h, a)
<1>1. IsAnswer(m) /\ m.kind = "redirect" /\ m.host = r.host /\ m.path = r.path
  BY HandedLink
<1>2. Under(Public(h) \o z, Public(h)) /\ Under(h.base \o z, h.base) /\ After(h.base \o z, h.base) = z
  BY JoinedPath
<1>. DEFINE moves == a.path # <<>> /\ Under(a.path, h.base) /\ ~Under(a.path, Public(h))
<1>3. /\ moves => r.host = Here /\ r.path = Public(h) \o After(a.path, h.base)
      /\ ~moves => r = a
  BY Relocated
<1>. HIDE DEF r
<1>4. r.host = Here /\ r.path = Public(h) \o z
  <2>1. CASE a.path = h.base \o z /\ a.path # <<>> /\ ~Under(a.path, Public(h))
    BY <1>2, <1>3, <2>1
  <2>2. CASE a.host = Here /\ a.path = Public(h) \o z
    BY <1>2, <1>3, <2>2
  <2>. QED
    BY <2>1, <2>2
<1>. QED
  BY <1>1, <1>4 DEF r

LEMMA PageMoved ==
  ASSUME NEW h, h # NoHop, h.path = <<>>, Public(h) \in Seq(Segments), NEW z \in Seq(Segments),
         NEW a, IsAnswer(a), a.kind = "page", a.host = Here,
         (a.path = z /\ ~Under(z, Public(h))) \/ a.path = Public(h) \o z
  PROVE  LET m == ModifyResponse(h, a)
         IN IsAnswer(m) /\ m.kind = "page" /\ m.host = Here /\ m.path = Public(h) \o z
<1>. DEFINE r == RewriteBase(h, a)
            m == ModifyResponse(h, a)
            moved == [a EXCEPT !.path = Public(h) \o a.path]
<1>1. IsAnswer(m) /\ m.kind = "page" /\ m.host = r.host /\ m.path = r.path
  BY HandedLink
<1>2. Under(Public(h) \o z, Public(h))
  BY JoinedPath
<1>3. moved.host = Here /\ moved.path = Public(h) \o a.path
  BY DEF IsAnswer
<1>4. r = IF Under(a.path, Public(h)) THEN a ELSE moved
  BY DEF RewriteBase
<1>. HIDE DEF moved, r
<1>5. r.host = Here /\ r.path = Public(h) \o z
  BY <1>2, <1>3, <1>4
<1>. QED
  BY <1>1, <1>5

\* A route leaves the base of a page alone.
LEMMA PageKept ==
  ASSUME NEW h, h # NoHop, h.path # <<>>, NEW a, IsAnswer(a), a.kind = "page"
  PROVE  LET m == ModifyResponse(h, a)
         IN IsAnswer(m) /\ m.kind = "page" /\ m.host = a.host /\ m.path = a.path
<1>1. RewriteBase(h, a) = a
  BY DEF RewriteBase
<1>. QED
  BY <1>1, HandedLink

LEMMA LinkOf ==
  ASSUME NEW a
  PROVE  /\ a.kind = "redirect" => Link(a) = a.path
         /\ a.kind = "page" => Link(a) = Front(a.path) \o <<Asset>>
BY DEF Link, Asset

\* Hops that are the registry's.
InUse(s, h) ==
  /\ h.task \in Tasks
  /\ (h = TaskHop(h.task) /\ s[h.task].up) \/ \E r \in s[h.task].routes : h = RouteHop(h.task, r)

LEMMA HopFacts ==
  ASSUME NEW s, SitesOK(s), NEW h, InUse(s, h)
  PROVE  /\ Public(h) \in Seq(Segments) /\ h.base \in Seq(Segments)
         /\ AppRoot(h) = h.base /\ h # NoHop
<1>. DEFINE t == h.task
            c == <<Project, t>>
<1>1. t \in Tasks /\ h # NoHop
  BY ProxyAssumption DEF InUse, NoHop, Hosts
<1>2. c \in Seq(Segments) /\ <<>> \in Seq(Segments)
  BY <1>1, Spelled
<1>3. CASE h = TaskHop(t)
  <2>1. Public(h) = c /\ h.base = <<>>
    BY <1>1, <1>3, HopFields
  <2>2. AppRoot(TaskHop(t)) = <<>>
    BY <1>1, PathsAssumption
  <2>. QED
    BY <1>1, <1>2, <1>3, <2>1, <2>2
<1>4. CASE \E r \in s[t].routes : h = RouteHop(t, r)
  <2>1. PICK r \in s[t].routes : h = RouteHop(t, r)
    BY <1>4
  <2>2. s[t].routes \in RoutesOf[t]
    BY <1>1 DEF SitesOK
  <2>3. r.path \in Seq(Segments) /\ r.base \in Seq(Segments) /\ AppRoot(RouteHop(t, r)) = r.base
    BY <1>1, <2>2, RouteFacts
  <2>4. Public(h) = c \o r.path /\ h.base = r.base
    BY <1>1, <2>1, HopFields
  <2>. HIDE DEF c, t
  <2>5. c \o r.path \in Seq(Segments)
    BY <1>2, <2>3, ConcatProperties
  <2>. QED
    BY <1>1, <2>1, <2>3, <2>4, <2>5
<1>. QED
  BY <1>3, <1>4 DEF InUse

\* What goes on from the root of the app behind a hop, when no longer route takes it.
LEMMA TaskLeads ==
  ASSUME NEW s, SitesOK(s), NEW t \in Tasks, s[t].up, NEW z \in Seq(Segments), Clear(s, t, <<>>, z)
  PROVE  LET h == TaskHop(t)
         IN Reaches(s, Public(h) \o z, [host |-> h.host, path |-> Rooted(h.base \o z)])
<1>1. ASSUME NEW r \in s[t].routes
      PROVE  ~Under(z, r.path)
  <2>1. r.path \in Seq(Segments) /\ r.path # <<>>
    BY RouteFacts DEF SitesOK
  <2>2. <<>> \o z = z
    BY ConcatEmptySeq
  <2>3. Under(r.path, <<>>)
    <3>1. PICK e \in Seq(Segments) : e = <<>>
      BY EmptySeq
    <3>2. Len(e) = 0 /\ Len(r.path) \in Nat
      BY <2>1, <3>1
    <3>3. Len(e) <= Len(r.path) /\ \A i \in 1..Len(e) : r.path[i] = e[i]
      BY <3>2
    <3>. QED
      BY <2>1, <3>1, <3>3, UnderElements
  <2>4. IsStrictPrefix(<<>>, r.path)
    BY <2>1, <2>3 DEF IsStrictPrefix, Under
  <2>. QED
    BY <2>2, <2>4 DEF Clear
<1>2. Reaches(s, <<Project, t>> \o z, [host |-> t, path |-> Rooted(z)])
  BY <1>1, TaskReached
<1>3. Public(TaskHop(t)) = <<Project, t>> /\ TaskHop(t).host = t /\ TaskHop(t).base = <<>>
  BY HopFields
<1>4. <<>> \o z = z
  BY ConcatEmptySeq
<1>. QED
  BY <1>2, <1>3, <1>4

LEMMA HopLeads ==
  ASSUME NEW s, SitesOK(s), NEW h, InUse(s, h), h.host # Boreas,
         NEW z \in Seq(Segments), Clear(s, h.task, h.path, z)
  PROVE  Leads(s, Public(h) \o z, [host |-> h.host, path |-> Rooted(h.base \o z)])
<1>. DEFINE t == h.task
            x == [host |-> h.host, path |-> Rooted(h.base \o z)]
<1>1. t \in Tasks
  BY DEF InUse
<1>2. CASE h = TaskHop(t) /\ s[t].up
  <2>1. Clear(s, t, <<>>, z)
    BY <1>2 DEF TaskHop
  <2>2. Reaches(s, Public(h) \o z, x)
    BY <1>1, <1>2, <2>1, TaskLeads
  <2>. QED
    BY <2>2 DEF Leads
<1>3. CASE \E r \in s[t].routes : h = RouteHop(t, r)
  <2>1. PICK r \in s[t].routes : h = RouteHop(t, r)
    BY <1>3
  <2>2. h.host = r.host /\ h.base = r.base /\ h.path = r.path
    BY <2>1 DEF RouteHop
  <2>3. Clear(s, t, r.path, z) /\ r.host # Boreas /\ x = [host |-> r.host, path |-> Rooted(r.base \o z)]
    BY <2>2
  <2>. HIDE DEF x, t
  <2>4. Routes(s, Public(RouteHop(t, r)) \o z, x)
    BY <1>1, <2>3, RouteLeads
  <2>. QED
    BY <2>1, <2>4 DEF Leads, x
<1>. QED
  BY <1>2, <1>3 DEF InUse

\* PathsApart: what an app has as its own is not public.
LEMMA Apart ==
  ASSUME PathsApart, NEW s, SitesOK(s), NEW h, InUse(s, h), h.host # Boreas, NEW z \in Rests
  PROVE  z \in Seq(Segments) /\ ~Under(h.base \o z, Public(h))
<1>. DEFINE t == h.task
<1>1. t \in Tasks /\ z \in Seq(STRING)
  BY PathsAssumption DEF InUse
<1>2. z \in Seq(Segments)
  BY <1>1, Spelled
<1>3. CASE h = TaskHop(t)
  <2>1. h.base = <<>> /\ <<>> \o z = z
    BY <1>1, <1>2, <1>3, HopFields, ConcatEmptySeq
  <2>2. ~Under(z, Public(TaskHop(t)))
    BY <1>1 DEF PathsApart
  <2>. QED
    BY <1>2, <1>3, <2>1, <2>2
<1>4. CASE \E r \in s[t].routes : h = RouteHop(t, r)
  <2>1. PICK r \in s[t].routes : h = RouteHop(t, r)
    BY <1>4
  <2>2. h.host = r.host /\ h.base = r.base
    BY <2>1 DEF RouteHop
  <2>3. s[t].routes \in RoutesOf[t]
    BY <1>1 DEF SitesOK
  <2>4. ~Under(r.base \o z, Public(RouteHop(t, r)))
    BY <1>1, <2>2, <2>3 DEF PathsApart
  <2>. QED
    BY <1>2, <2>1, <2>2, <2>4
<1>. QED
  BY <1>3, <1>4 DEF InUse

\* What comes back by a route that goes on through Boreas.
LEMMA ThroughBack ==
  ASSUME NEW s, SitesOK(s), NEW t \in Tasks, NEW r \in s[t].routes, r.host = Boreas,
         NEW a, IsAnswer(a), a.host = Here, a.kind \in {"redirect", "page"},
         NEW x, Reaches(s, Link(a), x),
         \A z \in Seq(Segments) : Link(a) = r.base \o z => Leads(s, Public(RouteHop(t, r)) \o z, x)
  PROVE  Good(s, ModifyResponse(RouteHop(t, r), a), x)
<1>. DEFINE h == RouteHop(t, r)
            m == ModifyResponse(h, a)
<1>1. r.path # <<>> /\ r.base \in Seq(Segments)
  BY RouteFacts DEF SitesOK
<1>2. h.path = r.path /\ h.base = r.base /\ h.task = t
  BY DEF RouteHop
<1>3. h # NoHop
  BY <1>2, ProxyAssumption DEF NoHop, Hosts
<1>. HIDE DEF h, m
<1>4. CASE a.kind = "page"
  <2>1. IsAnswer(m) /\ m.kind = "page" /\ m.host = a.host /\ m.path = a.path
    BY <1>1, <1>2, <1>3, <1>4, PageKept DEF m
  <2>2. Link(m) = Link(a)
    BY <1>4, <2>1, LinkOf
  <2>3. Good(s, m, x)
    BY <2>1, <2>2 DEF Good, Leads
  <2>. QED
    BY <2>3 DEF m, h
<1>5. CASE a.kind = "redirect"
  <2>. DEFINE q == RewriteLocation(h, a)
              z == After(a.path, h.base)
  <2>1. IsAnswer(m) /\ m.kind = "redirect" /\ m.host = q.host /\ m.path = q.path
    BY <1>3, <1>5, HandedLink DEF m
  <2>2. Link(m) = m.path /\ Link(a) = a.path
    BY <1>5, <2>1, LinkOf
  <2>3. \/ q = a
        \/ q.host = Here /\ q.path = Public(h) \o z /\ Under(a.path, h.base)
    BY Relocated
  <2>. HIDE DEF q, z
  <2>4. a.path \in Seq(Segments)
    BY <2>2 DEF Reaches, Own
  <2>5. CASE q = a
    <3>1. Good(s, m, x)
      BY <2>1, <2>2, <2>5 DEF Good, Leads
    <3>. QED
      BY <3>1 DEF m, h
  <2>6. CASE q.host = Here /\ q.path = Public(h) \o z /\ Under(a.path, h.base)
    <3>1. z \in Seq(Segments) /\ a.path = r.base \o z
      BY <1>1, <1>2, <2>4, <2>6, CutPath DEF z
    <3>2. Leads(s, Public(h) \o z, x)
      BY <2>2, <3>1 DEF h
    <3>3. Good(s, m, x)
      BY <2>1, <2>2, <2>6, <3>2 DEF Good
    <3>. QED
      BY <3>3 DEF m, h
  <2>. QED
    BY <2>3, <2>5, <2>6
<1>. QED
  BY <1>4, <1>5

\* A route that none cuts into leads all paths below it to where Boreas takes them.
LEMMA UncutBack ==
  ASSUME NEW s, SitesOK(s), NEW t \in Tasks, NEW r \in s[t].routes, r.host = Boreas,
         \A z \in Seq(Segments) : Clear(s, t, r.path, z),
         NEW a, IsAnswer(a), a.host = Here, a.kind \in {"redirect", "page"},
         NEW x, Reaches(s, Link(a), x)
  PROVE  Good(s, ModifyResponse(RouteHop(t, r), a), x)
<1>1. ASSUME NEW z \in Seq(Segments), Link(a) = r.base \o z
      PROVE  Leads(s, Public(RouteHop(t, r)) \o z, x)
  <2>1. Own(r.base \o z)
    BY <1>1 DEF Reaches
  <2>2. r.base \o z # <<>> /\ r.base \o z \in Seq(Segments)
    BY <2>1 DEF Own, Addressed
  <2>3. Reaches(s, Rooted(r.base \o z), x)
    BY <1>1, <2>2, RootedPath
  <2>. QED
    BY <2>3, RouteLeads DEF Leads
<1>. QED
  BY <1>1, ThroughBack

(***************************************************************************)
(* Every step keeps to it.                                                 *)
(***************************************************************************)
LEMMA LinkStep ==
  ASSUME Inv, LinkInv, NEW b \in Tabs, NEW v, WayOK(v), AimOK(sites, v),
         tab' = [tab EXCEPT ![b] = v], sites' = sites
  PROVE  LinkInv'
<1>1. \A d \in Tabs : tab'[d] = IF d = b THEN v ELSE tab[d]
  BY DEF Inv, TabsInv
<1>. QED
  BY <1>1 DEF LinkInv

LEMMA KnownSites == ASSUME Inv PROVE SitesOK(sites)
BY DEF Inv, SitesInv, SiteOK, SitesOK

\* What a tab is at decides which of its conditions there is.
LEMMA SentOne ==
  ASSUME NEW s, NEW v, NEW l, v.at = "sent", v.legs = <<l>>, ~l.routed,
         v.expects # NoTarget => Leads(s, l.path, v.expects)
  PROVE  WayOK(v) /\ AimOK(s, v)
<1>1. One(v.legs) /\ v.legs[1] = l /\ ~Two(v.legs)
  BY MadeOne, OneNotTwo
<1>. QED
  BY <1>1 DEF WayOK, AimOK

LEMMA SentTwo ==
  ASSUME NEW s, NEW v, NEW k, NEW l, v.at = "sent", v.legs = <<k, l>>, Through(k.hop),
         v.expects # NoTarget => /\ Routes(s, k.path, v.expects) /\ k.hop = FirstHop(s, k.path)
                                 /\ l.path = Onward(k.hop, k.path)
  PROVE  WayOK(v) /\ AimOK(s, v)
<1>1. Two(v.legs) /\ v.legs[1] = k /\ v.legs[2] = l /\ ~One(v.legs)
  BY MadeTwo, OneNotTwo
<1>. QED
  BY <1>1 DEF WayOK, AimOK, Conveys

LEMMA UpOne ==
  ASSUME NEW s, NEW v, NEW l, v.at = "upstream", v.legs = <<l>>,
         l.hop.host # Boreas, l.hop.path = <<>> => OfTask(l.hop),
         v.expects # NoTarget => v.up.host = v.expects.host /\ v.up.path = v.expects.path
  PROVE  WayOK(v) /\ AimOK(s, v)
<1>1. One(v.legs) /\ v.legs[1] = l /\ ~Two(v.legs)
  BY MadeOne, OneNotTwo
<1>. QED
  BY <1>1 DEF WayOK, AimOK

LEMMA UpTwo ==
  ASSUME NEW s, NEW v, NEW k, NEW l, v.at = "upstream", v.legs = <<k, l>>,
         Through(k.hop), OfTask(l.hop),
         v.expects # NoTarget => v.up.host = v.expects.host /\ v.up.path = v.expects.path
  PROVE  WayOK(v) /\ AimOK(s, v)
<1>1. Two(v.legs) /\ v.legs[1] = k /\ v.legs[2] = l /\ ~One(v.legs)
  BY MadeTwo, OneNotTwo
<1>. QED
  BY <1>1 DEF WayOK, AimOK

LEMMA BackOne ==
  ASSUME NEW s, NEW v, NEW l, v.at = "back", v.legs = <<l>>,
         v.expects # NoTarget => Good(s, ModifyResponse(l.hop, v.answer), v.expects)
  PROVE  WayOK(v) /\ AimOK(s, v)
<1>1. v.legs[1] = l /\ ~Two(v.legs)
  BY MadeOne, OneNotTwo
<1>. QED
  BY <1>1 DEF WayOK, AimOK, Returned

LEMMA BackTwo ==
  ASSUME NEW s, NEW v, NEW k, NEW l, v.at = "back", v.legs = <<k, l>>,
         v.expects # NoTarget => Good(s, ModifyResponse(k.hop, ModifyResponse(l.hop, v.answer)), v.expects)
  PROVE  WayOK(v) /\ AimOK(s, v)
<1>1. Two(v.legs) /\ v.legs[1] = k /\ v.legs[2] = l
  BY MadeTwo
<1>. QED
  BY <1>1 DEF WayOK, AimOK, Returned

LEMMA NotSent ==
  ASSUME NEW s, NEW v, v.at \in {"idle", "link"},
         v.at = "link" /\ v.expects # NoTarget => Leads(s, v.legs[1].path, v.expects)
  PROVE  WayOK(v) /\ AimOK(s, v)
BY DEF WayOK, AimOK

LEMMA RequestLink ==
  ASSUME Inv, LinkInv, NEW b \in Tabs, NEW path, NEW typed, NEW expects, Request(b, path, typed, expects),
         expects # NoTarget => Leads(sites, path, expects)
  PROVE  LinkInv'
<1>. DEFINE leg == Leg(path, Sent(path), typed, FALSE)
            held == IF Addressed(path) THEN in[TaskAt(path)] ELSE NoHash
            v == [IdleTab EXCEPT !.at = "sent", !.legs = <<leg>>, !.expects = expects, !.held = held]
<1>1. leg.path = path /\ ~leg.routed
  BY DEF Leg
<1>2. v.at = "sent" /\ v.legs = <<leg>> /\ v.expects = expects
  BY DEF IdleTab
<1>3. tab' = [tab EXCEPT ![b] = v] /\ sites' = sites
  BY Zenon DEF Request
<1>. HIDE DEF leg, held, v
<1>4. WayOK(v) /\ AimOK(sites, v)
  BY <1>1, <1>2, SentOne
<1>. QED
  BY <1>3, <1>4, LinkStep

LEMMA BrowseLink ==
  ASSUME Inv, LinkInv, NEW b \in Tabs, Browse(b)
  PROVE  LinkInv'
<1>1. CASE \E name \in DOMAIN Means, rest \in Rests, typed \in BOOLEAN : Visit(b, name, rest, typed)
  <2>1. PICK path, typed : Request(b, path, typed, NoTarget)
    BY <1>1 DEF Visit
  <2>. QED
    BY <2>1, RequestLink
<1>2. CASE Follow(b)
  <2>1. tab[b].expects # NoTarget => Leads(sites, tab[b].legs[1].path, tab[b].expects)
    BY <1>2 DEF Follow, LinkInv, AimOK
  <2>. QED
    BY <1>2, <2>1, RequestLink DEF Follow
<1>. QED
  BY <1>1, <1>2 DEF Browse

\* The second leg of a request that went through Boreas, for a link to x.
Second(s, k, path, x) ==
  /\ Through(k.hop) /\ k.hop = FirstHop(s, k.path) /\ Routes(s, k.path, x)
  /\ path = Onward(k.hop, k.path) /\ Reaches(s, path, x)

\* What a leg that waits for ServeHTTP asks for.
LEMMA AskedPath ==
  ASSUME Inv, LinkInv, NEW b \in Tabs, Serving(b), tab[b].expects # NoTarget
  PROVE  LET u == tab[b]
             l == Asked(b)
         IN /\ Own(l.path) /\ ~Misspelt(b) /\ Site(b) = sites[TaskAt(l.path)]
            /\ Routed(b) = RoutesFor(sites, l.path)
            /\ \/ u.legs = <<l>> /\ Leads(sites, l.path, u.expects)
               \/ \E k : u.legs = <<k, l>> /\ Second(sites, k, l.path, u.expects)
<1>. DEFINE u == tab[b]
            l == Asked(b)
            x == u.expects
<1>1. TabOK(u, entered) /\ u.at = "sent" /\ l = Last(u.legs) /\ WayOK(u) /\ AimOK(sites, u)
  BY Asking DEF Serving, Asked, LinkInv
<1>. HIDE DEF l
<1>2. \/ u.legs = <<l>> /\ One(u.legs) /\ l = u.legs[1]
      \/ u.legs = <<u.legs[1], l>> /\ Two(u.legs) /\ l = u.legs[2]
  BY <1>1, AskedLeg
<1>3. \/ u.legs = <<l>> /\ Leads(sites, l.path, x)
      \/ \E k : u.legs = <<k, l>> /\ Second(sites, k, l.path, x)
  <2>1. CASE u.legs = <<l>> /\ One(u.legs) /\ l = u.legs[1]
    BY <1>1, <2>1 DEF AimOK
  <2>2. CASE u.legs = <<u.legs[1], l>> /\ Two(u.legs) /\ l = u.legs[2]
    <3>1. PICK k : k = u.legs[1]
      OBVIOUS
    <3>2. Through(k.hop)
      BY <1>1, <2>2, <3>1 DEF WayOK
    <3>3. /\ Routes(sites, k.path, x) /\ k.hop = FirstHop(sites, k.path)
          /\ l.path = Onward(k.hop, k.path)
      BY <1>1, <2>2, <3>1 DEF AimOK, Conveys
    <3>4. Reaches(sites, l.path, x)
      BY <3>2, <3>3 DEF Routes, Through
    <3>. QED
      BY <2>2, <3>1, <3>2, <3>3, <3>4 DEF Second
  <2>. QED
    BY <1>2, <2>1, <2>2
<1>4. Own(l.path)
  BY <1>3 DEF Leads, Reaches, Routes, Second
<1>5. Addressed(l.path) /\ l.path[2] = TaskAt(l.path)
  BY <1>4 DEF Own
<1>6. ~Misspelt(b) /\ Site(b) = sites[TaskAt(l.path)]
  BY <1>5 DEF Misspelt, Site, SiteAt, l
<1>7. Routed(b) = RoutesFor(sites, l.path)
  BY <1>6 DEF Routed, RoutesFor, l
<1>. QED
  BY <1>3, <1>4, <1>6, <1>7 DEF l

LEMMA PairsEqual ==
  ASSUME NEW j, NEW k, NEW l, NEW m
  PROVE  (<<j, l>> = <<k, m>> => j = k) /\ <<l>> # <<k, m>>
<1>1. <<j, l>> = <<k, m>> => j = k
  BY OfTwo
<1>2. <<l>> # <<k, m>>
  BY OfOne, OfTwo
<1>. QED
  BY <1>1, <1>2

LEMMA AskedFirst ==
  ASSUME Inv, LinkInv, NEW b \in Tabs, Serving(b), tab[b].expects # NoTarget, tab[b].legs = <<Asked(b)>>
  PROVE  Leads(sites, Asked(b).path, tab[b].expects)
<1>1. \A k : ~(tab[b].legs = <<k, Asked(b)>>)
  BY PairsEqual, Zenon
<1>. QED
  BY <1>1, AskedPath

LEMMA AskedAgain ==
  ASSUME Inv, LinkInv, NEW b \in Tabs, Serving(b), tab[b].expects # NoTarget,
         NEW k, tab[b].legs = <<k, Asked(b)>>
  PROVE  Second(sites, k, Asked(b).path, tab[b].expects)
<1>1. ~(tab[b].legs = <<Asked(b)>>)
  BY PairsEqual, Zenon
<1>2. PICK j : tab[b].legs = <<j, Asked(b)>> /\ Second(sites, j, Asked(b).path, tab[b].expects)
  BY <1>1, AskedPath
<1>3. j = k
  BY <1>2, PairsEqual, Zenon
<1>. QED
  BY <1>2, <1>3

LEMMA SayLink ==
  ASSUME Inv, LinkInv, NEW b \in Tabs, Serving(b), NEW a, Say(b, a), sites' = sites,
         tab[b].expects # NoTarget =>
           /\ tab[b].legs = <<Asked(b)>> => Good(sites, a, tab[b].expects)
           /\ \A k : tab[b].legs = <<k, Asked(b)>> => Good(sites, ModifyResponse(k.hop, a), tab[b].expects)
  PROVE  LinkInv'
<1>. DEFINE u == tab[b]
            l == Asked(b)
            v == [u EXCEPT !.at = "back", !.answer = a]
<1>1. TabOK(u, entered) /\ IsTab(u) /\ u.at = "sent" /\ l = Last(u.legs) /\ l.hop = NoHop
  BY Asking DEF Serving, Asked, Waits
<1>2. v.at = "back" /\ v.answer = a /\ v.expects = u.expects /\ v.legs = u.legs
  BY <1>1 DEF IsTab
<1>3. tab' = [tab EXCEPT ![b] = v]
  BY DEF Say, Inv, TabsInv
<1>. HIDE DEF v, l
<1>4. u.legs = <<l>> \/ u.legs = <<u.legs[1], l>>
  BY <1>1, AskedLeg
<1>5. ModifyResponse(l.hop, a) = a
  BY <1>1 DEF ModifyResponse
<1>6. CASE u.legs = <<l>>
  <2>1. WayOK(v) /\ AimOK(sites, v)
    BY <1>2, <1>5, <1>6, BackOne DEF l
  <2>. QED
    BY <1>3, <2>1, LinkStep
<1>7. CASE u.legs = <<u.legs[1], l>>
  <2>1. PICK k : u.legs = <<k, l>>
    BY <1>7
  <2>2. v.expects # NoTarget => Good(sites, ModifyResponse(k.hop, ModifyResponse(l.hop, v.answer)), v.expects)
    BY <1>2, <1>5, <2>1 DEF l
  <2>3. WayOK(v) /\ AimOK(sites, v)
    BY <1>2, <2>1, <2>2, BackTwo
  <2>. QED
    BY <1>3, <2>3, LinkStep
<1>. QED
  BY <1>4, <1>6, <1>7

LEMMA AskPasswordLink ==
  ASSUME Inv, LinkInv, NEW b \in Tabs, AskPassword(b)
  PROVE  LinkInv'
<1>. DEFINE u == tab[b]
            l == Asked(b)
            m == [l EXCEPT !.lock = Site(b).lock]
            legs == [u.legs EXCEPT ![Len(u.legs)] = m]
            a == Answer("lock")
            v == [u EXCEPT !.at = "back", !.answer = a, !.legs = legs]
<1>1. Serving(b) /\ sites' = sites
  BY DEF AskPassword
<1>2. /\ TabOK(u, entered) /\ IsTab(u) /\ u.at = "sent" /\ l = Last(u.legs)
      /\ Waits(l, entered)
  BY <1>1, Asking DEF Serving, Asked
<1>3. v.at = "back" /\ v.answer = a /\ v.expects = u.expects /\ v.legs = legs
  BY <1>2 DEF IsTab
<1>4. m.hop = NoHop
  BY <1>2 DEF Waits, IsLeg
<1>5. tab' = [tab EXCEPT ![b] = v]
  BY DEF AskPassword, Inv, TabsInv, Asked, Last
<1>6. a.kind = "lock" /\ a.host = Here /\ IsAnswer(a)
  BY DEF Answer, IsAnswer
<1>. HIDE DEF m, v, a
<1>7. Good(sites, a, u.expects)
  BY <1>6 DEF Good
<1>8. ASSUME NEW k
      PROVE  Good(sites, ModifyResponse(k.hop, a), u.expects)
  <2>1. CASE k.hop = NoHop
    BY <1>7, <2>1 DEF ModifyResponse
  <2>2. CASE k.hop # NoHop
    <3>1. ModifyResponse(k.hop, a).kind = "lock" /\ ModifyResponse(k.hop, a).host = Here
      BY <1>6, <2>2, HandedLink
    <3>. QED
      BY <3>1 DEF Good
  <2>. QED
    BY <2>1, <2>2
<1>9. CASE u.legs = <<l>>
  <2>1. v.legs = <<m>>
    BY <1>3, <1>9, OfOne
  <2>2. WayOK(v) /\ AimOK(sites, v)
    <3>1. Good(sites, ModifyResponse(m.hop, v.answer), v.expects)
      BY <1>3, <1>4, <1>7 DEF ModifyResponse
    <3>. QED
      BY <1>3, <2>1, <3>1, BackOne
  <2>. QED
    BY <1>1, <1>5, <2>2, LinkStep
<1>10. CASE u.legs = <<u.legs[1], l>>
  <2>1. PICK k : u.legs = <<k, l>>
    BY <1>10
  <2>2. Len(u.legs) = 2
    BY <2>1, MadeTwo
  <2>3. v.legs = <<k, m>>
    BY <1>3, <2>1, <2>2
  <2>4. Good(sites, ModifyResponse(k.hop, ModifyResponse(m.hop, v.answer)), v.expects)
    <3>1. ModifyResponse(m.hop, v.answer) = a
      BY <1>3, <1>4 DEF ModifyResponse
    <3>. QED
      BY <1>3, <1>8, <3>1
  <2>5. WayOK(v) /\ AimOK(sites, v)
    BY <1>3, <2>3, <2>4, BackTwo
  <2>. QED
    BY <1>1, <1>5, <2>5, LinkStep
<1>. QED
  BY <1>2, <1>9, <1>10, AskedLeg

\* The way back by a route, for the path it was taken by.
LEMMA SameBack ==
  ASSUME NEW s, SitesOK(s), NEW p, NEW h, h = FirstHop(s, p), Through(h), NEW x, Routes(s, p, x),
         NEW a, IsAnswer(a), a.kind = "redirect", a.host = Here, a.path = Onward(h, p)
  PROVE  Good(s, ModifyResponse(h, a), x)
<1>1. Own(p) /\ RoutesFor(s, p) # {} /\ Reaches(s, a.path, x)
  BY DEF Routes, Through
<1>2. PICK t \in Tasks, z \in Seq(Segments) : \E q \in s[t].routes : TakenBy(s, p, t, q, z)
  BY <1>1, RoutedParts
<1>3. PICK r \in s[t].routes :
           /\ h = RouteHop(t, r) /\ p = Public(h) \o z
           /\ Onward(h, p) = Rooted(r.base \o z)
  BY <1>2 DEF TakenBy
<1>4. r.host = Boreas
  BY <1>3 DEF Through, RouteHop
<1>5. Link(a) = a.path
  BY LinkOf
<1>6. r.base \in Seq(Segments)
  BY RouteFacts DEF SitesOK
<1>7. ASSUME NEW y \in Seq(Segments), Link(a) = r.base \o y
      PROVE  Leads(s, Public(h) \o y, x)
  <2>1. r.base \o z \in Seq(Segments) /\ Own(Rooted(r.base \o z))
    BY <1>1, <1>3, <1>6, ConcatProperties DEF Reaches
  <2>2. Rooted(r.base \o z) = r.base \o z
    <3>1. Len(<<Slash>>) = 1
      OBVIOUS
    <3>2. ~Own(<<Slash>>)
      BY <3>1 DEF Own, Addressed
    <3>. QED
      BY <2>1, <3>2, RootedPath
  <2>3. r.base \o y = r.base \o z
    BY <1>3, <1>5, <1>7, <2>2
  <2>4. y = z
    BY <1>6, <2>3, ConcatSimplifications
  <2>. QED
    BY <1>3, <2>4 DEF Leads
<1>8. Good(s, ModifyResponse(RouteHop(t, r), a), x)
  BY <1>1, <1>3, <1>4, <1>5, <1>7, ThroughBack
<1>. QED
  BY <1>3, <1>8

LEMMA UnlockLink ==
  ASSUME Inv, LinkInv, NEW b \in Tabs, Unlock(b)
  PROVE  LinkInv'
<1>. DEFINE l == Asked(b)
            x == tab[b].expects
<1>1. PICK c : Say(b, [Answer("redirect") EXCEPT !.path = l.path, !.cookies = {c}])
  BY Zenon DEF Unlock
<1>. DEFINE a == [Answer("redirect") EXCEPT !.path = l.path, !.cookies = {c}]
<1>2. IsAnswer(a) /\ a.kind = "redirect" /\ a.host = Here /\ a.path = l.path
  BY DEF Answer, IsAnswer
<1>3. Serving(b) /\ sites' = sites /\ SitesOK(sites) /\ Say(b, a)
  BY <1>1, KnownSites DEF Unlock
<1>. HIDE DEF a
<1>4. ASSUME x # NoTarget, tab[b].legs = <<l>>
      PROVE  Good(sites, a, x)
  <2>1. Leads(sites, l.path, x)
    BY <1>3, <1>4, AskedFirst
  <2>. QED
    BY <1>2, <2>1, LinkOf DEF Good
<1>5. ASSUME x # NoTarget, NEW k, tab[b].legs = <<k, l>>
      PROVE  Good(sites, ModifyResponse(k.hop, a), x)
  <2>1. /\ Through(k.hop) /\ k.hop = FirstHop(sites, k.path)
        /\ Routes(sites, k.path, x) /\ l.path = Onward(k.hop, k.path)
    BY <1>3, <1>5, AskedAgain DEF Second
  <2>. QED
    BY <1>2, <1>3, <2>1, SameBack
<1>. QED
  BY <1>3, <1>4, <1>5, SayLink

\* A link that arrives is not renamed, missed or sent round.
LEMMA StraysLink ==
  ASSUME Inv, LinkInv, NEW b \in Tabs, Miss(b) \/ Rename(b) \/ Loop(b)
  PROVE  LinkInv'
<1>. DEFINE l == Asked(b)
            x == tab[b].expects
<1>1. Serving(b) /\ sites' = sites /\ \E a : Say(b, a)
  <2>1. CASE Miss(b)
    BY <2>1 DEF Miss, Open
  <2>2. CASE Rename(b)
    BY <2>2, Zenon DEF Rename
  <2>3. CASE Loop(b)
    BY <2>3 DEF Loop, Open
  <2>. QED
    BY <2>1, <2>2, <2>3
<1>2. x = NoTarget
  <2>1. SUFFICES ASSUME x # NoTarget
                 PROVE  FALSE
    OBVIOUS
  <2>2. /\ ~Misspelt(b) /\ Site(b) = sites[TaskAt(l.path)] /\ Routed(b) = RoutesFor(sites, l.path)
        /\ \/ tab[b].legs = <<l>> /\ Leads(sites, l.path, x)
           \/ \E k : tab[b].legs = <<k, l>> /\ Second(sites, k, l.path, x)
    BY <1>1, <2>1, AskedPath
  <2>3. CASE Miss(b)
    BY <2>2, <2>3 DEF Miss, Second, Leads, Reaches, Routes
  <2>4. CASE Rename(b)
    BY <2>2, <2>4 DEF Rename
  <2>5. CASE Loop(b)
    <3>1. Routed(b) # {} /\ l.routed
      BY <2>5 DEF Loop
    <3>2. tab[b].legs = <<l>>
      BY <2>2, <3>1 DEF Second, Reaches
    <3>3. ~tab[b].legs[1].routed
      BY <1>1, <3>2, MadeOne DEF LinkInv, WayOK, Serving
    <3>. QED
      BY <3>1, <3>2, <3>3, MadeOne
  <2>. QED
    BY <2>3, <2>4, <2>5
<1>. QED
  BY <1>1, <1>2, SayLink

\* A slash at the end takes a path nowhere else.
LEMMA SlashKeeps ==
  ASSUME NEW t \in Tasks, NEW routes \in RoutesOf[t], NEW q \in routes, NEW y \in Seq(Segments)
  PROVE  Under(y \o <<Slash>>, q.path) <=> Under(y, q.path)
<1>1. q.path \in Seq(Segments) /\ q.path # <<>> /\ \A i \in 1..Len(q.path) : q.path[i] # Slash
  BY RouteFacts
<1>2. <<>> \in Seq(Segments) /\ <<>> \o q.path = q.path
  BY <1>1, ConcatEmptySeq, EmptySeq
<1>3. Under(y \o <<Slash>>, <<>> \o q.path) <=> Under(y, <<>> \o q.path)
  BY <1>1, <1>2, Spelled, UnderLonger
<1>. QED
  BY <1>2, <1>3

LEMMA SlashReaches ==
  ASSUME NEW s, SitesOK(s), NEW p, NEW x, Reaches(s, p, x), Bare(p)
  PROVE  Reaches(s, p \o <<Slash>>, x)
<1>. DEFINE t == TaskAt(p)
            c == <<Project, t>>
            z == <<Slash>>
<1>1. PICK y \in Seq(Segments) : p = c \o y
  BY OwnIsBelow DEF Reaches
<1>2. t \in Tasks /\ RoutesFor(s, p) = {} /\ s[t].up
      /\ x = [host |-> t, path |-> Onward(TaskHop(t), p)] /\ Len(p) = 2
  BY OwnIsBelow DEF Reaches, Bare
<1>3. c \in Seq(Segments) /\ z \in Seq(Segments) /\ <<>> \in Seq(Segments)
  BY <1>2, Spelled, EmptySeq
<1>4. y = <<>>
  <2>1. Len(c \o y) = 2 + Len(y)
    BY <1>2, BelowTask
  <2>. HIDE DEF c
  <2>. QED
    <3>1. Len(y) \in Nat /\ Len(c \o y) = 2
      BY <1>1, <1>2
    <3>2. Len(y) = 0
      BY <2>1, <3>1
    <3>. QED
      BY <3>2, EmptySeq
<1>5. p = c
  BY <1>1, <1>3, <1>4, ConcatEmptySeq
<1>6. x = [host |-> t, path |-> Rooted(z)]
  <2>1. After(c \o <<>>, c) = <<>>
    BY <1>3, JoinedPath
  <2>2. TaskHop(t).base = <<>> /\ Public(TaskHop(t)) = c
    BY <1>2, HopFields
  <2>3. Onward(TaskHop(t), p) = Rooted(<<>>)
    BY <1>1, <1>4, <2>1, <2>2, ConcatEmptySeq DEF Onward
  <2>4. Rooted(<<>>) = z /\ Rooted(z) = z
    BY <1>3, RootedPath
  <2>. QED
    BY <1>2, <2>3, <2>4
<1>7. ASSUME NEW q \in s[t].routes
      PROVE  ~Under(z, q.path)
  <2>1. s[t].routes \in RoutesOf[t]
    BY <1>2 DEF SitesOK
  <2>2. Under(<<>> \o z, q.path) <=> Under(<<>>, q.path)
    BY <1>2, <1>3, <2>1, SlashKeeps
  <2>3. RoutesFor(s, c \o y) = {r \in s[t].routes : Under(y, r.path)}
    BY <1>2, RoutesBelow
  <2>4. ~Under(<<>>, q.path)
    BY <1>1, <1>2, <1>4, <2>3
  <2>. QED
    BY <1>3, <2>2, <2>4, ConcatEmptySeq
<1>. HIDE DEF z, t
<1>8. Reaches(s, c \o z, x)
  BY <1>2, <1>3, <1>6, <1>7, TaskReached
<1>. QED
  BY <1>5, <1>8 DEF z

\* The way back by a route, with a slash more.
LEMMA SlashBack ==
  ASSUME NEW s, SitesOK(s), NEW p, NEW h, h = FirstHop(s, p), Through(h), NEW x, Routes(s, p, x),
         NEW a, IsAnswer(a), a.kind = "redirect", a.host = Here,
         Bare(Onward(h, p)), a.path = Onward(h, p) \o <<Slash>>
  PROVE  Good(s, ModifyResponse(h, a), x)
<1>1. Own(p) /\ RoutesFor(s, p) # {} /\ Reaches(s, Onward(h, p), x)
  BY DEF Routes, Through
<1>2. PICK t \in Tasks, z \in Seq(Segments) : \E q \in s[t].routes : TakenBy(s, p, t, q, z)
  BY <1>1, RoutedParts
<1>3. PICK r \in s[t].routes :
           /\ h = RouteHop(t, r) /\ Clear(s, t, r.path, z)
           /\ Onward(h, p) = Rooted(r.base \o z)
  BY <1>2 DEF TakenBy
<1>4. r.host = Boreas /\ s[t].routes \in RoutesOf[t]
  BY <1>3 DEF Through, RouteHop, SitesOK
<1>5. Link(a) = a.path /\ Reaches(s, a.path, x)
  BY <1>1, LinkOf, SlashReaches
<1>6. r.base \in Seq(Segments) /\ r.path \in Seq(Segments) /\ <<Slash>> \in Seq(Segments)
  BY <1>4, RouteFacts, Spelled
<1>. DEFINE e == <<Slash>>
<1>7. Onward(h, p) = r.base \o z
  <2>1. r.base \o z \in Seq(Segments) /\ Own(Rooted(r.base \o z))
    BY <1>1, <1>3, <1>6, ConcatProperties DEF Reaches
  <2>2. ~Own(<<Slash>>)
    <3>1. Len(<<Slash>>) = 1
      OBVIOUS
    <3>. QED
      BY <3>1 DEF Own, Addressed
  <2>. QED
    BY <1>3, <2>1, <2>2, RootedPath
<1>8. ASSUME NEW y \in Seq(Segments), Link(a) = r.base \o y
      PROVE  Leads(s, Public(RouteHop(t, r)) \o y, x)
  <2>1. a.path = r.base \o (z \o e)
    <3>. HIDE DEF e
    <3>1. e \in Seq(Segments) /\ a.path = (r.base \o z) \o e
      BY <1>6, <1>7 DEF e
    <3>. QED
      BY <1>6, <3>1, Regrouped
  <2>2. z \o e \in Seq(Segments)
    BY <1>6, ConcatProperties
  <2>. HIDE DEF e
  <2>3. y = z \o e
    BY <1>5, <1>6, <1>8, <2>1, <2>2, ConcatSimplifications
  <2>4. Clear(s, t, r.path, y)
    <3>1. SUFFICES ASSUME NEW q \in s[t].routes, IsStrictPrefix(r.path, q.path), Under(r.path \o y, q.path)
                   PROVE  FALSE
      BY DEF Clear
    <3>2. r.path \o y = (r.path \o z) \o e
      BY <1>6, <2>3, Regrouped DEF e
    <3>3. r.path \o z \in Seq(Segments)
      BY <1>6, ConcatProperties
    <3>4. Under(r.path \o z, q.path)
      BY <1>4, <3>1, <3>2, <3>3, SlashKeeps DEF e
    <3>. QED
      BY <1>3, <3>1, <3>4 DEF Clear
  <2>5. r.base \o y \in Seq(Segments) /\ r.base \o y # <<>>
    <3>1. Own(a.path)
      BY <1>5 DEF Reaches
    <3>2. a.path \in Seq(Segments) /\ Len(a.path) >= 2 /\ Len(<<>>) = 0
      BY <3>1 DEF Own, Addressed
    <3>3. a.path = r.base \o y
      BY <1>5, <1>8
    <3>4. a.path # <<>>
      BY <3>2
    <3>. QED
      BY <3>2, <3>3, <3>4
  <2>6. Reaches(s, Rooted(r.base \o y), x)
    BY <1>5, <1>8, <2>5, RootedPath
  <2>. QED
    BY <1>4, <2>4, <2>6, RouteLeads DEF Leads
<1>9. Good(s, ModifyResponse(RouteHop(t, r), a), x)
  BY <1>4, <1>5, <1>8, ThroughBack
<1>. QED
  BY <1>3, <1>9

LEMMA AddSlashLink ==
  ASSUME Inv, LinkInv, NEW b \in Tabs, AddSlash(b)
  PROVE  LinkInv'
<1>. DEFINE l == Asked(b)
            x == tab[b].expects
            a == [Answer("redirect") EXCEPT !.path = l.path \o <<"">>, !.keep = TRUE]
<1>1. /\ Serving(b) /\ sites' = sites /\ SitesOK(sites) /\ Say(b, a)
      /\ Routed(b) = {} /\ Bare(l.path)
  BY KnownSites DEF AddSlash, Open
<1>2. IsAnswer(a) /\ a.kind = "redirect" /\ a.host = Here /\ a.path = l.path \o <<Slash>>
  BY DEF Answer, IsAnswer, Slash
<1>. HIDE DEF a
<1>3. ASSUME x # NoTarget, tab[b].legs = <<l>>
      PROVE  Good(sites, a, x)
  <2>1. Leads(sites, l.path, x) /\ RoutesFor(sites, l.path) = {}
    BY <1>1, <1>3, AskedFirst, AskedPath
  <2>2. Reaches(sites, l.path \o <<Slash>>, x)
    BY <1>1, <2>1, SlashReaches DEF Leads, Routes
  <2>. QED
    BY <1>2, <2>2, LinkOf DEF Good, Leads
<1>4. ASSUME x # NoTarget, NEW k, tab[b].legs = <<k, l>>
      PROVE  Good(sites, ModifyResponse(k.hop, a), x)
  <2>1. /\ Through(k.hop) /\ k.hop = FirstHop(sites, k.path)
        /\ Routes(sites, k.path, x) /\ l.path = Onward(k.hop, k.path)
    BY <1>1, <1>4, AskedAgain DEF Second
  <2>. QED
    BY <1>1, <1>2, <2>1, SlashBack
<1>. QED
  BY <1>1, <1>3, <1>4, SayLink

LEMMA DispatchLink ==
  ASSUME Inv, LinkInv, NEW b \in Tabs, Serving(b), NEW h,
         h.host = Boreas => ~Asked(b).routed /\ h.path # <<>>,
         h.path = <<>> \/ Asked(b).routed => OfTask(h),
         tab[b].expects # NoTarget =>
           IF h.host = Boreas
           THEN Routes(sites, Asked(b).path, tab[b].expects) /\ h = FirstHop(sites, Asked(b).path)
           ELSE tab[b].expects.host = h.host /\ tab[b].expects.path = Onward(h, Asked(b).path),
         Dispatch(b, h)
  PROVE  LinkInv'
<1>. DEFINE u == tab[b]
            l == Asked(b)
            leg == [l EXCEPT !.hop = h, !.lock = Site(b).lock]
            out == Rewrite(h, leg)
            legs == Append(Front(u.legs), leg)
            up == [host |-> h.host, path |-> out.path, cookies |-> out.cookies]
            v == IF h.host = Boreas THEN [u EXCEPT !.legs = Append(legs, out)]
                 ELSE [u EXCEPT !.at = "upstream", !.legs = legs, !.up = up]
<1>1. tab' = [tab EXCEPT ![b] = v] /\ sites' = sites
  BY Zenon DEF Dispatch
<1>2. /\ TabOK(u, entered) /\ IsTab(u) /\ WayOK(u)
      /\ Waits(l, entered) /\ u.at = "sent" /\ l = Last(u.legs)
  BY Asking DEF Serving, Asked, LinkInv
<1>3. leg.hop = h /\ leg.path = l.path /\ leg.routed = l.routed
  BY <1>2 DEF Waits, IsLeg
<1>. HIDE DEF leg
<1>4. out.path = Onward(h, l.path)
  BY <1>3 DEF Rewrite, Leg, Onward
<1>5. up.host = h.host /\ up.path = out.path
  OBVIOUS
<1>. HIDE DEF out, up
<1>6. CASE u.legs = <<l>>
  <2>1. legs = <<leg>> /\ Append(legs, out) = <<leg, out>>
    <3>1. Front(u.legs) = <<>>
      BY <1>6, MadeOne
    <3>2. legs = <<leg>>
      BY <3>1, OfOne
    <3>. QED
      BY <3>2, OfOne
  <2>2. CASE h.host = Boreas
    <3>1. v.at = "sent" /\ v.legs = <<leg, out>> /\ v.expects = u.expects
      BY <1>2, <2>1, <2>2 DEF IsTab
    <3>. HIDE DEF v
    <3>2. Through(leg.hop)
      BY <1>3, <2>2 DEF Through
    <3>3. WayOK(v) /\ AimOK(sites, v)
      BY <1>3, <1>4, <2>2, <3>1, <3>2, SentTwo
    <3>. QED
      BY <1>1, <3>3, LinkStep
  <2>3. CASE h.host # Boreas
    <3>1. v.at = "upstream" /\ v.legs = <<leg>> /\ v.expects = u.expects /\ v.up = up
      BY <1>2, <2>1, <2>3 DEF IsTab
    <3>. HIDE DEF v
    <3>2. WayOK(v) /\ AimOK(sites, v)
      BY <1>3, <1>4, <1>5, <2>3, <3>1, UpOne
    <3>. QED
      BY <1>1, <3>2, LinkStep
  <2>. QED
    BY <2>2, <2>3
<1>7. CASE u.legs = <<u.legs[1], l>> /\ Two(u.legs) /\ l = u.legs[2] /\ l.routed
  <2>1. PICK first : first = u.legs[1] /\ u.legs = <<first, l>>
    BY <1>7
  <2>2. Front(u.legs) = <<first>>
    BY <2>1, MadeTwo
  <2>3. legs = <<first, leg>>
    BY <2>2, OfOne
  <2>4. h.host # Boreas /\ OfTask(leg.hop)
    BY <1>3, <1>7
  <2>5. v.at = "upstream" /\ v.legs = <<first, leg>> /\ v.expects = u.expects /\ v.up = up
    BY <1>2, <2>3, <2>4 DEF IsTab
  <2>. HIDE DEF v
  <2>6. Through(first.hop)
    BY <1>2, <1>7, <2>1 DEF WayOK
  <2>7. WayOK(v) /\ AimOK(sites, v)
    BY <1>4, <1>5, <2>4, <2>5, <2>6, UpTwo
  <2>. QED
    BY <1>1, <2>7, LinkStep
<1>. QED
  BY <1>2, <1>6, <1>7, AskedLeg

LEMMA ByRouteLink ==
  ASSUME Inv, LinkInv, NEW b \in Tabs, ByRoute(b)
  PROVE  LinkInv'
<1>. DEFINE l == Asked(b)
            t == TaskAt(l.path)
            r == Longest(Routed(b))
            h == RouteHop(t, r)
            x == tab[b].expects
<1>1. Serving(b) /\ Open(b) /\ Routed(b) # {} /\ ~l.routed /\ Dispatch(b, h)
  BY DEF ByRoute, Open
<1>2. Site(b).routes # {} /\ Routed(b) \subseteq Site(b).routes
  BY <1>1 DEF Routed
<1>3. t \in Tasks /\ Site(b).routes \in RoutesOf[t]
  BY <1>1, <1>2, Asking DEF SiteOK
<1>4. r \in Site(b).routes
  BY <1>1, <1>2, <1>3, LongestRoute
<1>5. h.path # <<>>
  <2>. HIDE DEF r
  <2>1. r.path # <<>>
    BY <1>3, <1>4, RouteFacts
  <2>. QED
    BY <2>1 DEF RouteHop
<1>6. ASSUME x # NoTarget
      PROVE  IF h.host = Boreas THEN Routes(sites, l.path, x) /\ h = FirstHop(sites, l.path)
             ELSE x.host = h.host /\ x.path = Onward(h, l.path)
  <2>1. /\ Routed(b) = RoutesFor(sites, l.path)
        /\ \/ tab[b].legs = <<l>> /\ Leads(sites, l.path, x)
           \/ \E k : tab[b].legs = <<k, l>> /\ Second(sites, k, l.path, x)
    BY <1>1, <1>6, AskedPath
  <2>2. h = FirstHop(sites, l.path)
    BY <2>1 DEF FirstHop
  <2>. HIDE DEF h
  <2>3. Routes(sites, l.path, x)
    BY <1>1, <2>1 DEF Second, Leads, Reaches
  <2>. QED
    BY <2>2, <2>3 DEF Routes
<1>. HIDE DEF h
<1>. QED
  BY <1>1, <1>5, <1>6, DispatchLink

LEMMA ByTaskLink ==
  ASSUME Inv, LinkInv, NEW b \in Tabs, ByTask(b)
  PROVE  LinkInv'
<1>. DEFINE l == Asked(b)
            t == TaskAt(l.path)
            h == TaskHop(t)
            x == tab[b].expects
<1>1. Serving(b) /\ Routed(b) = {} /\ Site(b).up /\ Dispatch(b, h)
  BY DEF ByTask, Open
<1>2. t \in Tasks
  BY <1>1, Asking
<1>3. h.host # Boreas /\ h.host = t /\ OfTask(h)
  BY <1>2, ProxyAssumption DEF TaskHop, Hosts, OfTask
<1>4. ASSUME x # NoTarget
      PROVE  x.host = h.host /\ x.path = Onward(h, l.path)
  <2>1. Reaches(sites, l.path, x)
    BY <1>1, <1>4, AskedPath DEF Second, Leads, Routes
  <2>. QED
    BY <1>3, <2>1 DEF Reaches
<1>. HIDE DEF h
<1>. QED
  BY <1>1, <1>3, <1>4, DispatchLink

(***************************************************************************)
(* What an app answers, and what becomes of it.                            *)
(***************************************************************************)
LEMMA UpLegs ==
  ASSUME Inv, LinkInv, NEW b \in Tabs, tab[b].at = "upstream"
  PROVE  LET u == tab[b]
         IN /\ IsTab(u) /\ WayOK(u)
            /\ \/ \E l : u.legs = <<l>> /\ l.hop.task \in Tasks
               \/ \E k, l : u.legs = <<k, l>> /\ k.hop.task \in Tasks /\ l.hop.task \in Tasks
<1>. DEFINE u == tab[b]
<1>1. TabOK(u, entered) /\ IsTab(u) /\ WayOK(u)
  BY DEF Inv, TabsInv, TabOK, LinkInv
<1>2. Away(u, entered)
  BY <1>1 DEF TabOK, Resting, SentFirst, SentAgain, BackFirst, BackAgain
<1>3. CASE One(u.legs) /\ Gone(u.legs[1], entered)
  <2>1. u.legs = <<u.legs[1]>> /\ u.legs[1].hop.task \in Tasks
    BY <1>3 DEF One, Gone
  <2>. QED
    BY <1>1, <2>1
<1>4. CASE Two(u.legs) /\ Gone(u.legs[1], entered) /\ Gone(u.legs[2], entered)
  <2>1. u.legs = <<u.legs[1], u.legs[2]>> /\ u.legs[1].hop.task \in Tasks /\ u.legs[2].hop.task \in Tasks
    BY <1>4 DEF Two, Gone
  <2>. QED
    BY <1>1, <2>1
<1>. QED
  BY <1>2, <1>3, <1>4 DEF Away

LEMMA AnswersLink ==
  ASSUME Inv, LinkInv, NEW b \in Tabs, tab[b].at = "upstream", NEW a, NEW expects, Answers(b, a, expects),
         expects # NoTarget =>
           /\ \A l : tab[b].legs = <<l>> => Good(sites, ModifyResponse(l.hop, a), expects)
           /\ \A k, l : tab[b].legs = <<k, l>> =>
                Good(sites, ModifyResponse(k.hop, ModifyResponse(l.hop, a)), expects)
  PROVE  LinkInv'
<1>. DEFINE u == tab[b]
            v == [u EXCEPT !.at = "back", !.answer = a, !.up = NoTarget, !.expects = expects]
<1>1. /\ IsTab(u)
      /\ (\E l : u.legs = <<l>>) \/ (\E k, l : u.legs = <<k, l>>)
  BY UpLegs
<1>2. v.at = "back" /\ v.answer = a /\ v.legs = u.legs /\ v.expects = expects
  BY <1>1 DEF IsTab
<1>3. tab' = [tab EXCEPT ![b] = v] /\ sites' = sites
  BY DEF Answers, Inv, TabsInv
<1>. HIDE DEF v
<1>4. CASE \E l : u.legs = <<l>>
  <2>1. PICK l : u.legs = <<l>>
    BY <1>4
  <2>2. WayOK(v) /\ AimOK(sites, v)
    BY <1>2, <2>1, BackOne
  <2>. QED
    BY <1>3, <2>2, LinkStep
<1>5. CASE \E k, l : u.legs = <<k, l>>
  <2>1. PICK k, l : u.legs = <<k, l>>
    BY <1>5
  <2>2. WayOK(v) /\ AimOK(sites, v)
    BY <1>2, <2>1, BackTwo
  <2>. QED
    BY <1>3, <2>2, LinkStep
<1>. QED
  BY <1>1, <1>4, <1>5

\* When a link's target is known, the hops it came by are the registry's.
LEMMA MeantFacts ==
  ASSUME Inv, LinkInv, NEW b \in Tabs, tab[b].at = "upstream", NEW z, Meant(b, z) # NoTarget
  PROVE  LET u == tab[b]
             h == Last(u.legs).hop
         IN /\ InUse(sites, h) /\ h.host # Boreas /\ Clear(sites, h.task, h.path, z)
            /\ h.path = <<>> => h = TaskHop(h.task) /\ sites[h.task].up
            /\ Meant(b, z) = [host |-> h.host, path |-> Rooted(AppRoot(h) \o z)]
            /\ \A k, l : u.legs = <<k, l>> =>
                 /\ h.path = <<>>
                 /\ \E t \in Tasks : \E r \in sites[t].routes :
                      /\ k.hop = RouteHop(t, r) /\ r.host = Boreas
                      /\ \A y \in Seq(Segments) : Clear(sites, t, r.path, y)
<1>. DEFINE u == tab[b]
            h == Last(u.legs).hop
<1>1. /\ IsTab(u) /\ WayOK(u)
      /\ \/ \E l : u.legs = <<l>> /\ l.hop.task \in Tasks
         \/ \E k, l : u.legs = <<k, l>> /\ k.hop.task \in Tasks /\ l.hop.task \in Tasks
  BY UpLegs
<1>2. /\ \A i \in 1..Len(u.legs) : Current(u.legs[i].hop)
      /\ ~Shadowed(h, z)
      /\ \A i \in 1..(Len(u.legs) - 1) : ~Split(u.legs[i].hop)
      /\ Meant(b, z) = [host |-> h.host, path |-> Rooted(AppRoot(h) \o z)]
  BY Zenon DEF Meant
<1>3. Clear(sites, h.task, h.path, z)
  BY <1>2 DEF Shadowed, Clear
<1>4. SitesOK(sites)
  BY KnownSites
<1>5. ASSUME NEW g, Current(g), g.task \in Tasks, g.path = <<>>
      PROVE  sites[g.task].up
  <2>1. SUFFICES ASSUME NEW r \in sites[g.task].routes, g = RouteHop(g.task, r)
                 PROVE  FALSE
    BY <1>5 DEF Current
  <2>2. r.path # <<>>
    BY <1>4, <1>5, RouteFacts DEF SitesOK
  <2>3. g.path = r.path
    BY <2>1 DEF RouteHop
  <2>. QED
    BY <1>5, <2>2, <2>3
<1>6. CASE \E l : u.legs = <<l>> /\ l.hop.task \in Tasks
  <2>1. PICK l : u.legs = <<l>> /\ l.hop.task \in Tasks
    BY <1>6
  <2>2. One(u.legs) /\ u.legs[1] = l /\ h = l.hop /\ Len(u.legs) = 1
    BY <2>1, MadeOne
  <2>. HIDE DEF h
  <2>3. Current(h) /\ h.task \in Tasks /\ h.host # Boreas /\ (h.path = <<>> => OfTask(h))
    BY <1>1, <1>2, <2>1, <2>2 DEF WayOK
  <2>4. h.path = <<>> => h = TaskHop(h.task) /\ sites[h.task].up
    BY <1>5, <2>3 DEF OfTask
  <2>5. InUse(sites, h)
    BY <2>3, <2>4 DEF InUse, Current
  <2>6. \A k, m : u.legs # <<k, m>>
    BY <2>1, PairsEqual
  <2>. QED
    BY <1>2, <1>3, <2>3, <2>4, <2>5, <2>6 DEF h
<1>7. CASE \E k, l : u.legs = <<k, l>> /\ k.hop.task \in Tasks /\ l.hop.task \in Tasks
  <2>1. PICK k, l : u.legs = <<k, l>> /\ k.hop.task \in Tasks /\ l.hop.task \in Tasks
    BY <1>7
  <2>2. Two(u.legs) /\ u.legs[1] = k /\ u.legs[2] = l /\ h = l.hop /\ Len(u.legs) = 2
    BY <2>1, MadeTwo
  <2>. HIDE DEF h
  <2>3. Current(h) /\ h.task \in Tasks /\ OfTask(h) /\ Current(k.hop) /\ ~Split(k.hop) /\ Through(k.hop)
    BY <1>1, <1>2, <2>1, <2>2 DEF WayOK
  <2>4. h = TaskHop(h.task) /\ h.path = <<>> /\ h.host # Boreas
    <3>1. TaskHop(h.task).path = <<>> /\ TaskHop(h.task).host = h.task
      BY DEF TaskHop
    <3>. QED
      BY <2>3, <3>1, ProxyAssumption DEF OfTask, Hosts
  <2>5. sites[h.task].up
    BY <1>5, <2>3, <2>4
  <2>6. InUse(sites, h)
    BY <2>3, <2>4, <2>5 DEF InUse
  <2>. DEFINE t == k.hop.task
  <2>7. PICK r \in sites[t].routes : k.hop = RouteHop(t, r)
    BY <2>3 DEF Current, Through
  <2>8. r.host = k.hop.host /\ r.path = k.hop.path
    BY <2>7 DEF RouteHop
  <2>9. r.host = Boreas /\ \A y \in Seq(Segments) : Clear(sites, t, r.path, y)
    BY <2>3, <2>8 DEF Through, Split, Clear
  <2>10. ASSUME NEW j, NEW m, u.legs = <<j, m>>
         PROVE  \E c \in Tasks : \E q \in sites[c].routes :
                  /\ j.hop = RouteHop(c, q) /\ q.host = Boreas
                  /\ \A y \in Seq(Segments) : Clear(sites, c, q.path, y)
    <3>1. j = k
      BY <2>1, <2>10, PairsEqual, Zenon
    <3>. QED
      BY <2>1, <2>7, <2>9, <3>1
  <2>. QED
    BY <1>2, <1>3, <2>4, <2>5, <2>6, <2>10 DEF h
<1>. QED
  BY <1>1, <1>6, <1>7

LEMMA MeantLink ==
  ASSUME Inv, LinkInv, NEW b \in Tabs, tab[b].at = "upstream", NEW z \in Seq(Segments),
         NEW a, Answers(b, a, Meant(b, z)),
         Meant(b, z) # NoTarget =>
           LET h == Last(tab[b].legs).hop
               m == ModifyResponse(h, a)
           IN /\ IsAnswer(m) /\ m.kind \in {"redirect", "page"} /\ m.host = Here
              /\ Link(m) = Public(h) \o z
  PROVE  LinkInv'
<1>. DEFINE u == tab[b]
            h == Last(u.legs).hop
            m == ModifyResponse(h, a)
            x == Meant(b, z)
<1>1. SitesOK(sites)
  BY KnownSites
<1>2. ASSUME x # NoTarget
      PROVE  /\ \A l : u.legs = <<l>> => Good(sites, ModifyResponse(l.hop, a), x)
             /\ \A k, l : u.legs = <<k, l>> => Good(sites, ModifyResponse(k.hop, ModifyResponse(l.hop, a)), x)
  <2>1. /\ InUse(sites, h) /\ h.host # Boreas /\ Clear(sites, h.task, h.path, z)
        /\ h.path = <<>> => h = TaskHop(h.task) /\ sites[h.task].up
        /\ x = [host |-> h.host, path |-> Rooted(AppRoot(h) \o z)]
        /\ \A k, l : u.legs = <<k, l>> =>
             /\ h.path = <<>>
             /\ \E t \in Tasks : \E r \in sites[t].routes :
                  /\ k.hop = RouteHop(t, r) /\ r.host = Boreas
                  /\ \A y \in Seq(Segments) : Clear(sites, t, r.path, y)
    BY <1>2, MeantFacts
  <2>2. AppRoot(h) = h.base
    BY <1>1, <2>1, HopFacts
  <2>3. /\ IsAnswer(m) /\ m.kind \in {"redirect", "page"} /\ m.host = Here
        /\ Link(m) = Public(h) \o z
    BY <1>2
  <2>4. x = [host |-> h.host, path |-> Rooted(h.base \o z)]
    BY <2>1, <2>2
  <2>. HIDE DEF x
  <2>5. ASSUME NEW l, u.legs = <<l>>
        PROVE  Good(sites, ModifyResponse(l.hop, a), x)
    <3>1. h = l.hop
      BY <2>5, MadeOne
    <3>. HIDE DEF h
    <3>2. Leads(sites, Link(m), x)
      BY <1>1, <2>1, <2>3, <2>4, HopLeads
    <3>3. Good(sites, m, x)
      BY <2>3, <3>2 DEF Good
    <3>. QED
      BY <3>1, <3>3
  <2>6. ASSUME NEW k, NEW l, u.legs = <<k, l>>
        PROVE  Good(sites, ModifyResponse(k.hop, ModifyResponse(l.hop, a)), x)
    <3>1. h = l.hop
      BY <2>6, MadeTwo
    <3>2. h.path = <<>> /\ h = TaskHop(h.task) /\ sites[h.task].up /\ h.task \in Tasks
      BY <2>1, <2>6 DEF InUse
    <3>3. PICK t \in Tasks : \E r \in sites[t].routes :
            /\ k.hop = RouteHop(t, r) /\ r.host = Boreas
            /\ \A y \in Seq(Segments) : Clear(sites, t, r.path, y)
      BY <2>1, <2>6
    <3>4. PICK r \in sites[t].routes :
            /\ k.hop = RouteHop(t, r) /\ r.host = Boreas
            /\ \A y \in Seq(Segments) : Clear(sites, t, r.path, y)
      BY <3>3
    <3>. HIDE DEF h, m
    <3>5. Reaches(sites, Link(m), x)
      <4>1. Clear(sites, h.task, <<>>, z)
        BY <2>1, <3>2
      <4>2. Reaches(sites, Public(TaskHop(h.task)) \o z,
                    [host |-> TaskHop(h.task).host, path |-> Rooted(TaskHop(h.task).base \o z)])
        BY <1>1, <3>2, <4>1, TaskLeads
      <4>. QED
        BY <2>3, <2>4, <3>2, <4>2
    <3>6. Good(sites, ModifyResponse(RouteHop(t, r), m), x)
      BY <1>1, <2>3, <3>4, <3>5, UncutBack
    <3>. QED
      BY <3>1, <3>4, <3>6 DEF m
  <2>. QED
    BY <2>5, <2>6
<1>. HIDE DEF x
<1>. QED
  BY <1>2, AnswersLink DEF x

LEMMA RedirectMade ==
  ASSUME NEW host, NEW path
  PROVE  /\ IsAnswer(RedirectTo(host, path)) /\ RedirectTo(host, path).kind = "redirect"
         /\ RedirectTo(host, path).host = host /\ RedirectTo(host, path).path = path
  BY DEF RedirectTo, Answer, IsAnswer

LEMMA RedirectsLink ==
  ASSUME PathsApart, Inv, LinkInv, NEW b \in Tabs, NEW rest \in Rests, Redirects(b, rest)
  PROVE  LinkInv'
<1>. DEFINE h == Last(tab[b].legs).hop
<1>1. tab[b].at = "upstream" /\ SitesOK(sites)
  BY KnownSites DEF Redirects
<1>2. \/ \E host \in {Here, h.host} :
           /\ AppRoot(h) \o rest # <<>>
           /\ Answers(b, RedirectTo(host, AppRoot(h) \o rest), Meant(b, rest))
      \/ Answers(b, RedirectTo(Here, Public(h) \o rest), Meant(b, rest))
  BY DEF Redirects, RedirectTo
<1>4. PICK a :
        /\ IsAnswer(a) /\ a.kind = "redirect" /\ Answers(b, a, Meant(b, rest))
        /\ \/ a.host \in {Here, h.host} /\ a.path = AppRoot(h) \o rest /\ a.path # <<>>
           \/ a.host = Here /\ a.path = Public(h) \o rest
  <2>1. CASE \E host \in {Here, h.host} :
               /\ AppRoot(h) \o rest # <<>>
               /\ Answers(b, RedirectTo(host, AppRoot(h) \o rest), Meant(b, rest))
    <3>1. PICK host \in {Here, h.host} :
            /\ AppRoot(h) \o rest # <<>>
            /\ Answers(b, RedirectTo(host, AppRoot(h) \o rest), Meant(b, rest))
      BY <2>1
    <3>2. PICK a : a = RedirectTo(host, AppRoot(h) \o rest)
      OBVIOUS
    <3>3. IsAnswer(a) /\ a.kind = "redirect" /\ a.host = host /\ a.path = AppRoot(h) \o rest
      <4>. DEFINE p == AppRoot(h) \o rest
      <4>1. a = RedirectTo(host, p)
        BY <3>2
      <4>. HIDE DEF p
      <4>2. IsAnswer(a) /\ a.kind = "redirect" /\ a.host = host /\ a.path = p
        BY <4>1, RedirectMade
      <4>. QED
        BY <4>2 DEF p
    <3>4. Answers(b, a, Meant(b, rest))
      BY <3>1, <3>2, Zenon
    <3>. QED
      BY <3>1, <3>3, <3>4
  <2>2. CASE Answers(b, RedirectTo(Here, Public(h) \o rest), Meant(b, rest))
    <3>1. PICK a : a = RedirectTo(Here, Public(h) \o rest)
      OBVIOUS
    <3>2. IsAnswer(a) /\ a.kind = "redirect" /\ a.host = Here /\ a.path = Public(h) \o rest
      <4>. DEFINE p == Public(h) \o rest
      <4>1. a = RedirectTo(Here, p)
        BY <3>1
      <4>. HIDE DEF p
      <4>2. IsAnswer(a) /\ a.kind = "redirect" /\ a.host = Here /\ a.path = p
        BY <4>1, RedirectMade
      <4>. QED
        BY <4>2 DEF p
    <3>3. Answers(b, a, Meant(b, rest))
      BY <2>2, <3>1, Zenon
    <3>. QED
      BY <3>2, <3>3
  <2>. QED
    BY <1>2, <2>1, <2>2
<1>5. rest \in Seq(Segments)
  BY PathsAssumption, Spelled
<1>. DEFINE m == ModifyResponse(h, a)
<1>6. ASSUME Meant(b, rest) # NoTarget
      PROVE  /\ IsAnswer(m) /\ m.kind \in {"redirect", "page"} /\ m.host = Here
             /\ Link(m) = Public(h) \o rest
  <2>1. InUse(sites, h) /\ h.host # Boreas
    BY <1>1, <1>6, MeantFacts
  <2>2. Public(h) \in Seq(Segments) /\ h.base \in Seq(Segments) /\ AppRoot(h) = h.base /\ h # NoHop
    BY <1>1, <2>1, HopFacts
  <2>3. ~Under(h.base \o rest, Public(h))
    BY <1>1, <2>1, Apart
  <2>. HIDE DEF h
  <2>4. \/ /\ a.host \in {Here, h.host} /\ a.path = h.base \o rest
           /\ a.path # <<>> /\ ~Under(a.path, Public(h))
        \/ a.host = Here /\ a.path = Public(h) \o rest
    BY <1>4, <2>2, <2>3
  <2>5. IsAnswer(m) /\ m.kind = "redirect" /\ m.host = Here /\ m.path = Public(h) \o rest
    BY <1>4, <1>5, <2>2, <2>4, RedirectMoved
  <2>. QED
    BY <2>5, LinkOf
<1>. QED
  BY <1>1, <1>4, <1>5, <1>6, MeantLink

LEMMA PagesLink ==
  ASSUME PathsApart, Inv, LinkInv, NEW b \in Tabs, NEW rest \in Rests, Pages(b, rest)
  PROVE  LinkInv'
<1>. DEFINE h == Last(tab[b].legs).hop
            z == Front(rest) \o <<Asset>>
<1>1. tab[b].at = "upstream" /\ SitesOK(sites) /\ h.path = <<>> /\ rest # <<>>
  BY KnownSites DEF Pages
<1>2. PICK root \in {<<>>, Public(h)} :
        Answers(b, [Answer("page") EXCEPT !.path = root \o rest], Meant(b, z))
  BY Zenon DEF Pages, Asset
<1>. DEFINE a == [Answer("page") EXCEPT !.path = root \o rest]
            m == ModifyResponse(h, a)
<1>3. IsAnswer(a) /\ a.kind = "page" /\ a.host = Here /\ a.path = root \o rest
  BY DEF Answer, IsAnswer
<1>4. rest \in Seq(Segments) /\ <<>> \in Seq(Segments)
  BY PathsAssumption, Spelled, EmptySeq
<1>5. z \in Seq(Segments)
  BY <1>1, <1>4, NextTo
<1>. HIDE DEF z
<1>6. ASSUME Meant(b, z) # NoTarget
      PROVE  /\ IsAnswer(m) /\ m.kind \in {"redirect", "page"} /\ m.host = Here
             /\ Link(m) = Public(h) \o z
  <2>1. InUse(sites, h) /\ h.host # Boreas /\ h = TaskHop(h.task)
    BY <1>1, <1>6, MeantFacts
  <2>2. Public(h) \in Seq(Segments) /\ h # NoHop
    BY <1>1, <2>1, HopFacts
  <2>3. ~Under(h.base \o rest, Public(h))
    BY <1>1, <2>1, Apart
  <2>4. h.base = <<>>
    BY <2>1 DEF TaskHop
  <2>5. <<>> \o rest = rest
    BY <1>4, ConcatEmptySeq
  <2>. HIDE DEF h, a
  <2>6. (a.path = rest /\ ~Under(rest, Public(h))) \/ a.path = Public(h) \o rest
    <3>1. ~Under(rest, Public(h))
      BY <2>3, <2>4, <2>5
    <3>2. CASE root = <<>>
      BY <1>3, <2>5, <3>1, <3>2
    <3>3. CASE root = Public(h)
      BY <1>3, <3>3
    <3>. QED
      BY <1>2, <3>2, <3>3
  <2>7. IsAnswer(m) /\ m.kind = "page" /\ m.host = Here /\ m.path = Public(h) \o rest
    BY <1>1, <1>3, <1>4, <2>2, <2>6, PageMoved
  <2>8. Front(Public(h) \o rest) \o <<Asset>> = Public(h) \o z
    BY <1>1, <1>4, <2>2, NextTo DEF z
  <2>. QED
    BY <2>7, <2>8, LinkOf
<1>7. Answers(b, a, Meant(b, z))
  BY <1>2
<1>. HIDE DEF a
<1>. QED
  BY <1>1, <1>5, <1>6, <1>7, MeantLink

LEMMA AppLink ==
  ASSUME PathsApart, Inv, LinkInv, NEW b \in Tabs, AppNext(b)
  PROVE  LinkInv'
<1>1. CASE Shows(b) \/ SetsCookie(b)
  <2>1. PICK a : tab[b].at = "upstream" /\ Answers(b, a, NoTarget)
    BY <1>1 DEF Shows, SetsCookie
  <2>. QED
    BY <2>1, AnswersLink
<1>2. CASE \E rest \in Rests : Redirects(b, rest)
  BY <1>2, RedirectsLink
<1>3. CASE \E rest \in Rests : Pages(b, rest)
  BY <1>3, PagesLink
<1>. QED
  BY <1>1, <1>2, <1>3 DEF AppNext

LEMMA BackLegs ==
  ASSUME Inv, LinkInv, NEW b \in Tabs, tab[b].at = "back"
  PROVE  LET u == tab[b]
         IN /\ IsTab(u) /\ IsAnswer(u.answer)
            /\ u.expects # NoTarget => Good(sites, Returned(u), u.expects)
            /\ \/ \E l : u.legs = <<l>> /\ Returned(u) = ModifyResponse(l.hop, u.answer)
               \/ \E k, l : /\ u.legs = <<k, l>>
                            /\ Returned(u) = ModifyResponse(k.hop, ModifyResponse(l.hop, u.answer))
<1>. DEFINE u == tab[b]
<1>1. /\ IsTab(u) /\ IsAnswer(u.answer)
      /\ u.expects # NoTarget => Good(sites, Returned(u), u.expects)
  BY DEF Inv, TabsInv, TabOK, AnswerOK, LinkInv, AimOK
<1>2. One(u.legs) \/ Two(u.legs)
  BY Returning DEF BackFirst, BackAgain
<1>3. CASE One(u.legs)
  <2>1. PICK l : l = u.legs[1] /\ u.legs = <<l>>
    BY <1>3 DEF One
  <2>2. Returned(u) = ModifyResponse(l.hop, u.answer)
    BY <1>3, <2>1, OneNotTwo DEF Returned
  <2>. QED
    BY <1>1, <2>1, <2>2
<1>4. CASE Two(u.legs)
  <2>1. PICK k, l : k = u.legs[1] /\ l = u.legs[2] /\ u.legs = <<k, l>>
    BY <1>4 DEF Two
  <2>2. Returned(u) = ModifyResponse(k.hop, ModifyResponse(l.hop, u.answer))
    BY <1>4, <2>1 DEF Returned
  <2>. QED
    BY <1>1, <2>1, <2>2
<1>. QED
  BY <1>2, <1>3, <1>4

LEMMA PassLink ==
  ASSUME Inv, LinkInv, NEW b \in Tabs, Pass(b)
  PROVE  LinkInv'
<1>. DEFINE u == tab[b]
            v == [u EXCEPT !.answer = Handed(b), !.legs = Front(@)]
<1>1. /\ u.at = "back" /\ Len(u.legs) > 1 /\ sites' = sites
      /\ tab' = [tab EXCEPT ![b] = v]
  BY DEF Pass, Inv, TabsInv
<1>2. IsTab(u) /\ (u.expects # NoTarget => Good(sites, Returned(u), u.expects))
  BY <1>1, BackLegs
<1>3. PICK k, l : u.legs = <<k, l>> /\ Returned(u) = ModifyResponse(k.hop, ModifyResponse(l.hop, u.answer))
  <2>1. ASSUME NEW l, u.legs = <<l>>
        PROVE  FALSE
    BY <1>1, <2>1, MadeOne
  <2>. QED
    BY <1>1, <2>1, BackLegs
<1>4. Front(u.legs) = <<k>> /\ Last(u.legs) = l
  BY <1>3, MadeTwo
<1>5. Handed(b) = ModifyResponse(l.hop, u.answer)
  BY <1>4 DEF Handed
<1>6. v.at = "back" /\ v.answer = Handed(b) /\ v.legs = <<k>> /\ v.expects = u.expects
  BY <1>1, <1>2, <1>4 DEF IsTab
<1>. HIDE DEF v
<1>7. WayOK(v) /\ AimOK(sites, v)
  BY <1>2, <1>3, <1>5, <1>6, BackOne
<1>. QED
  BY <1>1, <1>7, LinkStep

LEMMA DeliverLink ==
  ASSUME Inv, LinkInv, NEW b \in Tabs, Deliver(b)
  PROVE  LinkInv'
<1>. DEFINE u == tab[b]
            a == Handed(b)
            link == Leg(Link(a), {}, a.keep /\ u.legs[1].typed, FALSE)
            w == IF Linked(a) THEN [IdleTab EXCEPT !.at = "link", !.expects = u.expects, !.legs = <<link>>]
                 ELSE IdleTab
<1>1. u.at = "back" /\ Len(u.legs) = 1 /\ sites' = sites
  BY DEF Deliver
<1>2. tab' = [tab EXCEPT ![b] = w]
  BY Zenon DEF Deliver
<1>3. u.expects # NoTarget => Good(sites, Returned(u), u.expects)
  BY <1>1, BackLegs
<1>4. Returned(u) = a
  <2>1. \A k, l : Len(<<k, l>>) = 2
    BY OfTwo
  <2>2. PICK l : u.legs = <<l>> /\ Returned(u) = ModifyResponse(l.hop, u.answer)
    BY <1>1, <2>1, BackLegs
  <2>3. Last(u.legs) = l
    BY <2>2, MadeOne
  <2>. QED
    BY <2>2, <2>3 DEF Handed
<1>5. link.path = Link(a)
  BY DEF Leg
<1>. HIDE DEF a, link
<1>6. CASE Linked(a)
  <2>1. w.at = "link" /\ w.expects = u.expects /\ w.legs = <<link>>
    BY <1>6 DEF IdleTab
  <2>. HIDE DEF w
  <2>2. w.legs[1] = link
    BY <2>1, MadeOne
  <2>3. w.expects # NoTarget => Leads(sites, link.path, w.expects)
    BY <1>3, <1>4, <1>5, <1>6, <2>1 DEF Good, Linked
  <2>4. WayOK(w) /\ AimOK(sites, w)
    BY <2>1, <2>2, <2>3, NotSent
  <2>. QED
    BY <1>1, <1>2, <2>4, LinkStep
<1>7. CASE ~Linked(a)
  <2>1. w.at = "idle"
    BY <1>7 DEF IdleTab
  <2>. HIDE DEF w
  <2>2. WayOK(w) /\ AimOK(sites, w)
    BY <2>1, NotSent
  <2>. QED
    BY <1>1, <1>2, <2>2, LinkStep
<1>. QED
  BY <1>6, <1>7

\* The hops a request went by stay what they are, whatever is registered.
LEMMA ChangeLink ==
  ASSUME Inv, LinkInv, NEW t \in Tasks, RegistryNext(t)
  PROVE  LinkInv'
<1>1. tab' = [b \in Tabs |-> [tab[b] EXCEPT !.expects = NoTarget]]
  BY DEF RegistryNext, Register, Unregister, SetRoutes, SetLock, Change
<1>2. ASSUME NEW b \in Tabs
      PROVE  WayOK(tab'[b]) /\ AimOK(sites', tab'[b])
  <2>. DEFINE v == [tab[b] EXCEPT !.expects = NoTarget]
  <2>1. IsTab(tab[b]) /\ WayOK(tab[b])
    BY DEF Inv, TabsInv, TabOK, LinkInv
  <2>2. v.at = tab[b].at /\ v.legs = tab[b].legs /\ v.expects = NoTarget
    BY <2>1 DEF IsTab
  <2>. HIDE DEF v
  <2>3. WayOK(v) /\ \A s : AimOK(s, v)
    BY <2>1, <2>2 DEF WayOK, AimOK
  <2>. QED
    BY <1>1, <2>3 DEF v
<1>. QED
  BY <1>2 DEF LinkInv

LEMMA InitLink == Init => LinkInv
<1>. SUFFICES ASSUME Init
              PROVE  LinkInv
  OBVIOUS
<1>1. IdleTab.at = "idle"
  BY DEF IdleTab
<1>2. WayOK(IdleTab) /\ AimOK(sites, IdleTab)
  BY <1>1, NotSent
<1>. QED
  BY <1>2 DEF Init, LinkInv

LEMMA NextLink ==
  ASSUME PathsApart
  PROVE  Inv /\ LinkInv /\ [Next]_vars => LinkInv'
<1>. SUFFICES ASSUME Inv, LinkInv, [Next]_vars
              PROVE  LinkInv'
  OBVIOUS
<1>1. ASSUME NEW b \in Tabs, ServeHTTP(b)
      PROVE  LinkInv'
  BY <1>1, StraysLink, AskPasswordLink, UnlockLink, ByRouteLink, AddSlashLink, ByTaskLink,
     PassLink, DeliverLink DEF ServeHTTP
<1>2. CASE DayPasses
  BY <1>2 DEF DayPasses, LinkInv
<1>3. CASE UNCHANGED vars
  BY <1>3 DEF vars, LinkInv
<1>. QED
  BY <1>1, <1>2, <1>3, BrowseLink, AppLink, ChangeLink DEF Next

\* A link that an app gives in its own paths, or below the prefix it was told of,
\* comes back to the path it meant (rewriteLocation, base, rewrite), through any
\* names, locks and routes, and Boreas itself.  PathsApart is what the code cannot
\* tell: an app's own path that begins like its public one is taken for public.
THEOREM LinksArrive == PathsApart => (Spec => []RedirectsArrive)
<1>. SUFFICES ASSUME PathsApart
              PROVE  Spec => []RedirectsArrive
  OBVIOUS
<1>1. Inv /\ LinkInv => RedirectsArrive
  <2>. SUFFICES ASSUME Inv, LinkInv, NEW b \in Tabs, tab[b].expects # NoTarget
                PROVE  /\ tab[b].at = "upstream" => /\ tab[b].up.host = tab[b].expects.host
                                                    /\ tab[b].up.path = tab[b].expects.path
                       /\ tab[b].at = "back" => tab[b].answer.kind \notin {"missed", "loop"}
                       /\ (tab[b].at = "back" /\ Len(tab[b].legs) = 1) => Handed(b).host = Here
    BY DEF RedirectsArrive
  <2>. DEFINE u == tab[b]
  <2>1. u.at = "upstream" => u.up.host = u.expects.host /\ u.up.path = u.expects.path
    BY DEF LinkInv, AimOK
  <2>2. ASSUME u.at = "back"
        PROVE  /\ u.answer.kind \notin {"missed", "loop"}
               /\ Len(u.legs) = 1 => Handed(b).host = Here
    <3>1. ASSUME NEW a, IsAnswer(a), NEW h
          PROVE  IsAnswer(ModifyResponse(h, a)) /\ ModifyResponse(h, a).kind = a.kind
      <4>1. CASE h = NoHop
        BY <3>1, <4>1 DEF ModifyResponse
      <4>2. CASE h # NoHop
        BY <3>1, <4>2, HandedLink
      <4>. QED
        BY <4>1, <4>2
    <3>2. IsAnswer(u.answer) /\ Good(sites, Returned(u), u.expects)
      BY <2>2, BackLegs
    <3>3. CASE \E l : u.legs = <<l>> /\ Returned(u) = ModifyResponse(l.hop, u.answer)
      <4>1. PICK l : u.legs = <<l>> /\ Returned(u) = ModifyResponse(l.hop, u.answer)
        BY <3>3
      <4>2. Handed(b) = Returned(u)
        BY <4>1, MadeOne DEF Handed
      <4>3. Returned(u).kind = u.answer.kind
        BY <3>1, <3>2, <4>1
      <4>. QED
        BY <3>2, <4>2, <4>3 DEF Good
    <3>4. CASE \E k, l : /\ u.legs = <<k, l>>
                         /\ Returned(u) = ModifyResponse(k.hop, ModifyResponse(l.hop, u.answer))
      <4>1. PICK k, l : /\ u.legs = <<k, l>>
                        /\ Returned(u) = ModifyResponse(k.hop, ModifyResponse(l.hop, u.answer))
        BY <3>4
      <4>2. Returned(u).kind = u.answer.kind
        BY <3>1, <3>2, <4>1
      <4>3. Len(u.legs) = 2
        BY <4>1, MadeTwo
      <4>. QED
        BY <3>2, <4>2, <4>3 DEF Good
    <3>. QED
      BY <2>2, <3>3, <3>4, BackLegs
  <2>. QED
    BY <2>1, <2>2
<1>2. Inv /\ LinkInv /\ [Next]_vars => LinkInv'
  BY NextLink
<1>. QED
  BY <1>1, <1>2, InitLink, InitInv, NextInv, PTL DEF Spec
=============================================================================
