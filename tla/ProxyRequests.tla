--------------------------- MODULE ProxyRequests ---------------------------
(***************************************************************************)
(* Requests through the proxy: Registry.ServeHTTP and a hop's rewriting    *)
(* (internal/infra/proxy/registry.go) and the lock before a task           *)
(* (lock.go), between one browser with its cookies and the apps behind.    *)
(* What a registry holds, and when, is TaskLifecycle's; here it changes    *)
(* under the requests, which keep the site they looked up.                 *)
(*                                                                         *)
(* A path is the sequence of its segments, and a trailing slash an empty   *)
(* last one: "/p/web/" is <<"p", "web", "">>.  All tasks are of one        *)
(* project and fold to sites of their own.  The address of a task's        *)
(* container is the task's name; a route may lead to Boreas itself, whose  *)
(* own request is then a second leg of the browser's.  Queries, escapes,   *)
(* bodies and headers that only inform the app are left out.               *)
(***************************************************************************)
EXTENDS Naturals, FiniteSets, Sequences, SequencesExt

CONSTANTS
  Project,
  Tasks,       \* tasks, under the names they are registered with
  Means,       \* Means[n]: the task that a name, in whatever case, folds to
  Backends,    \* the hosts routes lead to
  Boreas,      \* the host where Boreas listens, for a route that leads to it
  Hashes,      \* Hashes[t]: the bcrypt hashes that t's passwords get
  NoHash,
  Offered,     \* Offered[t]: the sets of routes an Update of t may ask for
  Rests,       \* what a path may have after a public path or an app's root
  Tabs,
  MaxChanges   \* bound on the changes of the registry

Hosts == Tasks \cup Backends
Here == ""     \* a URL without a host
AllHashes == UNION {Hashes[t] : t \in Tasks}

ASSUME ProxyAssumption ==
  /\ Tasks \subseteq DOMAIN Means /\ \A t \in Tasks : Means[t] = t
  /\ \A n \in DOMAIN Means : Means[n] \in Tasks
  /\ Boreas \notin Hosts /\ Here \notin Hosts \cup {Boreas}
  /\ \A s, t \in Tasks : s # t => Hashes[s] \cap Hashes[t] = {}
  /\ NoHash \notin AllHashes /\ Tasks \cap AllHashes = {}
  /\ MaxChanges \in Nat

VARIABLES
  sites,    \* the registry: container, routes and lock of each task
  spent,    \* hashes that were replaced; bcrypt's salt makes each a new one
  changes,  \* how often the registry changed
  jar,      \* the browser's cookies
  entered,  \* history: <<t, h>> when the password behind h was given for t today
  in,       \* history: the lock whose cookie t gave the browser last, today
  tab       \* what each tab of the browser is at

vars == <<sites, spent, changes, jar, entered, in, tab>>

-----------------------------------------------------------------------------
(* Routes and hops. *)

\* CleanRouteURL: empty segments and the trailing slash go.
CleanBase(base) == SelectSeq(base, LAMBDA s : s # "")

CleanPath(p) == IF p # <<>> /\ Last(p) = "" THEN Front(p) ELSE p

CleanRoute(r) == [path |-> CleanPath(r.path), host |-> r.host, base |-> CleanBase(r.base)]

\* What CleanRoutes accepts: twenty paths below the task, each once.
Acceptable(routes) ==
  /\ Cardinality(routes) <= 20
  /\ \A r \in routes : CleanPath(r.path) # <<>> /\ "" \notin Range(CleanPath(r.path))
  /\ \A q, r \in routes : CleanPath(q.path) = CleanPath(r.path) => q = r

RoutesOf ==
  [t \in Tasks |-> {{CleanRoute(r) : r \in routes} : routes \in {o \in Offered[t] : Acceptable(o)}}]

EmptySite == [up |-> FALSE, routes |-> {}, lock |-> NoHash]

\* One way through the proxy; the container's has the empty path.
TaskHop(t) == [task |-> t, path |-> <<>>, host |-> t, base |-> <<>>]
RouteHop(t, r) == [task |-> t, path |-> r.path, host |-> r.host, base |-> r.base]
NoHop == [task |-> Here]

Public(h) == <<Project, h.task>> \o h.path

Under(path, prefix) == IsPrefix(prefix, path)
After(path, prefix) == SubSeq(path, Len(prefix) + 1, Len(path))

\* The first route that matches, when the longest paths come first.
Longest(routes) == CHOOSE r \in routes : \A q \in routes : Len(q.path) <= Len(r.path)

\* An empty path is asked for as the root.
Rooted(path) == IF path = <<>> THEN <<"">> ELSE path

\* An app is served from a directory, whatever slash a route's address ends in.
AppRoot(h) == SelectSeq(h.base, LAMBDA s : s # "")

ASSUME RoutesAssumption ==
  \A t \in Tasks : \A routes \in RoutesOf[t] :
    /\ \A r \in routes : r.path \in Seq(STRING) /\ r.path # <<>>
    /\ \A some \in SUBSET routes : some # {} => \E r \in some : \A q \in some : Len(q.path) <= Len(r.path)

\* What a route's address is cleaned to, an app behind it sees as its root.
ASSUME PathsAssumption ==
  /\ Rests \subseteq Seq(STRING)
  /\ \A t \in Tasks :
       /\ AppRoot(TaskHop(t)) = <<>>
       /\ \A routes \in RoutesOf[t] : \A r \in routes :
            r.base \in Seq(STRING) /\ AppRoot(RouteHop(t, r)) = r.base

\* No app has paths of its own that begin like the public path it is served under:
\* rewriteLocation and base cannot tell them from paths that are public already.
PathsApart ==
  \A t \in Tasks, rest \in Rests :
    /\ ~Under(rest, Public(TaskHop(t)))
    /\ \A routes \in RoutesOf[t] : \A r \in routes :
         r.host # Boreas => ~Under(r.base \o rest, Public(RouteHop(t, r)))

-----------------------------------------------------------------------------
(* Cookies and the lock's signature. *)

LockCookie(t, hash) == [name |-> "boreas_lock", at |-> <<Project, t>>, value |-> hash, fresh |-> TRUE]

\* What the browser sends with a path: a cookie for /p/t/ goes to all below it.
Sent(path) == {c \in jar : IsStrictPrefix(c.at, path)}

Stored(cookies) ==
  cookies \cup {c \in jar : \A d \in cookies : <<c.name, c.at>> # <<d.name, d.at>>}

\* As if any lock's signature would do.
ValidForAnyone(c, hash) == c.name = "boreas_lock" /\ c.fresh

\* A cookie opens the lock whose hash signed it, until its day is over.
Valid(c, hash) == c.name = "boreas_lock" /\ c.value = hash /\ c.fresh

DropLockCookie(cookies) == {c \in cookies : c.name # "boreas_lock"}

-----------------------------------------------------------------------------
(* What a hop does to a request and to its answer. *)

Leg(path, cookies, typed, routed) ==
  [path |-> path, cookies |-> cookies, typed |-> typed, routed |-> routed, hop |-> NoHop, lock |-> NoHash]

\* As if a route did not mark what it sends.
RewriteUnmarked(h, leg) ==
  Leg(Rooted(h.base \o After(leg.path, Public(h))), DropLockCookie(leg.cookies), leg.typed, leg.routed)

\* rewrite: the path under the target's, without the lock's cookie, marked by a route.
Rewrite(h, leg) ==
  Leg(Rooted(h.base \o After(leg.path, Public(h))), DropLockCookie(leg.cookies), leg.typed,
      leg.routed \/ h.path # <<>>)

\* As if a path that is public already were moved again.
RewriteAnyLocation(h, a) ==
  IF a.host \in {Here, h.host} /\ a.path # <<>> /\ Under(a.path, h.base)
  THEN [a EXCEPT !.host = Here, !.path = Public(h) \o After(a.path, h.base)]
  ELSE a

\* rewriteLocation: the target's own redirects go under the public path; other
\* hosts, paths the target does not serve and paths already public stay.
RewriteLocation(h, a) ==
  IF /\ a.host \in {Here, h.host}
     /\ a.path # <<>> /\ Under(a.path, h.base) /\ ~Under(a.path, Public(h))
  THEN [a EXCEPT !.host = Here, !.path = Public(h) \o After(a.path, h.base)]
  ELSE a

\* As if an app's own path were left to its cookies.
CookiesAsSet(h, a) == a

\* rewriteCookies: tasks share one origin, so a cookie gets its task's path.
RewriteCookies(h, a) == [a EXCEPT !.cookies = {[c EXCEPT !.at = <<Project, h.task>>] : c \in @}]

\* base: a page of the container has its <base> moved under the task.
RewriteBase(h, a) ==
  IF h.path # <<>> \/ Under(a.path, Public(h)) THEN a ELSE [a EXCEPT !.path = Public(h) \o @]

ModifyResponse(h, a) ==
  IF h = NoHop THEN a
  ELSE CASE a.kind = "redirect" -> RewriteCookies(h, RewriteLocation(h, a))
         [] a.kind = "page" -> RewriteCookies(h, RewriteBase(h, a))
         [] OTHER -> RewriteCookies(h, a)

Answer(kind) == [kind |-> kind, host |-> Here, path |-> <<>>, cookies |-> {}, keep |-> FALSE]

-----------------------------------------------------------------------------
(* The browser.  typed tells whether a form of the lock page sends the      *)
(* right password; a wrong one gets what none does.                         *)

NoTarget == [host |-> Here]

IdleTab == [at |-> "idle", legs |-> <<>>, answer |-> Answer("plain"), up |-> NoTarget,
            expects |-> NoTarget, held |-> NoHash]

Addressed(path) == Len(path) >= 2 /\ path[1] = Project /\ path[2] \in DOMAIN Means
TaskAt(path) == Means[path[2]]
Bare(path) == Len(path) = 2
SiteAt(path) == IF Addressed(path) THEN sites[TaskAt(path)] ELSE EmptySite

\* A new request; what the tab expects of it is its link's, if it follows one.
Request(b, path, typed, expects) ==
  /\ tab' = [tab EXCEPT ![b] =
       [IdleTab EXCEPT !.at = "sent", !.legs = <<Leg(path, Sent(path), typed, FALSE)>>, !.expects = expects,
                       !.held = IF Addressed(path) THEN in[TaskAt(path)] ELSE NoHash]]
  /\ UNCHANGED <<sites, spent, changes, jar, entered, in>>

Visit(b, name, rest, typed) ==
  /\ tab[b].at \in {"idle", "link"}
  /\ Request(b, <<Project, name>> \o rest, typed, NoTarget)

Follow(b) ==
  /\ tab[b].at = "link"
  /\ Request(b, tab[b].legs[1].path, tab[b].legs[1].typed, tab[b].expects)

-----------------------------------------------------------------------------
(* ServeHTTP: each action is one of its ways out, for the site looked up.   *)

Serving(b) == tab[b].at = "sent"
Asked(b) == Last(tab[b].legs)
Site(b) == SiteAt(Asked(b).path)

Misspelt(b) == Site(b) # EmptySite /\ Asked(b).path[2] # TaskAt(Asked(b).path)

\* As if the lock were asked before the name.
LockedFirst(b) ==
  /\ Site(b).lock # NoHash /\ ~Bare(Asked(b).path)
  /\ \A c \in Asked(b).cookies : ~Valid(c, Site(b).lock)

\* The task's bare path redirects before the lock, whose cookie is for all below it.
Locked(b) ==
  /\ ~Misspelt(b) /\ Site(b).lock # NoHash /\ ~Bare(Asked(b).path)
  /\ \A c \in Asked(b).cookies : ~Valid(c, Site(b).lock)

Open(b) == Serving(b) /\ ~Misspelt(b) /\ ~Locked(b)

Routed(b) == {r \in Site(b).routes : Under(Asked(b).path, Public(RouteHop(TaskAt(Asked(b).path), r)))}

Say(b, a) == tab' = [tab EXCEPT ![b].at = "back", ![b].answer = a]

Miss(b) ==
  /\ Open(b) /\ Routed(b) = {} /\ ~Site(b).up
  /\ Say(b, Answer("missed"))
  /\ UNCHANGED <<sites, spent, changes, jar, entered, in>>

Rename(b) ==
  /\ Serving(b) /\ Misspelt(b)
  /\ Say(b, [Answer("redirect") EXCEPT !.path = [Asked(b).path EXCEPT ![2] = Means[@]], !.keep = TRUE])
  /\ UNCHANGED <<sites, spent, changes, jar, entered, in>>

\* Nothing or a wrong password was typed, or there were too many tries, anyone's.
AskPassword(b) ==
  /\ Serving(b) /\ Locked(b)
  /\ tab' = [tab EXCEPT ![b].at = "back", ![b].answer = Answer("lock"),
                        ![b].legs[Len(tab[b].legs)].lock = Site(b).lock]
  /\ UNCHANGED <<sites, spent, changes, jar, entered, in>>

Unlock(b) ==
  /\ Serving(b) /\ Locked(b) /\ Asked(b).typed
  /\ LET t == TaskAt(Asked(b).path)
         h == Site(b).lock
     IN /\ Say(b, [Answer("redirect") EXCEPT !.path = Asked(b).path, !.cookies = {LockCookie(t, h)}])
        /\ entered' = entered \cup {<<t, h>>}
  /\ UNCHANGED <<sites, spent, changes, jar, in>>

\* The request leaves through a hop, to Boreas again or to the app it awaits.
Dispatch(b, h) ==
  LET leg == [Asked(b) EXCEPT !.hop = h, !.lock = Site(b).lock]
      out == Rewrite(h, leg)
      legs == Append(Front(tab[b].legs), leg)
  IN /\ tab' = [tab EXCEPT ![b] = IF h.host = Boreas
                  THEN [@ EXCEPT !.legs = Append(legs, out)]
                  ELSE [@ EXCEPT !.at = "upstream", !.legs = legs,
                                 !.up = [host |-> h.host, path |-> out.path, cookies |-> out.cookies]]]
     /\ UNCHANGED <<sites, spent, changes, jar, entered, in>>

\* Only a route marks its requests, so a marked one may not take a route again.
Loop(b) ==
  /\ Open(b) /\ Routed(b) # {} /\ Asked(b).routed
  /\ Say(b, Answer("loop"))
  /\ UNCHANGED <<sites, spent, changes, jar, entered, in>>

ByRoute(b) ==
  /\ Open(b) /\ Routed(b) # {} /\ ~Asked(b).routed
  /\ Dispatch(b, RouteHop(TaskAt(Asked(b).path), Longest(Routed(b))))

AddSlash(b) ==
  /\ Open(b) /\ Routed(b) = {} /\ Site(b).up /\ Bare(Asked(b).path)
  /\ Say(b, [Answer("redirect") EXCEPT !.path = Asked(b).path \o <<"">>, !.keep = TRUE])
  /\ UNCHANGED <<sites, spent, changes, jar, entered, in>>

ByTask(b) ==
  /\ Open(b) /\ Routed(b) = {} /\ Site(b).up /\ ~Bare(Asked(b).path)
  /\ Dispatch(b, TaskHop(TaskAt(Asked(b).path)))

-----------------------------------------------------------------------------
(* The app's answers. *)

\* Hops of the registry as it is, and those that a longer route of the task cuts into.
Current(h) == \/ h.path = <<>> /\ sites[h.task].up
              \/ \E r \in sites[h.task].routes : h = RouteHop(h.task, r)
Shadowed(h, rest) == \E r \in sites[h.task].routes : IsStrictPrefix(h.path, r.path) /\ Under(h.path \o rest, r.path)
Split(h) == \E r \in sites[h.task].routes : IsStrictPrefix(h.path, r.path)

\* Where the app means a link to lead that goes on from its root with rest.  It is
\* known when the way here is still the registry's and no longer route takes the
\* link, which is what such a route is for.
Meant(b, rest) ==
  LET h == Last(tab[b].legs).hop
  IN IF /\ \A i \in 1..Len(tab[b].legs) : Current(tab[b].legs[i].hop)
        /\ ~Shadowed(h, rest)
        /\ \A i \in 1..(Len(tab[b].legs) - 1) : ~Split(tab[b].legs[i].hop)
     THEN [host |-> h.host, path |-> Rooted(AppRoot(h) \o rest)] ELSE NoTarget

Answers(b, a, expects) ==
  /\ tab' = [tab EXCEPT ![b].at = "back", ![b].answer = a, ![b].up = NoTarget, ![b].expects = expects]
  /\ UNCHANGED <<sites, spent, changes, jar, entered, in>>

\* A page that needs nothing more, or fail's when the app cannot be reached.
Shows(b) == tab[b].at = "upstream" /\ Answers(b, Answer("plain"), NoTarget)

\* A cookie for the whole host.  Its value is the task whose URL was asked.
SetsCookie(b) ==
  /\ tab[b].at = "upstream"
  /\ Answers(b, [Answer("plain") EXCEPT !.cookies =
    {[name |-> "app", at |-> <<>>, value |-> tab[b].legs[1].hop.task, fresh |-> TRUE]}], NoTarget)

\* A redirect to a path of the app's own, with its host or without, or to one
\* below the prefix it was told of.
Redirects(b, rest) ==
  LET h == Last(tab[b].legs).hop
      to(host, path) == [Answer("redirect") EXCEPT !.host = host, !.path = path]
  IN /\ tab[b].at = "upstream"
     /\ \/ \E host \in {Here, h.host} :
             /\ AppRoot(h) \o rest # <<>>
             /\ Answers(b, to(host, AppRoot(h) \o rest), Meant(b, rest))
        \/ Answers(b, to(Here, Public(h) \o rest), Meant(b, rest))

\* A page of the container whose <base> is a path, one of its own or below the prefix.
Pages(b, rest) ==
  LET h == Last(tab[b].legs).hop
      asset == Front(rest) \o <<"asset">>
      page(path) == [Answer("page") EXCEPT !.path = path]
  IN /\ tab[b].at = "upstream" /\ h.path = <<>> /\ rest # <<>>
     /\ \E root \in {<<>>, Public(h)} : Answers(b, page(root \o rest), Meant(b, asset))

-----------------------------------------------------------------------------
(* Back to the browser. *)

\* The answer of a leg, as its hop hands it on.
Handed(b) == ModifyResponse(Last(tab[b].legs).hop, tab[b].answer)

Pass(b) ==
  /\ tab[b].at = "back" /\ Len(tab[b].legs) > 1
  /\ tab' = [tab EXCEPT ![b].answer = Handed(b), ![b].legs = Front(@)]
  /\ UNCHANGED <<sites, spent, changes, jar, entered, in>>

\* A redirect or a page on this host gives the tab a link to follow.
Linked(a) == a.kind \in {"redirect", "page"} /\ a.host = Here

\* Where a page's or a redirect's link leads: what a page loads is next to its base.
Link(a) == IF a.kind = "page" THEN Front(a.path) \o <<"asset">> ELSE a.path

Deliver(b) ==
  /\ tab[b].at = "back" /\ Len(tab[b].legs) = 1
  /\ LET a == Handed(b)
     IN /\ jar' = Stored(a.cookies)
        /\ in' = [t \in Tasks |->
             LET own == {c \in a.cookies : c.at = <<Project, t>> /\ c.value \in Hashes[t]}
             IN IF own = {} THEN in[t] ELSE (CHOOSE c \in own : TRUE).value]
        /\ tab' = [tab EXCEPT ![b] =
             IF Linked(a)
             THEN [IdleTab EXCEPT !.at = "link", !.expects = tab[b].expects,
                     !.legs = <<Leg(Link(a), {}, a.keep /\ tab[b].legs[1].typed, FALSE)>>]
             ELSE IdleTab]
  /\ UNCHANGED <<sites, spent, changes, entered>>

\* No request takes a day: the lock's cookies end between two.
DayPasses ==
  /\ \A b \in Tabs : tab[b].at \in {"idle", "link"}
  /\ jar' = {[c EXCEPT !.fresh = @ /\ c.name # "boreas_lock"] : c \in jar}
  /\ entered' = {} /\ in' = [t \in Tasks |-> NoHash]
  /\ UNCHANGED <<sites, spent, changes, tab>>

-----------------------------------------------------------------------------
(* The registry changes; what a tab expects is then no longer known.        *)

Change(t, site) ==
  /\ changes < MaxChanges /\ site # sites[t]
  /\ sites' = [sites EXCEPT ![t] = site]
  /\ changes' = changes + 1
  /\ tab' = [b \in Tabs |-> [tab[b] EXCEPT !.expects = NoTarget]]
  /\ UNCHANGED <<jar, entered, in>>

Register(t) == Change(t, [sites[t] EXCEPT !.up = TRUE]) /\ UNCHANGED spent
Unregister(t) == Change(t, [sites[t] EXCEPT !.up = FALSE]) /\ UNCHANGED spent
SetRoutes(t) ==
  \E routes \in RoutesOf[t] : Change(t, [sites[t] EXCEPT !.routes = routes]) /\ UNCHANGED spent

\* A password set again, even the same one, has another hash.
SetLock(t) ==
  \E h \in (Hashes[t] \ spent) \cup {NoHash} :
    /\ Change(t, [sites[t] EXCEPT !.lock = h])
    /\ spent' = spent \cup {sites[t].lock}

-----------------------------------------------------------------------------
Init ==
  /\ sites \in [Tasks -> [up : BOOLEAN, routes : UNION {RoutesOf[t] : t \in Tasks}, lock : AllHashes \cup {NoHash}]]
  /\ \A t \in Tasks : sites[t].routes \in RoutesOf[t] /\ sites[t].lock \in Hashes[t] \cup {NoHash}
  /\ spent = {} /\ changes = 0 /\ jar = {} /\ entered = {}
  /\ in = [t \in Tasks |-> NoHash]
  /\ tab = [b \in Tabs |-> IdleTab]

\* What the browser does.
Browse(b) ==
  \/ \E name \in DOMAIN Means, rest \in Rests, typed \in BOOLEAN : Visit(b, name, rest, typed)
  \/ Follow(b)

ServeHTTP(b) ==
  \/ Miss(b)
  \/ Rename(b)
  \/ AskPassword(b)
  \/ Unlock(b)
  \/ Loop(b)
  \/ ByRoute(b)
  \/ AddSlash(b)
  \/ ByTask(b)
  \/ Pass(b)
  \/ Deliver(b)

AppNext(b) ==
  \/ Shows(b)
  \/ SetsCookie(b)
  \/ \E rest \in Rests : Redirects(b, rest)
  \/ \E rest \in Rests : Pages(b, rest)

RegistryNext(t) ==
  \/ Register(t)
  \/ Unregister(t)
  \/ SetRoutes(t)
  \/ SetLock(t)

Next ==
  \/ \E b \in Tabs : Browse(b) \/ ServeHTTP(b) \/ AppNext(b)
  \/ \E t \in Tasks : RegistryNext(t)
  \/ DayPasses

Spec == Init /\ [][Next]_vars

-----------------------------------------------------------------------------
Cookies == [name : {"app"}, at : {<<>>} \cup {<<Project, t>> : t \in Tasks}, value : Tasks, fresh : {TRUE}]
  \cup [name : {"boreas_lock"}, at : {<<Project, t>> : t \in Tasks}, value : AllHashes, fresh : BOOLEAN]

\* Besides the types: a request goes through Boreas twice at most, since a route's
\* mark keeps the second leg from a route, so no two routes send it round for ever.
TypeOK ==
  /\ \A t \in Tasks : /\ sites[t].up \in BOOLEAN
                      /\ sites[t].routes \in RoutesOf[t]
                      /\ sites[t].lock \in Hashes[t] \cup {NoHash}
  /\ spent \subseteq AllHashes \cup {NoHash} /\ changes \in 0..MaxChanges
  /\ jar \subseteq Cookies
  /\ entered \subseteq Tasks \X AllHashes
  /\ \A t \in Tasks : in[t] \in Hashes[t] \cup {NoHash}
  /\ \A b \in Tabs : Len(tab[b].legs) <= 2

\* ServeHTTP, admits: no request gets past a lock, to the container or to a route,
\* unless this browser was given the lock's password since it was set and not a day
\* ago: setting it again, even the same, signs the browser out (README.md:953).
LockKeepsOut ==
  \A b \in Tabs : tab[b].at = "upstream" =>
    \A i \in 1..Len(tab[b].legs) :
      LET leg == tab[b].legs[i] IN leg.lock # NoHash => <<leg.hop.task, leg.lock>> \in entered

\* The cookie of a task's lock gave way to one of a task behind its routes.
Replaced(leg) == \E c \in leg.cookies : c.name = "boreas_lock" /\ c.value \notin Hashes[TaskAt(leg.path)]

\* ServeHTTP, admits: a browser that is in is not asked again, under whatever
\* spelling and path it asks and however many passwords others try (README.md:956).
LockLetsIn ==
  \A b \in Tabs : tab[b].at = "back" /\ tab[b].answer.kind = "lock" =>
    LET leg == tab[b].legs[1]
    IN leg.hop = NoHop => leg.lock # tab[b].held \/ Replaced(leg)

\* Both sides of the lock: whom it keeps out and whom it lets in.
LockKeeps == LockKeepsOut /\ LockLetsIn

\* rewriteCookies, dropLockCookie: what is behind a task's URL sees the cookies
\* that were set under this URL and no other task's, and no lock's at all, although
\* the browser holds all tasks' cookies for one host.
CookiesStayHome ==
  \A b \in Tabs : tab[b].at = "upstream" =>
    \A c \in tab[b].up.cookies : c.name = "app" /\ c.value = tab[b].legs[1].hop.task

\* rewriteLocation, base, rewrite: a link that an app gives in its own paths, or
\* below the prefix it was told of, comes back through names, locks and routes to
\* the path it meant on the host it came from.  That the registry did not change
\* and no longer route takes the path is what Meant asks.
RedirectsArrive ==
  \A b \in Tabs : tab[b].expects # NoTarget =>
    /\ tab[b].at = "upstream" => tab[b].up.host = tab[b].expects.host /\ tab[b].up.path = tab[b].expects.path
    /\ tab[b].at = "back" => tab[b].answer.kind \notin {"missed", "loop"}
    /\ (tab[b].at = "back" /\ Len(tab[b].legs) = 1) => Handed(b).host = Here
=============================================================================
