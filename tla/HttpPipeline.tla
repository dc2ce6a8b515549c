---------------------------- MODULE HttpPipeline ----------------------------
(***************************************************************************)
(* The request pipeline of microfox-http.  BaseFilter scans the list of    *)
(* filters, sorts what matches and calls the filters as a nested chain;    *)
(* SecurityFilter looks the route up and guards the rest of the chain;     *)
(* BaseServlet looks the route up again and calls it; handleExceptionMapper *)
(* answers failures.  Meanwhile callers change the registries of           *)
(* ResourceHolder: FILTERS is a plain ArrayList, ROUTES a concurrent set.  *)
(* Requests are not event streams (SseBroker has those) and their method   *)
(* is one that HttpMethod knows.                                           *)
(***************************************************************************)
EXTENDS Integers, Sequences, SequencesExt, FiniteSets

CONSTANTS Requests, Changers,
          Filters,        \* FilterInfo objects, Security among them
          Security,       \* the FilterInfo of SecurityFilter
          FilterMatches,  \* the filters whose pattern matches the requests
          RouteInfos,
          RouteMatches,   \* the routes that match the requests, method and pattern
          Key,            \* RouteInfo -> path and method, what equals compares
          Category,       \* category of a filter or a route
          InitialSort,    \* FilterInfo -> the sort it is created with
          StartFilters, StartRoutes,  \* registered before the first request
          Stack,          \* bound on nested calls of handleExceptionMapper
          MaxChanges,     \* bound on the calls that change a registry: on the sum of
          FilterCost, RouteCost,  \* what each call on FILTERS and on ROUTES counts
          NoCategory, NoFilter, NoRoute

ASSUME ConstantsAssumption ==
    /\ Security \in Filters /\ FilterMatches \subseteq Filters
    /\ RouteMatches \subseteq RouteInfos
    /\ NoFilter \notin Filters /\ NoRoute \notin RouteInfos
    /\ InitialSort \in [Filters -> Int]
    /\ StartFilters \in Seq(Filters) /\ StartRoutes \in Seq(RouteInfos)
    /\ \A i, j \in 1..Len(StartFilters) : i # j => StartFilters[i] # StartFilters[j]
    /\ \A i \in 1..Len(StartFilters) : StartFilters[i] # Security
    /\ \A i, j \in 1..Len(StartRoutes) : i # j => Key[StartRoutes[i]] # Key[StartRoutes[j]]
    /\ Stack \in Nat \ {0} /\ MaxChanges \in Nat
    /\ FilterCost \in Nat \ {0} /\ RouteCost \in Nat \ {0}

VARIABLES filters,     \* FILTERS: the elements below its size, NoFilter where null
          modCount,    \* modCount of FILTERS
          sort,        \* FilterInfo -> its sort
          routes,      \* ROUTES in the order in which its iterator gives them
          request,     \* request -> where it is
          change,      \* caller -> its change under way
          lasting,     \* caller -> routes registered all through its removal of a
                       \* category, which its traversal of ROUTES is sure to meet
          changes,     \* changes begun so far, by what they count
          stayed,      \* history: request -> filters listed throughout its scan
          shifted,     \* history: requests whose scan a removal overlapped
          rerouted     \* history: requests that saw a change of ROUTES

registries == <<filters, modCount, sort, routes>>
history == <<stayed, shifted, rerouted>>
calls == <<change, lasting, changes>>
vars == <<registries, request, calls, history>>

Labels == {"idle", "scan", "apply", "service", "handle", "map", "unwind", "raise",
           "answered", "failed"}
Kinds == {"none", "exception", "error"}
Thrown == {"exception", "error"}

Keys == {Key[x] : x \in RouteInfos}
Categories == {Category[x] : x \in Filters \cup RouteInfos} \ {NoCategory}

\* A request: where it is,
RequestRecords ==
    [pc : Labels,
     cursor : Nat, expected : Nat,  \* the iterator of the scan
     list : Seq(Filters),           \* the matching filters
     index : Nat,                   \* frames of filters on the stack
     guard : Nat,                   \* the frame whose try of applySecurity is active
     checked : RouteInfos \cup {NoRoute},
     served : RouteInfos \cup {NoRoute},  \* what the two look-ups found
     kind : Kinds,                  \* kind of the exception under way
     in : {"none", "security", "service", "doChain"},  \* who called handleExceptionMapper
     depth : 0..Stack,              \* nested calls of handleExceptionMapper
     writer : BOOLEAN,              \* was the response's writer taken?
     thrower : Nat,                 \* history: the frame that threw
     origin : {"none", "scan", "security", "filter", "route", "answer"}]
                                    \* history: where the exception comes from

\* The changes of a caller under way.
Idle == [pc |-> "idle"]
AddCalls == [pc : {"add"}, filter : Filters, at : Nat \ {0}]
RemoveCalls == [pc : {"remove"}, expected : Nat, dead : SUBSET Nat]
SortCalls == [pc : {"sort"}, hashes : Seq(Filters), i : Nat]
CategoryCalls == [pc : {"category"}, category : Categories]
MetCalls == [pc : {"met"}, category : Categories, key : Keys]

ChangeRecords ==
    {Idle} \cup AddCalls \cup RemoveCalls \cup SortCalls \cup CategoryCalls \cup MetCalls

TypeOK ==
    /\ filters \in Seq(Filters \cup {NoFilter})
    /\ modCount \in Nat
    /\ sort \in [Filters -> Int]
    /\ routes \in Seq(RouteInfos)
    /\ \A i, j \in 1..Len(routes) : i # j => Key[routes[i]] # Key[routes[j]]
    /\ request \in [Requests -> RequestRecords]
    /\ \A r \in Requests : request[r].index <= Len(request[r].list)
    /\ change \in [Changers -> ChangeRecords]
    /\ \A c \in Changers : change[c].pc = "sort" => change[c].hashes # <<>>
    /\ lasting \in [Changers -> SUBSET RouteInfos]
    /\ changes \in 0..MaxChanges
    /\ stayed \in [Requests -> SUBSET (Filters \cup {NoFilter})]
    /\ shifted \subseteq Requests /\ rerouted \subseteq Requests

NewRequest ==
    [pc |-> "idle", cursor |-> 0, expected |-> 0, list |-> <<>>, index |-> 0, guard |-> 0,
     checked |-> NoRoute, served |-> NoRoute, kind |-> "none", in |-> "none", depth |-> 0,
     writer |-> FALSE, thrower |-> 0, origin |-> "none"]

Init ==
    /\ filters = <<Security>> \o StartFilters /\ modCount = 0
    /\ sort = InitialSort
    /\ routes = StartRoutes
    /\ request = [r \in Requests |-> NewRequest]
    /\ change = [c \in Changers |-> Idle] /\ changes = 0
    /\ lasting = [c \in Changers |-> {}]
    /\ stayed = [r \in Requests |-> {}] /\ shifted = {} /\ rerouted = {}

Go(r, record) == request' = [request EXCEPT ![r] = record]

\* The positions in S in ascending order: a set of one sequence.
Ascending(S) ==
    {p \in [1..Cardinality(S) -> S] :
        /\ \A i, j \in DOMAIN p : i < j => p[i] < p[j]
        /\ \A n \in S : \E i \in DOMAIN p : p[i] = n}

\* A list without its elements at other positions than those in S.
Kept(list, S) == {[i \in DOMAIN p |-> list[p[i]]] : p \in Ascending(S)}

-----------------------------------------------------------------------------
(* BaseFilter.doFilter and findMatchingFilterInfo.                         *)

Arrive(r) ==
    /\ request[r].pc = "idle"
    /\ Go(r, [request[r] EXCEPT !.pc = "scan", !.expected = modCount])
    /\ stayed' = [stayed EXCEPT ![r] = ToSet(filters)]
    /\ UNCHANGED <<registries, calls, shifted, rerouted>>

Comodified(r) == modCount # request[r].expected

Scanned(r) == request[r].cursor = Len(filters)

\* modCount is a plain field, so the iterator may visit on an old value of it.
Visit(r) ==
    LET q == request[r]
        f == filters[q.cursor + 1]
    IN /\ q.pc = "scan" /\ ~Scanned(r) /\ q.cursor < Len(filters)
       /\ f # NoFilter
       /\ Go(r, [q EXCEPT !.cursor = @ + 1,
                        !.list = IF f \in FilterMatches THEN Append(@, f) ELSE @])
       /\ UNCHANGED <<registries, calls, history>>

\* ConcurrentModificationException, NoSuchElementException or the null element.
ScanThrows(r) ==
    LET q == request[r]
        readable == q.cursor < Len(filters) /\ filters[q.cursor + 1] # NoFilter
    IN /\ q.pc = "scan" /\ ~Scanned(r)
       /\ Comodified(r) \/ ~readable
       /\ Go(r, [q EXCEPT !.pc = "failed", !.origin = "scan", !.kind = "exception"])
       /\ UNCHANGED <<registries, calls, history>>

\* The ways to put n things in another order: p[i] comes to place i.
Orders(n) == {p \in [1..n -> 1..n] : \A k \in 1..n : \E i \in 1..n : p[i] = k}

\* List.sort is stable.
InOrder(list, p) ==
    \A i, j \in DOMAIN list : i < j =>
        \/ sort[list[p[i]]] < sort[list[p[j]]]
        \/ sort[list[p[i]]] = sort[list[p[j]]] /\ p[i] < p[j]

\* While filterSort renumbers the filters, List.sort compares numbers that change
\* under it: it ends with any order, or finds the comparisons contradictory.
SortFilters(r) ==
    LET q == request[r]
        resorting == \E c \in Changers : change[c].pc = "sort"
    IN /\ q.pc = "scan" /\ Scanned(r)
       /\ \/ \E p \in Orders(Len(q.list)) :
                /\ resorting \/ InOrder(q.list, p)
                /\ Go(r, [q EXCEPT !.pc = "apply", !.cursor = 0, !.expected = 0,
                                  !.list = [i \in 1..Len(q.list) |-> q.list[p[i]]]])
          \/ /\ resorting
             /\ Go(r, [q EXCEPT !.pc = "failed", !.origin = "scan", !.kind = "exception"])
       /\ UNCHANGED <<registries, calls, history>>

-----------------------------------------------------------------------------
(* BaseFilter.applyFilter: the frames of the filters are nested, "index"   *)
(* counts those on the stack.                                              *)

\* findMatchingRouteInfo gives the first match in the order of the set's
\* iterator, or none.
FirstMatch(x) ==
    LET Matches(i) == routes[i] \in RouteMatches
    IN \/ /\ x = NoRoute
          /\ \A i \in DOMAIN routes : ~Matches(i)
       \/ \E i \in DOMAIN routes : /\ x = routes[i] /\ Matches(i)
                                   /\ \A j \in 1..i-1 : ~Matches(j)

\* Filters and routes hold the servlet's response; whoever takes its writer takes
\* the output stream from everybody.
Writing(q) == {q, [q EXCEPT !.writer = TRUE]}

NextFilter(r) == request[r].list[request[r].index + 1]
Applying(r) == request[r].pc = "apply" /\ request[r].index < Len(request[r].list)

\* SecurityFilter.handle.  The strategy is code of the application: it lets
\* the request pass, refuses it (an exception inside the try) or dies.
ApplySecurity(r) ==
    LET q == request[r]
    IN /\ Applying(r) /\ NextFilter(r) = Security
       /\ \/ /\ FirstMatch(NoRoute)
             /\ Go(r, [q EXCEPT !.index = @ + 1])
          \/ \E x \in RouteInfos :
                /\ FirstMatch(x)
                /\ \/ Go(r, [q EXCEPT !.index = @ + 1, !.guard = q.index + 1, !.checked = x])
                   \/ Go(r, [q EXCEPT !.pc = "map", !.in = "security", !.kind = "exception",
                                      !.origin = "security", !.checked = x])
                   \/ Go(r, [q EXCEPT !.pc = "raise", !.kind = "error",
                                      !.origin = "security", !.checked = x])
       /\ UNCHANGED <<registries, calls, history>>

\* Any other filter goes on, ends the request (CorsFilter on OPTIONS) or throws.
ApplyFilter(r) ==
    /\ Applying(r) /\ NextFilter(r) # Security
    /\ \E q \in Writing(request[r]) :
          \/ Go(r, [q EXCEPT !.index = @ + 1])
          \/ Go(r, [q EXCEPT !.pc = "unwind"])
          \/ \E k \in Thrown :
                 Go(r, [q EXCEPT !.pc = "raise", !.kind = k, !.origin = "filter",
                                 !.thrower = q.index + 1])
    /\ UNCHANGED <<registries, calls, history>>

\* Mutated form: an off-by-one in the comparison with the size of the list.
DoChainEarly(r) ==
    /\ request[r].pc = "apply" /\ request[r].index + 1 >= Len(request[r].list)
    /\ Go(r, [request[r] EXCEPT !.pc = "service"])
    /\ UNCHANGED <<registries, calls, history>>

\* The chain is at its end: doChain calls the servlet.
DoChain(r) ==
    /\ request[r].pc = "apply" /\ ~Applying(r)
    /\ Go(r, [request[r] EXCEPT !.pc = "service"])
    /\ UNCHANGED <<registries, calls, history>>

\* Mutated form: the look-up goes on after the first match.
ServiceOfLastMatch(r) ==
    LET hits == SelectSeq(routes, LAMBDA x : x \in RouteMatches)
        route == IF hits = <<>> THEN NoRoute ELSE Last(hits)
    IN /\ request[r].pc = "service"
       /\ Go(r, [request[r] EXCEPT !.pc = IF route = NoRoute THEN "unwind" ELSE "handle",
                                 !.served = route])
       /\ UNCHANGED <<registries, calls, history>>

\* BaseServlet.service; without a route it answers 404.
Service(r) ==
    /\ request[r].pc = "service"
    /\ \E x \in RouteInfos \cup {NoRoute} :
          /\ FirstMatch(x)
          /\ Go(r, [request[r] EXCEPT !.pc = IF x = NoRoute THEN "unwind" ELSE "handle",
                                      !.served = x])
    /\ UNCHANGED <<registries, calls, history>>

\* The route of the application.
Handle(r) ==
    /\ request[r].pc = "handle"
    /\ \E q \in Writing(request[r]) :
          \/ Go(r, [q EXCEPT !.pc = "unwind"])
          \/ \E k \in Thrown :
                 Go(r, [q EXCEPT !.pc = "map", !.in = "service", !.kind = k, !.origin = "route"])
    /\ UNCHANGED <<registries, calls, history>>

-----------------------------------------------------------------------------
(* HttpHelper.handleExceptionMapper.  Which mappers are registered and     *)
(* what they do is up to the application.                                  *)

\* The exception is dealt with: the innermost frame goes on.
Handled(q) == [q EXCEPT !.pc = "unwind", !.in = "none", !.kind = "none", !.depth = 0,
                        !.origin = "none", !.thrower = 0]

\* What follows when the call made by service, doChain or applySecurity returns.
Mapped(r) ==
    /\ request[r].pc = "map"
    /\ Go(r, Handled(request[r]))
    /\ UNCHANGED <<registries, calls, history>>

\* Where handleExceptionMapper itself throws, all its nested calls do: each was
\* made in the catch of the one before.  doChain catches what escapes from service;
\* what escapes from doChain or applySecurity goes up the frames.
Escapes(q, k) ==
    IF q.in = "service"
    THEN [q EXCEPT !.in = "doChain", !.kind = k, !.origin = "answer", !.depth = 0]
    ELSE [q EXCEPT !.pc = "raise", !.in = "none", !.kind = k, !.origin = "answer", !.depth = 0]

\* No mapper: internalServerError needs the output stream, which the response
\* refuses when its writer was taken.
InternalServerErrorThrows(r) ==
    /\ request[r].pc = "map" /\ request[r].writer
    /\ Go(r, Escapes(request[r], "exception"))
    /\ UNCHANGED <<registries, calls, history>>

\* Mutated form: nothing ends the recursion.
MapperThrowsForEver(r) ==
    LET q == request[r]
    IN /\ q.pc = "map"
       /\ \E k \in Thrown : Go(r, [q EXCEPT !.kind = k, !.depth = IF @ < Stack THEN @ + 1 ELSE 0])
       /\ UNCHANGED <<registries, calls, history>>

\* The exception of a mapper, or of sending its body, is mapped in its turn; at
\* the end of the stack there is no further call.
MapperThrows(r) ==
    LET q == request[r]
    IN /\ q.pc = "map"
       /\ IF q.depth < Stack
          THEN \E k \in Thrown : Go(r, [q EXCEPT !.kind = k, !.depth = @ + 1])
          ELSE Go(r, Escapes(q, "error"))
       /\ UNCHANGED <<registries, calls, history>>

-----------------------------------------------------------------------------
(* The frames of the filters return or throw, innermost first.             *)

Popped(q) == [q EXCEPT !.index = @ - 1, !.guard = IF @ = q.index THEN 0 ELSE @]

\* A filter that throws leaves its frame.
Throws(r, out, i) ==
    \E k \in Thrown, q \in Writing(out) :
        Go(r, [q EXCEPT !.pc = "raise", !.kind = k, !.origin = "filter", !.thrower = i])

\* chain.doFilter returns into the innermost frame, which returns or throws.
Unwind(r) ==
    LET q == request[r]
        out == Popped(q)
    IN /\ q.pc = "unwind" /\ q.index > 0
       /\ \/ Go(r, out)
          \/ /\ q.list[q.index] # Security
             /\ Go(r, [out EXCEPT !.writer = TRUE]) \/ Throws(r, out, q.index)
       /\ UNCHANGED <<registries, calls, history>>

Answered(r) ==
    /\ request[r].pc = "unwind" /\ request[r].index = 0
    /\ Go(r, [request[r] EXCEPT !.pc = "answered"])
    /\ UNCHANGED <<registries, calls, history>>

\* Mutated form: applySecurity does not catch what the rest of the chain throws.
RaiseUncaught(r) ==
    LET q == request[r]
        out == Popped(q)
    IN /\ q.pc = "raise" /\ q.index > 0
       /\ \/ Go(r, out)
          \/ /\ q.list[q.index] # Security
             /\ Throws(r, out, q.index) \/ Go(r, Handled(out))
       /\ UNCHANGED <<registries, calls, history>>

\* applySecurity catches exceptions, no errors; other filters let them pass,
\* handle them or throw their own instead.
Raise(r) ==
    LET q == request[r]
        out == Popped(q)
    IN /\ q.pc = "raise" /\ q.index > 0
       /\ \/ /\ q.guard = q.index /\ q.kind = "exception"
             /\ Go(r, [out EXCEPT !.pc = "map", !.in = "security"])
          \/ /\ q.guard # q.index \/ q.kind = "error"
             /\ Go(r, out)
          \/ /\ q.list[q.index] # Security
             /\ \/ Throws(r, out, q.index)
                \/ \E o \in Writing(out) :
                      Go(r, o) \/ Go(r, Handled(o))
       /\ UNCHANGED <<registries, calls, history>>

\* The exception leaves BaseFilter: the container answers.
Fail(r) ==
    /\ request[r].pc = "raise" /\ request[r].index = 0
    /\ Go(r, [request[r] EXCEPT !.pc = "failed"])
    /\ UNCHANGED <<registries, calls, history>>

-----------------------------------------------------------------------------
(* Changes of FILTERS.  The steps of two callers may mix: the list has no  *)
(* lock.                                                                   *)

Begin(c, todo, cost) ==
    /\ change[c].pc = "idle" /\ changes + cost <= MaxChanges
    /\ change' = [change EXCEPT ![c] = todo]
    /\ changes' = changes + cost

End(c) == change' = [change EXCEPT ![c] = Idle] /\ UNCHANGED changes

Scanning == {r \in Requests : request[r].pc = "scan"}

Relist(list) ==
    /\ filters' = list
    /\ stayed' = [r \in Requests |-> IF r \in Scanning THEN stayed[r] \cap ToSet(list) ELSE stayed[r]]

\* ArrayList.add: the position is read before the element is stored.
AddFilter(c, f) ==
    /\ f \notin ToSet(filters)
    /\ \A d \in Changers : change[d].pc = "add" => change[d].filter # f
    /\ Begin(c, [pc |-> "add", filter |-> f, at |-> Len(filters) + 1], FilterCost)
    /\ modCount' = modCount + 1
    /\ UNCHANGED <<filters, sort, routes, request, lasting, history>>

StoreFilter(c) ==
    LET a == change[c]
    IN /\ a.pc = "add"
       /\ Relist([i \in 1..a.at |-> CASE i = a.at -> a.filter
                                      [] i < a.at /\ i <= Len(filters) -> filters[i]
                                      [] OTHER -> NoFilter])
       /\ End(c)
       /\ UNCHANGED <<modCount, sort, routes, request, lasting, shifted, rerouted>>

\* removeIf marks first; a null element or category throws before anything is removed.
RemoveFilter(c, category) ==
    /\ IF \E i \in DOMAIN filters : filters[i] = NoFilter \/ Category[filters[i]] = NoCategory
       THEN Begin(c, Idle, FilterCost)
       ELSE Begin(c, [pc |-> "remove", expected |-> modCount,
                      dead |-> {i \in DOMAIN filters : Category[filters[i]] = category}], FilterCost)
    /\ UNCHANGED <<registries, request, lasting, history>>

\* ConcurrentModificationException, or the rest of the list moves up.
CompactFilters(c) ==
    LET a == change[c]
    IN /\ a.pc = "remove"
       /\ IF modCount = a.expected /\ a.dead # {}
          THEN /\ \E list \in Kept(filters, DOMAIN filters \ a.dead) : Relist(list)
               /\ modCount' = modCount + 1
               /\ shifted' = shifted \cup Scanning
          ELSE UNCHANGED <<filters, modCount, stayed, shifted>>
       /\ End(c)
       /\ UNCHANGED <<sort, routes, request, lasting, rerouted>>

FilterSort(c, hashes) ==
    /\ Begin(c, [pc |-> "sort", hashes |-> hashes, i |-> 0], FilterCost)
    /\ UNCHANGED <<registries, request, lasting, history>>

\* getFilterByHash stops at the first hit, and throws at a null hash before it.
SortFilter(c) ==
    LET a == change[c]
        Hits == {i \in DOMAIN filters : filters[i] = Head(a.hashes)}
        Nulls == {i \in DOMAIN filters : filters[i] = NoFilter \/ Category[filters[i]] = NoCategory}
        throws == \E i \in Nulls : \A j \in Hits : i <= j
    IN /\ a.pc = "sort"
       /\ sort' = IF Hits = {} \/ throws THEN sort ELSE [sort EXCEPT ![Head(a.hashes)] = a.i]
       /\ change' = [change EXCEPT ![c] =
                       IF throws \/ Len(a.hashes) = 1 THEN Idle
                       ELSE [a EXCEPT !.hashes = Tail(@), !.i = @ + 1]]
       /\ UNCHANGED <<filters, modCount, routes, request, lasting, changes, history>>

-----------------------------------------------------------------------------
(* Changes of ROUTES.                                                      *)

\* history: the requests between the look-ups of SecurityFilter and BaseServlet
Between == {r \in Requests : /\ request[r].pc \in {"apply", "service"}
                             /\ \E j \in 1..request[r].index : request[r].list[j] = Security}

Reroute(list) ==
    /\ routes' = list
    /\ rerouted' = rerouted \cup Between
    /\ lasting' = [c \in Changers |-> lasting[c] \cap ToSet(list)]

\* Mutated form: the registry does not compare routes.
AddRouteAlways(c, x) ==
    /\ Begin(c, Idle, RouteCost)
    /\ \E order \in SetToSeqs(ToSet(routes) \cup {x}) : Reroute(order)
    /\ UNCHANGED <<filters, modCount, sort, request, stayed, shifted>>

\* Adding is ignored when an equal route is there; it may rehash the set.
AddRoute(c, x) ==
    /\ Begin(c, Idle, RouteCost)
    /\ IF \E y \in ToSet(routes) : Key[y] = Key[x]
       THEN UNCHANGED <<routes, lasting, rerouted>>
       ELSE \E order \in SetToSeqs(ToSet(routes) \cup {x}) : Reroute(order)
    /\ UNCHANGED <<filters, modCount, sort, request, stayed, shifted>>

Without(key) == Kept(routes, {i \in DOMAIN routes : Key[routes[i]] # key})

RemoveRoute(c, key) ==
    /\ Begin(c, Idle, RouteCost)
    /\ \E list \in Without(key) : Reroute(list)
    /\ UNCHANGED <<filters, modCount, sort, request, stayed, shifted>>

\* removeRoute(category) walks through ROUTES while others change it.
RemoveCategory(c, category) ==
    /\ Begin(c, [pc |-> "category", category |-> category], RouteCost)
    /\ lasting' = [lasting EXCEPT ![c] = ToSet(routes)]
    /\ UNCHANGED <<registries, request, history>>

\* The traversal comes to a route of the category, which may be a newcomer, ...
MeetRoute(c) ==
    LET a == change[c]
    IN /\ a.pc = "category"
       /\ \E y \in ToSet(routes) :
             /\ Category[y] = a.category
             /\ change' = [change EXCEPT ![c] = [pc |-> "met", category |-> a.category,
                                                key |-> Key[y]]]
       /\ UNCHANGED <<registries, request, lasting, changes, history>>

\* Mutated form: the method is not compared.
RemoveNextByPath(c) ==
    LET a == change[c]
    IN /\ a.pc = "met"
       /\ Reroute(SelectSeq(routes, LAMBDA y : Key[y][1] # a.key[1]))
       /\ change' = [change EXCEPT ![c] = [pc |-> "category", category |-> a.category]]
       /\ UNCHANGED <<filters, modCount, sort, request, changes, stayed, shifted>>

\* ... and whatever is registered with its path and method now is removed.
RemoveNext(c) ==
    LET a == change[c]
    IN /\ a.pc = "met"
       /\ \E list \in Without(a.key) : Reroute(list)
       /\ change' = [change EXCEPT ![c] = [pc |-> "category", category |-> a.category]]
       /\ UNCHANGED <<filters, modCount, sort, request, changes, stayed, shifted>>

\* The traversal has met every route that was there all the time.
CategoryRemoved(c) ==
    /\ change[c].pc = "category"
    /\ \A x \in lasting[c] : Category[x] # change[c].category
    /\ End(c)
    /\ lasting' = [lasting EXCEPT ![c] = {}]
    /\ UNCHANGED <<registries, request, history>>

-----------------------------------------------------------------------------
RequestStep(r) ==
    \/ Visit(r) \/ ScanThrows(r) \/ SortFilters(r)
    \/ ApplySecurity(r) \/ ApplyFilter(r) \/ DoChain(r) \/ Service(r) \/ Handle(r)
    \/ Mapped(r) \/ InternalServerErrorThrows(r) \/ MapperThrows(r)
    \/ Unwind(r) \/ Answered(r) \/ Raise(r) \/ Fail(r)

ChangeStep(c) ==
    \/ StoreFilter(c) \/ CompactFilters(c) \/ SortFilter(c)
    \/ MeetRoute(c) \/ RemoveNext(c) \/ CategoryRemoved(c)

Hashed == {f \in Filters : Category[f] # NoCategory}

ChangeBegins(c) ==
    \/ \E f \in Filters : AddFilter(c, f)
    \/ \E g \in Categories : RemoveFilter(c, g) \/ RemoveCategory(c, g)
    \/ \E f, g \in Hashed : f # g /\ FilterSort(c, <<f, g>>)
    \/ \E x \in RouteInfos : AddRoute(c, x)
    \/ \E key \in Keys : RemoveRoute(c, key)

Next ==
    \/ \E r \in Requests : Arrive(r) \/ RequestStep(r)
    \/ \E c \in Changers : ChangeBegins(c) \/ ChangeStep(c)

Spec == Init /\ [][Next]_vars

\* A thread of the container or of a caller goes on once it has begun; that the
\* filters, the strategy, the route and the mappers return or throw is assumed.
Fairness == /\ \A r \in Requests : WF_vars(RequestStep(r))
            /\ \A c \in Changers : WF_vars(ChangeStep(c))

FairSpec == Spec /\ Fairness

-----------------------------------------------------------------------------
\* A request that gets through to the servlet has passed every matching filter
\* that was listed all through its scan of FILTERS, whatever registrations ran
\* beside it (they may even lose one another's filters, or make the scan fail).
\* Only a removal can make the scan pass over a filter that stays: it moves the
\* list up under the cursor (HttpHelper.findMatchingFilterInfo).
EveryFilterRuns ==
    \A r \in Requests \ shifted :
        LET q == request[r]
        IN q.pc = "service" => stayed[r] \cap FilterMatches \subseteq {q.list[i] : i \in 1..q.index}

\* A filter that throws is inside a SecurityFilter which found a route (and
\* inside every SecurityFilter of its request, should the list have it twice).
Guarded(q) == q.checked # NoRoute /\ \A j \in q.thrower..Len(q.list) : q.list[j] # Security

\* Which exceptions reach the container, past doChain and the try of
\* applySecurity: those of the scan, those of a filter that runs outside a
\* SecurityFilter which found a route, and errors.  What the route throws, a
\* refusal and a guarded filter's exception always go to handleExceptionMapper;
\* it fails itself only where a filter or the route had taken the writer, in
\* each of the calls that handle one another's failure, or where the mappers
\* threw until the stack was at its end.
FailuresAreMapped ==
    \A r \in Requests :
        LET q == request[r]
        IN q.pc = "failed" =>
             \/ q.origin = "scan"
             \/ q.origin = "filter" /\ (q.kind = "error" \/ ~Guarded(q))
             \/ q.origin = "security" /\ q.kind = "error"
             \/ q.origin = "answer" /\ (q.kind = "error" \/ q.writer)

\* The servlet serves the route that SecurityFilter has checked, unless ROUTES
\* changed between the two look-ups, each of which takes the first match
\* (SecurityFilter.handle, BaseServlet.service).
ServedAsChecked ==
    [][\A r \in Requests \ rerouted' :
         /\ request[r].pc = "service" /\ request'[r].pc # "service"
         /\ Security \in ToSet(request[r].list)
         => request'[r].served = request[r].checked]_vars

\* removeRoute(category) goes through the routes one by one, by path and method,
\* while others add and remove routes; yet it never removes a route of another
\* category that was registered all the time since the call began
\* (HttpProviderImpl.removeRoute).  Of a route that came, or came back, meanwhile
\* this is not true: it may have the path and method of one that was met.
OthersKeepTheirRoutes ==
    [][\A c \in Changers :
         change[c].pc \in {"category", "met"} /\ change'[c] # change[c]
         => {x \in lasting[c] : Category[x] # change[c].category} \subseteq ToSet(routes')]_vars

\* A request whose scan began gets an answer or is left to the container, even
\* if every mapper throws (HttpHelper.handleExceptionMapper calls itself then).
EveryRequestEnds ==
    \A r \in Requests : request[r].pc = "scan" ~> request[r].pc \in {"answered", "failed"}

-----------------------------------------------------------------------------
(* The inductive invariant.                                                *)

\* A filter is listed once, and one that is being added is not yet listed.
ListInv ==
    /\ \A i, j \in 1..Len(filters) : filters[i] # NoFilter /\ filters[i] = filters[j] => i = j
    /\ \A c \in Changers : change[c].pc = "add" =>
          /\ change[c].filter \notin ToSet(filters)
          /\ \A d \in Changers \ {c} : change[d].pc = "add" => change[d].filter # change[c].filter

\* What lasts is registered, and the path and method that a removal by category
\* goes after are those of no lasting route of another category.
CategoryInv ==
    \A c \in Changers :
        /\ lasting[c] \subseteq ToSet(routes)
        /\ change[c].pc \notin {"category", "met"} => lasting[c] = {}
        /\ change[c].pc = "met" =>
              \A x \in lasting[c] : Key[x] = change[c].key => Category[x] = change[c].category

\* The filters that a request cannot miss any more, or has not come to yet.
ScanFits(r, q) ==
    LET Has(f) == \E i \in 1..Len(q.list) : q.list[i] = f
        Ahead(f) == \E i \in q.cursor + 1..Len(filters) : filters[i] = f
    IN /\ q.pc = "idle" => q.cursor = 0 /\ q.list = <<>>
       /\ q.pc = "scan" => stayed[r] \subseteq ToSet(filters)
       /\ q.pc = "scan" /\ r \notin shifted =>
             \A f \in stayed[r] \cap FilterMatches : Has(f) \/ Ahead(f)
       /\ q.pc \in {"apply", "service"} /\ r \notin shifted =>
             \A f \in stayed[r] \cap FilterMatches : Has(f)

Passed(q) == \E j \in 1..q.index : q.list[j] = Security

\* The try of applySecurity that is active belongs to a SecurityFilter on the
\* stack, and there is one when a route was found and no SecurityFilter has
\* returned or is still to come.
GuardFits(q) ==
    /\ q.pc \in {"idle", "scan"} => q.index = 0 /\ q.checked = NoRoute
    /\ q.pc \in {"service", "handle"} => q.index = Len(q.list)
    /\ q.guard <= q.index
    /\ q.guard > 0 => q.list[q.guard] = Security
    /\ q.pc \in {"apply", "service", "handle"} /\ q.checked # NoRoute => q.guard > 0
    /\ q.checked # NoRoute /\ (\A j \in q.index + 1..Len(q.list) : q.list[j] # Security)
          => q.guard > 0

\* What is on its way up the stack, and what has reached the container: a guarded
\* exception of a filter is still below the try that will catch it.
RaiseFits(q) ==
    /\ q.pc = "raise" =>
          /\ q.kind \in Thrown
          /\ \/ q.origin = "filter" /\ (q.kind = "error" \/ ~Guarded(q) \/ q.guard > 0)
             \/ q.origin = "security" /\ q.kind = "error"
             \/ q.origin = "answer" /\ (q.kind = "error" \/ q.writer)
    /\ q.pc = "failed" =>
          \/ q.origin = "scan"
          \/ q.origin = "filter" /\ (q.kind = "error" \/ ~Guarded(q))
          \/ q.origin = "security" /\ q.kind = "error"
          \/ q.origin = "answer" /\ (q.kind = "error" \/ q.writer)

\* What SecurityFilter found is what BaseServlet would find now.
CheckFits(r, q) ==
    q.pc \in {"apply", "service"} /\ r \notin rerouted =>
        IF Passed(q) THEN FirstMatch(q.checked) ELSE q.checked = NoRoute

RequestInv ==
    \A r \in Requests : /\ ScanFits(r, request[r]) /\ GuardFits(request[r])
                        /\ RaiseFits(request[r]) /\ CheckFits(r, request[r])

IInv == TypeOK /\ ListInv /\ CategoryInv /\ RequestInv
=============================================================================
