------------------------- MODULE HttpPipelineProofs -------------------------
(***************************************************************************)
(* Proofs about HttpPipeline, for any requests, callers, filters, routes   *)
(* and strategies, and any number of changes of the registries.            *)
(***************************************************************************)
EXTENDS HttpPipeline, FiniteSetTheorems, TLAPS

\* What the invariant says of one request.
Fits(r, q) == ScanFits(r, q) /\ GuardFits(q) /\ RaiseFits(q) /\ CheckFits(r, q)

-----------------------------------------------------------------------------
(* The operators.                                                          *)

\* Two look-ups of the same registry find the same.
LEMMA FirstMatchUnique ==
  ASSUME NEW x, NEW y, routes \in Seq(RouteInfos), FirstMatch(x), FirstMatch(y)
  PROVE  x = y
<1>1. CASE \A i \in DOMAIN routes : routes[i] \notin RouteMatches
  BY <1>1 DEF FirstMatch
<1>2. CASE \E i \in DOMAIN routes : routes[i] \in RouteMatches
  <2>1. PICK i \in 1..Len(routes) : /\ x = routes[i] /\ routes[i] \in RouteMatches
                                    /\ \A k \in 1..i-1 : routes[k] \notin RouteMatches
    BY <1>2 DEF FirstMatch
  <2>2. PICK j \in 1..Len(routes) : /\ y = routes[j] /\ routes[j] \in RouteMatches
                                    /\ \A k \in 1..j-1 : routes[k] \notin RouteMatches
    BY <1>2 DEF FirstMatch
  <2>3. i = j BY <2>1, <2>2
  <2>4. QED BY <2>1, <2>2, <2>3
<1>3. QED BY <1>1, <1>2

\* What a look-up finds is a route of the registry, or none.
LEMMA FirstMatchType ==
  ASSUME NEW x, routes \in Seq(RouteInfos), FirstMatch(x)
  PROVE  x \in RouteInfos \cup {NoRoute}
  BY DEF FirstMatch

\* The elements of k come from positions in S of the list, no two from the same.
Picks(k, list, S) ==
    /\ \A i \in 1..Len(k) : \E n \in S : k[i] = list[n]
    /\ \A i, j \in 1..Len(k) : i # j =>
          \E m, n \in S : m # n /\ k[i] = list[m] /\ k[j] = list[n]

\* Kept leaves a list of elements that were there, each at a position of its
\* own, and loses none of the positions it is to keep.
LEMMA KeptElements ==
  ASSUME NEW T, NEW list \in Seq(T), NEW S \in SUBSET (1..Len(list)), NEW k \in Kept(list, S)
  PROVE  /\ k \in Seq(T)
         /\ Picks(k, list, S)
         /\ \A n \in S : \E i \in 1..Len(k) : k[i] = list[n]
<1>1. IsFiniteSet(1..Len(list)) BY FS_Interval
<1>2. IsFiniteSet(S) BY <1>1, FS_Subset
<1>3. PICK c \in Nat : c = Cardinality(S) BY <1>2, FS_CardinalityType
<1>4. PICK p \in Ascending(S) : k = [i \in DOMAIN p |-> list[p[i]]] BY DEF Kept
<1>5. /\ p \in [1..c -> S]
      /\ \A i, j \in 1..c : i < j => p[i] < p[j]
      /\ \A n \in S : \E i \in 1..c : p[i] = n
  BY <1>3, <1>4 DEF Ascending
<1>6. /\ k = [i \in 1..c |-> list[p[i]]] /\ \A i \in 1..c : p[i] \in 1..Len(list)
  BY <1>4, <1>5
<1>7. k \in Seq(T) /\ Len(k) = c BY <1>6
<1>8. \A i, j \in 1..c : i # j => p[i] # p[j]
  <2> TAKE i, j \in 1..c
  <2>1. CASE i < j BY <2>1, <1>5, <1>6
  <2>2. CASE j < i BY <2>2, <1>5, <1>6
  <2>3. QED BY <2>1, <2>2
<1>9. \A i \in 1..c : p[i] \in S /\ k[i] = list[p[i]] BY <1>5, <1>6
<1>10. \A n \in S : \E i \in 1..Len(k) : k[i] = list[n]
  <2> TAKE n \in S
  <2>1. PICK i \in 1..c : p[i] = n BY <1>5
  <2>2. QED BY <2>1, <1>7, <1>9
<1>11. \A i, j \in 1..Len(k) : i # j =>
          \E m, n \in S : m # n /\ k[i] = list[m] /\ k[j] = list[n]
  BY <1>7, <1>8, <1>9
<1>12. QED BY <1>7, <1>9, <1>10, <1>11 DEF Picks

-----------------------------------------------------------------------------
(* Steps of requests.                                                      *)

\* Fits of a value that a request has after a step is Fits of the request.
LEMMA FitsNext ==
  ASSUME NEW r, NEW v, v = request'[r], Fits(r, v)'
  PROVE  Fits(r, request[r])'
  BY DEF Fits, ScanFits, GuardFits, RaiseFits, CheckFits, Passed, Guarded, FirstMatch

\* A request that goes where it fits keeps the invariant.
LEMMA RequestGoes ==
  ASSUME IInv, NEW r \in Requests, NEW n \in RequestRecords, n.index <= Len(n.list),
         Go(r, n), Fits(r, n), UNCHANGED <<registries, calls, history>>
  PROVE  IInv'
<1> USE DEF IInv, Go, registries, calls, history
<1>1. request' = [request EXCEPT ![r] = n] /\ request \in [Requests -> RequestRecords]
  BY DEF TypeOK
<1>2. TypeOK' BY <1>1 DEF TypeOK
<1>3. ListInv' /\ CategoryInv' BY DEF ListInv, CategoryInv
<1>4. ASSUME NEW x \in Requests, NEW q, Fits(x, q) PROVE Fits(x, q)'
  <2>1. FirstMatch(q.checked)' <=> FirstMatch(q.checked) BY DEF FirstMatch
  <2>2. QED BY <1>4, <2>1 DEF Fits, ScanFits, GuardFits, RaiseFits, CheckFits
<1>5. ASSUME NEW x \in Requests PROVE Fits(x, request[x])'
  <2>1. PICK v : v = request'[x] OBVIOUS
  <2>2. Fits(x, v)
    <3>1. CASE x = r BY <1>1, <2>1, <3>1
    <3>2. CASE x # r BY <1>1, <2>1, <3>2 DEF RequestInv, Fits
    <3>3. QED BY <3>1, <3>2
  <2>3. QED BY <1>4, <2>1, <2>2, FitsNext
<1>6. RequestInv' BY <1>5 DEF RequestInv, Fits
<1>7. QED BY <1>2, <1>3, <1>6

\* What is known of a request.
LEMMA RequestFacts ==
  ASSUME IInv, NEW r \in Requests
  PROVE  /\ request[r] \in RequestRecords /\ request[r].index <= Len(request[r].list)
         /\ Fits(r, request[r])
  BY DEF IInv, TypeOK, RequestInv, Fits

\* The fields of a request.
LEMMA FieldTypes ==
  ASSUME NEW q \in RequestRecords
  PROVE  /\ q.pc \in Labels /\ q.cursor \in Nat /\ q.expected \in Nat /\ q.list \in Seq(Filters)
         /\ q.index \in Nat /\ q.guard \in Nat /\ q.checked \in RouteInfos \cup {NoRoute}
         /\ q.served \in RouteInfos \cup {NoRoute} /\ q.kind \in Kinds
         /\ q.in \in {"none", "security", "service", "doChain"} /\ q.depth \in 0..Stack
         /\ q.writer \in BOOLEAN /\ q.thrower \in Nat
         /\ q.origin \in {"none", "scan", "security", "filter", "route", "answer"}
         /\ Len(q.list) \in Nat
  BY DEF RequestRecords

\* Taking the writer disturbs nothing.
LEMMA WritingFits ==
  ASSUME NEW r, NEW q \in RequestRecords, Fits(r, q), NEW n \in Writing(q)
  PROVE  /\ n \in RequestRecords /\ Fits(r, n)
         /\ n.pc = q.pc /\ n.list = q.list /\ n.index = q.index /\ n.guard = q.guard
         /\ n.checked = q.checked /\ n.kind = q.kind /\ n.origin = q.origin
         /\ n.thrower = q.thrower
<1>1. CASE n = q BY <1>1
<1>2. CASE n = [q EXCEPT !.writer = TRUE]
  <2>1. /\ n \in RequestRecords /\ n.writer /\ n.cursor = q.cursor
        /\ n.pc = q.pc /\ n.list = q.list /\ n.index = q.index /\ n.guard = q.guard
        /\ n.checked = q.checked /\ n.kind = q.kind /\ n.origin = q.origin
        /\ n.thrower = q.thrower
    BY <1>2 DEF RequestRecords
  <2>2. ScanFits(r, n) BY <2>1 DEF Fits, ScanFits
  <2>3. GuardFits(n) BY <2>1 DEF Fits, GuardFits
  <2>4. RaiseFits(n) BY <2>1 DEF Fits, RaiseFits, Guarded
  <2>5. CheckFits(r, n) BY <2>1 DEF Fits, CheckFits, Passed
  <2>6. QED BY <2>1, <2>2, <2>3, <2>4, <2>5 DEF Fits
<1>3. QED BY <1>1, <1>2 DEF Writing

\* After its scan a request keeps its list.
LEMMA LaterStep ==
  ASSUME IInv, NEW r \in Requests, NEW n \in RequestRecords,
         request[r].pc \notin {"idle", "scan"}, n.pc \notin {"idle", "scan"},
         n.pc \in {"apply", "service"} => request[r].pc \in {"apply", "service"},
         n.list = request[r].list, n.index <= Len(n.list),
         GuardFits(n), RaiseFits(n), CheckFits(r, n), Go(r, n),
         UNCHANGED <<registries, calls, history>>
  PROVE  IInv'
<1>1. ScanFits(r, request[r]) BY RequestFacts DEF Fits
<1>2. ScanFits(r, n) BY <1>1 DEF ScanFits
<1>3. QED BY <1>2, RequestGoes DEF Fits

\* Past the servlet nothing is said of the look-up.
LEMMA EndingStep ==
  ASSUME IInv, NEW r \in Requests, NEW n \in RequestRecords,
         request[r].pc \notin {"idle", "scan"},
         n.pc \in {"handle", "map", "unwind", "raise", "answered", "failed"},
         n.list = request[r].list, n.index <= Len(n.list),
         GuardFits(n), RaiseFits(n), Go(r, n),
         UNCHANGED <<registries, calls, history>>
  PROVE  IInv'
<1>1. CheckFits(r, n) BY DEF CheckFits
<1>2. QED BY <1>1, LaterStep

\* SecurityFilter lets the request pass with a route that it found now, or stops it.
LEMMA ApplySecurityIInv ==
  ASSUME IInv, NEW r \in Requests, ApplySecurity(r)
  PROVE  IInv'
<1>1. PICK q \in RequestRecords : q = request[r] BY RequestFacts
<1>2. /\ q.pc = "apply" /\ q.index < Len(q.list) /\ q.list[q.index + 1] = Security
      /\ UNCHANGED <<registries, calls, history>>
      /\ Fits(r, q) /\ q.index \in Nat /\ q.guard \in Nat /\ Len(q.list) \in Nat
  BY <1>1, RequestFacts, FieldTypes DEF ApplySecurity, Applying, NextFilter
<1>3. ASSUME FirstMatch(NoRoute),
             NEW n, n = [q EXCEPT !.index = @ + 1], Go(r, n)
      PROVE  IInv'
  <2>0. Go(r, n) BY <1>3
  <2>1. q.index + 1 \in Nat BY <1>2
  <2>2. /\ n \in RequestRecords /\ n.pc = "apply" /\ n.list = q.list /\ n.index = q.index + 1
        /\ n.guard = q.guard /\ n.checked = q.checked
    BY <1>2, <1>3, <2>1 DEF RequestRecords
  <2>3. GuardFits(n) BY <1>2, <2>2 DEF Fits, GuardFits
  <2>4. RaiseFits(n) BY <2>2 DEF RaiseFits
  <2>5. CheckFits(r, n)
    <3>1. q.index + 1 \in 1..n.index BY <1>2, <2>2
    <3>2. Passed(n) BY <1>2, <2>2, <3>1 DEF Passed
    <3>3. r \notin rerouted => FirstMatch(q.checked)
      <4>1. CASE Passed(q) BY <1>2, <4>1 DEF Fits, CheckFits
      <4>2. CASE ~Passed(q) BY <1>2, <1>3, <4>2 DEF Fits, CheckFits
      <4>3. QED BY <4>1, <4>2
    <3>4. QED BY <2>2, <3>2, <3>3 DEF CheckFits
  <2>6. QED BY <1>1, <1>2, <2>0, <2>2, <2>3, <2>4, <2>5, LaterStep
<1>4. ASSUME NEW x \in RouteInfos, FirstMatch(x),
             NEW n, n = [q EXCEPT !.index = @ + 1, !.guard = q.index + 1, !.checked = x],
             Go(r, n)
      PROVE  IInv'
  <2>0. Go(r, n) BY <1>4
  <2>1. q.index + 1 \in Nat BY <1>2
  <2>2. /\ n \in RequestRecords /\ n.pc = "apply" /\ n.list = q.list /\ n.index = q.index + 1
        /\ n.guard = q.index + 1 /\ n.checked = x
    BY <1>2, <1>4, <2>1 DEF RequestRecords
  <2>3. GuardFits(n) BY <1>2, <2>2 DEF GuardFits
  <2>4. RaiseFits(n) BY <2>2 DEF RaiseFits
  <2>5. CheckFits(r, n)
    <3>1. q.index + 1 \in 1..n.index BY <1>2, <2>2
    <3>2. Passed(n) BY <1>2, <2>2, <3>1 DEF Passed
    <3>3. QED BY <1>4, <2>2, <3>2 DEF CheckFits
  <2>6. QED BY <1>1, <1>2, <2>0, <2>2, <2>3, <2>4, <2>5, LaterStep
<1>5. ASSUME NEW x \in RouteInfos,
             NEW n, n = [q EXCEPT !.pc = "map", !.in = "security", !.kind = "exception",
                                  !.origin = "security", !.checked = x]
                    \/ n = [q EXCEPT !.pc = "raise", !.kind = "error",
                                     !.origin = "security", !.checked = x],
             Go(r, n)
      PROVE  IInv'
  <2>1. /\ n \in RequestRecords /\ n.list = q.list /\ n.index = q.index /\ n.guard = q.guard
        /\ n.pc = "map" \/ (n.pc = "raise" /\ n.origin = "security" /\ n.kind = "error")
    <3>1. CASE n = [q EXCEPT !.pc = "map", !.in = "security", !.kind = "exception",
                             !.origin = "security", !.checked = x]
      BY <3>1 DEF RequestRecords, Labels, Kinds
    <3>2. CASE n = [q EXCEPT !.pc = "raise", !.kind = "error",
                             !.origin = "security", !.checked = x]
      BY <3>2 DEF RequestRecords, Labels, Kinds
    <3>3. QED BY <1>5, <3>1, <3>2
  <2>2. GuardFits(n)
    <3>1. q.index + 1 \in n.index + 1..Len(n.list) BY <1>2, <2>1
    <3>2. QED BY <1>2, <2>1, <3>1 DEF Fits, GuardFits
  <2>3. RaiseFits(n) BY <2>1 DEF RaiseFits, Thrown
  <2>4. QED BY <1>1, <1>2, <1>5, <2>1, <2>2, <2>3, EndingStep
<1>6. QED BY <1>1, <1>3, <1>4, <1>5 DEF ApplySecurity

\* Another filter goes on, ends the request or throws, which the try around it sees.
LEMMA ApplyFilterIInv ==
  ASSUME IInv, NEW r \in Requests, ApplyFilter(r)
  PROVE  IInv'
<1>0. PICK q \in Writing(request[r]) :
        \/ Go(r, [q EXCEPT !.index = @ + 1])
        \/ Go(r, [q EXCEPT !.pc = "unwind"])
        \/ \E k \in Thrown : Go(r, [q EXCEPT !.pc = "raise", !.kind = k, !.origin = "filter",
                                             !.thrower = q.index + 1])
  BY DEF ApplyFilter
<1>1. /\ q \in RequestRecords /\ Fits(r, q)
      /\ q.pc = request[r].pc /\ q.list = request[r].list /\ q.index = request[r].index
  BY <1>0, RequestFacts, WritingFits
<1>2. /\ q.pc = "apply" /\ q.index < Len(q.list) /\ q.list[q.index + 1] # Security
      /\ UNCHANGED <<registries, calls, history>>
      /\ Fits(r, q) /\ q.index \in Nat /\ q.guard \in Nat /\ Len(q.list) \in Nat
  BY <1>1, FieldTypes DEF ApplyFilter, Applying, NextFilter
<1>3. ASSUME NEW n, n = [q EXCEPT !.index = @ + 1], Go(r, n)
      PROVE  IInv'
  <2>0. Go(r, n) BY <1>3
  <2>1. q.index + 1 \in Nat BY <1>2
  <2>2. /\ n \in RequestRecords /\ n.pc = "apply" /\ n.list = q.list /\ n.index = q.index + 1
        /\ n.guard = q.guard /\ n.checked = q.checked
    BY <1>1, <1>2, <1>3, <2>1 DEF RequestRecords
  <2>3. GuardFits(n) BY <1>2, <2>2 DEF Fits, GuardFits
  <2>4. RaiseFits(n) BY <2>2 DEF RaiseFits
  <2>5. CheckFits(r, n)
    <3>1. Passed(n) <=> Passed(q)
      <4>1. 1..n.index = 1..q.index \cup {q.index + 1} BY <1>2, <2>2
      <4>2. QED BY <1>2, <2>2, <4>1 DEF Passed
    <3>2. QED BY <1>2, <2>2, <3>1 DEF Fits, CheckFits
  <2>6. /\ n.index <= Len(n.list) /\ n.list = request[r].list
        /\ request[r].pc \notin {"idle", "scan"} /\ request[r].pc = "apply"
    BY <1>1, <1>2, <2>2
  <2>7. QED BY <1>2, <2>0, <2>2, <2>3, <2>4, <2>5, <2>6, LaterStep
<1>4. ASSUME NEW n, n = [q EXCEPT !.pc = "unwind"], Go(r, n)
      PROVE  IInv'
  <2>0. Go(r, n) BY <1>4
  <2>2. /\ n \in RequestRecords /\ n.pc = "unwind" /\ n.list = q.list /\ n.index = q.index
        /\ n.guard = q.guard /\ n.checked = q.checked
    BY <1>1, <1>4 DEF RequestRecords, Labels
  <2>3. GuardFits(n) BY <1>2, <2>2 DEF Fits, GuardFits
  <2>4. RaiseFits(n) BY <2>2 DEF RaiseFits
  <2>5. /\ n.index <= Len(n.list) /\ n.list = request[r].list
        /\ request[r].pc \notin {"idle", "scan"} /\ request[r].pc = "apply"
    BY <1>1, <1>2, <2>2
  <2>6. QED BY <1>2, <2>0, <2>2, <2>3, <2>4, <2>5, EndingStep
<1>5. ASSUME NEW k \in Thrown,
             NEW n, Go(r, n),
             n = [q EXCEPT !.pc = "raise", !.kind = k, !.origin = "filter",
                           !.thrower = q.index + 1]
      PROVE  IInv'
  <2>0. Go(r, n) BY <1>5
  <2>1. q.index + 1 \in Nat BY <1>2
  <2>2. /\ n \in RequestRecords /\ n.pc = "raise" /\ n.list = q.list /\ n.index = q.index
        /\ n.guard = q.guard /\ n.checked = q.checked /\ n.kind = k /\ n.origin = "filter"
    BY <1>1, <1>2, <1>5, <2>1 DEF RequestRecords, Labels, Kinds, Thrown
  <2>3. GuardFits(n) BY <1>2, <2>2 DEF Fits, GuardFits
  <2>4. RaiseFits(n)
    <3>1. Guarded(n) => q.guard > 0
      BY <1>2, <1>5, <2>2 DEF Fits, GuardFits, Guarded
    <3>2. QED BY <2>2, <3>1 DEF RaiseFits
  <2>5. /\ n.index <= Len(n.list) /\ n.list = request[r].list
        /\ request[r].pc \notin {"idle", "scan"} /\ request[r].pc = "apply"
    BY <1>1, <1>2, <2>2
  <2>6. QED BY <1>2, <2>0, <2>2, <2>3, <2>4, <2>5, EndingStep
<1>6. QED BY <1>0, <1>3, <1>4, <1>5

\* The chain is at its end: every frame is on the stack.
LEMMA DoChainIInv ==
  ASSUME IInv, NEW r \in Requests, DoChain(r)
  PROVE  IInv'
<1>1. PICK q \in RequestRecords : q = request[r] BY RequestFacts
<1>2. /\ q.pc = "apply" /\ q.index = Len(q.list)
      /\ UNCHANGED <<registries, calls, history>>
      /\ Fits(r, q) /\ q.index \in Nat /\ q.guard \in Nat
  BY <1>1, RequestFacts, FieldTypes DEF DoChain, Applying
<1>3. PICK n : n = [q EXCEPT !.pc = "service"] OBVIOUS
<1>4. Go(r, n) BY <1>1, <1>3 DEF DoChain
<1>5. /\ n \in RequestRecords /\ n.pc = "service" /\ n.list = q.list /\ n.index = q.index
      /\ n.guard = q.guard /\ n.checked = q.checked
  BY <1>3 DEF RequestRecords, Labels
<1>6. GuardFits(n) BY <1>2, <1>5 DEF Fits, GuardFits
<1>7. RaiseFits(n) BY <1>5 DEF RaiseFits
<1>8. CheckFits(r, n) BY <1>2, <1>5 DEF Fits, CheckFits, Passed
<1>9. QED BY <1>1, <1>2, <1>4, <1>5, <1>6, <1>7, <1>8, LaterStep

\* The servlet looks its route up.
LEMMA ServiceIInv ==
  ASSUME IInv, NEW r \in Requests, Service(r)
  PROVE  IInv'
<1>1. PICK q \in RequestRecords : q = request[r] BY RequestFacts
<1>2. /\ q.pc = "service" /\ q.index <= Len(q.list)
      /\ UNCHANGED <<registries, calls, history>>
      /\ Fits(r, q) /\ q.index \in Nat /\ q.guard \in Nat
  BY <1>1, RequestFacts, FieldTypes DEF Service
<1>3. PICK x \in RouteInfos \cup {NoRoute} :
        Go(r, [q EXCEPT !.pc = IF x = NoRoute THEN "unwind" ELSE "handle", !.served = x])
  BY <1>1 DEF Service
<1>4. PICK label \in {"unwind", "handle"} : label = IF x = NoRoute THEN "unwind" ELSE "handle"
  OBVIOUS
<1>5. PICK n : n = [q EXCEPT !.pc = label, !.served = x] OBVIOUS
<1>6. Go(r, n) BY <1>3, <1>4, <1>5
<1>7. /\ n \in RequestRecords /\ n.pc \in {"unwind", "handle"} /\ n.list = q.list
      /\ n.index = q.index /\ n.guard = q.guard /\ n.checked = q.checked
  BY <1>5 DEF RequestRecords, Labels
<1>8. GuardFits(n) BY <1>2, <1>7 DEF Fits, GuardFits
<1>9. RaiseFits(n) BY <1>7 DEF RaiseFits
<1>10. QED BY <1>1, <1>2, <1>6, <1>7, <1>8, <1>9, EndingStep

\* The route returns, or what it throws is mapped.
LEMMA HandleIInv ==
  ASSUME IInv, NEW r \in Requests, Handle(r)
  PROVE  IInv'
<1>0. PICK q \in Writing(request[r]) :
        \/ Go(r, [q EXCEPT !.pc = "unwind"])
        \/ \E k \in Thrown :
              Go(r, [q EXCEPT !.pc = "map", !.in = "service", !.kind = k, !.origin = "route"])
  BY DEF Handle
<1>1. /\ q \in RequestRecords /\ Fits(r, q)
      /\ q.pc = request[r].pc /\ q.list = request[r].list /\ q.index = request[r].index
  BY <1>0, RequestFacts, WritingFits
<1>2. /\ q.pc = "handle" /\ q.index <= Len(q.list)
      /\ UNCHANGED <<registries, calls, history>>
      /\ Fits(r, q) /\ q.index \in Nat /\ q.guard \in Nat
  BY <1>1, RequestFacts, FieldTypes DEF Handle
<1>3. ASSUME NEW k \in Thrown,
             NEW n, n = [q EXCEPT !.pc = "unwind"]
                    \/ n = [q EXCEPT !.pc = "map", !.in = "service", !.kind = k,
                                     !.origin = "route"],
             Go(r, n)
      PROVE  IInv'
  <2>1. /\ n \in RequestRecords /\ n.pc \in {"unwind", "map"} /\ n.list = q.list
        /\ n.index = q.index /\ n.guard = q.guard /\ n.checked = q.checked
    <3>1. CASE n = [q EXCEPT !.pc = "unwind"] BY <1>1, <3>1 DEF RequestRecords, Labels
    <3>2. CASE n = [q EXCEPT !.pc = "map", !.in = "service", !.kind = k, !.origin = "route"]
      BY <1>1, <3>2 DEF RequestRecords, Labels, Kinds, Thrown
    <3>3. QED BY <1>3, <3>1, <3>2
  <2>2. GuardFits(n) BY <1>2, <2>1 DEF Fits, GuardFits
  <2>3. RaiseFits(n) BY <2>1 DEF RaiseFits
  <2>4. Go(r, n) BY <1>3
  <2>5. QED BY <1>1, <1>2, <2>1, <2>2, <2>3, <2>4, EndingStep
<1>4. Thrown # {} BY DEF Thrown
<1>5. QED BY <1>0, <1>3, <1>4

\* What is left of a request whose exception was dealt with.
LEMMA HandledFields ==
  ASSUME NEW q \in RequestRecords, NEW n, n = Handled(q)
  PROVE  /\ n \in RequestRecords /\ n.pc = "unwind" /\ n.list = q.list
         /\ n.index = q.index /\ n.guard = q.guard /\ n.checked = q.checked
<1>1. 0 \in 0..Stack BY ConstantsAssumption
<1>2. QED BY <1>1 DEF Handled, RequestRecords, Labels, Kinds

\* Where handleExceptionMapper throws, the exception goes to doChain's or up the frames.
LEMMA EscapesFields ==
  ASSUME NEW q \in RequestRecords, q.pc = "map", NEW k \in Thrown, NEW n, n = Escapes(q, k)
  PROVE  /\ n \in RequestRecords /\ n.pc \in {"map", "raise"} /\ n.list = q.list
         /\ n.index = q.index /\ n.guard = q.guard /\ n.checked = q.checked
         /\ n.kind = k /\ n.origin = "answer" /\ n.writer = q.writer
<1>1. 0 \in 0..Stack /\ k \in Kinds BY ConstantsAssumption DEF Kinds, Thrown
<1>2. CASE q.in = "service"
  <2>1. n = [q EXCEPT !.in = "doChain", !.kind = k, !.origin = "answer", !.depth = 0]
    BY <1>2 DEF Escapes
  <2>2. QED BY <1>1, <2>1 DEF RequestRecords, Labels
<1>3. CASE q.in # "service"
  <2>1. n = [q EXCEPT !.pc = "raise", !.in = "none", !.kind = k, !.origin = "answer", !.depth = 0]
    BY <1>3 DEF Escapes
  <2>2. QED BY <1>1, <2>1 DEF RequestRecords, Labels
<1>4. QED BY <1>2, <1>3

\* handleExceptionMapper answers, gives up or calls itself.
LEMMA MappingIInv ==
  ASSUME IInv, NEW r \in Requests, Mapped(r) \/ InternalServerErrorThrows(r) \/ MapperThrows(r)
  PROVE  IInv'
<1>1. PICK q \in RequestRecords : q = request[r] BY RequestFacts
<1>2. /\ q.pc = "map" /\ q.index <= Len(q.list)
      /\ UNCHANGED <<registries, calls, history>>
      /\ Fits(r, q) /\ q.index \in Nat /\ q.guard \in Nat /\ q.depth \in 0..Stack
  BY <1>1, RequestFacts, FieldTypes
  DEF Mapped, InternalServerErrorThrows, MapperThrows
<1>3. ASSUME NEW n \in RequestRecords, Go(r, n),
             n.list = q.list, n.index = q.index, n.guard = q.guard, n.checked = q.checked,
             \/ n.pc \in {"unwind", "map"}
             \/ /\ n.pc = "raise" /\ n.origin = "answer" /\ n.kind \in Thrown
                /\ n.kind = "error" \/ n.writer
      PROVE  IInv'
  <2>1. GuardFits(n) BY <1>2, <1>3 DEF Fits, GuardFits
  <2>2. RaiseFits(n) BY <1>3 DEF RaiseFits
  <2>3. QED BY <1>1, <1>2, <1>3, <2>1, <2>2, EndingStep
<1>4. ASSUME NEW k \in Thrown, k = "error" \/ q.writer, Go(r, Escapes(q, k))
      PROVE  IInv'
  <2>1. PICK n : n = Escapes(q, k) OBVIOUS
  <2>2. /\ n \in RequestRecords /\ n.pc \in {"map", "raise"} /\ n.list = q.list
        /\ n.index = q.index /\ n.guard = q.guard /\ n.checked = q.checked
        /\ n.kind = k /\ n.origin = "answer" /\ n.writer = q.writer
    BY <1>2, <2>1, EscapesFields
  <2>3. Go(r, n) BY <1>4, <2>1
  <2>4. QED BY <1>3, <1>4, <2>2, <2>3
<1>5. CASE Mapped(r)
  <2>1. PICK n : n = Handled(q) OBVIOUS
  <2>2. /\ n \in RequestRecords /\ n.pc = "unwind" /\ n.list = q.list
        /\ n.index = q.index /\ n.guard = q.guard /\ n.checked = q.checked
    BY <2>1, HandledFields
  <2>3. Go(r, n) BY <1>1, <1>5, <2>1 DEF Mapped
  <2>4. QED BY <1>3, <2>2, <2>3
<1>6. CASE InternalServerErrorThrows(r)
  <2>1. q.writer /\ Go(r, Escapes(q, "exception")) BY <1>1, <1>6 DEF InternalServerErrorThrows
  <2>2. QED BY <1>4, <2>1 DEF Thrown
<1>7. CASE MapperThrows(r)
  <2>1. CASE q.depth < Stack
    <3>1. PICK k \in Thrown : Go(r, [q EXCEPT !.kind = k, !.depth = @ + 1])
      BY <1>1, <1>7, <2>1 DEF MapperThrows
    <3>2. PICK d : d = q.depth + 1 OBVIOUS
    <3>3. d \in 0..Stack /\ k \in Kinds
      BY <1>2, <2>1, <3>2, ConstantsAssumption DEF Kinds, Thrown
    <3>4. PICK n : n = [q EXCEPT !.kind = k, !.depth = d] OBVIOUS
    <3>5. [q EXCEPT !.kind = k, !.depth = @ + 1] = n BY <3>2, <3>4 DEF RequestRecords
    <3>6. /\ n \in RequestRecords /\ n.pc = "map" /\ n.list = q.list
          /\ n.index = q.index /\ n.guard = q.guard /\ n.checked = q.checked
      BY <1>2, <3>3, <3>4 DEF RequestRecords
    <3>7. Go(r, n) BY <3>1, <3>5
    <3>8. QED BY <1>3, <3>6, <3>7
  <2>2. CASE ~(q.depth < Stack)
    <3>1. Go(r, Escapes(q, "error")) BY <1>1, <1>7, <2>2 DEF MapperThrows
    <3>2. QED BY <1>4, <3>1 DEF Thrown
  <2>3. QED BY <2>1, <2>2
<1>8. QED BY <1>5, <1>6, <1>7

\* When a frame goes, its try goes with it; the try of a SecurityFilter below
\* stays active.
LEMMA PoppedFits ==
  ASSUME NEW q \in RequestRecords, GuardFits(q), q.index > 0, q.index <= Len(q.list),
         NEW n \in RequestRecords,
         n.pc \in {"unwind", "raise", "map"}, n.list = q.list, n.checked = q.checked,
         n.index = q.index - 1, n.guard = IF q.guard = q.index THEN 0 ELSE q.guard
  PROVE  /\ GuardFits(n) /\ n.index <= Len(n.list)
         /\ q.guard > 0 /\ q.guard # q.index => n.guard > 0
         /\ q.checked # NoRoute /\ (\A j \in q.index..Len(q.list) : q.list[j] # Security)
               => n.guard > 0
<1>1. /\ q.index \in Nat /\ q.guard \in Nat /\ Len(q.list) \in Nat
      /\ q.guard <= q.index /\ (q.guard > 0 => q.list[q.guard] = Security)
      /\ q.checked # NoRoute /\ (\A j \in q.index + 1..Len(q.list) : q.list[j] # Security)
          => q.guard > 0
  BY FieldTypes DEF GuardFits
<1>2. n.guard <= n.index BY <1>1
<1>3. q.guard > 0 /\ q.guard # q.index => n.guard > 0 BY <1>1
<1>4. q.checked # NoRoute /\ (\A j \in q.index..Len(q.list) : q.list[j] # Security)
         => n.guard > 0
  <2>1. q.index + 1..Len(q.list) \subseteq q.index..Len(q.list) /\ q.index \in q.index..Len(q.list)
    BY <1>1
  <2>2. QED BY <1>1, <1>3, <2>1
<1>5. n.guard > 0 => n.list[n.guard] = Security BY <1>1
<1>6. n.checked # NoRoute /\ (\A j \in n.index + 1..Len(n.list) : n.list[j] # Security)
          => n.guard > 0
  <2>1. n.index + 1 = q.index BY <1>1
  <2>2. QED BY <1>4, <2>1
<1>7. GuardFits(n) BY <1>2, <1>5, <1>6 DEF GuardFits
<1>8. QED BY <1>1, <1>3, <1>4, <1>7

\* What a frame's going leaves of a request.
LEMMA PoppedFields ==
  ASSUME NEW q \in RequestRecords, q.index > 0, NEW n, n = Popped(q)
  PROVE  /\ n \in RequestRecords /\ n.pc = q.pc /\ n.list = q.list /\ n.checked = q.checked
         /\ n.index = q.index - 1 /\ n.guard = IF q.guard = q.index THEN 0 ELSE q.guard
         /\ n.writer = q.writer /\ n.origin = q.origin /\ n.kind = q.kind
         /\ n.thrower = q.thrower
<1>1. PICK i \in Nat : i = q.index - 1 BY FieldTypes
<1>2. PICK g \in Nat : g = IF q.guard = q.index THEN 0 ELSE q.guard BY FieldTypes
<1>3. n = [q EXCEPT !.index = i, !.guard = g] BY <1>1, <1>2 DEF Popped, RequestRecords
<1>4. QED BY <1>1, <1>2, <1>3 DEF RequestRecords

\* A filter that throws while its frame goes is in the try of the nearest
\* SecurityFilter below it.
LEMMA ThrowsIInv ==
  ASSUME IInv, NEW r \in Requests, NEW q, q = request[r], q.pc \in {"unwind", "raise"},
         q.index > 0, q.list[q.index] # Security, Throws(r, Popped(q), q.index),
         UNCHANGED <<registries, calls, history>>
  PROVE  IInv'
<1>1. /\ q \in RequestRecords /\ q.index <= Len(q.list) /\ GuardFits(q) /\ q.index \in Nat
  BY RequestFacts, FieldTypes DEF Fits
<1>2. PICK k \in Thrown, w \in Writing(Popped(q)) :
        Go(r, [w EXCEPT !.pc = "raise", !.kind = k, !.origin = "filter", !.thrower = q.index])
  BY DEF Throws
<1>3. PICK out \in RequestRecords : out = Popped(q) BY <1>1, PoppedFields
<1>4. /\ out.list = q.list /\ out.checked = q.checked /\ out.index = q.index - 1
      /\ out.guard = IF q.guard = q.index THEN 0 ELSE q.guard
  BY <1>1, <1>3, PoppedFields
<1>5. /\ w \in RequestRecords /\ w.list = q.list /\ w.checked = q.checked
      /\ w.index = q.index - 1 /\ w.guard = IF q.guard = q.index THEN 0 ELSE q.guard
  BY <1>2, <1>3, <1>4 DEF Writing, RequestRecords
<1>6. PICK n : n = [w EXCEPT !.pc = "raise", !.kind = k, !.origin = "filter",
                             !.thrower = q.index]
  OBVIOUS
<1>7. /\ n \in RequestRecords /\ n.pc = "raise" /\ n.list = q.list /\ n.kind = k
      /\ n.checked = q.checked /\ n.index = q.index - 1 /\ n.origin = "filter"
      /\ n.guard = (IF q.guard = q.index THEN 0 ELSE q.guard) /\ n.thrower = q.index
  <2>1. k \in Kinds /\ "raise" \in Labels BY DEF Kinds, Thrown, Labels
  <2>2. PICK i \in Nat : i = q.index BY <1>1
  <2>3. n = [w EXCEPT !.pc = "raise", !.kind = k, !.origin = "filter", !.thrower = i]
    BY <1>6, <2>2
  <2>4. /\ n \in RequestRecords /\ n.pc = "raise" /\ n.list = w.list /\ n.kind = k
        /\ n.checked = w.checked /\ n.index = w.index /\ n.origin = "filter"
        /\ n.guard = w.guard /\ n.thrower = i
    BY <1>5, <2>1, <2>2, <2>3 DEF RequestRecords
  <2>5. QED BY <1>5, <2>2, <2>4
<1>8. /\ GuardFits(n) /\ n.index <= Len(n.list)
      /\ q.checked # NoRoute /\ (\A j \in q.index..Len(q.list) : q.list[j] # Security)
            => n.guard > 0
  BY <1>1, <1>7, PoppedFits
<1>9. RaiseFits(n) BY <1>7, <1>8 DEF RaiseFits, Guarded
<1>10. Go(r, n) BY <1>2, <1>6
<1>11. QED BY <1>1, <1>7, <1>8, <1>9, <1>10, EndingStep

\* The innermost frame returns; a filter that throws now is in the try of the
\* nearest SecurityFilter below it.
LEMMA UnwindIInv ==
  ASSUME IInv, NEW r \in Requests, Unwind(r)
  PROVE  IInv'
<1>1. PICK q \in RequestRecords : q = request[r] BY RequestFacts
<1>2. /\ q.pc = "unwind" /\ q.index > 0 /\ q.index <= Len(q.list)
      /\ UNCHANGED <<registries, calls, history>>
      /\ GuardFits(q) /\ q.index \in Nat
  BY <1>1, RequestFacts, FieldTypes DEF Unwind, Fits
<1>3. PICK out : out = Popped(q) OBVIOUS
<1>4. /\ out \in RequestRecords /\ out.pc = "unwind" /\ out.list = q.list
      /\ out.checked = q.checked /\ out.index = q.index - 1
      /\ out.guard = IF q.guard = q.index THEN 0 ELSE q.guard
  BY <1>2, <1>3, PoppedFields
<1>5. CASE Go(r, out)
  <2>1. GuardFits(out) /\ out.index <= Len(out.list) BY <1>2, <1>4, PoppedFits
  <2>2. RaiseFits(out) BY <1>4 DEF RaiseFits
  <2>3. QED BY <1>1, <1>2, <1>4, <1>5, <2>1, <2>2, EndingStep
<1>6. CASE Go(r, [out EXCEPT !.writer = TRUE])
  <2>1. PICK n : n = [out EXCEPT !.writer = TRUE] OBVIOUS
  <2>2. /\ n \in RequestRecords /\ n.pc = "unwind" /\ n.list = q.list
        /\ n.checked = q.checked /\ n.index = q.index - 1
        /\ n.guard = IF q.guard = q.index THEN 0 ELSE q.guard
    BY <1>4, <2>1 DEF RequestRecords
  <2>3. GuardFits(n) /\ n.index <= Len(n.list) BY <1>2, <2>2, PoppedFits
  <2>4. RaiseFits(n) BY <2>2 DEF RaiseFits
  <2>5. Go(r, n) BY <1>6, <2>1
  <2>6. QED BY <1>1, <1>2, <2>2, <2>3, <2>4, <2>5, EndingStep
<1>7. CASE q.list[q.index] # Security /\ Throws(r, out, q.index)
  BY <1>1, <1>2, <1>3, <1>7, ThrowsIInv
<1>8. QED BY <1>1, <1>3, <1>5, <1>6, <1>7 DEF Unwind

\* The request is answered when no frame is left.
LEMMA AnsweredIInv ==
  ASSUME IInv, NEW r \in Requests, Answered(r)
  PROVE  IInv'
<1>1. PICK q \in RequestRecords : q = request[r] BY RequestFacts
<1>2. /\ q.pc = "unwind" /\ q.index <= Len(q.list)
      /\ UNCHANGED <<registries, calls, history>> /\ GuardFits(q)
  BY <1>1, RequestFacts, FieldTypes DEF Answered, Fits
<1>3. PICK n : n = [q EXCEPT !.pc = "answered"] OBVIOUS
<1>4. Go(r, n) BY <1>1, <1>3 DEF Answered
<1>5. /\ n \in RequestRecords /\ n.pc = "answered" /\ n.list = q.list /\ n.index = q.index
      /\ n.guard = q.guard /\ n.checked = q.checked
  BY <1>3 DEF RequestRecords, Labels
<1>6. GuardFits(n) BY <1>2, <1>5 DEF GuardFits
<1>7. RaiseFits(n) BY <1>5 DEF RaiseFits
<1>8. QED BY <1>1, <1>2, <1>4, <1>5, <1>6, <1>7, EndingStep

\* An exception passes a frame or is caught there: the try that is active
\* catches exceptions, so only an error takes it away.
LEMMA RaiseIInv ==
  ASSUME IInv, NEW r \in Requests, Raise(r)
  PROVE  IInv'
<1>1. PICK q \in RequestRecords : q = request[r] BY RequestFacts
<1>2. /\ q.pc = "raise" /\ q.index > 0 /\ q.index <= Len(q.list)
      /\ UNCHANGED <<registries, calls, history>>
      /\ GuardFits(q) /\ RaiseFits(q) /\ q.index \in Nat
  BY <1>1, RequestFacts, FieldTypes DEF Raise, Fits
<1>3. PICK out : out = Popped(q) OBVIOUS
<1>4. /\ out \in RequestRecords /\ out.pc = "raise" /\ out.list = q.list
      /\ out.checked = q.checked /\ out.index = q.index - 1
      /\ out.guard = IF q.guard = q.index THEN 0 ELSE q.guard
      /\ out.writer = q.writer /\ out.origin = q.origin /\ out.kind = q.kind
      /\ out.thrower = q.thrower
  BY <1>2, <1>3, PoppedFields
<1>5. ASSUME NEW o, o = out \/ o = [out EXCEPT !.writer = TRUE]
      PROVE  /\ o \in RequestRecords /\ o.pc = "raise" /\ o.list = q.list
             /\ o.checked = q.checked /\ o.index = q.index - 1
             /\ o.guard = (IF q.guard = q.index THEN 0 ELSE q.guard)
             /\ (q.writer => o.writer) /\ o.origin = q.origin /\ o.kind = q.kind
             /\ o.thrower = q.thrower
  <2>1. CASE o = out BY <1>4, <2>1
  <2>2. CASE o = [out EXCEPT !.writer = TRUE] BY <1>4, <2>2 DEF RequestRecords
  <2>3. QED BY <1>5, <2>1, <2>2
<1>6. ASSUME NEW o, o = out \/ o = [out EXCEPT !.writer = TRUE],
             NEW n, n = [o EXCEPT !.pc = "map", !.in = "security"] \/ n = Handled(o),
             Go(r, n)
      PROVE  IInv'
  <2>0. /\ o \in RequestRecords /\ o.pc = "raise" /\ o.list = q.list
        /\ o.checked = q.checked /\ o.index = q.index - 1
        /\ o.guard = IF q.guard = q.index THEN 0 ELSE q.guard
    BY <1>5, <1>6
  <2>1. /\ n \in RequestRecords /\ n.pc \in {"map", "unwind"} /\ n.list = q.list
        /\ n.checked = q.checked /\ n.index = q.index - 1
        /\ n.guard = IF q.guard = q.index THEN 0 ELSE q.guard
    <3>1. CASE n = [o EXCEPT !.pc = "map", !.in = "security"]
      BY <2>0, <3>1 DEF RequestRecords, Labels
    <3>2. CASE n = Handled(o) BY <2>0, <3>2, HandledFields
    <3>3. QED BY <1>6, <3>1, <3>2
  <2>2. GuardFits(n) /\ n.index <= Len(n.list) BY <1>2, <2>1, PoppedFits
  <2>3. RaiseFits(n) BY <2>1 DEF RaiseFits
  <2>4. Go(r, n) BY <1>6
  <2>5. QED BY <1>1, <1>2, <2>1, <2>2, <2>3, <2>4, EndingStep
<1>7. ASSUME NEW o, o = out \/ o = [out EXCEPT !.writer = TRUE], Go(r, o),
             q.guard # q.index \/ q.kind = "error"
      PROVE  IInv'
  <2>0. /\ o \in RequestRecords /\ o.pc = "raise" /\ o.list = q.list
        /\ o.checked = q.checked /\ o.index = q.index - 1
        /\ o.guard = (IF q.guard = q.index THEN 0 ELSE q.guard)
        /\ (q.writer => o.writer) /\ o.origin = q.origin /\ o.kind = q.kind
        /\ o.thrower = q.thrower
    BY <1>5, <1>7
  <2>1. /\ GuardFits(o) /\ o.index <= Len(o.list)
        /\ q.guard > 0 /\ q.guard # q.index => o.guard > 0
    BY <1>2, <2>0, PoppedFits
  <2>2. q.guard > 0 => o.kind = "error" \/ o.guard > 0 BY <1>7, <2>0, <2>1
  <2>3. Guarded(o) <=> Guarded(q) BY <2>0 DEF Guarded
  <2>4. RaiseFits(o) BY <1>2, <2>0, <2>2, <2>3 DEF RaiseFits
  <2>5. Go(r, o) BY <1>7
  <2>6. QED BY <1>1, <1>2, <2>0, <2>1, <2>4, <2>5, EndingStep
<1>8. q.list[q.index] # Security => q.guard # q.index BY <1>2 DEF GuardFits
<1>9. CASE q.list[q.index] # Security /\ Throws(r, out, q.index)
  BY <1>1, <1>2, <1>3, <1>9, ThrowsIInv
<1>10. CASE /\ q.list[q.index] # Security
            /\ \E o \in Writing(out) : Go(r, o) \/ Go(r, Handled(o))
  <2>1. PICK o : /\ o = out \/ o = [out EXCEPT !.writer = TRUE]
                 /\ Go(r, o) \/ Go(r, Handled(o))
    BY <1>10 DEF Writing
  <2>2. CASE Go(r, Handled(o)) BY <1>6, <2>1, <2>2
  <2>3. CASE Go(r, o) /\ (q.guard # q.index \/ q.kind = "error") BY <1>7, <2>1, <2>3
  <2>4. QED BY <1>8, <1>10, <2>1, <2>2, <2>3
<1>11. QED BY <1>1, <1>3, <1>6, <1>7, <1>8, <1>9, <1>10 DEF Raise

\* With no frame left no try is active.
LEMMA FailIInv ==
  ASSUME IInv, NEW r \in Requests, Fail(r)
  PROVE  IInv'
<1>1. PICK q \in RequestRecords : q = request[r] BY RequestFacts
<1>2. /\ q.pc = "raise" /\ q.index = 0 /\ q.index <= Len(q.list) /\ q.guard \in Nat
      /\ UNCHANGED <<registries, calls, history>> /\ GuardFits(q) /\ RaiseFits(q)
  BY <1>1, RequestFacts, FieldTypes DEF Fail, Fits
<1>3. PICK n : n = [q EXCEPT !.pc = "failed"] OBVIOUS
<1>4. Go(r, n) BY <1>1, <1>3 DEF Fail
<1>5. /\ n \in RequestRecords /\ n.pc = "failed" /\ n.list = q.list /\ n.index = q.index
      /\ n.guard = q.guard /\ n.checked = q.checked /\ n.writer = q.writer
      /\ n.origin = q.origin /\ n.kind = q.kind /\ n.thrower = q.thrower
  BY <1>3 DEF RequestRecords, Labels
<1>6. GuardFits(n) BY <1>2, <1>5 DEF GuardFits
<1>7. q.guard = 0 BY <1>2 DEF GuardFits
<1>8. RaiseFits(n) BY <1>2, <1>5, <1>7 DEF RaiseFits, Guarded
<1>9. QED BY <1>1, <1>2, <1>4, <1>5, <1>6, <1>8, EndingStep

-----------------------------------------------------------------------------
(* The scan.                                                               *)

\* A request whose list is not complete has entered no filter.
LEMMA Scans ==
  ASSUME NEW r \in Requests, NEW n \in RequestRecords, ScanFits(r, n), n.pc = "scan",
         n.index = 0, n.guard = 0, n.checked = NoRoute
  PROVE  Fits(r, n) /\ n.index <= Len(n.list)
<1>1. Len(n.list) \in Nat BY FieldTypes
<1>2. QED BY <1>1 DEF Fits, GuardFits, RaiseFits, CheckFits

\* The iterator gives the next filter: it is on the list now, if it matches.
LEMMA VisitIInv ==
  ASSUME IInv, NEW r \in Requests, Visit(r)
  PROVE  IInv'
<1>1. PICK q \in RequestRecords : q = request[r] BY RequestFacts
<1>2. /\ q.pc = "scan" /\ q.cursor < Len(filters) /\ filters[q.cursor + 1] # NoFilter
      /\ UNCHANGED <<registries, calls, history>>
      /\ Fits(r, q) /\ q.cursor \in Nat /\ q.list \in Seq(Filters)
      /\ q.index \in Nat /\ q.guard \in Nat
  BY <1>1, RequestFacts, FieldTypes DEF Visit
<1>3. filters \in Seq(Filters \cup {NoFilter}) BY DEF IInv, TypeOK
<1>4. PICK f \in Filters : f = filters[q.cursor + 1] BY <1>2, <1>3
<1>5. PICK cursor \in Nat : cursor = q.cursor + 1 BY <1>2
<1>6. PICK list \in Seq(Filters) :
        list = IF f \in FilterMatches THEN Append(q.list, f) ELSE q.list
  <2>1. Append(q.list, f) \in Seq(Filters) BY <1>2
  <2>2. CASE f \in FilterMatches BY <2>1, <2>2
  <2>3. CASE f \notin FilterMatches BY <1>2, <2>3
  <2>4. QED BY <2>2, <2>3
<1>7. PICK n : n = [q EXCEPT !.cursor = cursor, !.list = list] OBVIOUS
<1>8. Go(r, n)
  <2>1. n = [q EXCEPT !.cursor = @ + 1,
                      !.list = IF f \in FilterMatches THEN Append(@, f) ELSE @]
    BY <1>5, <1>6, <1>7 DEF RequestRecords
  <2>2. QED BY <1>1, <1>4, <2>1 DEF Visit
<1>9. /\ n \in RequestRecords /\ n.pc = "scan" /\ n.cursor = cursor /\ n.list = list
      /\ n.index = q.index /\ n.guard = q.guard /\ n.checked = q.checked
  BY <1>2, <1>7 DEF RequestRecords
<1>10. ScanFits(r, n)
  <2>1. \A g : (\E i \in 1..Len(q.list) : q.list[i] = g) => \E i \in 1..Len(list) : list[i] = g
    BY <1>2, <1>6
  <2>2. f \in FilterMatches => \E i \in 1..Len(list) : list[i] = f
    <3>1. CASE f \in FilterMatches
      <4>1. Len(list) = Len(q.list) + 1 /\ list[Len(q.list) + 1] = f BY <1>2, <1>6, <3>1
      <4>2. QED BY <1>2, <4>1
    <3>2. QED BY <3>1
  <2>3. \A g : (\E i \in q.cursor + 1..Len(filters) : filters[i] = g) =>
                  g = f \/ \E i \in cursor + 1..Len(filters) : filters[i] = g
    BY <1>2, <1>3, <1>4, <1>5
  <2>4. QED BY <1>2, <1>9, <2>1, <2>2, <2>3 DEF Fits, ScanFits
<1>11. n.index = 0 /\ n.guard = 0 /\ n.checked = NoRoute
  BY <1>2, <1>9 DEF Fits, GuardFits
<1>12. QED BY <1>2, <1>8, <1>9, <1>10, <1>11, Scans, RequestGoes

\* A scan that fails leaves the request to the container.
LEMMA ScanFailsIInv ==
  ASSUME IInv, NEW r \in Requests, NEW q, q = request[r], q.pc = "scan",
         Go(r, [q EXCEPT !.pc = "failed", !.origin = "scan", !.kind = "exception"]),
         UNCHANGED <<registries, calls, history>>
  PROVE  IInv'
<1>1. q \in RequestRecords /\ Fits(r, q) /\ q.index <= Len(q.list) BY RequestFacts
<1>2. PICK n : n = [q EXCEPT !.pc = "failed", !.origin = "scan", !.kind = "exception"] OBVIOUS
<1>3. /\ n \in RequestRecords /\ n.pc = "failed" /\ n.list = q.list /\ n.index = q.index
      /\ n.guard = q.guard /\ n.checked = q.checked /\ n.origin = "scan"
  BY <1>1, <1>2 DEF RequestRecords, Labels, Kinds
<1>4. GuardFits(n) BY <1>1, <1>3 DEF Fits, GuardFits
<1>5. ScanFits(r, n) /\ RaiseFits(n) /\ CheckFits(r, n)
  BY <1>3 DEF ScanFits, RaiseFits, CheckFits
<1>6. QED BY <1>1, <1>2, <1>3, <1>4, <1>5, RequestGoes DEF Fits

\* So does one that throws.
LEMMA ScanThrowsIInv ==
  ASSUME IInv, NEW r \in Requests, ScanThrows(r)
  PROVE  IInv'
  BY ScanFailsIInv DEF ScanThrows

\* The scan is over: what it has not come to was listed too late to count.
LEMMA SortFiltersIInv ==
  ASSUME IInv, NEW r \in Requests, SortFilters(r)
  PROVE  IInv'
<1>1. PICK q \in RequestRecords : q = request[r] BY RequestFacts
<1>2. /\ q.pc = "scan" /\ q.cursor = Len(filters)
      /\ UNCHANGED <<registries, calls, history>>
      /\ Fits(r, q) /\ q.cursor \in Nat /\ q.list \in Seq(Filters)
      /\ q.index \in Nat /\ q.guard \in Nat
  BY <1>1, RequestFacts, FieldTypes DEF SortFilters, Scanned
<1>0. CASE Go(r, [q EXCEPT !.pc = "failed", !.origin = "scan", !.kind = "exception"])
  BY <1>0, <1>1, <1>2, ScanFailsIInv
<1>3. SUFFICES ASSUME NEW p \in Orders(Len(q.list)), NEW list,
                      list = [i \in 1..Len(q.list) |-> q.list[p[i]]],
                      Go(r, [q EXCEPT !.pc = "apply", !.cursor = 0, !.expected = 0,
                                      !.list = list])
               PROVE  IInv'
  BY <1>0, <1>1 DEF SortFilters
<1>4. /\ list \in Seq(Filters) /\ Len(list) = Len(q.list)
      /\ \A i \in 1..Len(q.list) : \E j \in 1..Len(list) : list[j] = q.list[i]
  <2>1. PICK old \in Seq(Filters) : old = q.list BY <1>2
  <2>2. p \in Orders(Len(old)) /\ list = [i \in 1..Len(old) |-> old[p[i]]] BY <1>3, <2>1
  <2>3. /\ list \in Seq(Filters) /\ Len(list) = Len(old)
        /\ \A i \in 1..Len(old) : \E j \in 1..Len(list) : list[j] = old[i]
    <3>1. PICK n \in Nat : n = Len(old) BY <2>1
    <3>2. /\ p \in [1..n -> 1..n] /\ \A k \in 1..n : \E i \in 1..n : p[i] = k
          /\ list = [i \in 1..n |-> old[p[i]]]
      BY <2>2, <3>1 DEF Orders
    <3>3. list \in Seq(Filters) /\ Len(list) = n
      <4>1. \A i \in 1..n : old[p[i]] \in Filters
        <5>1. \A m \in 1..n : old[m] \in Filters BY <2>1, <3>1
        <5>2. \A i \in 1..n : p[i] \in 1..n BY <3>2
        <5>3. QED BY <5>1, <5>2
      <4>2. list \in [1..n -> Filters] BY <3>2, <4>1
      <4>3. QED BY <3>1, <4>2
    <3>4. QED BY <3>1, <3>2, <3>3
  <2>4. QED BY <2>1, <2>3
<1>5. PICK n : n = [q EXCEPT !.pc = "apply", !.cursor = 0, !.expected = 0, !.list = list]
  OBVIOUS
<1>6. Go(r, n) BY <1>3, <1>5
<1>7. /\ n \in RequestRecords /\ n.pc = "apply" /\ n.list = list
      /\ n.index = q.index /\ n.guard = q.guard /\ n.checked = q.checked
  BY <1>4, <1>5 DEF RequestRecords, Labels
<1>8. n.index = 0 /\ n.guard = 0 /\ n.checked = NoRoute BY <1>2, <1>7 DEF Fits, GuardFits
<1>9. ScanFits(r, n)
  <2>1. q.cursor + 1..Len(filters) = {} BY <1>2
  <2>2. r \notin shifted =>
          \A f \in stayed[r] \cap FilterMatches : \E i \in 1..Len(q.list) : q.list[i] = f
    BY <1>2, <2>1 DEF Fits, ScanFits
  <2>3. QED BY <1>4, <1>7, <2>2 DEF ScanFits
<1>10. GuardFits(n) /\ n.index <= Len(n.list)
  BY <1>4, <1>7, <1>8, FieldTypes DEF GuardFits
<1>11. RaiseFits(n) BY <1>7 DEF RaiseFits
<1>12. CheckFits(r, n) BY <1>7, <1>8 DEF CheckFits, Passed
<1>13. QED BY <1>2, <1>6, <1>7, <1>9, <1>10, <1>11, <1>12, RequestGoes DEF Fits

\* A new request has everything that is listed ahead of it.
LEMMA ArriveIInv ==
  ASSUME IInv, NEW r \in Requests, Arrive(r)
  PROVE  IInv'
<1>1. PICK q \in RequestRecords : q = request[r] BY RequestFacts
<1>2. /\ q.pc = "idle" /\ UNCHANGED <<registries, calls, shifted, rerouted>>
      /\ stayed' = [stayed EXCEPT ![r] = ToSet(filters)]
      /\ Fits(r, q) /\ q.index <= Len(q.list)
  BY <1>1, RequestFacts DEF Arrive
<1>3. /\ request \in [Requests -> RequestRecords] /\ modCount \in Nat
      /\ filters \in Seq(Filters \cup {NoFilter})
      /\ stayed \in [Requests -> SUBSET (Filters \cup {NoFilter})]
  BY DEF IInv, TypeOK
<1>4. PICK n : n = [q EXCEPT !.pc = "scan", !.expected = modCount] OBVIOUS
<1>5. Go(r, n) BY <1>1, <1>4 DEF Arrive
<1>6. /\ n \in RequestRecords /\ n.pc = "scan" /\ n.list = q.list /\ n.cursor = q.cursor
      /\ n.index = q.index /\ n.guard = q.guard /\ n.checked = q.checked
  BY <1>3, <1>4 DEF RequestRecords, Labels
<1>7. request' = [request EXCEPT ![r] = n] BY <1>5 DEF Go
<1>8. ToSet(filters) \subseteq Filters \cup {NoFilter} BY <1>3 DEF ToSet
<1>9. TypeOK'
  <2>1. request' \in [Requests -> RequestRecords] BY <1>3, <1>6, <1>7
  <2>2. \A x \in Requests : request'[x].index <= Len(request'[x].list)
    BY <1>2, <1>3, <1>6, <1>7 DEF IInv, TypeOK
  <2>3. stayed' \in [Requests -> SUBSET (Filters \cup {NoFilter})] BY <1>2, <1>3, <1>8
  <2>4. QED BY <1>2, <2>1, <2>2, <2>3 DEF IInv, TypeOK, registries, calls
<1>10. ListInv' /\ CategoryInv' BY <1>2 DEF IInv, ListInv, CategoryInv, registries, calls
<1>11. ASSUME NEW x \in Requests PROVE Fits(x, request[x])'
  <2>1. PICK v \in RequestRecords : v = request'[x] BY <1>3, <1>6, <1>7
  <2>2. CASE x # r
    <3>1. v = request[x] /\ stayed'[x] = stayed[x] BY <1>2, <1>3, <1>7, <2>1, <2>2
    <3>2. Fits(x, v) BY <3>1, RequestFacts
    <3>3. FirstMatch(v.checked)' <=> FirstMatch(v.checked) BY <1>2 DEF FirstMatch, registries
    <3>4. Fits(x, v)'
      BY <1>2, <3>1, <3>2, <3>3
      DEF Fits, ScanFits, GuardFits, RaiseFits, CheckFits, registries
    <3>5. QED BY <2>1, <3>4, FitsNext
  <2>3. CASE x = r
    <3>1. v = n BY <1>3, <1>7, <2>1, <2>3
    <3>2. /\ v.pc = "scan" /\ v.cursor = 0 /\ v.index = 0 /\ v.checked = NoRoute
          /\ v.guard <= 0 /\ v.guard \in Nat /\ Len(v.list) \in Nat
      BY <1>2, <1>6, <3>1, FieldTypes DEF Fits, ScanFits, GuardFits
    <3>3. stayed'[x] = ToSet(filters) /\ filters' = filters BY <1>2, <1>3, <2>3 DEF registries
    <3>4. \A f \in ToSet(filters) : \E i \in 0 + 1..Len(filters) : filters[i] = f
      BY <1>3 DEF ToSet
    <3>5. ScanFits(x, v)' BY <3>2, <3>3, <3>4 DEF ScanFits
    <3>6. GuardFits(v)' /\ RaiseFits(v)' /\ CheckFits(x, v)'
      BY <3>2 DEF GuardFits, RaiseFits, CheckFits
    <3>7. Fits(x, v)' BY <3>5, <3>6 DEF Fits
    <3>8. QED BY <2>1, <3>7, FitsNext
  <2>4. QED BY <2>2, <2>3
<1>12. RequestInv' BY <1>11 DEF RequestInv, Fits
<1>13. QED BY <1>9, <1>10, <1>12 DEF IInv

\* Every step of a request keeps the invariant.
LEMMA RequestStepIInv ==
  ASSUME IInv, NEW r \in Requests, RequestStep(r)
  PROVE  IInv'
  BY VisitIInv, ScanThrowsIInv, SortFiltersIInv, ApplySecurityIInv, ApplyFilterIInv, DoChainIInv,
     ServiceIInv, HandleIInv, MappingIInv, UnwindIInv, AnsweredIInv, RaiseIInv, FailIInv
  DEF RequestStep

-----------------------------------------------------------------------------
(* Steps of callers.                                                       *)

\* A change under way is one of five.
LEMMA ChangeShapes ==
  ASSUME TypeOK, NEW c \in Changers
  PROVE  /\ change[c] \in ChangeRecords
         /\ change[c].pc = "add" => change[c] \in AddCalls
         /\ change[c].pc = "remove" => change[c] \in RemoveCalls
         /\ change[c].pc = "sort" => change[c] \in SortCalls /\ change[c].hashes # <<>>
         /\ change[c].pc = "category" => change[c] \in CategoryCalls
         /\ change[c].pc = "met" => change[c] \in MetCalls
<1>1. change[c] \in ChangeRecords BY DEF TypeOK
<1>2. QED
  BY <1>1 DEF TypeOK, ChangeRecords, Idle, AddCalls, RemoveCalls, SortCalls, CategoryCalls,
                 MetCalls

\* What a change does to the callers' calls: that of c becomes todo.
ChangesTo(c, todo) ==
    /\ change' = [change EXCEPT ![c] = todo]
    /\ changes' \in 0..MaxChanges

\* A call begins within the bound, ...
LEMMA Begins ==
  ASSUME IInv, NEW c \in Changers, NEW todo, NEW cost \in {FilterCost, RouteCost},
         Begin(c, todo, cost)
  PROVE  change[c].pc = "idle" /\ lasting[c] = {} /\ ChangesTo(c, todo)
<1>0. cost \in Nat BY ConstantsAssumption
<1>1. PICK k \in Nat : k = changes /\ k + cost <= MaxChanges BY DEF IInv, TypeOK, Begin
<1>2. k + cost \in 0..MaxChanges BY <1>0, <1>1, ConstantsAssumption
<1>3. lasting[c] = {} BY DEF Begin, IInv, CategoryInv
<1>4. QED BY <1>1, <1>2, <1>3 DEF Begin, ChangesTo

\* ... and ends.
LEMMA Ends ==
  ASSUME IInv, NEW c \in Changers, End(c)
  PROVE  ChangesTo(c, Idle)
  BY DEF IInv, TypeOK, End, ChangesTo

\* What lasts during the call of c under way.
LastingFits(c, k, L) ==
    /\ L \subseteq ToSet(routes)
    /\ k.pc \notin {"category", "met"} => L = {}
    /\ k.pc = "met" => \A x \in L : Key[x] = k.key => Category[x] = k.category

\* What a call under way must satisfy beyond its type.
CallFits(c, k) ==
    /\ k.pc = "sort" => k.hashes # <<>>
    /\ k.pc = "add" =>
          /\ k.filter \notin ToSet(filters)
          /\ \A d \in Changers \ {c} : change[d].pc = "add" => change[d].filter # k.filter

\* A step that changes neither filters nor requests, nor what lasts.
LEMMA CallStep ==
  ASSUME IInv, NEW c \in Changers, NEW todo \in ChangeRecords, ChangesTo(c, todo),
         CallFits(c, todo), UNCHANGED filters
  PROVE  /\ change' \in [Changers -> ChangeRecords] /\ changes' \in 0..MaxChanges
         /\ \A d \in Changers : change'[d].pc = "sort" => change'[d].hashes # <<>>
         /\ ListInv'
<1>1. /\ change \in [Changers -> ChangeRecords]
      /\ change' = [change EXCEPT ![c] = todo] /\ changes' \in 0..MaxChanges
  BY DEF IInv, TypeOK, ChangesTo
<1>2. /\ change'[c] = todo /\ \A d \in Changers \ {c} : change'[d] = change[d]
  BY <1>1
<1>3. \A d \in Changers : change'[d].pc = "sort" => change'[d].hashes # <<>>
  BY <1>2 DEF IInv, TypeOK, CallFits
<1>4. ListInv' BY <1>2 DEF IInv, ListInv, CallFits
<1>5. QED BY <1>1, <1>3, <1>4

\* A change of neither filters nor routes; L is what lasts now for the caller.
LEMMA QuietStep ==
  ASSUME IInv, NEW c \in Changers, NEW todo \in ChangeRecords, ChangesTo(c, todo),
         CallFits(c, todo), modCount' \in Nat, sort' \in [Filters -> Int],
         NEW L, lasting' = [lasting EXCEPT ![c] = L], LastingFits(c, todo, L),
         UNCHANGED <<filters, routes, request, history>>
  PROVE  IInv'
<1>0. /\ change \in [Changers -> ChangeRecords] /\ change' = [change EXCEPT ![c] = todo]
      /\ lasting \in [Changers -> SUBSET RouteInfos] /\ routes \in Seq(RouteInfos)
  BY DEF IInv, TypeOK, ChangesTo
<1>1. TypeOK'
  <2>1. L \in SUBSET RouteInfos BY <1>0 DEF LastingFits, ToSet
  <2>2. lasting' \in [Changers -> SUBSET RouteInfos] BY <1>0, <2>1
  <2>3. QED BY <2>2, CallStep DEF IInv, TypeOK, history
<1>2. ListInv' /\ CategoryInv'
  <2>1. ASSUME NEW d \in Changers
        PROVE  /\ lasting'[d] \subseteq ToSet(routes)
               /\ change'[d].pc \notin {"category", "met"} => lasting'[d] = {}
               /\ change'[d].pc = "met" => \A x \in lasting'[d] :
                     Key[x] = change'[d].key => Category[x] = change'[d].category
    <3>1. CASE d = c
      <4>1. change'[d] = todo /\ lasting'[d] = L BY <1>0, <3>1
      <4>2. QED BY <4>1 DEF LastingFits
    <3>2. CASE d # c
      <4>1. change'[d] = change[d] /\ lasting'[d] = lasting[d] BY <1>0, <3>2
      <4>2. QED BY <4>1 DEF IInv, CategoryInv
    <3>3. QED BY <3>1, <3>2
  <2>2. QED BY <2>1, CallStep DEF CategoryInv
<1>3. ASSUME NEW x \in Requests PROVE Fits(x, request[x])'
  <2>1. PICK v : v = request'[x] OBVIOUS
  <2>2. Fits(x, v) BY <2>1, RequestFacts
  <2>3. FirstMatch(v.checked)' <=> FirstMatch(v.checked) BY DEF FirstMatch
  <2>4. Fits(x, v)'
    BY <2>2, <2>3 DEF Fits, ScanFits, GuardFits, RaiseFits, CheckFits, history
  <2>5. QED BY <2>1, <2>4, FitsNext
<1>4. RequestInv' BY <1>3 DEF RequestInv, Fits
<1>5. QED BY <1>1, <1>2, <1>4 DEF IInv

\* Where nothing lasts and no route is removed, nothing is to be shown of it.
LEMMA StillStep ==
  ASSUME IInv, NEW c \in Changers, NEW todo \in ChangeRecords, ChangesTo(c, todo),
         CallFits(c, todo), todo.pc \notin {"category", "met"}, lasting[c] = {},
         modCount' \in Nat, sort' \in [Filters -> Int],
         UNCHANGED <<filters, routes, request, lasting, history>>
  PROVE  IInv'
<1>1. lasting \in [Changers -> SUBSET RouteInfos] BY DEF IInv, TypeOK
<1>2. PICK L : L = {} OBVIOUS
<1>3. lasting' = [lasting EXCEPT ![c] = L] BY <1>1, <1>2
<1>4. LastingFits(c, todo, L) BY <1>2 DEF LastingFits
<1>5. QED BY <1>3, <1>4, QuietStep

\* No call.
LEMMA IdleFits ==
  ASSUME NEW c
  PROVE  Idle \in ChangeRecords /\ CallFits(c, Idle) /\ Idle.pc = "idle"
  BY DEF Idle, ChangeRecords, CallFits

\* An addition is of a filter that nobody has listed or is adding.
LEMMA AddFilterIInv ==
  ASSUME IInv, NEW c \in Changers, NEW f \in Filters, AddFilter(c, f)
  PROVE  IInv'
<1>1. PICK at \in Nat \ {0} : at = Len(filters) + 1 BY DEF IInv, TypeOK
<1>2. PICK todo : todo = [pc |-> "add", filter |-> f, at |-> at] OBVIOUS
<1>3. ChangesTo(c, todo) /\ lasting[c] = {} BY <1>1, <1>2, Begins DEF AddFilter
<1>4. todo \in ChangeRecords BY <1>2 DEF ChangeRecords, AddCalls
<1>5. CallFits(c, todo) BY <1>2 DEF CallFits, AddFilter
<1>6. modCount' \in Nat /\ sort' \in [Filters -> Int] BY DEF IInv, TypeOK, AddFilter
<1>7. todo.pc = "add" BY <1>2
<1>8. QED BY <1>3, <1>4, <1>5, <1>6, <1>7, StillStep DEF AddFilter

\* A removal that begins has changed nothing.
LEMMA RemoveFilterIInv ==
  ASSUME IInv, NEW c \in Changers, NEW category, RemoveFilter(c, category)
  PROVE  IInv'
<1>1. /\ UNCHANGED <<filters, routes, request, lasting, history>>
      /\ modCount' \in Nat /\ sort' \in [Filters -> Int] /\ modCount \in Nat
      /\ filters \in Seq(Filters \cup {NoFilter})
  BY DEF IInv, TypeOK, RemoveFilter, registries
<1>2. CASE Begin(c, Idle, FilterCost) BY <1>1, <1>2, Begins, IdleFits, StillStep
<1>3. CASE Begin(c, [pc |-> "remove", expected |-> modCount,
                     dead |-> {i \in DOMAIN filters : Category[filters[i]] = category}],
                 FilterCost)
  <2>1. PICK dead \in SUBSET Nat :
          dead = {i \in DOMAIN filters : Category[filters[i]] = category}
    <3>1. DOMAIN filters = 1..Len(filters) /\ Len(filters) \in Nat BY <1>1
    <3>2. {i \in DOMAIN filters : Category[filters[i]] = category} \in SUBSET Nat BY <3>1
    <3>3. QED BY <3>2
  <2>2. PICK todo : todo = [pc |-> "remove", expected |-> modCount, dead |-> dead] OBVIOUS
  <2>3. ChangesTo(c, todo) /\ lasting[c] = {} BY <1>3, <2>1, <2>2, Begins
  <2>4. todo \in ChangeRecords BY <1>1, <2>2 DEF ChangeRecords, RemoveCalls
  <2>5. CallFits(c, todo) /\ todo.pc = "remove" BY <2>2 DEF CallFits
  <2>6. QED BY <1>1, <2>3, <2>4, <2>5, StillStep
<1>4. QED BY <1>2, <1>3 DEF RemoveFilter

\* Sorting gives the filters numbers ...
LEMMA FilterSortIInv ==
  ASSUME IInv, NEW c \in Changers, NEW f \in Filters, NEW g \in Filters, FilterSort(c, <<f, g>>)
  PROVE  IInv'
<1>1. PICK todo : todo = [pc |-> "sort", hashes |-> <<f, g>>, i |-> 0] OBVIOUS
<1>2. ChangesTo(c, todo) /\ lasting[c] = {} BY <1>1, Begins DEF FilterSort
<1>3. todo \in ChangeRecords BY <1>1 DEF ChangeRecords, SortCalls
<1>4. CallFits(c, todo) /\ todo.pc = "sort" BY <1>1 DEF CallFits
<1>5. /\ UNCHANGED <<filters, routes, request, lasting, history>>
      /\ modCount' \in Nat /\ sort' \in [Filters -> Int]
  BY DEF IInv, TypeOK, FilterSort, registries
<1>6. QED BY <1>2, <1>3, <1>4, <1>5, StillStep

\* ... one after another.
LEMMA SortFilterIInv ==
  ASSUME IInv, NEW c \in Changers, SortFilter(c)
  PROVE  IInv'
<1>1. PICK a \in SortCalls : a = change[c] /\ a.hashes # <<>>
  BY ChangeShapes DEF SortFilter, IInv
<1>2. /\ a.pc = "sort" /\ a.hashes \in Seq(Filters) /\ a.i \in Nat /\ a.hashes # <<>>
  BY <1>1 DEF SortCalls
<1>3. /\ Head(a.hashes) \in Filters /\ Tail(a.hashes) \in Seq(Filters)
      /\ (Len(a.hashes) # 1 => Tail(a.hashes) # <<>>)
  <2>1. PICK hashes \in Seq(Filters) : hashes = a.hashes /\ hashes # <<>> BY <1>2
  <2>2. Head(hashes) \in Filters /\ Tail(hashes) \in Seq(Filters) BY <2>1
  <2>3. Len(Tail(hashes)) = Len(hashes) - 1 /\ Len(hashes) \in Nat BY <2>1
  <2>4. Tail(hashes) = <<>> => Len(hashes) = 1
    <3>1. PICK rest : rest = Tail(hashes) OBVIOUS
    <3>2. rest = <<>> => Len(rest) = 0 OBVIOUS
    <3>3. Len(rest) = Len(hashes) - 1 BY <2>3, <3>1
    <3>4. QED BY <2>3, <3>1, <3>2, <3>3
  <2>5. QED BY <2>1, <2>2, <2>4
<1>4. /\ UNCHANGED <<filters, routes, request, lasting, history>> /\ changes' \in 0..MaxChanges
      /\ modCount' \in Nat /\ sort \in [Filters -> Int] /\ lasting[c] = {}
      /\ sort' = sort \/ sort' = [sort EXCEPT ![Head(a.hashes)] = a.i]
  BY <1>1, <1>2 DEF IInv, TypeOK, CategoryInv, SortFilter
<1>5. sort' \in [Filters -> Int] BY <1>2, <1>3, <1>4
<1>6. CASE change' = [change EXCEPT ![c] = Idle]
  <2>1. ChangesTo(c, Idle) BY <1>4, <1>6 DEF ChangesTo
  <2>2. QED BY <1>4, <1>5, <2>1, IdleFits, StillStep
<1>7. CASE /\ Len(a.hashes) # 1
           /\ change' = [change EXCEPT ![c] = [a EXCEPT !.hashes = Tail(@), !.i = @ + 1]]
  <2>1. PICK j \in Nat : j = a.i + 1 BY <1>2
  <2>2. PICK todo : todo = [a EXCEPT !.hashes = Tail(@), !.i = @ + 1] OBVIOUS
  <2>3. todo = [a EXCEPT !.hashes = Tail(a.hashes), !.i = j] BY <2>1, <2>2 DEF SortCalls
  <2>4. todo \in SortCalls /\ todo.hashes = Tail(a.hashes) /\ todo.pc = "sort"
    BY <1>2, <1>3, <2>3 DEF SortCalls
  <2>5. todo \in ChangeRecords BY <2>4 DEF ChangeRecords
  <2>6. CallFits(c, todo) BY <1>3, <1>7, <2>4 DEF CallFits
  <2>7. ChangesTo(c, todo) BY <1>4, <1>7, <2>2 DEF ChangesTo
  <2>8. QED BY <1>4, <1>5, <2>4, <2>5, <2>6, <2>7, StillStep
<1>8. QED BY <1>1, <1>6, <1>7 DEF SortFilter

\* A removal by category begins: everything registered may last.
LEMMA RemoveCategoryIInv ==
  ASSUME IInv, NEW c \in Changers, NEW category \in Categories, RemoveCategory(c, category)
  PROVE  IInv'
<1>1. PICK todo : todo = [pc |-> "category", category |-> category] OBVIOUS
<1>2. PICK L : L = ToSet(routes) OBVIOUS
<1>3. ChangesTo(c, todo) BY <1>1, Begins DEF RemoveCategory
<1>4. todo \in ChangeRecords BY <1>1 DEF ChangeRecords, CategoryCalls
<1>5. CallFits(c, todo) /\ LastingFits(c, todo, L) BY <1>1, <1>2 DEF CallFits, LastingFits
<1>6. /\ UNCHANGED <<filters, routes, request, history>>
      /\ modCount' \in Nat /\ sort' \in [Filters -> Int]
      /\ lasting' = [lasting EXCEPT ![c] = L]
  BY <1>2 DEF IInv, TypeOK, RemoveCategory, registries
<1>7. QED BY <1>3, <1>4, <1>5, <1>6, QuietStep

\* It meets a route: a lasting one with this key can only be the same.
LEMMA MeetRouteIInv ==
  ASSUME IInv, NEW c \in Changers, MeetRoute(c)
  PROVE  IInv'
<1>1. PICK a \in CategoryCalls : a = change[c] BY ChangeShapes DEF MeetRoute, IInv
<1>2. PICK y \in ToSet(routes) :
        /\ Category[y] = a.category
        /\ change' = [change EXCEPT ![c] = [pc |-> "met", category |-> a.category,
                                           key |-> Key[y]]]
  BY <1>1 DEF MeetRoute
<1>3. PICK todo : todo = [pc |-> "met", category |-> a.category, key |-> Key[y]] OBVIOUS
<1>4. PICK L : L = lasting[c] OBVIOUS
<1>5. /\ routes \in Seq(RouteInfos) /\ ToSet(routes) \subseteq RouteInfos
      /\ lasting \in [Changers -> SUBSET RouteInfos] /\ L \subseteq ToSet(routes)
  BY <1>4 DEF IInv, TypeOK, CategoryInv, ToSet
<1>6. ChangesTo(c, todo) BY <1>2, <1>3 DEF ChangesTo, MeetRoute, IInv, TypeOK
<1>7. todo \in ChangeRecords BY <1>2, <1>3, <1>5 DEF ChangeRecords, MetCalls, CategoryCalls, Keys
<1>8. CallFits(c, todo) BY <1>3 DEF CallFits
<1>9. ASSUME NEW x \in L, Key[x] = Key[y] PROVE x = y
  <2>1. PICK i \in 1..Len(routes) : routes[i] = x BY <1>5 DEF ToSet
  <2>2. PICK j \in 1..Len(routes) : routes[j] = y BY <1>5 DEF ToSet
  <2>3. i = j BY <1>9, <2>1, <2>2 DEF IInv, TypeOK
  <2>4. QED BY <2>1, <2>2, <2>3
<1>10. LastingFits(c, todo, L) BY <1>2, <1>3, <1>5, <1>9 DEF LastingFits
<1>11. /\ UNCHANGED <<filters, routes, request, history>>
       /\ modCount' \in Nat /\ sort' \in [Filters -> Int]
       /\ lasting' = [lasting EXCEPT ![c] = L]
  BY <1>4, <1>5 DEF IInv, TypeOK, MeetRoute, registries
<1>12. QED BY <1>6, <1>7, <1>8, <1>10, <1>11, QuietStep

\* The removal by category is over.
LEMMA CategoryRemovedIInv ==
  ASSUME IInv, NEW c \in Changers, CategoryRemoved(c)
  PROVE  IInv'
<1>1. /\ UNCHANGED <<filters, routes, request, history>>
      /\ modCount' \in Nat /\ sort' \in [Filters -> Int]
  BY DEF IInv, TypeOK, CategoryRemoved, registries
<1>2. ChangesTo(c, Idle) BY Ends DEF CategoryRemoved
<1>3. PICK L : L = {} OBVIOUS
<1>4. lasting' = [lasting EXCEPT ![c] = L] /\ LastingFits(c, Idle, L)
  BY <1>3, IdleFits DEF CategoryRemoved, LastingFits
<1>5. QED BY <1>1, <1>2, <1>4, IdleFits, QuietStep

\* A change of the routes: a request between its look-ups has seen it, and what
\* lasts is what still is registered.
LEMMA RouteStep ==
  ASSUME IInv, NEW c \in Changers, NEW todo \in ChangeRecords, ChangesTo(c, todo),
         CallFits(c, todo), todo.pc # "met",
         todo.pc = "category" \/ lasting[c] = {},
         NEW list \in Seq(RouteInfos), Reroute(list),
         \A i, j \in 1..Len(list) : i # j => Key[list[i]] # Key[list[j]],
         UNCHANGED <<filters, modCount, sort, request, stayed, shifted>>
  PROVE  IInv'
<1>1. routes' = list /\ rerouted' = rerouted \cup Between BY DEF Reroute
<1>2. Between \subseteq Requests BY DEF Between
<1>0. /\ change \in [Changers -> ChangeRecords] /\ change' = [change EXCEPT ![c] = todo]
      /\ lasting \in [Changers -> SUBSET RouteInfos]
      /\ lasting' = [d \in Changers |-> lasting[d] \cap ToSet(list)]
  BY DEF IInv, TypeOK, ChangesTo, Reroute
<1>3. TypeOK'
  <2>1. lasting' \in [Changers -> SUBSET RouteInfos] BY <1>0
  <2>2. QED BY <1>1, <1>2, <2>1, CallStep DEF IInv, TypeOK
<1>4. ListInv' /\ CategoryInv'
  <2>1. ASSUME NEW d \in Changers
        PROVE  /\ lasting'[d] \subseteq ToSet(routes')
               /\ change'[d].pc \notin {"category", "met"} => lasting'[d] = {}
               /\ change'[d].pc = "met" => \A x \in lasting'[d] :
                     Key[x] = change'[d].key => Category[x] = change'[d].category
    <3>1. lasting'[d] = lasting[d] \cap ToSet(list) BY <1>0
    <3>2. CASE d = c
      <4>1. change'[d] = todo BY <1>0, <3>2
      <4>2. QED BY <1>1, <3>1, <3>2, <4>1
    <3>3. CASE d # c
      <4>1. change'[d] = change[d] BY <1>0, <3>3
      <4>2. QED BY <1>1, <3>1, <4>1 DEF IInv, CategoryInv
    <3>4. QED BY <3>2, <3>3
  <2>2. QED BY <1>1, <2>1, CallStep DEF CategoryInv
<1>5. ASSUME NEW x \in Requests PROVE Fits(x, request[x])'
  <2>1. PICK v \in RequestRecords : v = request[x] BY RequestFacts
  <2>2. Fits(x, v) BY <2>1, RequestFacts
  <2>3. CASE v.pc \in {"apply", "service"} /\ Passed(v)
    <3>1. x \in Between BY <2>1, <2>3 DEF Between, Passed
    <3>2. CheckFits(x, v)' BY <1>1, <3>1 DEF CheckFits
    <3>3. QED BY <2>1, <2>2, <3>2, FitsNext DEF Fits, ScanFits, GuardFits, RaiseFits
  <2>4. CASE ~(v.pc \in {"apply", "service"} /\ Passed(v))
    <3>1. CheckFits(x, v)' BY <1>1, <2>2, <2>4 DEF Fits, CheckFits
    <3>2. QED BY <2>1, <2>2, <3>1, FitsNext DEF Fits, ScanFits, GuardFits, RaiseFits
  <2>5. QED BY <2>3, <2>4
<1>6. RequestInv' BY <1>5 DEF RequestInv, Fits
<1>7. QED BY <1>3, <1>4, <1>6 DEF IInv

\* A list that Kept leaves of the routes has no key twice.
LEMMA WithoutKeepsKeys ==
  ASSUME IInv, NEW key, NEW list \in Without(key)
  PROVE  /\ list \in Seq(RouteInfos)
         /\ \A i, j \in 1..Len(list) : i # j => Key[list[i]] # Key[list[j]]
         /\ \A y \in ToSet(routes) : Key[y] # key => y \in ToSet(list)
<1>1. /\ routes \in Seq(RouteInfos)
      /\ \A i, j \in 1..Len(routes) : i # j => Key[routes[i]] # Key[routes[j]]
  BY DEF IInv, TypeOK
<1>2. PICK S : S = {i \in DOMAIN routes : Key[routes[i]] # key} OBVIOUS
<1>3. /\ list \in Kept(routes, S) /\ S \in SUBSET (1..Len(routes))
      /\ \A i \in 1..Len(routes) : Key[routes[i]] # key => i \in S
  BY <1>1, <1>2 DEF Without
<1>4. /\ list \in Seq(RouteInfos)
      /\ \A i, j \in 1..Len(list) : i # j =>
            \E m, n \in S : m # n /\ list[i] = routes[m] /\ list[j] = routes[n]
      /\ \A n \in S : \E i \in 1..Len(list) : list[i] = routes[n]
  <2>1. Picks(list, routes, S) BY <1>1, <1>3, KeptElements
  <2>2. /\ list \in Seq(RouteInfos)
        /\ \A n \in S : \E i \in 1..Len(list) : list[i] = routes[n]
    BY <1>1, <1>3, KeptElements
  <2>3. QED BY <2>1, <2>2 DEF Picks
<1>5. ASSUME NEW y \in ToSet(routes), Key[y] # key PROVE y \in ToSet(list)
  <2>1. PICK n \in 1..Len(routes) : routes[n] = y BY <1>1 DEF ToSet
  <2>2. n \in S BY <1>3, <1>5, <2>1
  <2>3. PICK i \in 1..Len(list) : list[i] = y BY <1>4, <2>1, <2>2
  <2>4. QED BY <1>4, <2>3 DEF ToSet
<1>6. ASSUME NEW i \in 1..Len(list), NEW j \in 1..Len(list), i # j
      PROVE  Key[list[i]] # Key[list[j]]
  <2>1. PICK m \in S, n \in S : m # n /\ list[i] = routes[m] /\ list[j] = routes[n]
    BY <1>4, <1>6
  <2>2. QED BY <1>1, <1>3, <2>1
<1>7. QED BY <1>4, <1>5, <1>6

\* A route is added only if no equal one is there.
LEMMA AddRouteIInv ==
  ASSUME IInv, NEW c \in Changers, NEW x \in RouteInfos, AddRoute(c, x)
  PROVE  IInv'
<1>1. /\ routes \in Seq(RouteInfos) /\ modCount \in Nat /\ sort \in [Filters -> Int]
      /\ \A i, j \in 1..Len(routes) : i # j => Key[routes[i]] # Key[routes[j]]
  BY DEF IInv, TypeOK
<1>2. ChangesTo(c, Idle) /\ lasting[c] = {} BY Begins DEF AddRoute
<1>3. CASE \E y \in ToSet(routes) : Key[y] = Key[x]
  <2>1. UNCHANGED <<filters, modCount, sort, routes, request, lasting, history>>
    BY <1>3 DEF AddRoute, history
  <2>2. QED BY <1>1, <1>2, <2>1, IdleFits, StillStep
<1>4. CASE \A y \in ToSet(routes) : Key[y] # Key[x]
  <2>1. PICK S : S = ToSet(routes) \cup {x} OBVIOUS
  <2>2. PICK list \in SetToSeqs(S) : Reroute(list) BY <1>4, <2>1 DEF AddRoute
  <2>3. IsFiniteSet(S)
    <3>1. IsFiniteSet(1..Len(routes))
      <4>1. PICK l : l = Len(routes) OBVIOUS
      <4>2. l \in Int /\ 1 \in Int BY <1>1, <4>1
      <4>3. IsFiniteSet(1..l) BY <4>2, FS_Interval
      <4>4. QED BY <4>1, <4>3
    <3>2. PICK f : f = [i \in 1..Len(routes) |-> routes[i]] OBVIOUS
    <3>3. ToSet(routes) = {routes[i] : i \in 1..Len(routes)} BY <1>1 DEF ToSet
    <3>4. f \in Surjection(1..Len(routes), ToSet(routes)) BY <3>2, <3>3 DEF Surjection
    <3>5. IsFiniteSet(ToSet(routes)) BY <3>1, <3>4, FS_Surjection
    <3>6. QED BY <2>1, <3>5, FS_AddElement
  <2>4. PICK n \in Nat : n = Cardinality(S) BY <2>3, FS_CardinalityType
  <2>5. list \in [1..n -> S] /\ \A i, j \in 1..n : i # j => list[i] # list[j]
    BY <2>2, <2>4 DEF SetToSeqs
  <2>6. S \subseteq RouteInfos BY <1>1, <2>1 DEF ToSet
  <2>7. list \in Seq(RouteInfos) /\ Len(list) = n BY <2>5, <2>6
  <2>8. ASSUME NEW i \in 1..Len(list), NEW j \in 1..Len(list), i # j
        PROVE  Key[list[i]] # Key[list[j]]
    <3>1. list[i] \in S /\ list[j] \in S /\ list[i] # list[j] BY <2>5, <2>7, <2>8
    <3>2. CASE list[i] = x \/ list[j] = x BY <1>4, <2>1, <3>1, <3>2
    <3>3. CASE list[i] # x /\ list[j] # x
      <4>1. PICK k \in 1..Len(routes) : routes[k] = list[i] BY <1>1, <2>1, <3>1, <3>3 DEF ToSet
      <4>2. PICK l \in 1..Len(routes) : routes[l] = list[j] BY <1>1, <2>1, <3>1, <3>3 DEF ToSet
      <4>3. k # l BY <3>1, <4>1, <4>2
      <4>4. QED BY <1>1, <4>1, <4>2, <4>3
    <3>4. QED BY <3>2, <3>3
  <2>9. UNCHANGED <<filters, modCount, sort, request, stayed, shifted>> BY DEF AddRoute
  <2>10. QED BY <1>2, <2>2, <2>7, <2>8, <2>9, IdleFits, RouteStep
<1>5. QED BY <1>3, <1>4

\* A removal by key.
LEMMA RemoveRouteIInv ==
  ASSUME IInv, NEW c \in Changers, NEW key, RemoveRoute(c, key)
  PROVE  IInv'
<1>1. ChangesTo(c, Idle) /\ lasting[c] = {} BY Begins DEF RemoveRoute
<1>2. PICK list \in Without(key) : Reroute(list) BY DEF RemoveRoute
<1>3. QED BY <1>1, <1>2, WithoutKeepsKeys, IdleFits, RouteStep DEF RemoveRoute

\* One key of the removal by category.
LEMMA RemoveNextIInv ==
  ASSUME IInv, NEW c \in Changers, RemoveNext(c)
  PROVE  IInv'
<1>1. PICK a \in MetCalls : a = change[c] BY ChangeShapes DEF RemoveNext, IInv
<1>2. PICK list \in Without(a.key) : Reroute(list) BY <1>1 DEF RemoveNext
<1>3. PICK todo : todo = [pc |-> "category", category |-> a.category] OBVIOUS
<1>4. todo \in ChangeRecords /\ todo.pc = "category"
  BY <1>3 DEF ChangeRecords, CategoryCalls, MetCalls
<1>5. ChangesTo(c, todo) BY <1>1, <1>3 DEF ChangesTo, RemoveNext, IInv, TypeOK
<1>6. CallFits(c, todo) BY <1>4 DEF CallFits
<1>7. QED BY <1>2, <1>4, <1>5, <1>6, WithoutKeepsKeys, RouteStep DEF RemoveNext

\* A change of the list of filters.  What stays is where a scan will come to
\* it, or the scan is among those that the change has shifted.
LEMMA FilterStep ==
  ASSUME IInv, NEW c \in Changers, change[c].pc \in {"add", "remove"}, End(c),
         NEW list \in Seq(Filters \cup {NoFilter}), Relist(list),
         \A i, j \in 1..Len(list) : list[i] # NoFilter /\ list[i] = list[j] => i = j,
         \A d \in Changers \ {c} : change[d].pc = "add" => change[d].filter \notin ToSet(list),
         modCount' \in Nat, shifted' \subseteq Requests, shifted \subseteq shifted',
         UNCHANGED <<sort, routes, request, lasting, rerouted>>,
         \A r \in Scanning \ shifted' : \A f \in stayed[r] \cap ToSet(list) \cap FilterMatches :
            \A i \in request[r].cursor + 1..Len(filters) :
               filters[i] = f => \E j \in request[r].cursor + 1..Len(list) : list[j] = f
  PROVE  IInv'
<1>1. /\ filters' = list /\ Scanning \subseteq Requests
      /\ stayed' = [r \in Requests |-> IF r \in Scanning THEN stayed[r] \cap ToSet(list)
                                                         ELSE stayed[r]]
  BY DEF Relist, Scanning
<1>2. /\ change \in [Changers -> ChangeRecords]
      /\ stayed \in [Requests -> SUBSET (Filters \cup {NoFilter})]
  BY DEF IInv, TypeOK
<1>3. change' = [change EXCEPT ![c] = Idle] /\ changes' = changes BY DEF End
<1>4. /\ change'[c] = Idle /\ change'[c].pc = "idle"
      /\ \A d \in Changers \ {c} : change'[d] = change[d]
  BY <1>2, <1>3 DEF Idle
<1>5. TypeOK'
  <2>1. change' \in [Changers -> ChangeRecords] BY <1>2, <1>3, IdleFits
  <2>2. \A d \in Changers : change'[d].pc = "sort" => change'[d].hashes # <<>>
    BY <1>4 DEF IInv, TypeOK
  <2>3. stayed' \in [Requests -> SUBSET (Filters \cup {NoFilter})] BY <1>1, <1>2
  <2>4. QED BY <1>1, <1>3, <2>1, <2>2, <2>3 DEF IInv, TypeOK
<1>6. CategoryInv'
  <2>1. lasting[c] = {} BY DEF IInv, CategoryInv
  <2>2. QED BY <1>4, <2>1 DEF IInv, CategoryInv
<1>7. ListInv' BY <1>1, <1>4 DEF IInv, ListInv
<1>8. ASSUME NEW x \in Requests PROVE Fits(x, request[x])'
  <2>1. PICK v \in RequestRecords : v = request[x] BY RequestFacts
  <2>2. Fits(x, v) BY <2>1, RequestFacts
  <2>3. FirstMatch(v.checked)' <=> FirstMatch(v.checked) BY DEF FirstMatch
  <2>4. GuardFits(v)' /\ RaiseFits(v)' /\ CheckFits(x, v)'
    BY <2>2, <2>3 DEF Fits, GuardFits, RaiseFits, CheckFits
  <2>5. ScanFits(x, v)'
    <3>1. CASE v.pc = "scan"
      <4>1. x \in Scanning /\ stayed'[x] = stayed[x] \cap ToSet(list)
        BY <1>1, <2>1, <3>1 DEF Scanning
      <4>2. ASSUME x \notin shifted', NEW f \in stayed'[x] \cap FilterMatches
            PROVE  \/ \E i \in 1..Len(v.list) : v.list[i] = f
                   \/ \E i \in v.cursor + 1..Len(list) : list[i] = f
        BY <2>1, <2>2, <3>1, <4>1, <4>2 DEF Fits, ScanFits
      <4>3. QED BY <1>1, <3>1, <4>1, <4>2 DEF ScanFits
    <3>2. CASE v.pc # "scan"
      <4>1. stayed'[x] = stayed[x] BY <1>1, <2>1, <3>2 DEF Scanning
      <4>2. QED BY <2>2, <3>2, <4>1 DEF Fits, ScanFits
    <3>3. QED BY <3>1, <3>2
  <2>6. QED BY <2>1, <2>4, <2>5, FitsNext DEF Fits
<1>9. RequestInv' BY <1>8 DEF RequestInv, Fits
<1>10. QED BY <1>5, <1>6, <1>7, <1>9 DEF IInv

\* The element goes to the position that was read for it: whatever that does
\* to others that were added meanwhile, no scan loses what stays.
LEMMA StoreFilterIInv ==
  ASSUME IInv, NEW c \in Changers, StoreFilter(c)
  PROVE  IInv'
<1>1. PICK a \in AddCalls : a = change[c] BY ChangeShapes DEF StoreFilter, IInv
<1>2. PICK at \in Nat \ {0} : at = a.at BY DEF AddCalls
<1>3. PICK new \in Filters : new = a.filter BY DEF AddCalls
<1>4. a.pc = "add" BY DEF AddCalls
<1>5. filters \in Seq(Filters \cup {NoFilter}) BY DEF IInv, TypeOK
<1>6. /\ new \notin ToSet(filters)
      /\ \A d \in Changers \ {c} : change[d].pc = "add" =>
            change[d].filter # new /\ change[d].filter \notin ToSet(filters)
            /\ change[d].filter \in Filters
  BY <1>1, <1>3, <1>4, ChangeShapes DEF IInv, ListInv, AddCalls
<1>7. PICK list : list = [i \in 1..at |-> CASE i = at -> new
                                            [] i < at /\ i <= Len(filters) -> filters[i]
                                            [] OTHER -> NoFilter]
  OBVIOUS
<1>8. Relist(list) BY <1>1, <1>2, <1>3, <1>7 DEF StoreFilter
<1>9. \A i \in 1..at : /\ i = at => list[i] = new
                       /\ i # at /\ i <= Len(filters) => list[i] = filters[i]
                       /\ i # at /\ ~(i <= Len(filters)) => list[i] = NoFilter
  BY <1>2, <1>7
<1>10. list \in Seq(Filters \cup {NoFilter}) /\ Len(list) = at
  <2>1. \A i \in 1..at : list[i] \in Filters \cup {NoFilter} BY <1>3, <1>5, <1>9
  <2>2. list \in [1..at -> Filters \cup {NoFilter}] BY <1>7, <2>1
  <2>3. QED BY <2>2
<1>11. \A i \in 1..at : list[i] = new => i = at
  <2> SUFFICES ASSUME NEW i \in 1..at, list[i] = new, i # at PROVE FALSE
    OBVIOUS
  <2>1. new # NoFilter BY ConstantsAssumption
  <2>2. i \in 1..Len(filters) /\ filters[i] = new BY <1>5, <1>9, <2>1
  <2>3. QED BY <1>5, <1>6, <2>2 DEF ToSet
<1>12. \A i, j \in 1..Len(list) : list[i] # NoFilter /\ list[i] = list[j] => i = j
  <2> SUFFICES ASSUME NEW i \in 1..at, NEW j \in 1..at, list[i] # NoFilter, list[i] = list[j]
               PROVE  i = j
    BY <1>10
  <2>1. CASE i = at \/ j = at BY <1>9, <1>11, <2>1
  <2>2. CASE i # at /\ j # at
    <3>1. /\ i \in 1..Len(filters) /\ j \in 1..Len(filters)
          /\ filters[i] = list[i] /\ filters[j] = list[j]
      BY <1>5, <1>9, <2>2
    <3>2. QED BY <3>1 DEF IInv, ListInv
  <2>3. QED BY <2>1, <2>2
<1>13. \A d \in Changers \ {c} : change[d].pc = "add" => change[d].filter \notin ToSet(list)
  <2> SUFFICES ASSUME NEW d \in Changers \ {c}, change[d].pc = "add",
                      NEW i \in 1..at, list[i] = change[d].filter
               PROVE  FALSE
    BY <1>10 DEF ToSet
  <2>1. list[i] # new /\ list[i] # NoFilter BY <1>6, ConstantsAssumption
  <2>2. i \in 1..Len(filters) /\ filters[i] = list[i] BY <1>5, <1>9, <2>1
  <2>3. QED BY <1>5, <1>6, <2>2 DEF ToSet
<1>14. ASSUME NEW r \in Scanning, NEW f \in stayed[r] \cap ToSet(list) \cap FilterMatches,
              NEW i \in request[r].cursor + 1..Len(filters), filters[i] = f
       PROVE  \E j \in request[r].cursor + 1..Len(list) : list[j] = f
  <2>1. PICK cursor \in Nat : cursor = request[r].cursor
    BY RequestFacts, FieldTypes DEF Scanning
  <2>2. i \in 1..Len(filters) BY <1>5, <2>1
  <2>3. f # NoFilter /\ f # new BY <1>5, <1>6, <1>14, <2>2, ConstantsAssumption DEF ToSet
  <2>4. PICK j \in 1..at : list[j] = f BY <1>10 DEF ToSet
  <2>5. j \in 1..Len(filters) /\ filters[j] = f BY <1>5, <1>9, <2>3, <2>4
  <2>6. i = j BY <1>14, <2>2, <2>3, <2>5 DEF IInv, ListInv
  <2>7. QED BY <1>10, <2>1, <2>4, <2>6
<1>15. /\ change[c].pc \in {"add", "remove"} /\ End(c) /\ modCount' \in Nat
       /\ shifted' \subseteq Requests /\ shifted \subseteq shifted'
       /\ UNCHANGED <<sort, routes, request, lasting, rerouted>>
  BY DEF StoreFilter, IInv, TypeOK
<1>16. QED BY <1>8, <1>10, <1>12, <1>13, <1>14, <1>15, FilterStep

\* The rest of the list moves up, under the cursor of every scan.
LEMMA CompactFiltersIInv ==
  ASSUME IInv, NEW c \in Changers, CompactFilters(c)
  PROVE  IInv'
<1>1. /\ change[c].pc = "remove" /\ End(c)
      /\ UNCHANGED <<sort, routes, request, lasting, rerouted>>
      /\ modCount \in Nat /\ sort \in [Filters -> Int] /\ lasting[c] = {}
      /\ filters \in Seq(Filters \cup {NoFilter})
  BY DEF CompactFilters, IInv, TypeOK, CategoryInv
<1>2. CASE UNCHANGED <<filters, modCount, stayed, shifted>>
  <2>1. ChangesTo(c, Idle) BY <1>1, Ends
  <2>2. QED BY <1>1, <1>2, <2>1, IdleFits, StillStep DEF history
<1>3. CASE /\ \E list \in Kept(filters, DOMAIN filters \ change[c].dead) : Relist(list)
           /\ modCount' = modCount + 1
           /\ shifted' = shifted \cup Scanning
  <2>1. PICK S : S = DOMAIN filters \ change[c].dead OBVIOUS
  <2>2. PICK list \in Kept(filters, S) : Relist(list) BY <1>3, <2>1
  <2>3. S \in SUBSET (1..Len(filters)) BY <1>1, <2>1
  <2>4. /\ list \in Seq(Filters \cup {NoFilter})
        /\ \A i \in 1..Len(list) : \E n \in S : list[i] = filters[n]
        /\ \A i, j \in 1..Len(list) : i # j =>
              \E m, n \in S : m # n /\ list[i] = filters[m] /\ list[j] = filters[n]
    <3>1. PICK T : T = Filters \cup {NoFilter} OBVIOUS
    <3>2. filters \in Seq(T) BY <1>1, <3>1
    <3>3. list \in Seq(T) BY <2>2, <2>3, <3>2, KeptElements
    <3>4. Picks(list, filters, S) BY <2>2, <2>3, <3>2, KeptElements
    <3>5. QED BY <3>1, <3>3, <3>4 DEF Picks
  <2>5. ASSUME NEW i \in 1..Len(list), NEW j \in 1..Len(list), list[i] # NoFilter,
               list[i] = list[j], i # j
        PROVE  FALSE
    <3>1. PICK m \in S, n \in S : m # n /\ list[i] = filters[m] /\ list[j] = filters[n]
      BY <2>4, <2>5
    <3>2. QED BY <2>3, <2>5, <3>1 DEF IInv, ListInv
  <2>6. ASSUME NEW f \in ToSet(list) PROVE f \in ToSet(filters)
    <3>1. PICK i \in 1..Len(list) : list[i] = f BY <2>4 DEF ToSet
    <3>2. PICK n \in S : filters[n] = f BY <2>4, <3>1
    <3>3. QED BY <1>1, <2>3, <3>2 DEF ToSet
  <2>7. \A d \in Changers \ {c} : change[d].pc = "add" => change[d].filter \notin ToSet(list)
    BY <2>6 DEF IInv, ListInv
  <2>8. /\ modCount' \in Nat /\ shifted' \subseteq Requests /\ shifted \subseteq shifted'
        /\ Scanning \ shifted' = {}
    BY <1>1, <1>3 DEF IInv, TypeOK, Scanning
  <2>9. QED BY <1>1, <2>2, <2>4, <2>5, <2>7, <2>8, FilterStep
<1>4. QED BY <1>2, <1>3 DEF CompactFilters

\* Every step of a caller keeps the invariant.
LEMMA ChangeIInv ==
  ASSUME IInv, NEW c \in Changers, ChangeBegins(c) \/ ChangeStep(c)
  PROVE  IInv'
<1>1. CASE ChangeBegins(c)
  BY <1>1, AddFilterIInv, RemoveFilterIInv, RemoveCategoryIInv, FilterSortIInv, AddRouteIInv,
     RemoveRouteIInv
  DEF ChangeBegins, Hashed
<1>2. CASE ChangeStep(c)
  BY <1>2, StoreFilterIInv, CompactFiltersIInv, SortFilterIInv, MeetRouteIInv, RemoveNextIInv,
     CategoryRemovedIInv
  DEF ChangeStep
<1>3. QED BY <1>1, <1>2

-----------------------------------------------------------------------------

\* At the start SecurityFilter is listed before the filters of the program.
LEMMA InitIInv == Init => IInv
<1> SUFFICES ASSUME Init PROVE IInv
  OBVIOUS
<1> USE ConstantsAssumption
<1>1. PICK k \in Nat : k = Len(StartFilters) OBVIOUS
<1>2. /\ filters \in Seq(Filters) /\ Len(filters) = k + 1 /\ filters[1] = Security
      /\ \A i \in 2..k + 1 : filters[i] = StartFilters[i - 1]
  BY <1>1 DEF Init
<1>3. \A i, j \in 1..Len(filters) : filters[i] = filters[j] => i = j
  <2> SUFFICES ASSUME NEW i \in 1..k + 1, NEW j \in 1..k + 1, i < j, filters[i] = filters[j]
               PROVE  FALSE
    BY <1>2
  <2>1. j - 1 \in 1..k /\ filters[j] = StartFilters[j - 1] BY <1>2
  <2>2. CASE i = 1 BY <1>1, <1>2, <2>1, <2>2
  <2>3. CASE i # 1
    <3>1. i \in 2..k + 1 /\ i - 1 \in 1..k /\ i - 1 # j - 1 BY <2>3
    <3>2. filters[i] = StartFilters[i - 1] BY <1>2, <3>1
    <3>3. QED BY <1>1, <2>1, <3>1, <3>2
  <2>4. QED BY <2>2, <2>3
<1>4. NewRequest \in RequestRecords BY DEF NewRequest, RequestRecords, Labels, Kinds
<1>5. Len(<<>>) = 0 OBVIOUS
<1>6. \A r \in Requests : request[r] = NewRequest BY DEF Init
<1>7. TypeOK
  <2>1. request \in [Requests -> RequestRecords] BY <1>4 DEF Init
  <2>2. \A r \in Requests : request[r].index <= Len(request[r].list)
    BY <1>5, <1>6 DEF NewRequest
  <2>3. change \in [Changers -> ChangeRecords] BY IdleFits DEF Init
  <2>4. \A c \in Changers : change[c].pc # "sort" BY DEF Init, Idle
  <2>5. /\ filters \in Seq(Filters \cup {NoFilter}) /\ modCount \in Nat
        /\ sort \in [Filters -> Int] /\ routes \in Seq(RouteInfos)
        /\ \A i, j \in 1..Len(routes) : i # j => Key[routes[i]] # Key[routes[j]]
        /\ changes \in 0..MaxChanges /\ lasting \in [Changers -> SUBSET RouteInfos]
    BY <1>2 DEF Init
  <2>6. /\ stayed \in [Requests -> SUBSET (Filters \cup {NoFilter})]
        /\ shifted \subseteq Requests /\ rerouted \subseteq Requests
    BY DEF Init
  <2>7. QED BY <2>1, <2>2, <2>3, <2>4, <2>5, <2>6 DEF TypeOK
<1>8. \A c \in Changers : change[c].pc = "idle" /\ lasting[c] = {} BY DEF Init, Idle
<1>9. ListInv /\ CategoryInv BY <1>3, <1>8 DEF ListInv, CategoryInv
<1>10. ASSUME NEW r \in Requests PROVE Fits(r, NewRequest)
  BY <1>5 DEF Fits, ScanFits, GuardFits, RaiseFits, CheckFits, NewRequest
<1>11. RequestInv BY <1>6, <1>10 DEF RequestInv, Fits
<1>12. QED BY <1>7, <1>9, <1>11 DEF IInv

\* Every step keeps the invariant.
LEMMA NextIInv == IInv /\ [Next]_vars => IInv'
<1> SUFFICES ASSUME IInv, [Next]_vars PROVE IInv'
  OBVIOUS
<1>1. CASE UNCHANGED vars
  <2>1. /\ UNCHANGED <<filters, modCount, sort, routes, request, change, lasting, changes>>
        /\ UNCHANGED <<stayed, shifted, rerouted>>
    BY <1>1 DEF vars, registries, calls, history
  <2>2. TypeOK' BY <2>1 DEF IInv, TypeOK
  <2>3. ListInv' /\ CategoryInv' BY <2>1 DEF IInv, ListInv, CategoryInv
  <2>4. ASSUME NEW x \in Requests PROVE Fits(x, request[x])'
    <3>1. PICK v : v = request'[x] OBVIOUS
    <3>2. Fits(x, v) BY <2>1, <3>1, RequestFacts
    <3>3. FirstMatch(v.checked)' <=> FirstMatch(v.checked) BY <2>1 DEF FirstMatch
    <3>4. Fits(x, v)'
      BY <2>1, <3>2, <3>3 DEF Fits, ScanFits, GuardFits, RaiseFits, CheckFits
    <3>5. QED BY <3>1, <3>4, FitsNext
  <2>5. RequestInv' BY <2>4 DEF RequestInv, Fits
  <2>6. QED BY <2>2, <2>3, <2>5 DEF IInv
<1>2. ASSUME NEW r \in Requests, Arrive(r) \/ RequestStep(r) PROVE IInv'
  BY <1>2, ArriveIInv, RequestStepIInv
<1>3. ASSUME NEW c \in Changers, ChangeBegins(c) \/ ChangeStep(c) PROVE IInv'
  BY <1>3, ChangeIInv
<1>4. QED BY <1>1, <1>2, <1>3 DEF Next

\* The registries, the requests, the changes under way and the histories fit
\* in every state.
THEOREM PipelineFits == Spec => []IInv
  BY InitIInv, NextIInv, PTL DEF Spec

\* A request that gets through to the servlet has passed every matching filter
\* that was listed all through its scan, unless a removal moved the list.
THEOREM EveryFilterRunsAlways == Spec => []EveryFilterRuns
<1>1. IInv => EveryFilterRuns
  <2> SUFFICES ASSUME IInv, NEW r \in Requests \ shifted, request[r].pc = "service",
                      NEW f \in stayed[r] \cap FilterMatches
               PROVE  \E i \in 1..request[r].index : request[r].list[i] = f
    BY DEF EveryFilterRuns
  <2>1. request[r].index = Len(request[r].list) BY RequestFacts DEF Fits, GuardFits
  <2>2. \E i \in 1..Len(request[r].list) : request[r].list[i] = f
    BY RequestFacts DEF Fits, ScanFits
  <2>3. QED BY <2>1, <2>2
<1>2. QED BY <1>1, PipelineFits, PTL

\* What reaches the container, past doChain and the try of applySecurity, is
\* the failure of a scan, an error, what a filter throws outside a SecurityFilter
\* that found a route, or an answer that failed because the response's writer was
\* taken or the stack was at its end.
THEOREM FailuresAreMappedAlways == Spec => []FailuresAreMapped
<1>1. IInv => FailuresAreMapped
  BY DEF IInv, RequestInv, RaiseFits, FailuresAreMapped
<1>2. QED BY <1>1, PipelineFits, PTL

\* The servlet serves the route that SecurityFilter has checked, unless the
\* routes changed between the two look-ups.
THEOREM ServedAsCheckedAlways == Spec => ServedAsChecked
<1>1. ASSUME IInv, Next, NEW r \in Requests \ rerouted', request[r].pc = "service",
             request'[r].pc # "service", Security \in ToSet(request[r].list)
      PROVE  request'[r].served = request[r].checked
  <2>1. Service(r) /\ rerouted' = rerouted
    <3>1. request \in [Requests -> RequestRecords] BY <1>1 DEF IInv, TypeOK
    <3>2. ASSUME NEW x \in Requests, Arrive(x) \/ RequestStep(x)
          PROVE  Service(r) /\ rerouted' = rerouted
      <4>1. x = r
        <5>1. request' = [request EXCEPT ![x] = request'[x]]
          BY <3>1, <3>2
          DEF RequestStep, Arrive, Visit, ScanThrows, SortFilters, ApplySecurity, ApplyFilter,
              DoChain, Service, Handle, Mapped, InternalServerErrorThrows, MapperThrows, Unwind,
              Throws, Answered, Raise, Fail, Go
        <5>2. QED BY <1>1, <3>1, <5>1
      <4>2. QED
        BY <1>1, <3>2, <4>1
        DEF RequestStep, Arrive, Visit, ScanThrows, SortFilters, ApplySecurity, ApplyFilter,
            Applying, DoChain, Service, Handle, Mapped, InternalServerErrorThrows, MapperThrows,
            Unwind, Answered, Raise, Fail, calls, history
    <3>3. ASSUME NEW c \in Changers, ChangeBegins(c) \/ ChangeStep(c) PROVE FALSE
      <4>1. UNCHANGED request
        BY <3>3
        DEF ChangeBegins, ChangeStep, StoreFilter, CompactFilters, SortFilter, MeetRoute,
            RemoveNext, CategoryRemoved, AddFilter, RemoveFilter, RemoveCategory, FilterSort, AddRoute,
            RemoveRoute
      <4>2. QED BY <1>1, <4>1
    <3>4. QED BY <1>1, <3>2, <3>3 DEF Next
  <2>2. PICK q \in RequestRecords : q = request[r] BY <1>1, RequestFacts
  <2>3. routes \in Seq(RouteInfos) /\ request \in [Requests -> RequestRecords]
    BY <1>1 DEF IInv, TypeOK
  <2>4. Passed(q)
    <3>1. q.index = Len(q.list) /\ q.list \in Seq(Filters)
      BY <1>1, <2>2, RequestFacts, FieldTypes DEF Fits, GuardFits
    <3>2. QED BY <1>1, <2>2, <3>1 DEF Passed, ToSet
  <2>5. FirstMatch(q.checked)
    BY <1>1, <2>1, <2>2, <2>4, RequestFacts DEF Fits, CheckFits
  <2>6. PICK x \in RouteInfos \cup {NoRoute} :
          /\ FirstMatch(x)
          /\ Go(r, [q EXCEPT !.pc = IF x = NoRoute THEN "unwind" ELSE "handle", !.served = x])
    BY <2>1, <2>2 DEF Service
  <2>7. request'[r].served = x BY <2>2, <2>3, <2>6 DEF Go, RequestRecords
  <2>8. QED BY <2>2, <2>3, <2>5, <2>6, <2>7, FirstMatchUnique
<1>2. IInv /\ [Next]_vars => [\A r \in Requests \ rerouted' :
         /\ request[r].pc = "service" /\ request'[r].pc # "service"
         /\ Security \in ToSet(request[r].list)
         => request'[r].served = request[r].checked]_vars
  BY <1>1
<1>3. QED BY <1>2, PipelineFits, PTL DEF Spec, ServedAsChecked

\* A removal by category never removes a route of another category that was
\* registered all the time since it began.
THEOREM OthersKeepTheirRoutesAlways == Spec => OthersKeepTheirRoutes
<1>1. ASSUME IInv, Next, NEW c \in Changers, change[c].pc \in {"category", "met"},
             change'[c] # change[c],
             NEW x \in lasting[c], Category[x] # change[c].category
      PROVE  x \in ToSet(routes')
  <2>0. x \in ToSet(routes) BY <1>1 DEF IInv, CategoryInv
  <2>1. change \in [Changers -> ChangeRecords] BY <1>1 DEF IInv, TypeOK
  <2>2. ASSUME NEW r \in Requests, Arrive(r) \/ RequestStep(r) PROVE FALSE
    <3>1. UNCHANGED change
      BY <2>2
      DEF RequestStep, Arrive, Visit, ScanThrows, SortFilters, ApplySecurity, ApplyFilter,
          DoChain, Service, Handle, Mapped, InternalServerErrorThrows, MapperThrows, Unwind,
          Answered, Raise, Fail, calls
    <3>2. QED BY <1>1, <3>1
  <2>3. ASSUME NEW d \in Changers, ChangeBegins(d)
        PROVE  FALSE
    <3>1. change[d].pc = "idle" /\ \A e \in Changers \ {d} : change'[e] = change[e]
      BY <2>1, <2>3
      DEF ChangeBegins, AddFilter, RemoveFilter, RemoveCategory, FilterSort, AddRoute,
          RemoveRoute, Begin
    <3>2. QED BY <1>1, <3>1
  <2>4. ASSUME NEW d \in Changers, RemoveNext(d)
        PROVE  x \in ToSet(routes')
    <3>1. d = c /\ change[c].pc = "met" BY <1>1, <2>1, <2>4 DEF RemoveNext
    <3>2. PICK list \in Without(change[c].key) : routes' = list
      BY <2>4, <3>1 DEF RemoveNext, Reroute
    <3>3. Key[x] # change[c].key BY <1>1, <3>1 DEF IInv, CategoryInv
    <3>4. QED BY <1>1, <2>0, <3>2, <3>3, WithoutKeepsKeys
  <2>5. ASSUME NEW d \in Changers,
               StoreFilter(d) \/ CompactFilters(d) \/ SortFilter(d) \/ MeetRoute(d)
               \/ CategoryRemoved(d)
        PROVE  UNCHANGED routes
    BY <2>5 DEF StoreFilter, CompactFilters, SortFilter, MeetRoute, CategoryRemoved, registries
  <2>6. QED BY <1>1, <2>0, <2>2, <2>3, <2>4, <2>5 DEF Next, ChangeStep
<1>2. IInv /\ [Next]_vars => [\A c \in Changers :
         change[c].pc \in {"category", "met"} /\ change'[c] # change[c]
         => {x \in lasting[c] : Category[x] # change[c].category} \subseteq ToSet(routes')]_vars
  BY <1>1
<1>3. QED BY <1>2, PipelineFits, PTL DEF Spec, OthersKeepTheirRoutes
=============================================================================
