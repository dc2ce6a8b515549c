------------------------- MODULE KafkaClientsProofs -------------------------
(***************************************************************************)
(* Proofs about KafkaClients, for every set of callers, identities and     *)
(* clients and every number of calls.                                      *)
(***************************************************************************)
EXTENDS KafkaClients, TLAPS

\* The inductive invariant: the two properties and what their steps rest on.
Inv == IInv /\ UnregisteredIsGone /\ ClientsAreReachable

\* A call that moves to another label stays a call.
LEMMA CallTypes ==
  /\ NoCall \in Call
  /\ \A k \in Call, pc \in Labels : [k EXCEPT !.pc = pc] \in Call
  BY DEF Call, NoCall, Labels

\* A step that changes a map moves its own call, and of the others sets stale.
LEMMA ChangingCalls ==
  ASSUME call \in [Callers -> Call], NEW c \in Callers, NEW k \in Call, GoChanging(c, k)
  PROVE  /\ call' \in [Callers -> Call]
         /\ call'[c] = k
         /\ \A d \in Callers \ {c} :
              /\ call'[d].pc = call[d].pc /\ call'[d].id = call[d].id
              /\ call'[d].client = call[d].client
              /\ call[d].stale => call'[d].stale
              /\ call[d].pc = "insert" /\ call[d].id = call[c].id => call'[d].stale
<1>1. \A r \in Call : LET s == [r EXCEPT !.stale = TRUE]
                      IN  s \in Call /\ s.pc = r.pc /\ s.id = r.id /\ s.client = r.client /\ s.stale
  BY DEF Call
<1>2. ASSUME NEW d \in Callers \ {c}
      PROVE  /\ call'[d] \in Call
             /\ call'[d].pc = call[d].pc /\ call'[d].id = call[d].id
             /\ call'[d].client = call[d].client
             /\ call[d].stale => call'[d].stale
             /\ call[d].pc = "insert" /\ call[d].id = call[c].id => call'[d].stale
  <2>1. CASE call[d].pc = "insert" /\ SameMap(call[d].id, call[c].id)
    BY <1>1, <2>1 DEF GoChanging
  <2>2. CASE ~(call[d].pc = "insert" /\ SameMap(call[d].id, call[c].id))
    BY <2>2 DEF GoChanging, SameMap
  <2>3. QED BY <2>1, <2>2
<1>3. call'[c] = k BY DEF GoChanging
<1>4. call' \in [Callers -> Call]
  <2>1. \A d \in Callers : call'[d] \in Call BY <1>2, <1>3
  <2>2. QED BY <2>1 DEF GoChanging
<1>5. QED BY <1>2, <1>3, <1>4

\* Before the first registration nothing is mapped, made or under way.
LEMMA InitInv == Init => Inv
<1> SUFFICES ASSUME Init PROVE Inv
  OBVIOUS
<1>1. TypeOK BY ConstantsAssumption, CallTypes DEF Init, TypeOK
<1>2. CallInv BY DEF Init, CallInv, NoCall, GetLabels
<1>3. UnregisteredIsGone BY DEF Init, UnregisteredIsGone
<1>4. ClientsAreReachable BY DEF Init, ClientsAreReachable
<1>5. QED BY <1>1, <1>2, <1>3, <1>4 DEF Inv, IInv

\* A step of a call that neither holds a client for the map nor closes one,
\* and leaves the maps and the states of the clients as they are.
LEMMA OtherStep ==
  ASSUME Inv, NEW c \in Callers, NEW k \in Call,
         call' = [call EXCEPT ![c] = k],
         UNCHANGED <<configs, mapped, client, overlapped, lost>>,
         user' \in [Clients -> Callers \cup {NoCaller}], woken' \subseteq Clients,
         calls' \in 0..MaxCalls,
         call[c].pc \notin {"insert"} \cup CloseLabels,
         k.pc \notin {"insert"} \cup CloseLabels,
         k.pc # "idle" => k.id \in Ids,
         k.pc = "compute" => k.id \in configs
  PROVE  Inv'
<1> USE DEF Inv, IInv
<1>1. /\ call \in [Callers -> Call]
      /\ call'[c] = k
      /\ \A d \in Callers \ {c} : call'[d] = call[d]
  BY DEF TypeOK
<1>2. TypeOK' BY DEF TypeOK
<1>3. CallInv' BY <1>1 DEF CallInv, GetLabels, CloseLabels
<1>4. UnregisteredIsGone' BY <1>1 DEF UnregisteredIsGone, CloseLabels
<1>5. ClientsAreReachable' BY <1>1 DEF ClientsAreReachable, CloseLabels
<1>6. QED BY <1>2, <1>3, <1>4, <1>5

\* register: the check changes nothing, the put only adds a config.
LEMMA RegisterInv ==
  ASSUME Inv, NEW c \in Callers, NEW id \in Ids, Register(c, id)
  PROVE  Inv'
<1> DEFINE k == [NoCall EXCEPT !.pc = "putConfig", !.id = id]
<1>1. k \in Call BY DEF Call, NoCall, Labels
<1>2. /\ k.pc = "putConfig" /\ k.id = id
      /\ call' = [call EXCEPT ![c] = k] /\ call[c].pc = "idle"
      /\ calls' \in 0..MaxCalls
  BY ConstantsAssumption DEF Register, Start, Go, NoCall, Inv, IInv, TypeOK
<1>3. QED
  BY <1>1, <1>2, OtherStep
  DEF Register, maps, objects, history, CloseLabels, Inv, IInv, TypeOK

\* register, second step: the config of an identity appears, and only that.
LEMMA PutConfigInv ==
  ASSUME Inv, NEW c \in Callers, PutConfig(c)
  PROVE  Inv'
<1> USE DEF Inv, IInv, PutConfig, Return, Go, maps, objects, history
<1>1. /\ call \in [Callers -> Call]
      /\ call'[c] = NoCall /\ NoCall.pc = "idle" /\ NoCall \in Call
      /\ \A d \in Callers \ {c} : call'[d] = call[d]
      /\ call[c].id \in Ids
  BY CallTypes DEF TypeOK, CallInv, NoCall
<1>2. TypeOK' BY <1>1 DEF TypeOK
<1>3. CallInv' BY <1>1 DEF CallInv, GetLabels, CloseLabels
<1>4. UnregisteredIsGone' BY <1>1 DEF UnregisteredIsGone
<1>5. ClientsAreReachable' BY <1>1 DEF ClientsAreReachable, CloseLabels
<1>6. QED BY <1>2, <1>3, <1>4, <1>5

\* get: the check of the config.
LEMMA GetInv ==
  ASSUME Inv, NEW c \in Callers, NEW id \in Ids, NEW op \in Operations(id), Get(c, id, op)
  PROVE  Inv'
<1> DEFINE k == [NoCall EXCEPT !.pc = "compute", !.id = id, !.next = op]
<1>1. k \in Call BY DEF Call, NoCall, Labels, Operations, GetLabels
<1>2. /\ k.pc = "compute" /\ k.id = id
      /\ call' = [call EXCEPT ![c] = k] /\ call[c].pc = "idle"
      /\ calls' \in 0..MaxCalls
  BY ConstantsAssumption DEF Get, Start, Go, NoCall, Inv, IInv, TypeOK
<1>3. QED
  BY <1>1, <1>2, OtherStep
  DEF Get, maps, objects, history, CloseLabels, Inv, IInv, TypeOK

\* The maker of a client holds it until it is in the map, or loses it.
LEMMA ComputeIfAbsentInv ==
  ASSUME Inv, NEW c \in Callers, ComputeIfAbsent(c)
  PROVE  Inv'
<1> DEFINE k == call[c]
<1>1. /\ call \in [Callers -> Call] /\ k \in Call /\ k.pc = "compute"
      /\ k.id \in Ids /\ k.id \in configs \cup overlapped
  BY DEF Inv, IInv, TypeOK, CallInv, ComputeIfAbsent, GetLabels
<1>2. CASE /\ mapped[k.id] # NoClient
           /\ Go(c, [k EXCEPT !.client = mapped[k.id], !.pc = k.next])
           /\ UNCHANGED <<client, lost>>
  <2> DEFINE q == [k EXCEPT !.client = mapped[k.id], !.pc = k.next]
  <2>1. q \in Call /\ q.pc \notin {"insert", "compute"} \cup CloseLabels /\ q.id = k.id
    BY <1>1 DEF Call, Labels, CloseLabels, Inv, IInv, TypeOK
  <2>2. QED
    BY <1>1, <1>2, <2>1, OtherStep
    DEF ComputeIfAbsent, Go, maps, CloseLabels, Inv, IInv, TypeOK
<1>3. CASE mapped[k.id] = NoClient /\ Return(c) /\ UNCHANGED <<client, lost>>
  <2>1. NoCall \in Call /\ NoCall.pc = "idle" BY CallTypes DEF NoCall
  <2>2. QED
    BY <1>1, <1>3, <2>1, OtherStep
    DEF ComputeIfAbsent, Return, Go, maps, CloseLabels, Inv, IInv, TypeOK
<1>4. ASSUME NEW x \in Clients, mapped[k.id] = NoClient, client[x] = "unused",
             client' = [client EXCEPT ![x] = "open"],
             \/ /\ Go(c, [k EXCEPT !.client = x, !.pc = "insert"])
                /\ UNCHANGED lost
             \/ lost' = lost \cup {x} /\ Return(c)
      PROVE  Inv'
  <2> USE DEF Inv, IInv
  <2> DEFINE q == [k EXCEPT !.client = x, !.pc = "insert"]
  <2>1. /\ q \in Call /\ q.pc = "insert" /\ q.id = k.id /\ q.client = x
        /\ NoCall \in Call /\ NoCall.pc = "idle"
    BY <1>1, CallTypes DEF Call, Labels, GetLabels, NoCall
  <2>2. /\ UNCHANGED <<configs, mapped, user, woken, calls, overlapped, robbed>>
        /\ \A d \in Callers \ {c} : call'[d] = call[d]
        /\ \/ call' = [call EXCEPT ![c] = q] /\ call'[c] = q /\ lost' = lost
           \/ call' = [call EXCEPT ![c] = NoCall] /\ call'[c] = NoCall /\ lost' = lost \cup {x}
    BY <1>1, <1>4 DEF ComputeIfAbsent, Go, Return, maps
  <2>3. \A y \in Clients : /\ client[y] # "unused" => y # x
                           /\ client'[y] = IF y = x THEN "open" ELSE client[y]
    BY <1>4 DEF TypeOK
  <2>4. TypeOK' BY <1>1, <1>4, <2>1, <2>2, <2>3 DEF TypeOK
  <2>5. CallInv'
    <3> HIDE DEF q
    <3>1. \A y \in Clients : client[y] # "unused" => client'[y] # "unused"
      BY <2>3
    <3>2. ASSUME NEW d \in Callers
          PROVE  LET r == call'[d]
                 IN /\ r.pc # "idle" => r.id \in Ids
                    /\ r.pc \in GetLabels => r.id \in configs' \cup overlapped'
                    /\ r.pc = "insert" => /\ r.client \in Clients /\ client'[r.client] # "unused"
                                          /\ r.stale \/ mapped'[r.id] = NoClient
                    /\ r.pc = "remove" => r.client = NoClient
                    /\ r.pc \in {"wakeup", "close"} => r.client \in Clients
      <4>1. CASE d = c /\ call'[c] = q
        BY <1>1, <1>4, <2>1, <2>2, <2>3, <4>1 DEF GetLabels
      <4>2. CASE d = c /\ call'[c] = NoCall
        BY <2>1, <4>2 DEF GetLabels
      <4>3. CASE d # c
        BY <2>2, <3>1, <4>3 DEF CallInv
      <4>4. QED BY <2>2, <4>1, <4>2, <4>3
    <3>3. QED BY <3>2 DEF CallInv
  <2>6. UnregisteredIsGone' BY <1>1, <2>1, <2>2 DEF UnregisteredIsGone
  <2>7. ClientsAreReachable'
    <3> SUFFICES ASSUME NEW y \in Clients \ lost', client'[y] = "open"
                 PROVE  \/ \E id \in Ids : mapped'[id] = y
                        \/ \E d \in Callers : /\ call'[d].client = y
                                            /\ call'[d].pc \in {"insert"} \cup CloseLabels
      BY DEF ClientsAreReachable
    <3>1. CASE y = x BY <2>1, <2>2, <3>1
    <3>2. CASE y # x
      <4>1. y \notin lost /\ client[y] = "open" BY <2>2, <2>3, <3>2
      <4>2. QED BY <1>1, <2>2, <4>1 DEF ClientsAreReachable, CloseLabels
    <3>3. QED BY <3>1, <3>2
  <2>8. QED BY <2>4, <2>5, <2>6, <2>7
<1>5. QED BY <1>1, <1>2, <1>3, <1>4 DEF ComputeIfAbsent

\* A free place in the map is filled; a step on a map that has changed loses
\* only clients it names.
LEMMA InsertInv ==
  ASSUME Inv, NEW c \in Callers, Insert(c)
  PROVE  Inv'
<1> USE DEF Inv, IInv
<1> DEFINE k == call[c]
           found == [k EXCEPT !.pc = k.next, !.stale = FALSE]
<1>1. /\ call \in [Callers -> Call] /\ k \in Call /\ k.pc = "insert"
      /\ k.id \in Ids /\ k.id \in configs \cup overlapped
      /\ k.client \in Clients /\ client[k.client] # "unused"
      /\ k.stale \/ mapped[k.id] = NoClient
  BY DEF TypeOK, CallInv, Insert, GetLabels
<1>2. /\ found \in Call /\ found.id = k.id
      /\ found.pc \notin {"insert", "compute"} \cup CloseLabels
  BY <1>1 DEF Call, Labels, CloseLabels
<1>3. NoCall \in Call /\ NoCall.pc = "idle" BY CallTypes DEF NoCall
<1>4. CASE /\ mapped' = [mapped EXCEPT ![k.id] = k.client]
           /\ GoChanging(c, found)
           /\ IF k.stale THEN lost' = lost \cup ({k.client, mapped[k.id]} \ {NoClient})
              ELSE UNCHANGED lost
  <2>1. /\ UNCHANGED <<configs, client, user, woken, calls, overlapped, robbed>>
        /\ mapped'[k.id] = k.client
        /\ \A id \in Ids \ {k.id} : mapped'[id] = mapped[id]
    BY <1>1, <1>4 DEF Insert, objects, TypeOK
  <2>2. /\ call' \in [Callers -> Call]
        /\ call'[c] = found
        /\ \A d \in Callers \ {c} :
             /\ call'[d].pc = call[d].pc /\ call'[d].id = call[d].id
             /\ call'[d].client = call[d].client
             /\ call[d].stale => call'[d].stale
             /\ call[d].pc = "insert" /\ call[d].id = k.id => call'[d].stale
    <3> HIDE DEF found
    <3>1. GoChanging(c, found) BY <1>4
    <3>2. QED BY <1>1, <1>2, <3>1, ChangingCalls
  <2>4. TypeOK' BY <1>1, <1>4, <2>1, <2>2 DEF TypeOK
  <2> HIDE DEF found
  <2>5. CallInv'
    <3>1. ASSUME NEW d \in Callers
          PROVE  LET r == call'[d]
                 IN /\ r.pc # "idle" => r.id \in Ids
                    /\ r.pc \in GetLabels => r.id \in configs' \cup overlapped'
                    /\ r.pc = "insert" => /\ r.client \in Clients /\ client'[r.client] # "unused"
                                          /\ r.stale \/ mapped'[r.id] = NoClient
                    /\ r.pc = "remove" => r.client = NoClient
                    /\ r.pc \in {"wakeup", "close"} => r.client \in Clients
      <4>1. CASE d = c BY <1>1, <1>2, <2>1, <2>2, <4>1 DEF GetLabels, CloseLabels
      <4>2. CASE d # c
        BY <1>1, <2>1, <2>2, <4>2 DEF CallInv, GetLabels
      <4>3. QED BY <4>1, <4>2
    <3>2. QED BY <3>1 DEF CallInv
  <2>6. UnregisteredIsGone'
    <3> SUFFICES ASSUME NEW id \in Ids \ overlapped', mapped'[id] # NoClient, id \notin configs'
                 PROVE  \E d \in Callers : call'[d].pc = "remove" /\ call'[d].id = id
      BY DEF UnregisteredIsGone
    <3>1. id # k.id /\ mapped[id] # NoClient BY <1>1, <2>1
    <3>2. PICK d \in Callers : call[d].pc = "remove" /\ call[d].id = id
      BY <2>1, <3>1 DEF UnregisteredIsGone
    <3>3. QED BY <1>1, <2>2, <3>2
  <2>7. ClientsAreReachable'
    <3> SUFFICES ASSUME NEW y \in Clients \ lost', client'[y] = "open"
                 PROVE  \/ \E id \in Ids : mapped'[id] = y
                        \/ \E d \in Callers : /\ call'[d].client = y
                                            /\ call'[d].pc \in {"insert"} \cup CloseLabels
      BY DEF ClientsAreReachable
    <3>1. CASE y = k.client BY <1>1, <2>1, <3>1
    <3>2. CASE y # k.client
      <4>1. y \notin lost /\ client[y] = "open" /\ mapped[k.id] # y
        BY <1>1, <1>4, <2>1, <3>2, ConstantsAssumption
      <4>2. CASE \E id \in Ids : mapped[id] = y BY <2>1, <4>1, <4>2
      <4>3. CASE \E d \in Callers : call[d].client = y /\ call[d].pc \in {"insert"} \cup CloseLabels
        BY <2>2, <3>2, <4>3
      <4>4. QED BY <4>1, <4>2, <4>3 DEF ClientsAreReachable
    <3>3. QED BY <3>1, <3>2
  <2>8. QED BY <2>4, <2>5, <2>6, <2>7
<1>5. CASE /\ Return(c) \/ Go(c, found)
           /\ UNCHANGED mapped
           /\ lost' = lost \cup ({k.client, mapped[k.id]} \ {NoClient})
  <2>1. /\ UNCHANGED <<configs, mapped, client, user, woken, calls, overlapped, robbed>>
        /\ \A d \in Callers \ {c} : call'[d] = call[d]
        /\ call' \in [Callers -> Call]
        /\ call'[c] \in {NoCall, found}
    BY <1>1, <1>2, <1>3, <1>5 DEF Insert, objects, Return, Go
  <2>2. k.client \in lost' BY <1>1, <1>5, ConstantsAssumption
  <2>3. TypeOK' BY <2>1 DEF TypeOK
  <2> HIDE DEF found
  <2>4. CallInv'
    <3>1. ASSUME NEW d \in Callers
          PROVE  LET r == call'[d]
                 IN /\ r.pc # "idle" => r.id \in Ids
                    /\ r.pc \in GetLabels => r.id \in configs' \cup overlapped'
                    /\ r.pc = "insert" => /\ r.client \in Clients /\ client'[r.client] # "unused"
                                          /\ r.stale \/ mapped'[r.id] = NoClient
                    /\ r.pc = "remove" => r.client = NoClient
                    /\ r.pc \in {"wakeup", "close"} => r.client \in Clients
      <4>1. CASE d = c /\ call'[c] = found
        BY <1>1, <1>2, <4>1 DEF GetLabels, CloseLabels
      <4>2. CASE d = c /\ call'[c] = NoCall BY <1>3, <4>2 DEF GetLabels
      <4>3. CASE d # c BY <2>1, <4>3 DEF CallInv
      <4>4. QED BY <2>1, <4>1, <4>2, <4>3
    <3>2. QED BY <3>1 DEF CallInv
  <2>5. UnregisteredIsGone' BY <1>1, <2>1 DEF UnregisteredIsGone
  <2>6. ClientsAreReachable'
    BY <1>1, <1>5, <2>1, <2>2 DEF ClientsAreReachable, CloseLabels
  <2>7. QED BY <2>3, <2>4, <2>5, <2>6
<1>6. QED BY <1>4, <1>5 DEF Insert

\* One way in which most steps go on: the call moves to another label.
LEMMA StepTo ==
  ASSUME Inv, NEW c \in Callers, NEW pc \in Labels, To(c, pc),
         UNCHANGED <<configs, mapped, client, calls, overlapped, lost>>,
         user' \in [Clients -> Callers \cup {NoCaller}], woken' \subseteq Clients,
         call[c].pc \notin {"idle", "insert"} \cup CloseLabels,
         pc \notin {"insert"} \cup CloseLabels,
         pc = "compute" => call[c].id \in configs
  PROVE  Inv'
<1> DEFINE k == [call[c] EXCEPT !.pc = pc]
<1>1. k \in Call /\ k.pc = pc /\ k.id = call[c].id /\ k.id \in Ids
  BY DEF Call, Inv, IInv, TypeOK, CallInv
<1>2. call' = [call EXCEPT ![c] = k] /\ calls' \in 0..MaxCalls
  BY DEF To, Go, Inv, IInv, TypeOK
<1> HIDE DEF k
<1>3. QED BY <1>1, <1>2, OtherStep

\* The other way: the call is over.
LEMMA StepReturn ==
  ASSUME Inv, NEW c \in Callers, Return(c),
         UNCHANGED <<configs, mapped, client, calls, overlapped, lost>>,
         user' \in [Clients -> Callers \cup {NoCaller}], woken' \subseteq Clients,
         call[c].pc \notin {"insert"} \cup CloseLabels
  PROVE  Inv'
<1>1. NoCall \in Call /\ NoCall.pc = "idle" BY CallTypes DEF NoCall
<1>2. call' = [call EXCEPT ![c] = NoCall] /\ calls' \in 0..MaxCalls
  BY DEF Return, Go, Inv, IInv, TypeOK
<1>3. QED BY <1>1, <1>2, OtherStep DEF CloseLabels

\* flush and the transaction calls.
LEMMA UseProducerInv ==
  ASSUME Inv, NEW c \in Callers, UseProducer(c)
  PROVE  Inv'
  BY StepReturn
  DEF UseProducer, maps, objects, history, CloseLabels, Inv, IInv, TypeOK

\* A commit enters the consumer, or is refused.
LEMMA BeginUseInv ==
  ASSUME Inv, NEW c \in Callers, BeginUse(c)
  PROVE  Inv'
<1> USE DEF BeginUse, maps, history, CloseLabels, Inv, IInv, TypeOK
<1>1. CASE Refuses(call[c].client) BY <1>1, StepReturn
<1>2. CASE ~Refuses(call[c].client)
  <2>1. user' \in [Clients -> Callers \cup {NoCaller}] BY <1>2
  <2>2. "using" \in Labels BY DEF Labels
  <2>3. To(c, "using") /\ UNCHANGED <<configs, mapped, client, woken, calls, overlapped, lost>>
    BY <1>2
  <2>4. QED BY <2>1, <2>2, <2>3, StepTo
<1>3. QED BY <1>1, <1>2

\* A commit leaves the consumer and may take its wakeup.
LEMMA EndUseInv ==
  ASSUME Inv, NEW c \in Callers, EndUse(c)
  PROVE  Inv'
  BY StepReturn DEF EndUse, Receive, maps, CloseLabels, Inv, IInv, TypeOK

\* A listener subscribes on the consumer it got, or is refused.
LEMMA SubscribeInv ==
  ASSUME Inv, NEW c \in Callers, Subscribe(c)
  PROVE  Inv'
<1> USE DEF Subscribe, maps, objects, history, CloseLabels, Inv, IInv, TypeOK
<1>1. CASE Refuses(call[c].client) BY <1>1, StepReturn
<1>2. CASE ~Refuses(call[c].client)
  <2> DEFINE k == [call[c] EXCEPT !.own = call[c].client, !.next = "poll", !.pc = "loop"]
  <2>1. k \in Call /\ k.pc = "loop" /\ k.id = call[c].id /\ k.id \in Ids
    BY DEF Call, Labels, CallInv
  <2>2. call' = [call EXCEPT ![c] = k] BY <1>2 DEF Go
  <2> HIDE DEF k
  <2>3. QED BY <2>1, <2>2, OtherStep
<1>3. QED BY <1>1, <1>2

\* The listener's loop goes on only with a config.
LEMMA IsExistsInv ==
  ASSUME Inv, NEW c \in Callers, IsExists(c)
  PROVE  Inv'
<1> USE DEF IsExists, maps, objects, history, CloseLabels, Inv, IInv, TypeOK
<1>1. CASE call[c].id \in configs BY <1>1, StepTo DEF Labels, GetLabels
<1>2. CASE call[c].id \notin configs BY <1>2, StepReturn
<1>3. QED BY <1>1, <1>2

\* A poll begins, is refused or receives a wakeup.
LEMMA PollInv ==
  ASSUME Inv, NEW c \in Callers, Poll(c)
  PROVE  Inv'
<1> USE DEF Poll, Receive, maps, CloseLabels, Inv, IInv, TypeOK
<1>1. user' \in [Clients -> Callers \cup {NoCaller}] /\ woken' \subseteq Clients
  OBVIOUS
<1>2. CASE Return(c) BY <1>1, <1>2, StepReturn
<1>3. CASE To(c, "polling") BY <1>1, <1>3, StepTo DEF Labels
<1>4. QED BY <1>2, <1>3

\* A poll returns or throws.
LEMMA PollEndsInv ==
  ASSUME Inv, NEW c \in Callers, PollEnds(c)
  PROVE  Inv'
<1> USE DEF PollEnds, Receive, maps, CloseLabels, Inv, IInv, TypeOK
<1>1. user' \in [Clients -> Callers \cup {NoCaller}] /\ woken' \subseteq Clients
  OBVIOUS
<1>2. CASE Return(c) BY <1>1, <1>2, StepReturn
<1>3. CASE To(c, "deliver") BY <1>1, <1>3, StepTo DEF Labels
<1>4. QED BY <1>2, <1>3

\* The listener's code returns or throws.
LEMMA DeliverInv ==
  ASSUME Inv, NEW c \in Callers, Deliver(c)
  PROVE  Inv'
<1> USE DEF Deliver, maps, objects, history, CloseLabels, Inv, IInv, TypeOK
<1>1. CASE Return(c) BY <1>1, StepReturn
<1>2. CASE To(c, "loop") BY <1>2, StepTo DEF Labels
<1>3. QED BY <1>1, <1>2

\* send and close: the client that the call holds is closed, or lost.
LEMMA ClosingStep ==
  ASSUME Inv, NEW c \in Callers, NEW k \in Call,
         call' = [call EXCEPT ![c] = k],
         UNCHANGED <<configs, mapped, user, woken, calls, overlapped>>,
         call[c].pc \in {"send", "close"},
         k.pc \in {"idle", "deliver"},
         k.pc # "idle" => k.id \in Ids,
         \/ client' = [client EXCEPT ![call[c].client] = "closed"] /\ lost' = lost
         \/ client' = client /\ lost' = lost \cup {call[c].client}
  PROVE  Inv'
<1> USE DEF Inv, IInv
<1>1. /\ call \in [Callers -> Call]
      /\ call'[c] = k
      /\ \A d \in Callers \ {c} : call'[d] = call[d]
  BY DEF TypeOK
<1>2. /\ client' \in [Clients -> {"unused", "open", "closed"}]
      /\ \A y \in Clients : /\ client[y] # "unused" => client'[y] # "unused"
                            /\ client'[y] = "open" /\ y \notin lost'
                                 => client[y] = "open" /\ y \notin lost /\ y # call[c].client
  BY DEF TypeOK
<1>3. TypeOK' BY <1>1, <1>2 DEF TypeOK
<1>4. CallInv' BY <1>1, <1>2 DEF CallInv, GetLabels
<1>5. UnregisteredIsGone' BY <1>1 DEF UnregisteredIsGone
<1>6. ClientsAreReachable'
  <2> SUFFICES ASSUME NEW y \in Clients \ lost', client'[y] = "open"
               PROVE  \/ \E id \in Ids : mapped'[id] = y
                      \/ \E d \in Callers : /\ call'[d].client = y
                                          /\ call'[d].pc \in {"insert"} \cup CloseLabels
    BY DEF ClientsAreReachable
  <2>1. CASE \E id \in Ids : mapped[id] = y BY <2>1
  <2>2. CASE \E d \in Callers : call[d].client = y /\ call[d].pc \in {"insert"} \cup CloseLabels
    BY <1>1, <1>2, <2>2
  <2>3. QED BY <1>2, <2>1, <2>2 DEF ClientsAreReachable
<1>7. QED BY <1>3, <1>4, <1>5, <1>6

\* send closes the producer it used.
LEMMA SendInv ==
  ASSUME Inv, NEW c \in Callers, Send(c)
  PROVE  Inv'
<1>1. NoCall \in Call /\ NoCall.pc = "idle" BY CallTypes DEF NoCall
<1>2. QED BY <1>1, ClosingStep DEF Send, Return, Go, maps, history

\* close closes the client it took out of the map, or loses it.
LEMMA CloseClientInv ==
  ASSUME Inv, NEW c \in Callers, CloseClient(c)
  PROVE  Inv'
<1> DEFINE k == [call[c] EXCEPT !.pc = "deliver"]
<1>1. NoCall \in Call /\ NoCall.pc = "idle" BY CallTypes DEF NoCall
<1>2. k \in Call /\ k.pc = "deliver" /\ k.id \in Ids
  BY DEF CloseClient, Call, Labels, Inv, IInv, TypeOK, CallInv
<1>3. PICK q \in {NoCall, k} : call' = [call EXCEPT ![c] = q]
  BY DEF CloseClient, Back, To, Return, Go
<1> HIDE DEF k
<1>4. QED BY <1>1, <1>2, <1>3, ClosingStep DEF CloseClient, maps

\* close begins: the config goes, and a get that has seen it is overlapped.
LEMMA CloseBeginsInv ==
  ASSUME Inv, NEW c \in Callers, NEW id \in Ids, NEW k \in Call,
         call[c].pc \in {"idle", "deliver"}, CloseBegins(c, id, k)
  PROVE  Inv'
<1> USE DEF Inv, IInv
<1> DEFINE q == [k EXCEPT !.pc = "remove", !.id = id, !.client = NoClient]
<1>1. q \in Call /\ q.pc = "remove" /\ q.id = id /\ q.client = NoClient
  BY DEF Call, Labels, CloseLabels
<1>2. /\ call' = [call EXCEPT ![c] = q]
      /\ calls' \in 0..MaxCalls
  BY ConstantsAssumption DEF CloseBegins, Go, TypeOK
<1> HIDE DEF q
<1>3. /\ call \in [Callers -> Call]
      /\ call'[c] = q
      /\ \A d \in Callers \ {c} : call'[d] = call[d]
  BY <1>2 DEF TypeOK
<1>4. /\ UNCHANGED <<mapped, client, user, woken, lost, robbed>>
      /\ configs' = configs \ {id} /\ overlapped \subseteq overlapped'
      /\ \A d \in Callers : call[d].pc \in GetLabels /\ call[d].id = id => id \in overlapped'
  BY DEF CloseBegins, objects
<1>5. TypeOK' BY <1>1, <1>2, <1>4 DEF TypeOK
<1>6. CallInv'
  <2>1. ASSUME NEW d \in Callers
        PROVE  LET r == call'[d]
               IN /\ r.pc # "idle" => r.id \in Ids
                  /\ r.pc \in GetLabels => r.id \in configs' \cup overlapped'
                  /\ r.pc = "insert" => /\ r.client \in Clients /\ client'[r.client] # "unused"
                                        /\ r.stale \/ mapped'[r.id] = NoClient
                  /\ r.pc = "remove" => r.client = NoClient
                  /\ r.pc \in {"wakeup", "close"} => r.client \in Clients
    <3>1. CASE d = c BY <1>1, <1>3, <3>1 DEF GetLabels
    <3>2. CASE d # c BY <1>3, <1>4, <3>2 DEF CallInv
    <3>3. QED BY <3>1, <3>2
  <2>2. QED BY <2>1 DEF CallInv
<1>7. UnregisteredIsGone'
  <2> SUFFICES ASSUME NEW i \in Ids \ overlapped', mapped'[i] # NoClient, i \notin configs'
               PROVE  \E d \in Callers : call'[d].pc = "remove" /\ call'[d].id = i
    BY DEF UnregisteredIsGone
  <2>1. CASE i = id BY <1>1, <1>3, <2>1
  <2>2. CASE i # id
    <3>1. PICK d \in Callers : call[d].pc = "remove" /\ call[d].id = i
      BY <1>4, <2>2 DEF UnregisteredIsGone
    <3>2. QED BY <1>3, <3>1
  <2>3. QED BY <2>1, <2>2
<1>8. ClientsAreReachable' BY <1>3, <1>4 DEF ClientsAreReachable, CloseLabels
<1>9. QED BY <1>5, <1>6, <1>7, <1>8

\* The removal: the closer holds what it has taken out of the map.
LEMMA RemoveClientInv ==
  ASSUME Inv, NEW c \in Callers, RemoveClient(c)
  PROVE  Inv'
<1> USE DEF Inv, IInv
<1> DEFINE id == call[c].id
           x == mapped[id]
           taken == [call[c] EXCEPT !.client = x,
                                    !.pc = IF id \in Producers THEN "close" ELSE "wakeup"]
           back == [call[c] EXCEPT !.pc = "deliver"]
<1>1. /\ call \in [Callers -> Call] /\ call[c].pc = "remove" /\ id \in Ids
      /\ call[c].client = NoClient
      /\ UNCHANGED <<configs, client, user, woken, calls, overlapped, lost, robbed>>
      /\ mapped' \in [Ids -> Clients \cup {NoClient}]
      /\ mapped'[id] = NoClient
      /\ \A i \in Ids \ {id} : mapped'[i] = mapped[i]
  BY DEF TypeOK, CallInv, RemoveClient, objects, history
<1>2. /\ NoCall \in Call /\ NoCall.pc = "idle"
      /\ back \in Call /\ back.pc = "deliver" /\ back.id = id
  BY <1>1, CallTypes DEF NoCall, Call, Labels
<1>3. /\ taken \in Call /\ taken.pc \in {"close", "wakeup"}
      /\ taken.id = id /\ taken.client = x
  BY <1>1 DEF Call, Labels, CloseLabels, TypeOK
<1>4. /\ call' \in [Callers -> Call]
      /\ \/ x = NoClient /\ call'[c] \in {NoCall, back}
         \/ x \in Clients /\ call'[c] = taken
      /\ \A d \in Callers \ {c} :
           /\ call'[d].pc = call[d].pc /\ call'[d].id = call[d].id
           /\ call'[d].client = call[d].client
           /\ call[d].stale => call'[d].stale
  <2> HIDE DEF taken, back
  <2>1. CASE x = NoClient
    <3>1. PICK q \in {NoCall, back} : call' = [call EXCEPT ![c] = q]
      BY <2>1 DEF RemoveClient, Back, To, Return, Go, back
    <3>2. QED BY <1>1, <1>2, <2>1, <3>1
  <2>2. CASE x # NoClient
    <3>1. GoChanging(c, taken) BY <2>2 DEF RemoveClient, taken
    <3>2. x \in Clients BY <1>1, <2>2 DEF TypeOK
    <3>3. QED BY <1>1, <1>3, <3>1, <3>2, ChangingCalls
  <2>3. QED BY <2>1, <2>2
<1> HIDE DEF taken, back
<1>5. TypeOK'
  <2>1. \A i \in Ids : mapped'[i] \in {y \in Clients : client'[y] # "unused"} \cup {NoClient}
    BY <1>1 DEF TypeOK
  <2>2. mapped' \in [Ids -> {y \in Clients : client'[y] # "unused"} \cup {NoClient}]
    BY <1>1, <2>1
  <2>3. QED BY <1>1, <1>4, <2>2 DEF TypeOK
<1>6. CallInv'
  <2>1. ASSUME NEW d \in Callers
        PROVE  LET r == call'[d]
               IN /\ r.pc # "idle" => r.id \in Ids
                  /\ r.pc \in GetLabels => r.id \in configs' \cup overlapped'
                  /\ r.pc = "insert" => /\ r.client \in Clients /\ client'[r.client] # "unused"
                                        /\ r.stale \/ mapped'[r.id] = NoClient
                  /\ r.pc = "remove" => r.client = NoClient
                  /\ r.pc \in {"wakeup", "close"} => r.client \in Clients
    <3>1. CASE d = c BY <1>1, <1>2, <1>3, <1>4, <3>1 DEF GetLabels
    <3>2. CASE d # c BY <1>1, <1>4, <3>2 DEF CallInv, GetLabels
    <3>3. QED BY <3>1, <3>2
  <2>2. QED BY <2>1 DEF CallInv
<1>7. UnregisteredIsGone'
  <2> SUFFICES ASSUME NEW i \in Ids \ overlapped', mapped'[i] # NoClient, i \notin configs'
               PROVE  \E d \in Callers : call'[d].pc = "remove" /\ call'[d].id = i
    BY DEF UnregisteredIsGone
  <2>1. i # id /\ mapped[i] # NoClient BY <1>1
  <2>2. PICK d \in Callers : call[d].pc = "remove" /\ call[d].id = i
    BY <1>1, <2>1 DEF UnregisteredIsGone
  <2>3. QED BY <1>4, <2>1, <2>2
<1>8. ClientsAreReachable'
  <2> SUFFICES ASSUME NEW y \in Clients \ lost', client'[y] = "open"
               PROVE  \/ \E i \in Ids : mapped'[i] = y
                      \/ \E d \in Callers : /\ call'[d].client = y
                                          /\ call'[d].pc \in {"insert"} \cup CloseLabels
    BY DEF ClientsAreReachable
  <2>1. CASE y = x
    BY <1>3, <1>4, <2>1, ConstantsAssumption DEF CloseLabels
  <2>2. CASE y # x
    <3>1. CASE \E i \in Ids : mapped[i] = y BY <1>1, <2>2, <3>1
    <3>2. CASE \E d \in Callers : call[d].client = y /\ call[d].pc \in {"insert"} \cup CloseLabels
      BY <1>1, <1>4, <3>2, ConstantsAssumption
    <3>3. QED BY <1>1, <3>1, <3>2 DEF ClientsAreReachable
  <2>3. QED BY <2>1, <2>2
<1>9. QED BY <1>5, <1>6, <1>7, <1>8

\* wakeup changes neither the maps nor the client.
LEMMA WakeupInv ==
  ASSUME Inv, NEW c \in Callers, Wakeup(c)
  PROVE  Inv'
<1> USE DEF Inv, IInv
<1> DEFINE q == [call[c] EXCEPT !.pc = "close"]
<1>1. /\ call \in [Callers -> Call] /\ call[c].pc = "wakeup"
      /\ call[c].id \in Ids /\ call[c].client \in Clients
      /\ UNCHANGED <<configs, mapped, client, user, calls, overlapped, lost>>
      /\ woken' \subseteq Clients
  BY DEF TypeOK, CallInv, Wakeup, maps, history
<1>2. /\ q \in Call /\ q.pc = "close" /\ q.id = call[c].id
      /\ q.client = call[c].client
  BY <1>1 DEF Call, Labels, CloseLabels
<1>3. call' = [call EXCEPT ![c] = q] BY DEF Wakeup, To, Go
<1> HIDE DEF q
<1>4. call'[c] = q /\ \A d \in Callers \ {c} : call'[d] = call[d] BY <1>1, <1>3
<1>5. TypeOK' BY <1>1, <1>2, <1>3 DEF TypeOK
<1>6. CallInv' BY <1>1, <1>2, <1>4 DEF CallInv, GetLabels
<1>7. UnregisteredIsGone' BY <1>1, <1>4 DEF UnregisteredIsGone
<1>8. ClientsAreReachable' BY <1>1, <1>2, <1>4 DEF ClientsAreReachable, CloseLabels
<1>9. QED BY <1>5, <1>6, <1>7, <1>8

\* Every step keeps the invariant.
LEMMA NextInv == Inv /\ [Next]_vars => Inv'
<1> SUFFICES ASSUME Inv, [Next]_vars PROVE Inv'
  OBVIOUS
<1>1. CASE UNCHANGED vars
  BY <1>1 DEF vars, maps, objects, history, Inv, IInv, TypeOK, CallInv,
              UnregisteredIsGone, ClientsAreReachable
<1>2. ASSUME NEW c \in Callers, CallBegins(c) PROVE Inv'
  <2>1. ASSUME NEW id \in Ids, Register(c, id) PROVE Inv'
    BY <2>1, RegisterInv
  <2>2. ASSUME NEW id \in Ids, Close(c, id) PROVE Inv'
    BY <2>2, CloseBeginsInv, CallTypes DEF Close
  <2>3. ASSUME NEW id \in Ids, NEW op \in Operations(id), Get(c, id, op) PROVE Inv'
    BY <2>3, GetInv
  <2>4. CASE CloseInListener(c)
    <3>1. call[c] \in Call /\ call[c].id \in Ids
      BY <2>4 DEF CloseInListener, Inv, IInv, TypeOK, CallInv
    <3>2. QED BY <2>4, <3>1, CloseBeginsInv DEF CloseInListener
  <2>5. QED BY <1>2, <2>1, <2>2, <2>3, <2>4 DEF CallBegins
<1>3. ASSUME NEW c \in Callers, CallStep(c) PROVE Inv'
  BY <1>3, PutConfigInv, ComputeIfAbsentInv, InsertInv, UseProducerInv, SendInv,
     BeginUseInv, EndUseInv, SubscribeInv, IsExistsInv, PollInv, PollEndsInv,
     DeliverInv, RemoveClientInv, WakeupInv, CloseClientInv
  DEF CallStep
<1>4. QED BY <1>1, <1>2, <1>3 DEF Next

\* The invariant holds in every reachable state, of any number of callers,
\* identities, clients and calls.
LEMMA SpecInv == Spec => []Inv
<1>1. Init => Inv BY InitInv
<1>2. Inv /\ [Next]_vars => Inv' BY NextInv
<1>3. QED BY <1>1, <1>2, PTL DEF Spec

\* The registries, the clients and the calls keep their types, and what a call
\* refers to fits its label.
THEOREM CallsFit == Spec => []IInv
<1>1. Inv => IInv BY DEF Inv
<1>2. QED BY <1>1, SpecInv, PTL

\* An unregistered identity has no client left in the map, apart from the
\* unregistration under way and the gets that one has overlapped.
THEOREM UnregisteredIsGoneAlways == Spec => []UnregisteredIsGone
<1>1. Inv => UnregisteredIsGone BY DEF Inv
<1>2. QED BY <1>1, SpecInv, PTL

\* Every open client is where unregister finds it, or in the hands of a call
\* that inserts or closes it, apart from those that failing and racing calls lose.
THEOREM ClientsAreReachableAlways == Spec => []ClientsAreReachable
<1>1. Inv => ClientsAreReachable BY DEF Inv
<1>2. QED BY <1>1, SpecInv, PTL
=============================================================================
