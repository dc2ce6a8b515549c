---------------------------- MODULE KafkaClients ----------------------------
(***************************************************************************)
(* The producer and consumer registries of microfox-kafka and their        *)
(* handlers: per identity a config and a client made on its first use,     *)
(* kept in plain HashMaps that several callers change.  A producer may be  *)
(* used by many threads; a consumer refuses a second thread, except for    *)
(* wakeup, which makes the next or the present poll throw.                 *)
(***************************************************************************)
EXTENDS Naturals, FiniteSets

CONSTANTS Callers,
          Producers, Consumers,  \* identities of KafkaProducerFactory and KafkaConsumerFactory
          Clients,               \* KafkaProducer and KafkaConsumer objects
          MaxCalls,              \* bound on calls
          NoId, NoClient, NoCaller

Ids == Producers \cup Consumers

ASSUME ConstantsAssumption ==
    /\ Producers \cap Consumers = {} /\ NoId \notin Ids
    /\ NoClient \notin Clients /\ NoCaller \notin Callers
    /\ MaxCalls \in Nat

VARIABLES configs,     \* the keys of CONFIGS
          mapped,      \* PRODUCERS and CONSUMERS
          client,      \* client -> unused, open or closed
          user,        \* consumer -> the caller inside one of its methods
          woken,       \* consumers with a wakeup nobody has received
          call,        \* caller -> its call under way
          calls,
          overlapped,  \* history: identities with a get that an unregistration overlapped
          lost,        \* history: clients that a failing or racing call lost
          robbed       \* history: consumers whose wakeup a listener missed

maps == <<configs, mapped>>
objects == <<client, user, woken>>
history == <<overlapped, lost, robbed>>
vars == <<maps, objects, call, calls, history>>

GetLabels == {"compute", "insert"}
CloseLabels == {"remove", "wakeup", "close"}
Labels == {"idle", "putConfig", "use", "using", "send", "subscribe", "loop", "poll",
           "polling", "deliver"} \cup GetLabels \cup CloseLabels

NoCall == [pc |-> "idle", id |-> NoId, next |-> "idle", client |-> NoClient,
           own |-> NoClient, stale |-> FALSE]

\* next: what a get is for; own: the consumer that the caller listens on;
\* stale: the map has changed since computeIfAbsent read its modCount.
Call == [pc : Labels, id : Ids \cup {NoId}, next : {"idle", "use", "send", "subscribe", "poll"},
         client : Clients \cup {NoClient}, own : Clients \cup {NoClient}, stale : BOOLEAN]

TypeOK ==
    /\ configs \subseteq Ids
    /\ mapped \in [Ids -> {x \in Clients : client[x] # "unused"} \cup {NoClient}]
    /\ client \in [Clients -> {"unused", "open", "closed"}]
    /\ user \in [Clients -> Callers \cup {NoCaller}]
    /\ woken \subseteq Clients
    /\ call \in [Callers -> Call]
    /\ calls \in 0..MaxCalls

\* What a call refers to at its labels: a client about to be inserted was made,
\* its place in the map is free unless the map has changed, and a get goes on
\* without a config only where an unregistration overlapped it.
CallInv ==
    \A c \in Callers :
        LET k == call[c]
        IN /\ k.pc # "idle" => k.id \in Ids
           /\ k.pc \in GetLabels => k.id \in configs \cup overlapped
           /\ k.pc = "insert" => /\ k.client \in Clients /\ client[k.client] # "unused"
                                 /\ k.stale \/ mapped[k.id] = NoClient
           /\ k.pc = "remove" => k.client = NoClient
           /\ k.pc \in {"wakeup", "close"} => k.client \in Clients

\* The part of the inductive invariant that is not a property of its own.
IInv == TypeOK /\ CallInv

Init ==
    /\ configs = {}
    /\ mapped = [id \in Ids |-> NoClient]
    /\ client = [x \in Clients |-> "unused"]
    /\ user = [x \in Clients |-> NoCaller]
    /\ woken = {}
    /\ call = [c \in Callers |-> NoCall]
    /\ calls = 0
    /\ overlapped = {} /\ lost = {} /\ robbed = {}

-----------------------------------------------------------------------------
Go(c, k) == call' = [call EXCEPT ![c] = k]
To(c, pc) == Go(c, [call[c] EXCEPT !.pc = pc])
Return(c) == Go(c, NoCall)

\* A close called by the listener returns into the loop over the records.
Back(c) == IF call[c].own = NoClient THEN Return(c) ELSE To(c, "deliver")

Start(c, k) == call[c].pc = "idle" /\ calls < MaxCalls /\ calls' = calls + 1 /\ Go(c, k)

SameMap(a, b) == a \in Producers <=> b \in Producers

\* A step that changes a map is noticed by the computeIfAbsent of the others.
GoChanging(c, k) ==
    call' = [d \in Callers |->
               IF d = c THEN k
               ELSE IF call[d].pc = "insert" /\ SameMap(call[d].id, call[c].id)
               THEN [call[d] EXCEPT !.stale = TRUE]
               ELSE call[d]]

-----------------------------------------------------------------------------
(* register                                                                *)

Register(c, id) ==
    /\ id \notin configs
    /\ Start(c, [NoCall EXCEPT !.pc = "putConfig", !.id = id])
    /\ UNCHANGED <<maps, objects, history>>

PutConfig(c) ==
    /\ call[c].pc = "putConfig"
    /\ configs' = configs \cup {call[c].id}
    /\ Return(c)
    /\ UNCHANGED <<mapped, objects, calls, history>>

-----------------------------------------------------------------------------
(* get: getConfig, then computeIfAbsent                                    *)

Operations(id) == IF id \in Producers THEN {"use", "send"} ELSE {"use", "subscribe"}

\* getConfig throws without a config; nothing has happened then.
Get(c, id, op) ==
    /\ id \in configs
    /\ Start(c, [NoCall EXCEPT !.pc = "compute", !.id = id, !.next = op])
    /\ UNCHANGED <<maps, objects, history>>

\* Mutated form: the mapping function hands out what it has not made.
ComputeNothing(c) ==
    LET k == call[c]
    IN /\ k.pc = "compute"
       /\ \/ /\ mapped[k.id] # NoClient
             /\ Go(c, [k EXCEPT !.client = mapped[k.id], !.pc = k.next])
          \/ /\ mapped[k.id] = NoClient
             /\ \E x \in Clients : client[x] = "unused"
                                   /\ Go(c, [k EXCEPT !.client = x, !.pc = "insert"])
       /\ UNCHANGED <<maps, objects, calls, history>>

\* The constructor may throw, and initTransactions on the producer just made.
ComputeIfAbsent(c) ==
    LET k == call[c]
    IN /\ k.pc = "compute"
       /\ \/ /\ mapped[k.id] # NoClient
             /\ Go(c, [k EXCEPT !.client = mapped[k.id], !.pc = k.next])
             /\ UNCHANGED <<client, lost>>
          \/ /\ mapped[k.id] = NoClient
             /\ \E x \in Clients :
                  /\ client[x] = "unused"
                  /\ client' = [client EXCEPT ![x] = "open"]
                  /\ \/ /\ Go(c, [k EXCEPT !.client = x, !.pc = "insert"])
                        /\ UNCHANGED lost
                     \/ k.id \in Producers /\ lost' = lost \cup {x} /\ Return(c)
          \/ mapped[k.id] = NoClient /\ Return(c) /\ UNCHANGED <<client, lost>>
       /\ UNCHANGED <<maps, user, woken, calls, overlapped, robbed>>

\* A map that has changed since makes computeIfAbsent throw, or the change goes
\* unseen and one of the two writes is lost.
Insert(c) ==
    LET k == call[c]
        found == [k EXCEPT !.pc = k.next, !.stale = FALSE]
        Put == mapped' = [mapped EXCEPT ![k.id] = k.client] /\ GoChanging(c, found)
    IN /\ k.pc = "insert"
       /\ \/ ~k.stale /\ Put /\ UNCHANGED lost
          \/ /\ k.stale
             /\ \/ Put
                \/ (Return(c) \/ Go(c, found)) /\ UNCHANGED mapped
             /\ lost' = lost \cup ({k.client, mapped[k.id]} \ {NoClient})
       /\ UNCHANGED <<configs, objects, calls, overlapped, robbed>>

-----------------------------------------------------------------------------
(* KafkaProducerHandler                                                    *)

\* flush and the transaction calls leave the registry as it is.
UseProducer(c) ==
    /\ call[c].pc = "use" /\ call[c].id \in Producers
    /\ Return(c)
    /\ UNCHANGED <<maps, objects, calls, history>>

\* send, flush, and the close of the try, also when send has thrown.
Send(c) ==
    /\ call[c].pc = "send"
    /\ client' = [client EXCEPT ![call[c].client] = "closed"]
    /\ Return(c)
    /\ UNCHANGED <<maps, user, woken, calls, history>>

-----------------------------------------------------------------------------
(* KafkaConsumerHandler.  A method of a consumer throws when another       *)
(* thread is inside one, or when it is closed.                             *)

Refuses(x) == user[x] # NoCaller \/ client[x] = "closed"

\* The wakeup ends this call and is gone; a listener elsewhere will not see it.
Receive(c, x) ==
    /\ woken' = woken \ {x}
    /\ robbed' = IF x \in woken /\ \E d \in Callers \ {c} : call[d].own = x
                 THEN robbed \cup {x} ELSE robbed

\* commitSync, commitAsync, pause, resume
BeginUse(c) ==
    LET x == call[c].client
    IN /\ call[c].pc = "use" /\ call[c].id \in Consumers
       /\ IF Refuses(x)
          THEN Return(c) /\ UNCHANGED user
          ELSE To(c, "using") /\ user' = [user EXCEPT ![x] = c]
       /\ UNCHANGED <<maps, client, woken, calls, history>>

\* A commit that a wakeup reaches throws, and the wakeup is gone.
EndUse(c) ==
    LET x == call[c].client
    IN /\ call[c].pc = "using"
       /\ user' = [user EXCEPT ![x] = NoCaller]
       /\ Receive(c, x) \/ UNCHANGED <<woken, robbed>>
       /\ Return(c)
       /\ UNCHANGED <<maps, client, calls, overlapped, lost>>

Subscribe(c) ==
    LET k == call[c]
    IN /\ k.pc = "subscribe"
       /\ IF Refuses(k.client) THEN Return(c)
          ELSE Go(c, [k EXCEPT !.own = k.client, !.next = "poll", !.pc = "loop"])
       /\ UNCHANGED <<maps, objects, calls, history>>

\* isExists never answers false: get throws without a config, and makes a new
\* client when the identity has been registered again.
IsExists(c) ==
    /\ call[c].pc = "loop"
    /\ IF call[c].id \in configs THEN To(c, "compute") ELSE Return(c)
    /\ UNCHANGED <<maps, objects, calls, history>>

\* poll throws at once when it is refused or a wakeup waits.
Poll(c) ==
    LET x == call[c].own
    IN /\ call[c].pc = "poll"
       /\ IF Refuses(x) \/ x \in woken
          THEN /\ Return(c) /\ UNCHANGED user
               /\ IF Refuses(x) THEN UNCHANGED <<woken, robbed>> ELSE Receive(c, x)
          ELSE /\ To(c, "polling") /\ user' = [user EXCEPT ![x] = c]
               /\ UNCHANGED <<woken, robbed>>
       /\ UNCHANGED <<maps, client, calls, overlapped, lost>>

\* poll returns after its timeout or with records, or throws.
PollEnds(c) ==
    LET x == call[c].own
    IN /\ call[c].pc = "polling"
       /\ user' = [user EXCEPT ![x] = NoCaller]
       /\ \/ To(c, "deliver") /\ UNCHANGED <<woken, robbed>>
          \/ Return(c) /\ Receive(c, x)
       /\ UNCHANGED <<maps, client, calls, overlapped, lost>>

\* The listener has returned from every record, or throws.
Deliver(c) ==
    /\ call[c].pc = "deliver"
    /\ To(c, "loop") \/ Return(c)
    /\ UNCHANGED <<maps, objects, calls, history>>

-----------------------------------------------------------------------------
(* close of the two factories: unregister, the controllers, or the         *)
(* listener inside its own thread.                                         *)

CloseBegins(c, id, k) ==
    /\ calls < MaxCalls /\ calls' = calls + 1
    /\ configs' = configs \ {id}
    /\ overlapped' = IF \E d \in Callers : call[d].pc \in GetLabels /\ call[d].id = id
                     THEN overlapped \cup {id} ELSE overlapped
    /\ Go(c, [k EXCEPT !.pc = "remove", !.id = id, !.client = NoClient])
    /\ UNCHANGED <<mapped, objects, lost, robbed>>

Close(c, id) == call[c].pc = "idle" /\ CloseBegins(c, id, NoCall)
CloseInListener(c) == call[c].pc = "deliver" /\ CloseBegins(c, call[c].id, call[c])

\* Mutated form: the client is closed and its entry stays.
LookUpClient(c) ==
    LET k == call[c]
        x == mapped[k.id]
    IN /\ k.pc = "remove"
       /\ IF x = NoClient THEN Back(c)
          ELSE Go(c, [k EXCEPT !.client = x, !.pc = IF k.id \in Producers THEN "close" ELSE "wakeup"])
       /\ UNCHANGED <<maps, objects, calls, history>>

RemoveClient(c) ==
    LET k == call[c]
        x == mapped[k.id]
    IN /\ k.pc = "remove"
       /\ mapped' = [mapped EXCEPT ![k.id] = NoClient]
       /\ IF x = NoClient THEN Back(c)
          ELSE GoChanging(c, [k EXCEPT !.client = x,
                                       !.pc = IF k.id \in Producers THEN "close" ELSE "wakeup"])
       /\ UNCHANGED <<configs, objects, calls, history>>

\* Mutated form: close alone has to end the listener.
NoWakeup(c) ==
    /\ call[c].pc = "wakeup"
    /\ To(c, "close")
    /\ UNCHANGED <<maps, objects, calls, history>>

Wakeup(c) ==
    /\ call[c].pc = "wakeup"
    /\ woken' = woken \cup {call[c].client}
    /\ To(c, "close")
    /\ UNCHANGED <<maps, client, user, calls, history>>

\* Mutated form: the producer is taken out of the map and not closed.
CloseConsumerOnly(c) ==
    LET x == call[c].client
    IN /\ call[c].pc = "close"
       /\ \/ /\ user[x] = NoCaller
             /\ client' = IF call[c].id \in Producers THEN client
                          ELSE [client EXCEPT ![x] = "closed"]
             /\ Back(c) /\ UNCHANGED lost
          \/ /\ user[x] # NoCaller /\ lost' = lost \cup {x}
             /\ Return(c) /\ UNCHANGED client
       /\ UNCHANGED <<maps, user, woken, calls, overlapped, robbed>>

\* close of a consumer throws while another thread is inside it, and the
\* consumer stays open.
CloseClient(c) ==
    LET x == call[c].client
    IN /\ call[c].pc = "close"
       /\ \/ /\ user[x] = NoCaller
             /\ client' = [client EXCEPT ![x] = "closed"]
             /\ Back(c) /\ UNCHANGED lost
          \/ /\ user[x] # NoCaller /\ lost' = lost \cup {x}
             /\ Return(c) /\ UNCHANGED client
       /\ UNCHANGED <<maps, user, woken, calls, overlapped, robbed>>

-----------------------------------------------------------------------------
CallBegins(c) ==
    \/ \E id \in Ids : \/ Register(c, id) \/ Close(c, id)
                       \/ \E op \in Operations(id) : Get(c, id, op)
    \/ CloseInListener(c)

CallStep(c) ==
    \/ PutConfig(c) \/ ComputeIfAbsent(c) \/ Insert(c) \/ UseProducer(c) \/ Send(c)
    \/ BeginUse(c) \/ EndUse(c) \/ Subscribe(c) \/ IsExists(c) \/ Poll(c) \/ PollEnds(c)
    \/ Deliver(c) \/ RemoveClient(c) \/ Wakeup(c) \/ CloseClient(c)

Next == \E c \in Callers : CallBegins(c) \/ CallStep(c)

\* Calls go on: a poll ends after its timeout, a listener returns or throws.
Fairness == \A c \in Callers : WF_vars(CallStep(c))

Spec == Init /\ [][Next]_vars /\ Fairness

-----------------------------------------------------------------------------
\* An open client is in the map of its factory, where unregister finds it, or a
\* call is about to put it there or to close it, through all registrations,
\* sends, listens and closes.  The exceptions are a producer whose
\* initTransactions threw, a consumer in use when close came
\* (KafkaConsumerFactory.java:44), and what computeIfAbsents that overlap lose.
ClientsAreReachable ==
    \A x \in Clients \ lost :
        client[x] = "open" =>
            \/ \E id \in Ids : mapped[id] = x
            \/ \E c \in Callers : call[c].client = x /\ call[c].pc \in {"insert"} \cup CloseLabels

\* An unregistered identity has no client left in the map, apart from the
\* unregistration under way, unless a get overlapped it: that passed getConfig
\* and put its client after the removal (get, KafkaConsumerFactory.java:30).
UnregisteredIsGone ==
    \A id \in Ids \ overlapped :
        mapped[id] # NoClient /\ id \notin configs =>
            \E c \in Callers : call[c].pc = "remove" /\ call[c].id = id

\* A listener whose consumer is being closed ends, also when its identity is
\* registered again before it looks, and also when close throws since the
\* listener is polling; unless a commit or a second listener took the wakeup.
ListenEnds ==
    \A x \in Clients :
        (\E c \in Callers : call[c].client = x /\ call[c].pc = "wakeup")
            ~> (x \in robbed \/ \A c \in Callers : call[c].own # x)

=============================================================================
