----------------------------- MODULE JmsProvider -----------------------------
(***************************************************************************)
(* JmsProviderImpl and JmsFactory of microfox-jms, used by several callers *)
(* at once: the set of connection infos, the map with one shared producer  *)
(* context per identity, and the set of consumer controllers.  A           *)
(* controller is seen from outside here, JmsConsumerController has its     *)
(* inside; from there comes that stop and close may throw.                 *)
(***************************************************************************)
EXTENDS Naturals, FiniteSets

CONSTANTS Callers, Identities,
          Infos,        \* JmsConnectionInfo objects
          Contexts,     \* JMSContext objects for producers
          Controllers,  \* JmsConsumerController objects
          MaxCalls, MaxBreaks,  \* bounds on calls and on broken connections
          NoIdentity, NoInfo, NoContext, NoController

ASSUME ConstantsAssumption ==
    /\ NoIdentity \notin Identities /\ NoInfo \notin Infos
    /\ NoContext \notin Contexts /\ NoController \notin Controllers
    /\ MaxCalls \in Nat /\ MaxBreaks \in Nat

VARIABLES identity,    \* info -> its identity field
          infoList,    \* info -> the identity INFO_LIST hashed it by, NoIdentity: not in it
          mapped,      \* PRODUCER_CONTEXT_MAP
          context,     \* context -> its state
          owner,       \* context -> the identity it was created for
          controller,  \* controller -> its state
          consumes,    \* controller -> its identity
          registered,  \* CONSUMER_CONTROLLERS
          call,        \* caller -> its call under way
          calls, breaks,
          crowded,     \* history: identities with overlapping calls on their context
          late,        \* history: controllers that a shutdown overlapped
          doubled,     \* history: identities with overlapping consume calls
          reused       \* history: was an info registered under a second identity?

factory == <<identity, infoList>>
producers == <<mapped, context, owner>>
consumers == <<controller, consumes, registered>>
history == <<crowded, late, doubled, reused>>
vars == <<factory, producers, consumers, call, calls, breaks, history>>

ProduceLabels == {"get", "compute", "check", "remove", "closeOld", "create", "put", "use",
                  "cleanup", "closeFailed"}
ConsumeLabels == {"exists", "info", "start", "add"}
UnregisterLabels == {"closeEach", "removeContext", "closeRemoved", "forget"}
ShutdownLabels == {"shutEach", "clear", "closeValues", "clearMap"}
Labels == {"idle", "addInfo", "stopEach"} \cup ProduceLabels \cup ConsumeLabels
          \cup UnregisterLabels \cup ShutdownLabels

CallRecords == [pc : Labels, id : Identities \cup {NoIdentity}, info : Infos \cup {NoInfo},
                ctx : Contexts \cup {NoContext}, ctl : Controllers \cup {NoController},
                todo : SUBSET Controllers]

TypeOK ==
    /\ identity \in [Infos -> Identities \cup {NoIdentity}]
    /\ infoList \in [Infos -> Identities \cup {NoIdentity}]
    /\ mapped \in [Identities -> Contexts \cup {NoContext}]
    /\ context \in [Contexts -> {"unused", "alive", "broken", "closed"}]
    /\ owner \in [Contexts -> Identities \cup {NoIdentity}]
    /\ controller \in [Controllers -> {"unused", "running", "stopped", "closed"}]
    /\ consumes \in [Controllers -> Identities \cup {NoIdentity}]
    /\ registered \subseteq {k \in Controllers : controller[k] # "unused"}
    /\ call \in [Callers -> CallRecords]
    /\ \A id \in Identities : mapped[id] # NoContext =>
          owner[mapped[id]] = id /\ context[mapped[id]] # "unused"

NoCall == [pc |-> "idle", id |-> NoIdentity, info |-> NoInfo, ctx |-> NoContext,
           ctl |-> NoController, todo |-> {}]

Init ==
    /\ identity = [i \in Infos |-> NoIdentity] /\ infoList = identity
    /\ mapped = [id \in Identities |-> NoContext]
    /\ context = [x \in Contexts |-> "unused"]
    /\ owner = [x \in Contexts |-> NoIdentity]
    /\ controller = [k \in Controllers |-> "unused"]
    /\ consumes = [k \in Controllers |-> NoIdentity]
    /\ registered = {}
    /\ call = [c \in Callers |-> NoCall]
    /\ calls = 0 /\ breaks = 0
    /\ crowded = {} /\ late = {} /\ doubled = {} /\ reused = FALSE

-----------------------------------------------------------------------------
(* Steps of calls.  Advance also keeps the history of overlapping calls.   *)

Producing(k, id) == k.pc \in ProduceLabels /\ k.id = id
Replacing(k, id) == k.pc \in {"remove", "closeOld", "create", "put"} /\ k.id = id
ShutsDown(k) == k.pc \in ShutdownLabels
Consuming(k, id) == k.pc \in ConsumeLabels /\ k.id = id

Advance(c, k) ==
    /\ call' = [call EXCEPT ![c] = k]
    /\ crowded' = crowded \cup
         {id \in Identities : \E d, e \in Callers :
             d # e /\ Producing(call'[d], id) /\ (Replacing(call'[e], id) \/ ShutsDown(call'[e]))}
    /\ late' = late \cup
         {l \in Controllers : \E d, e \in Callers : d # e /\ call'[d].ctl = l /\ ShutsDown(call'[e])}
    /\ doubled' = doubled \cup
         {id \in Identities : \E d, e \in Callers :
             d # e /\ Consuming(call'[d], id) /\ Consuming(call'[e], id)}

Go(c, k) == Advance(c, k) /\ UNCHANGED reused
To(c, pc) == Go(c, [call[c] EXCEPT !.pc = pc])
Return(c) == Go(c, NoCall)

Start(c, k) == call[c].pc = "idle" /\ calls < MaxCalls /\ calls' = calls + 1 /\ Go(c, k)

Found(id) == {i \in Infos : infoList[i] # NoIdentity /\ identity[i] = id}

\* INFO_LIST is a plain HashSet.  While another call is about to change it, one
\* that iterates over it may miss an info or end in a
\* ConcurrentModificationException, and a change may be lost.
Racing(c) == \E d \in Callers \ {c} : call[d].pc \in {"addInfo", "forget"}

-----------------------------------------------------------------------------
(* JmsFactory.register and unregister.                                     *)

\* The identity is set before the check; a reused info keeps it when refused.
Register(c, id, i) ==
    /\ call[c].pc = "idle" /\ calls < MaxCalls /\ calls' = calls + 1
    /\ UNCHANGED <<infoList, producers, consumers, breaks>>
    /\ identity' = [identity EXCEPT ![i] = id]
    /\ reused' = (reused \/ identity[i] \notin {NoIdentity, id})
    /\ \/ (Found(id)' # {} \/ Racing(c)) /\ Advance(c, NoCall)
       \/ /\ Found(id)' = {} \/ Racing(c)
          /\ Advance(c, [NoCall EXCEPT !.pc = "addInfo", !.info = i])

\* HashSet.add: an info of the same identity that was hashed by it stays.
AddInfo(c) ==
    LET i == call[c].info
        present == \E j \in Infos : infoList[j] = identity[i] /\ identity[j] = identity[i]
    IN /\ call[c].pc = "addInfo"
       /\ \/ (~present \/ Racing(c)) /\ infoList' = [infoList EXCEPT ![i] = identity[i]]
          \/ (present \/ Racing(c)) /\ UNCHANGED infoList
       /\ Return(c)
       /\ UNCHANGED <<identity, producers, consumers, calls, breaks>>

-----------------------------------------------------------------------------
(* produce                                                                 *)

Produce(c, id) ==
    /\ Start(c, [NoCall EXCEPT !.pc = "get", !.id = id])
    /\ UNCHANGED <<factory, producers, consumers, breaks>>

GetInfo(c) ==
    LET k == call[c]
    IN /\ k.pc = "get"
       /\ \/ \E i \in Found(k.id) \cup {NoInfo} :
                /\ i = NoInfo => Found(k.id) = {} \/ Racing(c)
                /\ Go(c, [k EXCEPT !.info = i, !.pc = "compute"])
          \/ Racing(c) /\ To(c, "cleanup")
       /\ UNCHANGED <<factory, producers, consumers, calls, breaks>>

NewContext(x, id) ==
    /\ context[x] = "unused"
    /\ context' = [context EXCEPT ![x] = "alive"]
    /\ owner' = [owner EXCEPT ![x] = id]

\* createContext may throw, and does on a null info.
ComputeIfAbsent(c) ==
    LET k == call[c]
    IN /\ k.pc = "compute"
       /\ \/ /\ mapped[k.id] # NoContext
             /\ Go(c, [k EXCEPT !.ctx = mapped[k.id], !.pc = "check"])
             /\ UNCHANGED producers
          \/ /\ mapped[k.id] = NoContext /\ k.info # NoInfo
             /\ \E x \in Contexts :
                  /\ NewContext(x, k.id)
                  /\ mapped' = [mapped EXCEPT ![k.id] = x]
                  /\ Go(c, [k EXCEPT !.ctx = x, !.pc = "check"])
          \/ mapped[k.id] = NoContext /\ To(c, "cleanup") /\ UNCHANGED producers
       /\ UNCHANGED <<factory, consumers, calls, breaks>>

\* isContextAlive: a broken connection may still know its client id.
CheckAlive(c) ==
    LET k == call[c]
    IN /\ k.pc = "check"
       /\ \/ context[k.ctx] \in {"alive", "broken"} /\ To(c, "use")
          \/ context[k.ctx] \in {"broken", "closed"} /\ To(c, "remove")
       /\ UNCHANGED <<factory, producers, consumers, calls, breaks>>

Unmap(c, id, pc) ==
    /\ mapped' = [mapped EXCEPT ![id] = NoContext]
    /\ Go(c, [call[c] EXCEPT !.ctx = mapped[id], !.pc = pc])
    /\ UNCHANGED <<context, owner>>

\* JmsUtils.contextClose; it swallows what close throws, and the null.
ContextClose(x) ==
    context' = IF x = NoContext THEN context ELSE [context EXCEPT ![x] = "closed"]

RemoveOld(c) ==
    /\ call[c].pc = "remove"
    /\ Unmap(c, call[c].id, "closeOld")
    /\ UNCHANGED <<factory, consumers, calls, breaks>>

CloseOld(c) ==
    /\ call[c].pc = "closeOld"
    /\ ContextClose(call[c].ctx)
    /\ To(c, "create")
    /\ UNCHANGED <<factory, mapped, owner, consumers, calls, breaks>>

CreateNew(c) ==
    LET k == call[c]
    IN /\ k.pc = "create"
       /\ \/ /\ k.info # NoInfo
             /\ \E x \in Contexts : NewContext(x, k.id) /\ Go(c, [k EXCEPT !.ctx = x, !.pc = "put"])
          \/ To(c, "cleanup") /\ UNCHANGED <<context, owner>>
       /\ UNCHANGED <<factory, mapped, consumers, calls, breaks>>

Put(c) ==
    LET k == call[c]
    IN /\ k.pc = "put"
       /\ mapped' = [mapped EXCEPT ![k.id] = k.ctx]
       /\ To(c, "use")
       /\ UNCHANGED <<factory, context, owner, consumers, calls, breaks>>

\* The consumer of the caller returns, or the context or the consumer throws.
Use(c) ==
    /\ call[c].pc = "use"
    /\ \/ context[call[c].ctx] # "closed" /\ Return(c)
       \/ To(c, "cleanup")
    /\ UNCHANGED <<factory, producers, consumers, calls, breaks>>

\* cleanupProducerContext removes whatever context is mapped by now.
Cleanup(c) ==
    /\ call[c].pc = "cleanup"
    /\ Unmap(c, call[c].id, "closeFailed")
    /\ UNCHANGED <<factory, consumers, calls, breaks>>

\* Mutated form: the context of a failed call is dropped without a close.
DropFailed(c) ==
    /\ call[c].pc = "closeFailed"
    /\ Return(c)
    /\ UNCHANGED <<factory, producers, consumers, calls, breaks>>

CloseFailed(c) ==
    /\ call[c].pc = "closeFailed"
    /\ ContextClose(call[c].ctx)
    /\ Return(c)
    /\ UNCHANGED <<factory, mapped, owner, consumers, calls, breaks>>

\* External: the connection of a context breaks.
Break(x) ==
    /\ context[x] = "alive" /\ breaks < MaxBreaks
    /\ context' = [context EXCEPT ![x] = "broken"]
    /\ breaks' = breaks + 1
    /\ UNCHANGED <<factory, mapped, owner, consumers, call, calls, history>>

-----------------------------------------------------------------------------
(* consume                                                                 *)

Consume(c, id) ==
    /\ Start(c, [NoCall EXCEPT !.pc = "exists", !.id = id])
    /\ UNCHANGED <<factory, producers, consumers, breaks>>

Of(id) == {k \in registered : consumes[k] = id}

\* Mutated form: nobody looks for another controller of the identity.
CheckNothing(c) ==
    /\ call[c].pc = "exists"
    /\ To(c, "info")
    /\ UNCHANGED <<factory, producers, consumers, calls, breaks>>

CheckExists(c) ==
    /\ call[c].pc = "exists"
    /\ IF Of(call[c].id) # {} THEN Return(c) ELSE To(c, "info")
    /\ UNCHANGED <<factory, producers, consumers, calls, breaks>>

\* Without an info the constructor throws.
GetConnectionInfo(c) ==
    LET k == call[c]
    IN /\ k.pc = "info"
       /\ \/ \E i \in Found(k.id) : Go(c, [k EXCEPT !.info = i, !.pc = "start"])
          \/ (Found(k.id) = {} \/ Racing(c)) /\ Return(c)
       /\ UNCHANGED <<factory, producers, consumers, calls, breaks>>

\* Mutated form: the controller is added and nobody starts it.
ConstructController(c) ==
    LET k == call[c]
    IN /\ k.pc = "start"
       /\ \E l \in Controllers :
            /\ controller[l] = "unused" /\ l \notin registered
            /\ consumes' = [consumes EXCEPT ![l] = identity[k.info]]
            /\ Go(c, [k EXCEPT !.ctl = l, !.pc = "add"])
       /\ UNCHANGED <<factory, producers, controller, registered, calls, breaks>>

\* The controller takes the identity that its info has by now.
StartController(c) ==
    LET k == call[c]
    IN /\ k.pc = "start"
       /\ \E l \in Controllers :
            /\ controller[l] = "unused"
            /\ controller' = [controller EXCEPT ![l] = "running"]
            /\ consumes' = [consumes EXCEPT ![l] = identity[k.info]]
            /\ Go(c, [k EXCEPT !.ctl = l, !.pc = "add"])
       /\ UNCHANGED <<factory, producers, registered, calls, breaks>>

AddController(c) ==
    /\ call[c].pc = "add"
    /\ registered' = registered \cup {call[c].ctl}
    /\ Return(c)
    /\ UNCHANGED <<factory, producers, controller, consumes, calls, breaks>>

-----------------------------------------------------------------------------
(* stop and unregister.  JmsConsumerController.stop throws when one of its *)
(* contexts was closed by the exception handler a moment ago.              *)

\* stop clears the flag first; close stops, and closes the contexts if that
\* has not thrown.
Stopped(k) == controller' = [controller EXCEPT ![k] = IF @ = "running" THEN "stopped" ELSE @]
Closed(k) == controller' = [controller EXCEPT ![k] = "closed"]

Stop(c, id) ==
    /\ Start(c, [NoCall EXCEPT !.pc = "stopEach", !.id = id, !.todo = Of(id)])
    /\ UNCHANGED <<factory, producers, consumers, breaks>>

StopEach(c) ==
    LET k == call[c]
    IN /\ k.pc = "stopEach"
       /\ \/ \E l \in k.todo : /\ Stopped(l)
                               /\ \/ Go(c, [k EXCEPT !.todo = @ \ {l}])
                                  \/ controller[l] # "closed" /\ Return(c)
          \/ k.todo = {} /\ Return(c) /\ UNCHANGED controller
       /\ UNCHANGED <<factory, producers, consumes, registered, calls, breaks>>

Unregister(c, id) ==
    /\ Start(c, [NoCall EXCEPT !.pc = "closeEach", !.id = id, !.todo = Of(id)])
    /\ UNCHANGED <<factory, producers, consumers, breaks>>

\* Mutated form: the controllers are removed and not closed.
RemoveEach(c) ==
    LET k == call[c]
    IN /\ k.pc = "closeEach"
       /\ registered' = registered \ k.todo
       /\ Go(c, [k EXCEPT !.todo = {}, !.pc = "removeContext"])
       /\ UNCHANGED <<factory, producers, controller, consumes, calls, breaks>>

\* removeIf: a controller is removed after its close; one that throws ends the call.
CloseEach(c) ==
    LET k == call[c]
    IN /\ k.pc = "closeEach"
       /\ \/ \E l \in k.todo :
               \/ /\ Closed(l) /\ registered' = registered \ {l}
                  /\ Go(c, [k EXCEPT !.todo = @ \ {l}])
               \/ /\ controller[l] # "closed" /\ Stopped(l) /\ UNCHANGED registered
                  /\ Return(c)
          \/ k.todo = {} /\ To(c, "removeContext") /\ UNCHANGED <<controller, registered>>
       /\ UNCHANGED <<factory, producers, consumes, calls, breaks>>

RemoveContext(c) ==
    /\ call[c].pc = "removeContext"
    /\ Unmap(c, call[c].id, "closeRemoved")
    /\ UNCHANGED <<factory, consumers, calls, breaks>>

CloseRemoved(c) ==
    /\ call[c].pc = "closeRemoved"
    /\ ContextClose(call[c].ctx)
    /\ To(c, "forget")
    /\ UNCHANGED <<factory, mapped, owner, consumers, calls, breaks>>

Forget(c) ==
    /\ call[c].pc = "forget"
    /\ \/ infoList' = [i \in Infos |-> IF identity[i] = call[c].id THEN NoIdentity ELSE infoList[i]]
       \/ Racing(c) /\ UNCHANGED infoList
    /\ Return(c)
    /\ UNCHANGED <<identity, producers, consumers, calls, breaks>>

-----------------------------------------------------------------------------
(* shutdown                                                                *)

Shutdown(c) ==
    /\ Start(c, [NoCall EXCEPT !.pc = "shutEach", !.todo = registered])
    /\ UNCHANGED <<factory, producers, consumers, breaks>>

ShutEach(c) ==
    LET k == call[c]
    IN /\ k.pc = "shutEach"
       /\ \/ \E l \in k.todo : \/ Closed(l) /\ Go(c, [k EXCEPT !.todo = @ \ {l}])
                               \/ controller[l] # "closed" /\ Stopped(l) /\ Return(c)
          \/ k.todo = {} /\ To(c, "clear") /\ UNCHANGED controller
       /\ UNCHANGED <<factory, producers, consumes, registered, calls, breaks>>

ClearControllers(c) ==
    /\ call[c].pc = "clear"
    /\ registered' = {}
    /\ To(c, "closeValues")
    /\ UNCHANGED <<factory, producers, controller, consumes, calls, breaks>>

CloseValues(c) ==
    /\ call[c].pc = "closeValues"
    /\ context' = [x \in Contexts |-> IF \E id \in Identities : mapped[id] = x
                                      THEN "closed" ELSE context[x]]
    /\ To(c, "clearMap")
    /\ UNCHANGED <<factory, mapped, owner, consumers, calls, breaks>>

ClearMap(c) ==
    /\ call[c].pc = "clearMap"
    /\ mapped' = [id \in Identities |-> NoContext]
    /\ Return(c)
    /\ UNCHANGED <<factory, context, owner, consumers, calls, breaks>>

-----------------------------------------------------------------------------
CallBegins(c) ==
    \/ Shutdown(c)
    \/ \E id \in Identities :
         \/ Produce(c, id) \/ Consume(c, id) \/ Stop(c, id) \/ Unregister(c, id)
         \/ \E i \in Infos : Register(c, id, i)

CallStep(c) ==
    \/ AddInfo(c)
    \/ GetInfo(c) \/ ComputeIfAbsent(c) \/ CheckAlive(c) \/ RemoveOld(c) \/ CloseOld(c)
    \/ CreateNew(c) \/ Put(c) \/ Use(c) \/ Cleanup(c) \/ CloseFailed(c)
    \/ CheckExists(c) \/ GetConnectionInfo(c) \/ StartController(c) \/ AddController(c)
    \/ StopEach(c) \/ CloseEach(c) \/ RemoveContext(c) \/ CloseRemoved(c) \/ Forget(c)
    \/ ShutEach(c) \/ ClearControllers(c) \/ CloseValues(c) \/ ClearMap(c)

Next ==
    \/ \E c \in Callers : CallBegins(c) \/ CallStep(c)
    \/ \E x \in Contexts : Break(x)

Spec == Init /\ [][Next]_vars

-----------------------------------------------------------------------------
\* What a call refers to fits its label.
Fits(k) ==
    /\ k.pc \in ProduceLabels \cup ConsumeLabels \cup UnregisterLabels => k.id \in Identities
    /\ k.pc \in {"addInfo", "start"} => k.info \in Infos
    /\ k.pc = "put" => k.ctx \in Contexts /\ owner[k.ctx] = k.id /\ context[k.ctx] # "unused"
    /\ k.pc = "add" => k.ctl \in Controllers /\ controller[k.ctl] # "unused"

CallInv == \A c \in Callers : Fits(call[c])

\* The histories hold every overlap there is.
OverlapInv ==
    \A d, e \in Callers : d # e =>
      /\ \A id \in Identities :
           /\ Producing(call[d], id) /\ (Replacing(call[e], id) \/ ShutsDown(call[e])) => id \in crowded
           /\ Consuming(call[d], id) /\ Consuming(call[e], id) => id \in doubled
      /\ call[d].ctl \in Controllers /\ ShutsDown(call[e]) => call[d].ctl \in late

\* A producer context is mapped, about to be put, about to be closed, or closed.
\* A call puts a context where none is mapped, and a shutdown clears closed ones.
Closing(k, x) == k.pc \in {"closeOld", "closeFailed", "closeRemoved"} /\ k.ctx = x

ContextsOf(id) ==
    /\ \A x \in Contexts : owner[x] = id /\ context[x] \in {"alive", "broken"} =>
          \/ mapped[id] = x
          \/ \E c \in Callers : Closing(call[c], x)
          \/ \E c \in Callers : call[c].pc = "put" /\ call[c].id = id /\ call[c].ctx = x
    /\ \A c \in Callers :
          /\ call[c].pc \in {"closeOld", "create", "put"} /\ call[c].id = id => mapped[id] = NoContext
          /\ call[c].pc = "clearMap" /\ mapped[id] # NoContext => context[mapped[id]] = "closed"

ContextInv == \A id \in Identities \ crowded : ContextsOf(id)

\* A shutdown has the running controllers still before it, and behind it none.
ShutdownFits(k) ==
    \A l \in registered \ late : controller[l] = "running" =>
        (k.pc = "shutEach" => l \in k.todo) /\ k.pc # "clear"

ShutdownInv == \A c \in Callers : ShutdownFits(call[c])

\* A consume past its check is the first of its identity, and its controller
\* serves that identity.
ConsumeFits(k) ==
    /\ k.pc \in {"info", "start", "add"} => k.id \in doubled \/ Of(k.id) = {}
    /\ k.pc = "start" => identity[k.info] = k.id
    /\ k.pc = "add" => consumes[k.ctl] = k.id

ConsumeInv ==
    ~reused => /\ \A id \in Identities \ doubled : \A k, l \in Of(id) : k = l
               /\ \A c \in Callers : ConsumeFits(call[c])

\* A producer's connection is replaced and never leaked: an identity has one
\* open context at most, apart from those a call is about to close, through all
\* broken connections, failing calls and unregistrations.  That fails only where
\* a call on the identity overlaps another that replaces the context, whose put
\* may hide one (produce, JmsProviderImpl.java:48), or a shutdown.
NoLeakAlone ==
    \A id \in Identities \ crowded :
        LET closing == {call[c].ctx : c \in {d \in Callers :
                           call[d].pc \in {"closeOld", "closeFailed", "closeRemoved"}}}
            open == {x \in Contexts : owner[x] = id /\ context[x] \in {"alive", "broken"}}
        IN Cardinality(open \ closing) <= 1

\* A running controller is in CONSUMER_CONTROLLERS, where stop, unregister and
\* shutdown find it, or its consume is about to add it; also after a close that
\* threw and ended unregister half way.  A shutdown that overlaps the consume may
\* lose it between its close and its clear (shutdown, JmsProviderImpl.java:107).
RunningIsReachable ==
    \A k \in Controllers \ late :
        controller[k] = "running" => \/ k \in registered
                                    \/ \E c \in Callers : call[c].pc = "add" /\ call[c].ctl = k

\* An identity has one controller at most ("Prevent duplicate controllers",
\* JmsProviderImpl.java:80), unless two consume calls of the identity overlapped,
\* which both pass the check, or an info served two identities.
OneController ==
    ~reused => \A id \in Identities \ doubled : Cardinality(Of(id)) <= 1

\* The inductive invariant.
IInv == /\ TypeOK /\ CallInv /\ OverlapInv /\ ContextInv
        /\ RunningIsReachable /\ ShutdownInv /\ ConsumeInv
=============================================================================
