----------------------- MODULE JmsConsumerController ------------------------
(***************************************************************************)
(* The consumer controller of microfox-jms, from start to close.  A single *)
(* scheduler thread repeats ensureConsumerIsRunning; the JMS provider      *)
(* reports broken connections on its own threads (handleException); a      *)
(* caller stops or closes the controller.  All of them share the flag      *)
(* "running" and the CopyOnWriteArrayList CONTEXTS.  What JmsProvider has   *)
(* too has "Controller" in its name here: JmsProofs extends both.          *)
(***************************************************************************)
EXTENDS Naturals, Sequences, FiniteSets

CONSTANTS ConsumerContexts,  \* JMSContext objects of a behaviour
          Concurrency,       \* JmsConnectionInfo.concurrency
          MaxFailures,       \* bound on failing calls and broken connections
          NoConsumerContext

ASSUME ControllerConstants ==
    /\ Concurrency \in Nat \ {0}   \* with 0 no round is ever scheduled
    /\ MaxFailures \in Nat
    /\ NoConsumerContext \notin ConsumerContexts

VARIABLES running,     \* the volatile flag
          contexts,    \* CONTEXTS
          state,       \* JMSContext -> its state
          listens,     \* contexts whose exception listener is set
          task,        \* where the scheduler thread is in ensureConsumerIsRunning
          ctx,         \* its local variable "context"
          scheduled,   \* is the executor accepting further rounds?
          handler,     \* JMSContext -> step of its exception handler
          caller,      \* where stop or close is
          rest,        \* what is left of the snapshot its forEach iterates over
          threw,       \* history: did the last stop() throw?
          unclosed,    \* history: contexts whose close failed and was logged
          failures     \* failing calls and broken connections so far

round == <<task, ctx, scheduled>>
stopping == <<caller, rest, threw>>
controllerVars == <<running, contexts, state, listens, handler, round, stopping, unclosed, failures>>

ContextStates == {"unused", "created", "ready", "started", "stopped", "closed"}
TaskLabels == {"idle", "create", "add", "listen", "setup", "begin"}
CallerLabels == {"up", "stop", "stopEach", "stopped", "close", "closeStop", "closeEach",
                 "shutdown", "closed"}

ControllerTypeOK ==
    /\ running \in BOOLEAN /\ scheduled \in BOOLEAN
    /\ contexts \in Seq(ConsumerContexts)
    /\ state \in [ConsumerContexts -> ContextStates]
    /\ task \in TaskLabels
    /\ ctx \in ConsumerContexts \cup {NoConsumerContext}
    /\ handler \in [ConsumerContexts -> {"none", "close", "remove"}]
    /\ caller \in CallerLabels
    /\ running <=> caller = "up"
    /\ rest \in Seq(ConsumerContexts)
    /\ threw \in BOOLEAN
    /\ listens \subseteq ConsumerContexts /\ unclosed \subseteq ConsumerContexts
    /\ failures \in 0..MaxFailures

\* After start(): the flag is set and the rounds are scheduled.
ControllerInit ==
    /\ running = TRUE /\ scheduled = TRUE
    /\ contexts = <<>>
    /\ state = [c \in ConsumerContexts |-> "unused"]
    /\ listens = {} /\ unclosed = {}
    /\ task = "idle" /\ ctx = NoConsumerContext
    /\ handler = [c \in ConsumerContexts |-> "none"]
    /\ caller = "up" /\ rest = <<>> /\ threw = FALSE
    /\ failures = 0

Listed == {contexts[i] : i \in 1..Len(contexts)}
Waiting == {rest[i] : i \in 1..Len(rest)}
Open(c) == state[c] \notin {"unused", "closed"}
NotLost == {c \in ConsumerContexts : Open(c)} \ unclosed
Started == {c \in ConsumerContexts : state[c] = "started"} \ unclosed

Fail == failures < MaxFailures /\ failures' = failures + 1

\* A call on a closed context throws, and any other may.
Throws(c) == Fail \/ (state[c] = "closed" /\ UNCHANGED failures)

\* JmsUtils.contextClose: a close that throws is only logged.
CloseOrLog(c) ==
    \/ state' = [state EXCEPT ![c] = "closed"] /\ UNCHANGED <<unclosed, failures>>
    \/ Fail /\ unclosed' = unclosed \cup {c} /\ UNCHANGED state

-----------------------------------------------------------------------------
(* ensureConsumerIsRunning.                                                *)

\* Mutated form: an off-by-one in the comparison with the concurrency.
IsFullTooLate == Len(contexts) > Concurrency

IsFull == contexts # <<>> /\ Len(contexts) >= Concurrency

\* Mutated form: rounds go on whatever the flag says.
RoundAlways ==
    /\ task = "idle" /\ scheduled
    /\ ~IsFull
    /\ task' = "create"
    /\ UNCHANGED <<running, contexts, state, listens, handler, ctx, scheduled, stopping, unclosed, failures>>

Round ==
    /\ task = "idle" /\ scheduled
    /\ running /\ ~IsFull
    /\ task' = "create"
    /\ UNCHANGED <<running, contexts, state, listens, handler, ctx, scheduled, stopping, unclosed, failures>>

\* Mutated form: the exception escapes the task, which is not run again.
CreateContextUncaught ==
    /\ task = "create"
    /\ \/ \E c \in ConsumerContexts :
             /\ state[c] = "unused"
             /\ state' = [state EXCEPT ![c] = "created"]
             /\ ctx' = c
             /\ task' = "add"
             /\ UNCHANGED <<failures, scheduled>>
       \/ Fail /\ task' = "idle" /\ scheduled' = FALSE /\ UNCHANGED <<state, ctx>>
    /\ UNCHANGED <<running, contexts, listens, handler, stopping, unclosed>>

CreateContext ==
    /\ task = "create"
    /\ \/ \E c \in ConsumerContexts :
             /\ state[c] = "unused"
             /\ state' = [state EXCEPT ![c] = "created"]
             /\ ctx' = c
             /\ task' = "add"
             /\ UNCHANGED failures
       \/ Fail /\ task' = "idle" /\ UNCHANGED <<state, ctx>>
    /\ UNCHANGED <<running, contexts, listens, handler, scheduled, stopping, unclosed>>

AddContext ==
    /\ task = "add"
    /\ contexts' = Append(contexts, ctx)
    /\ task' = "listen"
    /\ UNCHANGED <<running, state, listens, handler, ctx, scheduled, stopping, unclosed, failures>>

TaskEnds == task' = "idle" /\ ctx' = NoConsumerContext

\* An exception is logged and leaves the context in the list.
RoundFails == Throws(ctx) /\ TaskEnds

\* From here on the provider can report the context broken.
Listen ==
    /\ task = "listen"
    /\ \/ /\ state[ctx] # "closed"
          /\ listens' = listens \cup {ctx}
          /\ task' = "setup"
          /\ UNCHANGED <<ctx, failures>>
       \/ RoundFails /\ UNCHANGED listens
    /\ UNCHANGED <<running, contexts, state, scheduled, handler, stopping, unclosed>>

\* Destination, consumer and message listener.
Setup ==
    /\ task = "setup"
    /\ \/ /\ state[ctx] # "closed"
          /\ state' = [state EXCEPT ![ctx] = IF @ = "created" THEN "ready" ELSE @]
          /\ task' = "begin"
          /\ UNCHANGED <<ctx, failures>>
       \/ RoundFails /\ UNCHANGED state
    /\ UNCHANGED <<running, contexts, listens, scheduled, handler, stopping, unclosed>>

\* context.start() revives a context that stop() has just stopped.
Begin ==
    /\ task = "begin"
    /\ \/ /\ state[ctx] # "closed"
          /\ state' = [state EXCEPT ![ctx] = "started"]
          /\ TaskEnds
          /\ UNCHANGED failures
       \/ RoundFails /\ UNCHANGED state
    /\ UNCHANGED <<running, contexts, listens, scheduled, handler, stopping, unclosed>>

-----------------------------------------------------------------------------
(* handleException, called for a context whose listener is set.            *)

ControllerBreak(c) ==
    /\ c \in listens /\ Open(c)
    /\ handler[c] = "none"
    /\ Fail
    /\ handler' = [handler EXCEPT ![c] = "close"]
    /\ UNCHANGED <<running, contexts, state, listens, round, stopping, unclosed>>

HandlerClose(c) ==
    /\ handler[c] = "close"
    /\ CloseOrLog(c)
    /\ handler' = [handler EXCEPT ![c] = "remove"]
    /\ UNCHANGED <<running, contexts, listens, round, stopping>>

\* Mutated form: the closed context stays in the list.
HandlerKeep(c) ==
    /\ handler[c] = "remove"
    /\ handler' = [handler EXCEPT ![c] = "none"]
    /\ UNCHANGED <<running, contexts, state, listens, round, stopping, unclosed, failures>>

\* CopyOnWriteArrayList.remove: the first occurrence goes, if there is one.
RemoveFirst(c) ==
    \/ c \notin Listed /\ UNCHANGED contexts
    \/ \E n \in 1..Len(contexts) :
          /\ contexts[n] = c /\ \A i \in 1..n-1 : contexts[i] # c
          /\ contexts' = [i \in 1..Len(contexts)-1 |-> contexts[IF i < n THEN i ELSE i + 1]]

HandlerRemove(c) ==
    /\ handler[c] = "remove"
    /\ RemoveFirst(c)
    /\ handler' = [handler EXCEPT ![c] = "none"]
    /\ UNCHANGED <<running, state, listens, round, stopping, unclosed, failures>>

-----------------------------------------------------------------------------
(* stop and close.                                                         *)

\* Mutated form: the flag is not cleared.
ClearNothing(from, to) ==
    /\ caller = from
    /\ caller' = to
    /\ UNCHANGED <<running, contexts, state, listens, handler, round, rest, threw, unclosed, failures>>

ClearRunning(from, to) ==
    /\ caller = from
    /\ running' = FALSE
    /\ caller' = to
    /\ UNCHANGED <<contexts, state, listens, handler, round, rest, threw, unclosed, failures>>

ControllerStop == ClearRunning("up", "stop")

ControllerClose == ClearRunning("up", "close") \/ ClearRunning("stopped", "close")

\* forEach of the CopyOnWriteArrayList iterates over a snapshot.
Snapshot ==
    /\ caller \in {"stop", "close"}
    /\ rest' = contexts
    /\ threw' = FALSE
    /\ caller' = IF caller = "stop" THEN "stopEach" ELSE "closeStop"
    /\ UNCHANGED <<running, contexts, state, listens, handler, round, unclosed, failures>>

\* A JMSContext.stop that throws ends the loop, and close() with it, which can
\* be called again.
StopNext ==
    /\ caller \in {"stopEach", "closeStop"} /\ rest # <<>>
    /\ \/ /\ state[Head(rest)] # "closed"
          /\ state' = [state EXCEPT ![Head(rest)] = "stopped"]
          /\ rest' = Tail(rest)
          /\ UNCHANGED <<caller, threw, failures>>
       \/ /\ Throws(Head(rest))
          /\ threw' = TRUE /\ caller' = "stopped" /\ rest' = <<>>
          /\ UNCHANGED state
    /\ UNCHANGED <<running, contexts, listens, handler, round, unclosed>>

\* stop() is over; close() goes on with a new snapshot.
StopReturns ==
    /\ caller \in {"stopEach", "closeStop"} /\ rest = <<>>
    /\ caller' = IF caller = "stopEach" THEN "stopped" ELSE "closeEach"
    /\ rest' = IF caller = "stopEach" THEN <<>> ELSE contexts
    /\ UNCHANGED <<running, contexts, state, listens, handler, round, threw, unclosed, failures>>

CloseNext ==
    /\ caller = "closeEach" /\ rest # <<>>
    /\ CloseOrLog(Head(rest))
    /\ rest' = Tail(rest)
    /\ UNCHANGED <<running, contexts, listens, handler, round, caller, threw>>

Clear ==
    /\ caller = "closeEach" /\ rest = <<>>
    /\ contexts' = <<>>
    /\ caller' = "shutdown"
    /\ UNCHANGED <<running, state, listens, handler, round, rest, threw, unclosed, failures>>

ControllerShutdown ==
    /\ caller = "shutdown"
    /\ scheduled' = FALSE
    /\ caller' = "closed"
    /\ UNCHANGED <<running, contexts, state, listens, handler, task, ctx, rest, threw, unclosed, failures>>

-----------------------------------------------------------------------------

TaskStep == Round \/ CreateContext \/ AddContext \/ Listen \/ Setup \/ Begin
HandlerStep(c) == HandlerClose(c) \/ HandlerRemove(c)
CallerStep == Snapshot \/ StopNext \/ StopReturns \/ CloseNext \/ Clear \/ ControllerShutdown

ControllerNext == \/ TaskStep
        \/ \E c \in ConsumerContexts : HandlerStep(c) \/ ControllerBreak(c)
        \/ CallerStep \/ ControllerStop \/ ControllerClose

ControllerSpec == ControllerInit /\ [][ControllerNext]_controllerVars

\* The executor repeats its rounds and threads make progress; nobody has to
\* stop the controller and nothing has to break.
FairSpec == /\ ControllerSpec
            /\ WF_controllerVars(TaskStep) /\ WF_controllerVars(CallerStep)
            /\ \A c \in ConsumerContexts : WF_controllerVars(HandlerStep(c))

-----------------------------------------------------------------------------

\* A round that has begun has room for its context, which starts only at its
\* end; a handler is past the close of a context that is closed, or leaked.
RoundInv ==
    /\ Len(contexts) + (IF task \in {"create", "add"} THEN 1 ELSE 0) <= Concurrency
    /\ task \in TaskLabels \ {"idle", "create"} =>
          ctx \in ConsumerContexts /\ state[ctx] # "unused"
    /\ task = "add" => state[ctx] # "started"
    /\ \A c \in ConsumerContexts : /\ handler[c] # "none" => state[c] # "unused"
                                   /\ handler[c] = "remove" => c \notin NotLost

\* Until close clears the list, an open context is listed or about to be,
\* unless its close failed.
ListInv ==
    caller \notin {"shutdown", "closed"} =>
        \A c \in NotLost : c \in Listed \/ (task = "add" /\ c = ctx)

\* What is listed, or was when a snapshot was taken, has been created.
UsedInv == \A c \in Listed \cup Waiting : state[c] # "unused"

\* What stop leaves started, and close open, beyond the rest of its snapshot:
\* the context of the one round that was under way, at most.
SnapshotInv ==
    /\ caller \in {"stopped", "shutdown", "closed"} => rest = <<>>
    /\ caller \in {"stopEach", "closeStop"} \/ (caller = "stopped" /\ ~threw) =>
          LET S == Started \ Waiting
          IN (\A c, d \in S : c = d) /\ (task # "idle" => S = {})
    /\ caller \in {"closeEach", "shutdown", "closed"} =>
          LET S == NotLost \ Waiting
          IN (\A c, d \in S : c = d) /\ (task = "create" => S = {})

\* The inductive invariant.
ControllerIInv == ControllerTypeOK /\ RoundInv /\ ListInv /\ UsedInv /\ SnapshotInv

\* The broker never sees more consumers of one identity than the configured
\* concurrency, while contexts break, are replaced, stopped and closed: a
\* context leaves the list only after its close.  A context whose close failed
\* is beyond that: JmsUtils.contextClose logs the failure, and the controller
\* forgets the context and replaces it (JmsUtils.java:13).
AtMostConcurrency == Cardinality(NotLost) <= Concurrency

\* stop() and close() do not wait for the round under way, but what escapes
\* them is the one context of that round: a stop that got through leaves at
\* most one consumer started, a close at most one context open, those aside
\* whose close failed.
AtMostOneEscapes ==
    /\ caller = "stopped" /\ ~threw => Cardinality(Started) <= 1
    /\ caller = "closed" => Cardinality(NotLost) <= 1

\* A context that is closed leaves the list, so it does not keep a working
\* one from taking its place.
ClosedContextLeaves ==
    \A c \in ConsumerContexts : state[c] = "closed" ~> c \notin Listed

\* "ensureConsumerIsRunning": however contexts fail, a running controller gets
\* all its consumers started again, and a failing round does not end the rounds.
\* The exception is a context whose setup or start failed: it stays listed and
\* takes the place of a consumer (JmsConsumerController.java:52).
ConsumersRunAgain ==
    running ~> \/ Cardinality({c \in Listed : state[c] = "started"}) = Concurrency
               \/ \E c \in Listed \ {ctx} : state[c] \in {"created", "ready"}
               \/ ~running
=============================================================================
