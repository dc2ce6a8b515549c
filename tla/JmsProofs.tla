---------------------------- MODULE JmsProofs ----------------------------
(***************************************************************************)
(* Proofs about JmsProvider, for any callers, identities, infos, contexts  *)
(* and controllers, and any number of calls and of broken connections;     *)
(* then about JmsConsumerController, the inside of a controller.           *)
(***************************************************************************)
EXTENDS JmsProvider, JmsConsumerController, FiniteSetTheorems, TLAPS

\* What every step of a call of c does: the calls of others stay, and the
\* histories grow by the overlaps there are now.
StepOf(c) ==
    /\ call' \in [Callers -> CallRecords]
    /\ \A d \in Callers \ {c} : call'[d] = call[d]
    /\ crowded \subseteq crowded' /\ late \subseteq late' /\ doubled \subseteq doubled'
    /\ OverlapInv'

\* What is in use stays so, and keeps its owner.
KeepsUsed ==
    /\ \A x \in Contexts : context[x] # "unused" => context'[x] # "unused" /\ owner'[x] = owner[x]
    /\ \A l \in Controllers : controller[l] # "unused" => controller'[l] # "unused"

\* A set whose members are all equal has one at most.
LEMMA AtMostOne ==
  ASSUME NEW S, \A x, y \in S : x = y
  PROVE  IsFiniteSet(S) /\ Cardinality(S) <= 1
<1>1. CASE S = {} BY <1>1, FS_EmptySet
<1>2. CASE S # {}
  <2>1. PICK x \in S : TRUE BY <1>2
  <2>2. S = {x} BY <2>1
  <2>3. IsFiniteSet({x}) /\ Cardinality({x}) = 1 BY FS_Singleton
  <2>4. QED BY <2>2, <2>3
<1>3. QED BY <1>1, <1>2

\* Advance is such a step.
LEMMA Advances ==
  ASSUME call \in [Callers -> CallRecords],
         NEW c \in Callers, NEW k \in CallRecords, Advance(c, k)
  PROVE  StepOf(c) /\ call'[c] = k
<1>1. call' = [call EXCEPT ![c] = k] BY DEF Advance
<1>2. call' \in [Callers -> CallRecords] /\ call'[c] = k BY <1>1
<1>3. \A d \in Callers \ {c} : call'[d] = call[d] BY <1>1
<1>4. crowded \subseteq crowded' /\ late \subseteq late' /\ doubled \subseteq doubled'
  BY DEF Advance
<1>5. OverlapInv' BY DEF Advance, OverlapInv
<1>6. QED BY <1>2, <1>3, <1>4, <1>5 DEF StepOf

\* So is a move to another label, which changes nothing else of the call ...
LEMMA Moves ==
  ASSUME call \in [Callers -> CallRecords],
         NEW c \in Callers, NEW pc \in Labels, To(c, pc)
  PROVE  /\ StepOf(c) /\ UNCHANGED reused
         /\ call'[c].pc = pc /\ call'[c].id = call[c].id /\ call'[c].info = call[c].info
         /\ call'[c].ctx = call[c].ctx /\ call'[c].ctl = call[c].ctl /\ call'[c].todo = call[c].todo
<1> DEFINE k == [call[c] EXCEPT !.pc = pc]
<1>1. call[c] \in CallRecords OBVIOUS
<1>2. /\ k \in CallRecords /\ k.pc = pc /\ k.id = call[c].id /\ k.info = call[c].info
      /\ k.ctx = call[c].ctx /\ k.ctl = call[c].ctl /\ k.todo = call[c].todo
  BY <1>1 DEF CallRecords
<1>3. Advance(c, k) /\ UNCHANGED reused BY DEF To, Go
<1> HIDE DEF k
<1>4. QED BY <1>2, <1>3, Advances

\* ... and a return.
LEMMA Returns ==
  ASSUME call \in [Callers -> CallRecords], NEW c \in Callers, Return(c)
  PROVE  StepOf(c) /\ UNCHANGED reused /\ call'[c] = NoCall
<1>1. NoCall \in CallRecords BY DEF NoCall, CallRecords, Labels
<1>2. QED BY <1>1, Advances DEF Return, Go

\* The calls of others still fit after a step.
LEMMA CallFrame ==
  ASSUME CallInv, NEW c \in Callers, StepOf(c), KeepsUsed, Fits(call[c])'
  PROVE  CallInv'
<1>1. ASSUME NEW d \in Callers \ {c} PROVE Fits(call[d])'
  <2>1. call'[d] = call[d] /\ Fits(call[d]) BY DEF StepOf, CallInv
  <2>2. QED BY <2>1 DEF Fits, KeepsUsed
<1>2. QED BY <1>1 DEF CallInv

\* A step that leaves contexts alone, and neither begins nor ends a put or a close.
LEMMA ContextFrame ==
  ASSUME ContextInv, NEW c \in Callers, StepOf(c), UNCHANGED producers,
         call[c].pc \notin {"closeOld", "closeFailed", "closeRemoved", "put"},
         call'[c].pc \notin {"closeOld", "create", "put", "clearMap"}
  PROVE  ContextInv'
<1> SUFFICES ASSUME NEW id \in Identities \ crowded' PROVE ContextsOf(id)'
  BY DEF ContextInv
<1>1. ContextsOf(id) BY DEF ContextInv, StepOf
<1>2. QED BY <1>1 DEF ContextsOf, StepOf, producers, Closing

\* A step that starts and adds no controller, and removes running ones only
\* where a shutdown overlapped.
LEMMA ConsumerFrame ==
  ASSUME RunningIsReachable, ShutdownInv, ConsumeInv,
         NEW c \in Callers, StepOf(c), UNCHANGED <<consumes, identity, reused>>,
         registered' \subseteq registered,
         \A k \in Controllers : controller'[k] = "running" =>
            controller[k] = "running" /\ (k \in registered => k \in registered' \cup late'),
         call[c].pc # "add", registered \subseteq Controllers,
         ShutdownFits(call[c])', ~reused => ConsumeFits(call[c])'
  PROVE  RunningIsReachable' /\ ShutdownInv' /\ ConsumeInv'
<1>1. RunningIsReachable' BY DEF RunningIsReachable, StepOf
<1>2. ShutdownInv'
  <2>1. ASSUME NEW d \in Callers \ {c} PROVE ShutdownFits(call[d])'
    <3>1. ShutdownFits(call[d]) /\ call'[d] = call[d] /\ late \subseteq late'
      BY DEF ShutdownInv, StepOf
    <3>2. QED BY <3>1 DEF ShutdownFits
  <2>2. QED BY <2>1 DEF ShutdownInv
<1>3. ConsumeInv'
  <2> SUFFICES ASSUME ~reused PROVE ConsumeInv'
    BY DEF ConsumeInv
  <2>1. \A id : Of(id)' \subseteq Of(id) BY DEF Of
  <2>2. doubled \subseteq doubled' BY DEF StepOf
  <2>3. ASSUME NEW d \in Callers \ {c} PROVE ConsumeFits(call[d])'
    <3>1. ConsumeFits(call[d]) /\ call'[d] = call[d] BY DEF ConsumeInv, StepOf
    <3>2. QED BY <2>1, <2>2, <3>1 DEF ConsumeFits
  <2>4. QED BY <2>1, <2>2, <2>3 DEF ConsumeInv
<1>4. QED BY <1>1, <1>2, <1>3

\* A step that leaves controllers and infos alone, outside of consume and shutdown.
LEMMA ConsumerStays ==
  ASSUME RunningIsReachable, ShutdownInv, ConsumeInv, registered \subseteq Controllers,
         NEW c \in Callers, StepOf(c), UNCHANGED <<consumers, identity, reused>>,
         call[c].pc # "add",
         call'[c].pc \notin {"shutEach", "clear", "info", "start", "add"}
  PROVE  RunningIsReachable' /\ ShutdownInv' /\ ConsumeInv'
<1>1. ShutdownFits(call[c])' /\ ConsumeFits(call[c])' BY DEF ShutdownFits, ConsumeFits
<1>2. QED BY <1>1, ConsumerFrame DEF consumers

\* What a call refers to.
LEMMA CallTypes ==
  ASSUME call \in [Callers -> CallRecords], NEW c \in Callers
  PROVE  /\ call[c].pc \in Labels /\ call[c].id \in Identities \cup {NoIdentity}
         /\ call[c].info \in Infos \cup {NoInfo} /\ call[c].ctx \in Contexts \cup {NoContext}
         /\ call[c].ctl \in Controllers \cup {NoController} /\ call[c].todo \subseteq Controllers
  BY DEF CallRecords

\* contextClose closes one context at most.
LEMMA Closes ==
  ASSUME TypeOK, NEW y \in Contexts \cup {NoContext}, ContextClose(y)
  PROVE  /\ context' \in [Contexts -> {"unused", "alive", "broken", "closed"}]
         /\ \A x \in Contexts : context'[x] = IF x = y THEN "closed" ELSE context[x]
<1>1. CASE y = NoContext
  <2>1. context' = context BY <1>1 DEF ContextClose
  <2>2. QED BY <1>1, <2>1, ConstantsAssumption DEF TypeOK
<1>2. CASE y # NoContext
  <2>1. context' = [context EXCEPT ![y] = "closed"] BY <1>2 DEF ContextClose
  <2>2. QED BY <1>2, <2>1 DEF TypeOK
<1>3. QED BY <1>1, <1>2

\* A call that works on the context of an identity has it for itself, or the
\* identity is crowded.
LEMMA Alone ==
  ASSUME NEW c \in Callers, NEW id \in Identities \ crowded', StepOf(c),
         call'[c].pc \in ProduceLabels, call'[c].id = id
  PROVE  \A d \in Callers \ {c} :
            /\ ~(call'[d].pc \in {"remove", "closeOld", "create", "put"} /\ call'[d].id = id)
            /\ call'[d].pc \notin ShutdownLabels
            /\ call'[d] = call[d]
<1>1. OverlapInv' /\ \A d \in Callers \ {c} : call'[d] = call[d] BY DEF StepOf
<1>2. Producing(call[c], id)' BY DEF Producing
<1>3. ASSUME NEW d \in Callers \ {c}
      PROVE  ~(Replacing(call[d], id)' \/ ShutsDown(call[d])')
  BY <1>1, <1>2 DEF OverlapInv
<1>4. QED BY <1>1, <1>3 DEF Replacing, ShutsDown

\* The set of infos takes no part in what follows.
LEMMA AddInfoIInv ==
  ASSUME IInv, NEW c \in Callers, AddInfo(c)
  PROVE  IInv'
<1> USE DEF IInv, TypeOK, CallInv
<1>1. StepOf(c) /\ UNCHANGED reused /\ call'[c] = NoCall
  BY Returns DEF AddInfo
<1>2. TypeOK' BY <1>1 DEF StepOf, factory, producers, consumers, AddInfo
<1>3. KeepsUsed BY <1>1 DEF KeepsUsed, producers, consumers, AddInfo
<1>4. Fits(call[c])'
  BY <1>1 DEF Fits, NoCall, Labels, ProduceLabels, ConsumeLabels, UnregisterLabels,
      ShutdownLabels, AddInfo
<1>5. CallInv' /\ OverlapInv' BY <1>1, <1>3, <1>4, CallFrame DEF StepOf
<1>6. ContextInv' BY <1>1, ContextFrame DEF NoCall, AddInfo
<1>7. RunningIsReachable' /\ ShutdownInv' /\ ConsumeInv'
  BY <1>1, ConsumerStays DEF NoCall, factory, consumers, AddInfo
<1>8. QED BY <1>2, <1>5, <1>6, <1>7

\* The context that a failing call found mapped is closed: it leaks no more.
LEMMA CloseFailedIInv ==
  ASSUME IInv, NEW c \in Callers, CloseFailed(c)
  PROVE  IInv'
<1> USE DEF IInv, TypeOK, CallInv
<1>a. call[c].ctx \in Contexts \cup {NoContext} /\ call[c].id \in Identities \cup {NoIdentity}
  BY CallTypes
<1>b. /\ context' \in [Contexts -> {"unused", "alive", "broken", "closed"}]
      /\ \A x \in Contexts : context'[x] = IF x = call[c].ctx THEN "closed" ELSE context[x]
      /\ UNCHANGED <<mapped, owner>>
  BY <1>a, Closes DEF CloseFailed
<1>1. StepOf(c) /\ UNCHANGED reused /\ call'[c] = NoCall
  BY Returns DEF CloseFailed
<1>2. TypeOK' BY <1>1, <1>a, <1>b DEF StepOf, factory, producers, consumers, CloseFailed
<1>3. KeepsUsed BY <1>1, <1>a, <1>b DEF KeepsUsed, producers, consumers, CloseFailed
<1>4. Fits(call[c])'
  BY <1>1, <1>a, <1>b
  DEF Fits, NoCall, Labels, ProduceLabels, ConsumeLabels, UnregisterLabels, ShutdownLabels,
      CloseFailed
<1>5. CallInv' /\ OverlapInv' BY <1>1, <1>3, <1>4, CallFrame DEF StepOf
<1>6. ContextInv'
  <2> SUFFICES ASSUME NEW id \in Identities \ crowded' PROVE ContextsOf(id)'
    BY DEF ContextInv
  <2>1. ContextsOf(id) BY <1>1 DEF ContextInv, StepOf
  <2>2. QED
    BY <1>1, <1>b, <2>1, ConstantsAssumption
    DEF ContextsOf, StepOf, Closing, NoCall, CloseFailed
<1>7. RunningIsReachable' /\ ShutdownInv' /\ ConsumeInv'
  BY <1>1, ConsumerStays DEF NoCall, factory, consumers, CloseFailed
<1>8. QED BY <1>2, <1>5, <1>6, <1>7

\* So is the dead context before its replacement is made ...
LEMMA CloseOldIInv ==
  ASSUME IInv, NEW c \in Callers, CloseOld(c)
  PROVE  IInv'
<1> USE DEF IInv, TypeOK, CallInv
<1>a. call[c].ctx \in Contexts \cup {NoContext} /\ call[c].id \in Identities \cup {NoIdentity}
  BY CallTypes
<1>b. /\ context' \in [Contexts -> {"unused", "alive", "broken", "closed"}]
      /\ \A x \in Contexts : context'[x] = IF x = call[c].ctx THEN "closed" ELSE context[x]
      /\ UNCHANGED <<mapped, owner>>
  BY <1>a, Closes DEF CloseOld
<1>1. StepOf(c) /\ UNCHANGED reused /\ call'[c].pc = "create" /\ call'[c].id = call[c].id
      /\ call'[c].info = call[c].info /\ call'[c].ctx = call[c].ctx /\ call'[c].todo = call[c].todo
  BY Moves DEF Labels, ProduceLabels, ConsumeLabels, UnregisterLabels, ShutdownLabels, CloseOld
<1>2. TypeOK' BY <1>1, <1>a, <1>b DEF StepOf, factory, producers, consumers, CloseOld
<1>3. KeepsUsed BY <1>1, <1>a, <1>b DEF KeepsUsed, producers, consumers, CloseOld
<1>4. Fits(call[c])'
  BY <1>1, <1>a, <1>b
  DEF Fits, NoCall, Labels, ProduceLabels, ConsumeLabels, UnregisterLabels, ShutdownLabels,
      CloseOld
<1>5. CallInv' /\ OverlapInv' BY <1>1, <1>3, <1>4, CallFrame DEF StepOf
<1>6. ContextInv'
  <2> SUFFICES ASSUME NEW id \in Identities \ crowded' PROVE ContextsOf(id)'
    BY DEF ContextInv
  <2>1. ContextsOf(id) BY <1>1 DEF ContextInv, StepOf
  <2>2. QED
    BY <1>1, <1>b, <2>1, ConstantsAssumption DEF ContextsOf, StepOf, Closing, NoCall, CloseOld
<1>7. RunningIsReachable' /\ ShutdownInv' /\ ConsumeInv'
  BY <1>1, ConsumerStays DEF NoCall, factory, consumers, CloseOld
<1>8. QED BY <1>2, <1>5, <1>6, <1>7

\* ... and the context of an identity that is unregistered.
LEMMA CloseRemovedIInv ==
  ASSUME IInv, NEW c \in Callers, CloseRemoved(c)
  PROVE  IInv'
<1> USE DEF IInv, TypeOK, CallInv
<1>a. call[c].ctx \in Contexts \cup {NoContext} /\ call[c].id \in Identities \cup {NoIdentity}
  BY CallTypes
<1>b. /\ context' \in [Contexts -> {"unused", "alive", "broken", "closed"}]
      /\ \A x \in Contexts : context'[x] = IF x = call[c].ctx THEN "closed" ELSE context[x]
      /\ UNCHANGED <<mapped, owner>>
  BY <1>a, Closes DEF CloseRemoved
<1>1. StepOf(c) /\ UNCHANGED reused /\ call'[c].pc = "forget" /\ call'[c].id = call[c].id
      /\ call'[c].info = call[c].info /\ call'[c].ctx = call[c].ctx /\ call'[c].todo = call[c].todo
  BY Moves DEF Labels, ProduceLabels, ConsumeLabels, UnregisterLabels, ShutdownLabels,
      CloseRemoved
<1>2. TypeOK' BY <1>1, <1>a, <1>b DEF StepOf, factory, producers, consumers, CloseRemoved
<1>3. KeepsUsed BY <1>1, <1>a, <1>b DEF KeepsUsed, producers, consumers, CloseRemoved
<1>4. Fits(call[c])'
  BY <1>1, <1>a, <1>b
  DEF Fits, NoCall, Labels, ProduceLabels, ConsumeLabels, UnregisterLabels, ShutdownLabels,
      CloseRemoved
<1>5. CallInv' /\ OverlapInv' BY <1>1, <1>3, <1>4, CallFrame DEF StepOf
<1>6. ContextInv'
  <2> SUFFICES ASSUME NEW id \in Identities \ crowded' PROVE ContextsOf(id)'
    BY DEF ContextInv
  <2>1. ContextsOf(id) BY <1>1 DEF ContextInv, StepOf
  <2>2. QED
    BY <1>1, <1>b, <2>1, ConstantsAssumption
    DEF ContextsOf, StepOf, Closing, NoCall, CloseRemoved
<1>7. RunningIsReachable' /\ ShutdownInv' /\ ConsumeInv'
  BY <1>1, ConsumerStays DEF NoCall, factory, consumers, CloseRemoved
<1>8. QED BY <1>2, <1>5, <1>6, <1>7

\* A context is put where none was.
LEMMA PutIInv ==
  ASSUME IInv, NEW c \in Callers, Put(c)
  PROVE  IInv'
<1> USE DEF IInv, TypeOK, CallInv
<1>a. call[c].ctx \in Contexts \cup {NoContext} /\ call[c].id \in Identities \cup {NoIdentity}
  BY CallTypes
<1>b. call[c].id \in Identities /\ call[c].ctx \in Contexts
      /\ owner[call[c].ctx] = call[c].id /\ context[call[c].ctx] # "unused"
  BY DEF Fits, ProduceLabels, Put
<1>1. StepOf(c) /\ UNCHANGED reused /\ call'[c].pc = "use" /\ call'[c].id = call[c].id
      /\ call'[c].info = call[c].info /\ call'[c].ctx = call[c].ctx /\ call'[c].todo = call[c].todo
  BY Moves DEF Labels, ProduceLabels, ConsumeLabels, UnregisterLabels, ShutdownLabels, Put
<1>2. TypeOK' BY <1>1, <1>a, <1>b DEF StepOf, factory, producers, consumers, Put
<1>3. KeepsUsed BY <1>1, <1>a, <1>b DEF KeepsUsed, producers, consumers, Put
<1>4. Fits(call[c])'
  BY <1>1, <1>a, <1>b
  DEF Fits, NoCall, Labels, ProduceLabels, ConsumeLabels, UnregisterLabels, ShutdownLabels, Put
<1>5. CallInv' /\ OverlapInv' BY <1>1, <1>3, <1>4, CallFrame DEF StepOf
<1>6. ContextInv'
  <2> SUFFICES ASSUME NEW id \in Identities \ crowded' PROVE ContextsOf(id)'
    BY DEF ContextInv
  <2>1. ContextsOf(id) BY <1>1 DEF ContextInv, StepOf
  <2>2. CASE id # call[c].id
    BY <1>1, <2>1, <2>2 DEF ContextsOf, StepOf, Closing, Put
  <2>3. CASE id = call[c].id
    <3>1. mapped[id] = NoContext BY <2>1, <2>3 DEF ContextsOf, Put
    <3>2. mapped'[id] = call[c].ctx /\ UNCHANGED <<context, owner>> BY <2>3 DEF Put
    <3>3. \A d \in Callers \ {c} :
            /\ ~(call'[d].pc \in {"closeOld", "create", "put"} /\ call'[d].id = id)
            /\ call'[d].pc # "clearMap" /\ call'[d] = call[d]
      BY <1>1, <2>3, Alone DEF ProduceLabels, ShutdownLabels
    <3>4. QED BY <1>1, <2>1, <3>1, <3>2, <3>3, ConstantsAssumption DEF ContextsOf, Closing, Put
  <2>4. QED BY <2>2, <2>3
<1>7. RunningIsReachable' /\ ShutdownInv' /\ ConsumeInv'
  BY <1>1, ConsumerStays DEF NoCall, factory, consumers, Put
<1>8. QED BY <1>2, <1>5, <1>6, <1>7

\* What a call returns to, and begins with, fits.
LEMMA StepKeeps ==
  ASSUME IInv, NEW c \in Callers, StepOf(c), TypeOK', KeepsUsed, Fits(call[c])', ContextInv',
         RunningIsReachable' /\ ShutdownInv' /\ ConsumeInv'
  PROVE  IInv'
  BY CallFrame DEF IInv, StepOf

\* A step of a call that changes nothing but the call.
LEMMA QuietStep ==
  ASSUME IInv, NEW c \in Callers, StepOf(c), UNCHANGED <<factory, producers, consumers, reused>>,
         call[c].pc \notin {"closeOld", "closeFailed", "closeRemoved", "put", "add"},
         call'[c].pc \notin {"closeOld", "create", "put", "clearMap"},
         Fits(call[c])', ShutdownFits(call[c])', ~reused => ConsumeFits(call[c])'
  PROVE  IInv'
<1>1. TypeOK' BY DEF IInv, TypeOK, StepOf, factory, producers, consumers
<1>2. KeepsUsed BY DEF KeepsUsed, producers, consumers
<1>3. ContextInv' BY ContextFrame DEF IInv
<1>4. RunningIsReachable' /\ ShutdownInv' /\ ConsumeInv'
  BY ConsumerFrame DEF IInv, TypeOK, factory, consumers
<1>5. QED BY <1>1, <1>2, <1>3, <1>4, StepKeeps

\* A call that begins owns nothing yet.
LEMMA Begins ==
  ASSUME IInv, NEW c \in Callers, NEW k \in CallRecords, Start(c, k),
         k.pc \in {"get", "exists", "stopEach", "closeEach", "shutEach"},
         k.pc \in {"get", "exists", "closeEach"} => k.id \in Identities,
         k.pc = "shutEach" => k.todo = registered,
         UNCHANGED <<factory, producers, consumers, breaks>>
  PROVE  IInv'
<1>1. StepOf(c) /\ call'[c] = k /\ UNCHANGED reused /\ call[c].pc = "idle"
  BY Advances DEF Start, Go, IInv, TypeOK
<1>2. Fits(call[c])'
  BY <1>1 DEF Fits, Labels, ProduceLabels, ConsumeLabels, UnregisterLabels, ShutdownLabels
<1>3. ShutdownFits(call[c])' BY <1>1 DEF ShutdownFits, consumers
<1>4. ConsumeFits(call[c])' BY <1>1 DEF ConsumeFits
<1>5. QED BY <1>1, <1>2, <1>3, <1>4, QuietStep

\* shutdown begins with the controllers that are registered.
LEMMA ShutdownIInv ==
  ASSUME IInv, NEW c \in Callers, Shutdown(c)
  PROVE  IInv'
<1> DEFINE k == [NoCall EXCEPT !.pc = "shutEach", !.todo = registered]
<1>1. k \in CallRecords /\ k.pc = "shutEach" /\ k.todo = registered
  BY DEF NoCall, CallRecords, IInv, TypeOK, Labels, ProduceLabels, ConsumeLabels,
      UnregisterLabels, ShutdownLabels
<1>2. Start(c, k) /\ UNCHANGED <<factory, producers, consumers, breaks>> BY DEF Shutdown
<1> HIDE DEF k
<1>3. QED BY <1>1, <1>2, Begins

\* The calls on an identity that begin, register excepted.
LEMMA CallBeginsIInv ==
  ASSUME IInv, NEW c \in Callers, NEW id \in Identities,
         Produce(c, id) \/ Consume(c, id) \/ Stop(c, id) \/ Unregister(c, id)
  PROVE  IInv'
<1>1. Of(id) \subseteq Controllers /\ registered \subseteq Controllers
  BY DEF Of, IInv, TypeOK
<1>2. CASE Produce(c, id)
  <2> DEFINE k == [NoCall EXCEPT !.pc = "get", !.id = id]
  <2>1. k \in CallRecords /\ k.pc = "get" /\ k.id = id
    BY <1>1 DEF NoCall, CallRecords, Labels, ProduceLabels, ConsumeLabels, UnregisterLabels,
        ShutdownLabels
  <2>2. Start(c, k) /\ UNCHANGED <<factory, producers, consumers, breaks>> BY <1>2 DEF Produce
  <2> HIDE DEF k
  <2>3. QED BY <2>1, <2>2, Begins
<1>3. CASE Consume(c, id)
  <2> DEFINE k == [NoCall EXCEPT !.pc = "exists", !.id = id]
  <2>1. k \in CallRecords /\ k.pc = "exists" /\ k.id = id
    BY <1>1 DEF NoCall, CallRecords, Labels, ProduceLabels, ConsumeLabels, UnregisterLabels,
        ShutdownLabels
  <2>2. Start(c, k) /\ UNCHANGED <<factory, producers, consumers, breaks>> BY <1>3 DEF Consume
  <2> HIDE DEF k
  <2>3. QED BY <2>1, <2>2, Begins
<1>4. CASE Stop(c, id)
  <2> DEFINE k == [NoCall EXCEPT !.pc = "stopEach", !.id = id, !.todo = Of(id)]
  <2>1. k \in CallRecords /\ k.pc = "stopEach" /\ k.id = id
    BY <1>1 DEF NoCall, CallRecords, Labels, ProduceLabels, ConsumeLabels, UnregisterLabels,
        ShutdownLabels
  <2>2. Start(c, k) /\ UNCHANGED <<factory, producers, consumers, breaks>> BY <1>4 DEF Stop
  <2> HIDE DEF k
  <2>3. QED BY <2>1, <2>2, Begins
<1>5. CASE Unregister(c, id)
  <2> DEFINE k == [NoCall EXCEPT !.pc = "closeEach", !.id = id, !.todo = Of(id)]
  <2>1. k \in CallRecords /\ k.pc = "closeEach" /\ k.id = id
    BY <1>1 DEF NoCall, CallRecords, Labels, ProduceLabels, ConsumeLabels, UnregisterLabels,
        ShutdownLabels
  <2>2. Start(c, k) /\ UNCHANGED <<factory, producers, consumers, breaks>>
    BY <1>5 DEF Unregister
  <2> HIDE DEF k
  <2>3. QED BY <2>1, <2>2, Begins
<1>6. QED BY <1>2, <1>3, <1>4, <1>5

\* register may give an info that a consume has read another identity: that is
\* what the history "reused" tells.
LEMMA RegisterIInv ==
  ASSUME IInv, NEW c \in Callers, NEW id \in Identities, NEW i \in Infos, Register(c, id, i)
  PROVE  IInv'
<1> DEFINE k == [NoCall EXCEPT !.pc = "addInfo", !.info = i]
<1>1. /\ NoCall \in CallRecords /\ k \in CallRecords /\ k.pc = "addInfo" /\ k.info = i
      /\ NoCall.pc = "idle"
  BY DEF NoCall, CallRecords, Labels, ProduceLabels, ConsumeLabels, UnregisterLabels,
      ShutdownLabels
<1>2. Advance(c, NoCall) \/ Advance(c, k) BY DEF Register
<1> HIDE DEF k
<1>3. /\ StepOf(c) /\ call'[c] \in {NoCall, k} /\ call[c].pc = "idle"
      /\ identity' = [identity EXCEPT ![i] = id] /\ UNCHANGED <<infoList, producers, consumers>>
      /\ ~reused' => ~reused /\ identity[i] \in {NoIdentity, id}
  BY <1>1, <1>2, Advances DEF Register, IInv, TypeOK
<1>4. TypeOK' BY <1>3 DEF IInv, TypeOK, StepOf, producers, consumers
<1>5. KeepsUsed BY <1>3 DEF KeepsUsed, producers, consumers
<1>6. Fits(call[c])'
  BY <1>1, <1>3 DEF Fits, Labels, ProduceLabels, ConsumeLabels, UnregisterLabels, ShutdownLabels
<1>7. ContextInv' BY <1>1, <1>3, ContextFrame DEF IInv
<1>8. RunningIsReachable' /\ ShutdownInv'
  <2>1. RunningIsReachable' BY <1>1, <1>3 DEF IInv, RunningIsReachable, StepOf, consumers
  <2>2. ShutdownInv'
    <3>1. ASSUME NEW d \in Callers PROVE ShutdownFits(call[d])'
      BY <1>1, <1>3 DEF IInv, ShutdownInv, ShutdownFits, StepOf, consumers
    <3>2. QED BY <3>1 DEF ShutdownInv
  <2>3. QED BY <2>1, <2>2
<1>9. ConsumeInv'
  <2> SUFFICES ASSUME ~reused' PROVE ConsumeInv'
    BY DEF ConsumeInv
  <2>1. \A l : Of(l)' = Of(l) BY <1>3 DEF Of, consumers
  <2>2. doubled \subseteq doubled' BY <1>3 DEF StepOf
  <2>3. ASSUME NEW d \in Callers PROVE ConsumeFits(call[d])'
    <3>1. CASE d = c BY <1>1, <1>3, <3>1 DEF ConsumeFits
    <3>2. CASE d # c
      <4>1. ConsumeFits(call[d]) /\ Fits(call[d]) /\ call'[d] = call[d]
        BY <1>3, <3>2 DEF IInv, ConsumeInv, CallInv, StepOf
      <4>2. call[d].pc = "start" => identity'[call[d].info] = call[d].id
        BY <1>3, <4>1, ConstantsAssumption
        DEF IInv, TypeOK, ConsumeFits, Fits, ProduceLabels, ConsumeLabels, UnregisterLabels
      <4>3. UNCHANGED consumes BY <1>3 DEF consumers
      <4>4. QED BY <2>1, <2>2, <4>1, <4>2, <4>3 DEF ConsumeFits
    <3>3. QED BY <3>1, <3>2
  <2>4. QED BY <1>3, <2>1, <2>2, <2>3 DEF IInv, ConsumeInv
<1>10. QED BY <1>3, <1>4, <1>5, <1>6, <1>7, <1>8, <1>9, StepKeeps

\* getInfo finds an info, or none.
LEMMA GetInfoIInv ==
  ASSUME IInv, NEW c \in Callers, GetInfo(c)
  PROVE  IInv'
<1>1. PICK i \in Infos \cup {NoInfo}, pc \in {"compute", "cleanup"} :
        Go(c, [call[c] EXCEPT !.info = i, !.pc = pc])
  <2>1. CASE To(c, "cleanup")
    <3>1. call[c].info \in Infos \cup {NoInfo} BY CallTypes DEF IInv, TypeOK
    <3>2. [call[c] EXCEPT !.pc = "cleanup"] = [call[c] EXCEPT !.info = call[c].info, !.pc = "cleanup"]
      BY DEF IInv, TypeOK, CallRecords
    <3>3. QED BY <2>1, <3>1, <3>2 DEF To
  <2>2. QED BY <2>1 DEF GetInfo, Found
<1> DEFINE k == [call[c] EXCEPT !.info = i, !.pc = pc]
<1>2. call[c] \in CallRecords BY DEF IInv, TypeOK
<1>3. k \in CallRecords /\ k.pc \in {"compute", "cleanup"} /\ k.id = call[c].id
  BY <1>2 DEF CallRecords, Labels, ProduceLabels, ConsumeLabels, UnregisterLabels,
      ShutdownLabels
<1>4. Advance(c, k) /\ UNCHANGED reused BY <1>1 DEF Go
<1> HIDE DEF k
<1>5. StepOf(c) /\ call'[c] = k BY <1>3, <1>4, Advances DEF IInv, TypeOK
<1>6. call[c].pc = "get" /\ Fits(call[c]) BY DEF GetInfo, IInv, CallInv
<1>7. Fits(call[c])'
  BY <1>3, <1>5, <1>6
  DEF Fits, Labels, ProduceLabels, ConsumeLabels, UnregisterLabels, ShutdownLabels
<1>8. ShutdownFits(call[c])' /\ ConsumeFits(call[c])'
  BY <1>3, <1>5 DEF ShutdownFits, ConsumeFits
<1>9. QED BY <1>3, <1>4, <1>5, <1>6, <1>7, <1>8, QuietStep DEF GetInfo

\* The context is used, or replaced.
LEMMA CheckAliveIInv ==
  ASSUME IInv, NEW c \in Callers, CheckAlive(c)
  PROVE  IInv'
<1>1. call \in [Callers -> CallRecords] /\ Fits(call[c]) BY DEF IInv, TypeOK, CallInv
<1>2. /\ StepOf(c) /\ UNCHANGED reused
      /\ call'[c].pc \in {"use", "remove"} /\ call'[c].id = call[c].id
  BY <1>1, Moves, Returns
  DEF CheckAlive, NoCall, Labels, ProduceLabels, ConsumeLabels, UnregisterLabels, ShutdownLabels
<1>3. Fits(call[c])'
  BY <1>1, <1>2
  DEF Fits, CheckAlive, Labels, ProduceLabels, ConsumeLabels, UnregisterLabels, ShutdownLabels
<1>4. ShutdownFits(call[c])' /\ ConsumeFits(call[c])'
  BY <1>1, <1>2 DEF ShutdownFits, ConsumeFits
<1>5. QED BY <1>1, <1>2, <1>3, <1>4, QuietStep DEF CheckAlive

\* The call returns, or cleans up.
LEMMA UseIInv ==
  ASSUME IInv, NEW c \in Callers, Use(c)
  PROVE  IInv'
<1>1. call \in [Callers -> CallRecords] /\ Fits(call[c]) BY DEF IInv, TypeOK, CallInv
<1>2. /\ StepOf(c) /\ UNCHANGED reused
      /\ \/ call'[c].pc = "idle"
         \/ call'[c].pc = "cleanup" /\ call'[c].id = call[c].id
  BY <1>1, Moves, Returns
  DEF Use, NoCall, Labels, ProduceLabels, ConsumeLabels, UnregisterLabels, ShutdownLabels
<1>3. Fits(call[c])'
  BY <1>1, <1>2
  DEF Fits, Use, Labels, ProduceLabels, ConsumeLabels, UnregisterLabels, ShutdownLabels
<1>4. ShutdownFits(call[c])' /\ ConsumeFits(call[c])'
  BY <1>1, <1>2 DEF ShutdownFits, ConsumeFits
<1>5. QED BY <1>1, <1>2, <1>3, <1>4, QuietStep DEF Use

\* A context leaves the map into the hands of the call that closes it.
LEMMA Unmaps ==
  ASSUME IInv, NEW c \in Callers, NEW pc \in {"closeOld", "closeFailed", "closeRemoved"},
         call[c].pc \in {"remove", "cleanup", "removeContext"}, Unmap(c, call[c].id, pc),
         UNCHANGED <<factory, consumers, calls, breaks>>
  PROVE  IInv'
<1> DEFINE id == call[c].id
           k == [call[c] EXCEPT !.ctx = mapped[id], !.pc = pc]
<1>1. call[c] \in CallRecords /\ id \in Identities
  BY DEF IInv, TypeOK, CallInv, Fits, ProduceLabels, UnregisterLabels
<1>2. mapped[id] \in Contexts \cup {NoContext} BY <1>1 DEF IInv, TypeOK
<1>3. k \in CallRecords /\ k.pc = pc /\ k.id = id /\ k.ctx = mapped[id]
  BY <1>1, <1>2
  DEF CallRecords, Labels, ProduceLabels, ConsumeLabels, UnregisterLabels, ShutdownLabels
<1>4. Advance(c, k) /\ UNCHANGED reused BY DEF Unmap, Go
<1> HIDE DEF k
<1>5. StepOf(c) /\ call'[c] = k BY <1>3, <1>4, Advances DEF IInv, TypeOK
<1>6. mapped' = [mapped EXCEPT ![id] = NoContext] /\ UNCHANGED <<context, owner>>
  BY DEF Unmap
<1>7. TypeOK'
  BY <1>1, <1>5, <1>6, ConstantsAssumption DEF IInv, TypeOK, StepOf, factory, consumers
<1>8. KeepsUsed BY <1>6 DEF KeepsUsed, consumers
<1>9. Fits(call[c])'
  BY <1>1, <1>3, <1>5
  DEF Fits, Labels, ProduceLabels, ConsumeLabels, UnregisterLabels, ShutdownLabels
<1>10. ContextInv'
  <2> SUFFICES ASSUME NEW l \in Identities \ crowded' PROVE ContextsOf(l)'
    BY DEF ContextInv
  <2>1. ContextsOf(l) BY <1>5 DEF IInv, ContextInv, StepOf
  <2>2. l # id => mapped'[l] = mapped[l] BY <1>6 DEF IInv, TypeOK
  <2>3. mapped'[id] = NoContext BY <1>1, <1>6 DEF IInv, TypeOK
  <2>4. \A d \in Callers \ {c} : call'[d] = call[d] BY <1>5 DEF StepOf
  <2>5. ASSUME NEW x \in Contexts, owner[x] = l, context[x] \in {"alive", "broken"}
        PROVE  \/ mapped'[l] = x
               \/ \E d \in Callers : Closing(call'[d], x)
               \/ \E d \in Callers : call'[d].pc = "put" /\ call'[d].id = l /\ call'[d].ctx = x
    <3>1. CASE mapped[l] = x /\ l # id BY <2>2, <3>1
    <3>2. CASE mapped[l] = x /\ l = id BY <1>3, <1>5, <3>2 DEF Closing
    <3>3. CASE mapped[l] # x BY <2>1, <2>4, <2>5, <3>3 DEF ContextsOf, Closing
    <3>4. QED BY <3>1, <3>2, <3>3
  <2>6. ASSUME NEW d \in Callers
        PROVE  /\ call'[d].pc \in {"closeOld", "create", "put"} /\ call'[d].id = l => mapped'[l] = NoContext
               /\ call'[d].pc = "clearMap" /\ mapped'[l] # NoContext => context[mapped'[l]] = "closed"
    BY <1>3, <1>5, <2>1, <2>2, <2>3, <2>4 DEF ContextsOf
  <2>7. QED BY <1>6, <2>5, <2>6 DEF ContextsOf, Closing
<1>11. RunningIsReachable' /\ ShutdownInv' /\ ConsumeInv'
  BY <1>3, <1>4, <1>5, ConsumerStays DEF IInv, TypeOK, factory
<1>12. QED BY <1>5, <1>7, <1>8, <1>9, <1>10, <1>11, StepKeeps

\* A dead context of produce, the one a failing call finds, and the one of an
\* identity that is unregistered leave the map this way.
LEMMA UnmapIInv ==
  ASSUME IInv, NEW c \in Callers, RemoveOld(c) \/ Cleanup(c) \/ RemoveContext(c)
  PROVE  IInv'
  BY Unmaps DEF RemoveOld, Cleanup, RemoveContext

\* What a new context is, and that it was nobody's.
LEMMA NewContexts ==
  ASSUME TypeOK, NEW x \in Contexts, NEW id \in Identities, NewContext(x, id)
  PROVE  /\ context' \in [Contexts -> {"unused", "alive", "broken", "closed"}]
         /\ owner' \in [Contexts -> Identities \cup {NoIdentity}]
         /\ context[x] = "unused" /\ context'[x] = "alive" /\ owner'[x] = id
         /\ \A y \in Contexts \ {x} : context'[y] = context[y] /\ owner'[y] = owner[y]
         /\ \A l \in Identities : mapped[l] # x
  BY ConstantsAssumption DEF TypeOK, NewContext

\* computeIfAbsent
LEMMA ComputeIfAbsentIInv ==
  ASSUME IInv, NEW c \in Callers, ComputeIfAbsent(c)
  PROVE  IInv'
<1> DEFINE id == call[c].id
<1>1. /\ call[c] \in CallRecords /\ id \in Identities /\ call[c].pc = "compute"
      /\ UNCHANGED <<factory, consumers, calls, breaks>>
  BY DEF IInv, TypeOK, CallInv, Fits, ProduceLabels, ComputeIfAbsent
<1>2. CASE To(c, "cleanup") /\ UNCHANGED producers
  <2>1. StepOf(c) /\ UNCHANGED reused /\ call'[c].pc = "cleanup" /\ call'[c].id = id
    BY <1>2, Moves
    DEF IInv, TypeOK, Labels, ProduceLabels, ConsumeLabels, UnregisterLabels, ShutdownLabels
  <2>2. Fits(call[c])'
    BY <1>1, <2>1
    DEF Fits, Labels, ProduceLabels, ConsumeLabels, UnregisterLabels, ShutdownLabels
  <2>3. ShutdownFits(call[c])' /\ ConsumeFits(call[c])' BY <2>1 DEF ShutdownFits, ConsumeFits
  <2>4. QED BY <1>1, <1>2, <2>1, <2>2, <2>3, QuietStep
<1>3. ASSUME NEW x \in Contexts, Go(c, [call[c] EXCEPT !.ctx = x, !.pc = "check"])
      PROVE  /\ StepOf(c) /\ UNCHANGED reused /\ call'[c].pc = "check" /\ call'[c].id = id
             /\ Fits(call[c])' /\ ShutdownFits(call[c])' /\ ConsumeFits(call[c])'
  <2> DEFINE k == [call[c] EXCEPT !.ctx = x, !.pc = "check"]
  <2>1. k \in CallRecords /\ k.pc = "check" /\ k.id = id
    BY <1>1 DEF CallRecords, Labels, ProduceLabels, ConsumeLabels, UnregisterLabels,
        ShutdownLabels
  <2>2. Advance(c, k) /\ UNCHANGED reused BY <1>3 DEF Go
  <2> HIDE DEF k
  <2>3. StepOf(c) /\ call'[c] = k BY <2>1, <2>2, Advances DEF IInv, TypeOK
  <2>4. Fits(call[c])'
    BY <1>1, <2>1, <2>3
    DEF Fits, Labels, ProduceLabels, ConsumeLabels, UnregisterLabels, ShutdownLabels
  <2>5. ShutdownFits(call[c])' /\ ConsumeFits(call[c])'
    BY <2>1, <2>3 DEF ShutdownFits, ConsumeFits
  <2>6. QED BY <2>1, <2>2, <2>3, <2>4, <2>5
<1>4. CASE /\ mapped[id] # NoContext /\ UNCHANGED producers
           /\ Go(c, [call[c] EXCEPT !.ctx = mapped[id], !.pc = "check"])
  <2>1. mapped[id] \in Contexts BY <1>1, <1>4 DEF IInv, TypeOK
  <2>2. QED BY <1>1, <1>3, <1>4, <2>1, QuietStep
<1>5. ASSUME NEW x \in Contexts, NewContext(x, id), mapped[id] = NoContext,
             mapped' = [mapped EXCEPT ![id] = x],
             Go(c, [call[c] EXCEPT !.ctx = x, !.pc = "check"])
      PROVE  IInv'
  <2>1. /\ StepOf(c) /\ UNCHANGED reused /\ call'[c].pc = "check" /\ call'[c].id = id
        /\ Fits(call[c])'
    BY <1>3, <1>5
  <2>2. /\ context' \in [Contexts -> {"unused", "alive", "broken", "closed"}]
        /\ owner' \in [Contexts -> Identities \cup {NoIdentity}]
        /\ context[x] = "unused" /\ context'[x] = "alive" /\ owner'[x] = id
        /\ \A y \in Contexts \ {x} : context'[y] = context[y] /\ owner'[y] = owner[y]
        /\ \A l \in Identities : mapped[l] # x
    BY <1>1, <1>5, NewContexts DEF IInv
  <2>3. mapped'[id] = x /\ \A l \in Identities \ {id} : mapped'[l] = mapped[l]
    BY <1>1, <1>5 DEF IInv, TypeOK
  <2>4. TypeOK'
    <3>1. mapped' \in [Identities -> Contexts \cup {NoContext}] BY <1>5 DEF IInv, TypeOK
    <3>2. \A l \in Identities : mapped'[l] # NoContext =>
             owner'[mapped'[l]] = l /\ context'[mapped'[l]] # "unused"
      BY <2>2, <2>3 DEF IInv, TypeOK
    <3>3. QED BY <1>1, <2>1, <2>2, <3>1, <3>2 DEF IInv, TypeOK, StepOf, factory, consumers
  <2>5. KeepsUsed BY <1>1, <2>2 DEF KeepsUsed, consumers
  <2>6. ContextInv'
    <3> SUFFICES ASSUME NEW l \in Identities \ crowded' PROVE ContextsOf(l)'
      BY DEF ContextInv
    <3>1. ContextsOf(l) BY <2>1 DEF IInv, ContextInv, StepOf
    <3>2. CASE l # id
      BY <1>1, <2>1, <2>2, <2>3, <3>1, <3>2, ConstantsAssumption
      DEF ContextsOf, StepOf, Closing, IInv, TypeOK
    <3>3. CASE l = id
      <4>1. \A d \in Callers \ {c} :
              /\ ~(call'[d].pc \in {"closeOld", "create", "put"} /\ call'[d].id = l)
              /\ call'[d].pc # "clearMap" /\ call'[d] = call[d]
        BY <2>1, <3>3, Alone DEF ProduceLabels, ShutdownLabels
      <4>2. QED BY <1>1, <1>5, <2>1, <2>2, <2>3, <3>1, <3>3, <4>1, ConstantsAssumption
                DEF ContextsOf, Closing
    <3>4. QED BY <3>2, <3>3
  <2>7. RunningIsReachable' /\ ShutdownInv' /\ ConsumeInv'
    BY <1>1, <2>1, ConsumerStays DEF IInv, TypeOK, factory
  <2>8. QED BY <2>1, <2>4, <2>5, <2>6, <2>7, StepKeeps
<1>6. QED BY <1>2, <1>4, <1>5 DEF ComputeIfAbsent

\* The context that replaces a dead one.
LEMMA CreateNewIInv ==
  ASSUME IInv, NEW c \in Callers, CreateNew(c)
  PROVE  IInv'
<1> DEFINE id == call[c].id
<1>1. /\ call[c] \in CallRecords /\ id \in Identities /\ call[c].pc = "create"
      /\ UNCHANGED <<factory, mapped, consumers, calls, breaks>>
  BY DEF IInv, TypeOK, CallInv, Fits, ProduceLabels, CreateNew
<1>2. CASE To(c, "cleanup") /\ UNCHANGED <<context, owner>>
  <2>1. StepOf(c) /\ UNCHANGED reused /\ call'[c].pc = "cleanup" /\ call'[c].id = id
    BY <1>2, Moves
    DEF IInv, TypeOK, Labels, ProduceLabels, ConsumeLabels, UnregisterLabels, ShutdownLabels
  <2>2. Fits(call[c])'
    BY <1>1, <2>1
    DEF Fits, Labels, ProduceLabels, ConsumeLabels, UnregisterLabels, ShutdownLabels
  <2>3. ShutdownFits(call[c])' /\ ConsumeFits(call[c])' BY <2>1 DEF ShutdownFits, ConsumeFits
  <2>4. QED BY <1>1, <1>2, <2>1, <2>2, <2>3, QuietStep DEF producers
<1>3. ASSUME NEW x \in Contexts, NewContext(x, id),
             Go(c, [call[c] EXCEPT !.ctx = x, !.pc = "put"])
      PROVE  IInv'
  <2> DEFINE k == [call[c] EXCEPT !.ctx = x, !.pc = "put"]
  <2>1. k \in CallRecords /\ k.pc = "put" /\ k.id = id /\ k.ctx = x
    BY <1>1 DEF CallRecords, Labels, ProduceLabels, ConsumeLabels, UnregisterLabels,
        ShutdownLabels
  <2>2. Advance(c, k) /\ UNCHANGED reused BY <1>3 DEF Go
  <2> HIDE DEF k
  <2>3. StepOf(c) /\ call'[c] = k BY <2>1, <2>2, Advances DEF IInv, TypeOK
  <2>4. /\ context' \in [Contexts -> {"unused", "alive", "broken", "closed"}]
        /\ owner' \in [Contexts -> Identities \cup {NoIdentity}]
        /\ context[x] = "unused" /\ context'[x] = "alive" /\ owner'[x] = id
        /\ \A y \in Contexts \ {x} : context'[y] = context[y] /\ owner'[y] = owner[y]
        /\ \A l \in Identities : mapped[l] # x
    BY <1>1, <1>3, NewContexts DEF IInv
  <2>5. TypeOK' BY <1>1, <2>3, <2>4 DEF IInv, TypeOK, StepOf, factory, consumers
  <2>6. KeepsUsed BY <1>1, <2>4 DEF KeepsUsed, consumers
  <2>7. Fits(call[c])'
    BY <1>1, <2>1, <2>3, <2>4
    DEF Fits, Labels, ProduceLabels, ConsumeLabels, UnregisterLabels, ShutdownLabels
  <2>8. ContextInv'
    <3> SUFFICES ASSUME NEW l \in Identities \ crowded' PROVE ContextsOf(l)'
      BY DEF ContextInv
    <3>1. ContextsOf(l) BY <2>3 DEF IInv, ContextInv, StepOf
    <3>2. \A d \in Callers \ {c} : call'[d] = call[d] BY <2>3 DEF StepOf
    <3>3. \A y \in Contexts : owner'[y] = l /\ context'[y] \in {"alive", "broken"} =>
            \/ mapped'[l] = y
            \/ \E d \in Callers : Closing(call'[d], y)
            \/ \E d \in Callers : call'[d].pc = "put" /\ call'[d].id = l /\ call'[d].ctx = y
      BY <1>1, <2>1, <2>3, <2>4, <3>1, <3>2 DEF ContextsOf, Closing
    <3>4. ASSUME NEW d \in Callers
          PROVE  /\ call'[d].pc \in {"closeOld", "create", "put"} /\ call'[d].id = l => mapped'[l] = NoContext
                 /\ call'[d].pc = "clearMap" /\ mapped'[l] # NoContext => context'[mapped'[l]] = "closed"
      BY <1>1, <2>1, <2>3, <2>4, <3>1, <3>2 DEF ContextsOf, IInv, TypeOK
    <3>5. QED BY <3>3, <3>4 DEF ContextsOf, Closing
  <2>9. RunningIsReachable' /\ ShutdownInv' /\ ConsumeInv'
    BY <1>1, <2>1, <2>2, <2>3, ConsumerStays DEF IInv, TypeOK, factory
  <2>10. QED BY <2>3, <2>5, <2>6, <2>7, <2>8, <2>9, StepKeeps
<1>4. QED BY <1>2, <1>3 DEF CreateNew

\* unregister forgets the infos of the identity.
LEMMA ForgetIInv ==
  ASSUME IInv, NEW c \in Callers, Forget(c)
  PROVE  IInv'
<1>1. StepOf(c) /\ UNCHANGED reused /\ call'[c] = NoCall /\ call[c].pc = "forget"
  BY Returns DEF Forget, IInv, TypeOK
<1>2. TypeOK' BY <1>1 DEF IInv, TypeOK, StepOf, producers, consumers, Forget
<1>3. KeepsUsed BY DEF KeepsUsed, producers, consumers, Forget
<1>4. Fits(call[c])'
  BY <1>1 DEF Fits, NoCall, Labels, ProduceLabels, ConsumeLabels, UnregisterLabels,
      ShutdownLabels
<1>5. ContextInv' BY <1>1, ContextFrame DEF IInv, NoCall, Forget
<1>6. RunningIsReachable' /\ ShutdownInv' /\ ConsumeInv'
  BY <1>1, ConsumerStays DEF IInv, TypeOK, NoCall, Forget
<1>7. QED BY <1>1, <1>2, <1>3, <1>4, <1>5, <1>6, StepKeeps

\* shutdown closes every context of the map ...
LEMMA CloseValuesIInv ==
  ASSUME IInv, NEW c \in Callers, CloseValues(c)
  PROVE  IInv'
<1>1. /\ StepOf(c) /\ UNCHANGED <<reused, factory, mapped, owner, consumers>>
      /\ call'[c].pc = "clearMap" /\ call[c].pc = "closeValues"
  BY Moves DEF CloseValues, IInv, TypeOK, Labels, ProduceLabels, ConsumeLabels,
      UnregisterLabels, ShutdownLabels
<1>2. /\ context' \in [Contexts -> {"unused", "alive", "broken", "closed"}]
      /\ \A x \in Contexts : context'[x] \in {context[x], "closed"}
      /\ \A id \in Identities : mapped[id] # NoContext => context'[mapped[id]] = "closed"
  BY DEF CloseValues, IInv, TypeOK
<1>3. TypeOK' BY <1>1, <1>2 DEF IInv, TypeOK, StepOf, factory, consumers
<1>4. KeepsUsed BY <1>1, <1>2 DEF KeepsUsed, consumers
<1>5. Fits(call[c])'
  BY <1>1 DEF Fits, Labels, ProduceLabels, ConsumeLabels, UnregisterLabels, ShutdownLabels
<1>6. ContextInv'
  <2> SUFFICES ASSUME NEW id \in Identities \ crowded' PROVE ContextsOf(id)'
    BY DEF ContextInv
  <2>1. ContextsOf(id) BY <1>1 DEF IInv, ContextInv, StepOf
  <2>2. \A d \in Callers \ {c} : call'[d] = call[d] BY <1>1 DEF StepOf
  <2>3. QED BY <1>1, <1>2, <2>1, <2>2 DEF ContextsOf, Closing
<1>7. RunningIsReachable' /\ ShutdownInv' /\ ConsumeInv'
  BY <1>1, ConsumerStays DEF IInv, TypeOK, factory
<1>8. QED BY <1>1, <1>3, <1>4, <1>5, <1>6, <1>7, StepKeeps

\* ... and then empties the map, where it finds closed contexts, unless a
\* produce has put one in between.
LEMMA ClearMapIInv ==
  ASSUME IInv, NEW c \in Callers, ClearMap(c)
  PROVE  IInv'
<1>1. /\ StepOf(c) /\ UNCHANGED <<reused, factory, context, owner, consumers>>
      /\ call'[c] = NoCall /\ call[c].pc = "clearMap"
  BY Returns DEF ClearMap, IInv, TypeOK
<1>2. mapped' = [id \in Identities |-> NoContext] BY DEF ClearMap
<1>3. TypeOK' BY <1>1, <1>2 DEF IInv, TypeOK, StepOf, factory, consumers
<1>4. KeepsUsed BY <1>1 DEF KeepsUsed, consumers
<1>5. Fits(call[c])'
  BY <1>1 DEF Fits, NoCall, Labels, ProduceLabels, ConsumeLabels, UnregisterLabels,
      ShutdownLabels
<1>6. ContextInv'
  <2> SUFFICES ASSUME NEW id \in Identities \ crowded' PROVE ContextsOf(id)'
    BY DEF ContextInv
  <2>1. ContextsOf(id) BY <1>1 DEF IInv, ContextInv, StepOf
  <2>2. \A d \in Callers \ {c} : call'[d] = call[d] BY <1>1 DEF StepOf
  <2>3. mapped'[id] = NoContext BY <1>2
  <2>4. mapped[id] = NoContext \/ context[mapped[id]] = "closed" BY <1>1, <2>1 DEF ContextsOf
  <2>5. QED BY <1>1, <2>1, <2>2, <2>3, <2>4, ConstantsAssumption DEF ContextsOf, Closing, NoCall
<1>7. RunningIsReachable' /\ ShutdownInv' /\ ConsumeInv'
  BY <1>1, ConsumerStays DEF IInv, TypeOK, NoCall, factory
<1>8. QED BY <1>1, <1>3, <1>4, <1>5, <1>6, <1>7, StepKeeps

\* A broken context is as open as before.
LEMMA BreakIInv ==
  ASSUME IInv, NEW x \in Contexts, Break(x)
  PROVE  IInv'
<1>1. /\ UNCHANGED <<factory, mapped, owner, consumers, call, history>>
      /\ context' \in [Contexts -> {"unused", "alive", "broken", "closed"}]
      /\ context[x] = "alive" /\ context'[x] = "broken"
      /\ \A y \in Contexts \ {x} : context'[y] = context[y]
  BY DEF Break, IInv, TypeOK
<1>2. TypeOK' BY <1>1 DEF IInv, TypeOK, factory, consumers
<1>3. CallInv' BY <1>1 DEF IInv, CallInv, Fits, consumers
<1>4. OverlapInv' BY <1>1 DEF IInv, OverlapInv, history
<1>5. ContextInv'
  <2> SUFFICES ASSUME NEW id \in Identities \ crowded' PROVE ContextsOf(id)'
    BY DEF ContextInv
  <2>1. ContextsOf(id) BY <1>1 DEF IInv, ContextInv, history
  <2>2. /\ \A y \in Contexts : context'[y] \in {"alive", "broken"} => context[y] \in {"alive", "broken"}
        /\ \A y \in Contexts : context[y] = "closed" => context'[y] = "closed"
    BY <1>1
  <2>3. mapped[id] \in Contexts \cup {NoContext} BY DEF IInv, TypeOK
  <2>4. UNCHANGED <<mapped, owner, call>> BY <1>1
  <2>5. QED BY <2>1, <2>2, <2>3, <2>4 DEF ContextsOf, Closing
<1>6. RunningIsReachable' /\ ShutdownInv'
  BY <1>1 DEF IInv, RunningIsReachable, ShutdownInv, ShutdownFits, consumers, history
<1>7. ConsumeInv' BY <1>1 DEF IInv, ConsumeInv, ConsumeFits, Of, consumers, history, factory
<1>8. QED BY <1>2, <1>3, <1>4, <1>5, <1>6, <1>7 DEF IInv

\* The check of consume.
LEMMA CheckExistsIInv ==
  ASSUME IInv, NEW c \in Callers, CheckExists(c)
  PROVE  IInv'
<1>1. call \in [Callers -> CallRecords] /\ Fits(call[c]) /\ call[c].pc = "exists"
  BY DEF IInv, TypeOK, CallInv, CheckExists
<1>2. CASE Of(call[c].id) # {}
  <2>1. StepOf(c) /\ UNCHANGED reused /\ call'[c].pc = "idle"
    BY <1>1, <1>2, Returns DEF CheckExists, NoCall
  <2>2. Fits(call[c])' /\ ShutdownFits(call[c])' /\ ConsumeFits(call[c])'
    BY <2>1 DEF Fits, ShutdownFits, ConsumeFits, Labels, ProduceLabels, ConsumeLabels,
        UnregisterLabels, ShutdownLabels
  <2>3. QED BY <1>1, <2>1, <2>2, QuietStep DEF CheckExists
<1>3. CASE Of(call[c].id) = {}
  <2>1. StepOf(c) /\ UNCHANGED reused /\ call'[c].pc = "info" /\ call'[c].id = call[c].id
    BY <1>1, <1>3, Moves
    DEF CheckExists, Labels, ProduceLabels, ConsumeLabels, UnregisterLabels, ShutdownLabels
  <2>2. Fits(call[c])' /\ ShutdownFits(call[c])'
    BY <1>1, <2>1
    DEF Fits, ShutdownFits, Labels, ProduceLabels, ConsumeLabels, UnregisterLabels,
        ShutdownLabels
  <2>3. ConsumeFits(call[c])' BY <1>3, <2>1 DEF ConsumeFits, Of, CheckExists, consumers
  <2>4. QED BY <1>1, <2>1, <2>2, <2>3, QuietStep DEF CheckExists
<1>4. QED BY <1>2, <1>3

\* The info that consume finds has the identity it was asked for.
LEMMA GetConnectionInfoIInv ==
  ASSUME IInv, NEW c \in Callers, GetConnectionInfo(c)
  PROVE  IInv'
<1>1. /\ call \in [Callers -> CallRecords] /\ call[c] \in CallRecords
      /\ Fits(call[c]) /\ call[c].pc = "info" /\ (~reused => ConsumeFits(call[c]))
  BY DEF IInv, TypeOK, CallInv, ConsumeInv, GetConnectionInfo
<1>2. CASE Return(c)
  <2>1. StepOf(c) /\ UNCHANGED reused /\ call'[c].pc = "idle" BY <1>1, <1>2, Returns DEF NoCall
  <2>2. Fits(call[c])' /\ ShutdownFits(call[c])' /\ ConsumeFits(call[c])'
    BY <2>1 DEF Fits, ShutdownFits, ConsumeFits, Labels, ProduceLabels, ConsumeLabels,
        UnregisterLabels, ShutdownLabels
  <2>3. QED BY <1>1, <2>1, <2>2, QuietStep DEF GetConnectionInfo
<1>3. ASSUME NEW i \in Found(call[c].id), Go(c, [call[c] EXCEPT !.info = i, !.pc = "start"])
      PROVE  IInv'
  <2> DEFINE k == [call[c] EXCEPT !.info = i, !.pc = "start"]
  <2>1. i \in Infos /\ identity[i] = call[c].id BY DEF Found
  <2>2. k \in CallRecords /\ k.pc = "start" /\ k.id = call[c].id /\ k.info = i
    BY <1>1, <2>1
    DEF CallRecords, Labels, ProduceLabels, ConsumeLabels, UnregisterLabels, ShutdownLabels
  <2>3. Advance(c, k) /\ UNCHANGED reused BY <1>3 DEF Go
  <2> HIDE DEF k
  <2>4. StepOf(c) /\ call'[c] = k BY <1>1, <2>2, <2>3, Advances
  <2>5. Fits(call[c])' /\ ShutdownFits(call[c])'
    BY <1>1, <2>1, <2>2, <2>4
    DEF Fits, ShutdownFits, Labels, ProduceLabels, ConsumeLabels, UnregisterLabels,
        ShutdownLabels
  <2>6. UNCHANGED <<factory, producers, consumers>> BY DEF GetConnectionInfo
  <2>7. ~reused => ConsumeFits(call[c])'
    BY <1>1, <2>1, <2>2, <2>4, <2>6 DEF ConsumeFits, Of, consumers, factory, StepOf
  <2>8. QED BY <1>1, <2>2, <2>3, <2>4, <2>5, <2>6, <2>7, QuietStep
<1>4. QED BY <1>2, <1>3 DEF GetConnectionInfo

\* A controller runs from here on, and is not yet in the set.
LEMMA StartControllerIInv ==
  ASSUME IInv, NEW c \in Callers, StartController(c)
  PROVE  IInv'
<1>1. /\ call \in [Callers -> CallRecords] /\ call[c] \in CallRecords
      /\ Fits(call[c]) /\ call[c].pc = "start" /\ (~reused => ConsumeFits(call[c]))
      /\ UNCHANGED <<factory, producers, registered>>
  BY DEF IInv, TypeOK, CallInv, ConsumeInv, StartController
<1>2. PICK l \in Controllers :
        /\ controller[l] = "unused"
        /\ controller' = [controller EXCEPT ![l] = "running"]
        /\ consumes' = [consumes EXCEPT ![l] = identity[call[c].info]]
        /\ Go(c, [call[c] EXCEPT !.ctl = l, !.pc = "add"])
  BY DEF StartController
<1> DEFINE k == [call[c] EXCEPT !.ctl = l, !.pc = "add"]
<1>3. k \in CallRecords /\ k.pc = "add" /\ k.id = call[c].id /\ k.ctl = l
  BY <1>1 DEF CallRecords, Labels, ProduceLabels, ConsumeLabels, UnregisterLabels,
      ShutdownLabels
<1>4. Advance(c, k) /\ UNCHANGED reused BY <1>2 DEF Go
<1> HIDE DEF k
<1>5. StepOf(c) /\ call'[c] = k BY <1>1, <1>3, <1>4, Advances
<1>6. call[c].info \in Infos /\ call[c].id \in Identities BY <1>1 DEF Fits, ConsumeLabels
<1>7. /\ controller'[l] = "running" /\ consumes'[l] = identity[call[c].info] /\ l \notin registered
      /\ \A m \in Controllers \ {l} : controller'[m] = controller[m] /\ consumes'[m] = consumes[m]
  BY <1>2 DEF IInv, TypeOK
<1>8. TypeOK'
  <2>1. /\ controller' \in [Controllers -> {"unused", "running", "stopped", "closed"}]
        /\ consumes' \in [Controllers -> Identities \cup {NoIdentity}]
    BY <1>2, <1>6 DEF IInv, TypeOK
  <2>2. registered' \subseteq {m \in Controllers : controller'[m] # "unused"}
    BY <1>1, <1>7 DEF IInv, TypeOK
  <2>3. QED BY <1>1, <1>5, <2>1, <2>2 DEF IInv, TypeOK, StepOf, factory, producers
<1>9. KeepsUsed BY <1>1, <1>7 DEF KeepsUsed, producers
<1>10. Fits(call[c])'
  BY <1>1, <1>3, <1>5, <1>7
  DEF Fits, Labels, ProduceLabels, ConsumeLabels, UnregisterLabels, ShutdownLabels
<1>11. ContextInv' BY <1>1, <1>3, <1>5, ContextFrame DEF IInv
<1>12. RunningIsReachable'
  BY <1>1, <1>3, <1>5, <1>7 DEF IInv, RunningIsReachable, StepOf
<1>13. ShutdownInv'
  <2>1. ASSUME NEW d \in Callers PROVE ShutdownFits(call[d])'
    BY <1>1, <1>3, <1>5, <1>7 DEF IInv, TypeOK, ShutdownInv, ShutdownFits, StepOf
  <2>2. QED BY <2>1 DEF ShutdownInv
<1>14. ConsumeInv'
  <2> SUFFICES ASSUME ~reused PROVE ConsumeInv'
    BY <1>4 DEF ConsumeInv
  <2>1. \A id : Of(id)' = Of(id) BY <1>1, <1>7 DEF Of, IInv, TypeOK
  <2>2. doubled \subseteq doubled' BY <1>5 DEF StepOf
  <2>3. ConsumeFits(call[c])'
    BY <1>1, <1>3, <1>5, <1>7, <2>1, <2>2 DEF ConsumeFits
  <2>4. ASSUME NEW d \in Callers \ {c} PROVE ConsumeFits(call[d])'
    <3>1. ConsumeFits(call[d]) /\ Fits(call[d]) /\ call'[d] = call[d] /\ UNCHANGED identity
      BY <1>1, <1>5 DEF IInv, ConsumeInv, CallInv, StepOf, factory
    <3>2. call[d].pc = "add" => call[d].ctl \in Controllers \ {l} BY <1>2, <3>1 DEF Fits
    <3>3. QED BY <1>7, <2>1, <2>2, <3>1, <3>2 DEF ConsumeFits
  <2>5. QED BY <2>1, <2>2, <2>3, <2>4 DEF IInv, ConsumeInv
<1>15. QED BY <1>5, <1>8, <1>9, <1>10, <1>11, <1>12, <1>13, <1>14, StepKeeps

\* The set gets the controller: a shutdown under way may miss it.
LEMMA AddControllerIInv ==
  ASSUME IInv, NEW c \in Callers, AddController(c)
  PROVE  IInv'
<1>0. PICK l, id : l = call[c].ctl /\ id = call[c].id
  OBVIOUS
<1>1. /\ call \in [Callers -> CallRecords] /\ Fits(call[c]) /\ call[c].pc = "add"
      /\ (~reused => ConsumeFits(call[c]))
      /\ UNCHANGED <<factory, producers, controller, consumes>>
      /\ registered' = registered \cup {l}
  BY <1>0 DEF IInv, TypeOK, CallInv, ConsumeInv, AddController
<1>2. StepOf(c) /\ UNCHANGED reused /\ call'[c] = NoCall BY <1>1, Returns DEF AddController
<1>3. l \in Controllers /\ controller[l] # "unused" /\ id \in Identities
  BY <1>0, <1>1 DEF Fits, ConsumeLabels
<1>4. TypeOK' BY <1>1, <1>2, <1>3 DEF IInv, TypeOK, StepOf, factory, producers
<1>5. KeepsUsed BY <1>1 DEF KeepsUsed, producers
<1>6. Fits(call[c])'
  BY <1>2 DEF Fits, NoCall, Labels, ProduceLabels, ConsumeLabels, UnregisterLabels,
      ShutdownLabels
<1>7. ContextInv' BY <1>1, <1>2, ContextFrame DEF IInv, NoCall
<1>8. RunningIsReachable'
  BY <1>0, <1>1, <1>2 DEF IInv, RunningIsReachable, StepOf
<1>9. ShutdownInv'
  <2>1. ASSUME NEW d \in Callers \ {c} PROVE ShutdownFits(call[d])'
    <3>1. ShutsDown(call[d]) => l \in late BY <1>0, <1>3 DEF IInv, OverlapInv
    <3>2. ShutdownFits(call[d]) /\ call'[d] = call[d] /\ late \subseteq late'
      BY <1>2 DEF IInv, ShutdownInv, StepOf
    <3>3. QED BY <1>1, <3>1, <3>2 DEF ShutdownFits, ShutsDown, ShutdownLabels
  <2>2. ShutdownFits(call[c])' BY <1>2 DEF ShutdownFits, NoCall
  <2>3. QED BY <2>1, <2>2 DEF ShutdownInv
<1>10. ConsumeInv'
  <2> SUFFICES ASSUME ~reused PROVE ConsumeInv'
    BY <1>2 DEF ConsumeInv
  <2>1. consumes[l] = id /\ (id \in doubled \/ Of(id) = {})
    BY <1>0, <1>1 DEF ConsumeFits
  <2>2. \A m : m # id => Of(m)' = Of(m) BY <1>1, <2>1 DEF Of
  <2>3. id \notin doubled => \A m \in Of(id)' : m = l
    <3>1. \A m \in Of(id)' : m = l \/ m \in Of(id) BY <1>1 DEF Of
    <3>2. QED BY <2>1, <3>1
  <2>4. doubled \subseteq doubled' BY <1>2 DEF StepOf
  <2>5. ConsumeFits(call[c])' BY <1>2 DEF ConsumeFits, NoCall
  <2>6. ASSUME NEW d \in Callers \ {c} PROVE ConsumeFits(call[d])'
    <3>1. ConsumeFits(call[d]) /\ call'[d] = call[d] /\ UNCHANGED identity
      BY <1>1, <1>2 DEF IInv, ConsumeInv, StepOf, factory
    <3>2. call[d].pc \in {"info", "start", "add"} /\ call[d].id = id => id \in doubled
      BY <1>0, <1>1, <1>3 DEF IInv, OverlapInv, Consuming, ConsumeLabels
    <3>3. QED BY <1>1, <2>2, <2>4, <3>1, <3>2 DEF ConsumeFits
  <2>7. ASSUME NEW h \in Identities \ doubled' PROVE \A k, m \in Of(h)' : k = m
    <3>1. h \notin doubled BY <2>4
    <3>2. CASE h = id BY <2>3, <3>1, <3>2
    <3>3. CASE h # id BY <2>2, <3>1, <3>3 DEF IInv, ConsumeInv
    <3>4. QED BY <3>2, <3>3
  <2>8. QED BY <2>5, <2>6, <2>7 DEF ConsumeInv
<1>11. QED BY <1>2, <1>4, <1>5, <1>6, <1>7, <1>8, <1>9, <1>10, StepKeeps

\* stop and close end what runs, and start nothing.
LEMMA StopsControllers ==
  ASSUME TypeOK, NEW l \in Controllers, Stopped(l) \/ Closed(l)
  PROVE  /\ controller' \in [Controllers -> {"unused", "running", "stopped", "closed"}]
         /\ controller'[l] # "running"
         /\ \A m \in Controllers : controller'[m] = "running" => controller[m] = "running"
         /\ \A m \in Controllers : controller[m] # "unused" => controller'[m] # "unused"
  BY DEF TypeOK, Stopped, Closed

\* A step of stop, unregister or shutdown: it ends controllers that are
\* registered, or were, and removes what it has closed.
LEMMA EndingStep ==
  ASSUME IInv, NEW c \in Callers, StepOf(c), UNCHANGED <<factory, producers, consumes, reused>>,
         controller' \in [Controllers -> {"unused", "running", "stopped", "closed"}],
         registered' \subseteq registered,
         \A m \in Controllers : controller[m] # "unused" => controller'[m] # "unused",
         \A m \in Controllers : controller'[m] = "running" =>
            controller[m] = "running" /\ (m \in registered => m \in registered' \cup late'),
         call[c].pc \in {"stopEach", "closeEach", "shutEach", "clear"},
         call'[c].pc \in {"idle", "stopEach", "closeEach", "removeContext", "shutEach", "clear", "closeValues"},
         call'[c].pc \in {"closeEach", "removeContext"} => call'[c].id \in Identities,
         ShutdownFits(call[c])'
  PROVE  IInv'
<1>1. TypeOK' BY DEF IInv, TypeOK, StepOf, factory, producers
<1>2. KeepsUsed BY DEF KeepsUsed, producers
<1>3. Fits(call[c])'
  BY DEF Fits, Labels, ProduceLabels, ConsumeLabels, UnregisterLabels, ShutdownLabels
<1>4. ContextInv' BY ContextFrame DEF IInv
<1>5. ConsumeFits(call[c])' BY DEF ConsumeFits
<1>6. RunningIsReachable' /\ ShutdownInv' /\ ConsumeInv'
  BY <1>5, ConsumerFrame DEF IInv, TypeOK, factory
<1>7. QED BY <1>1, <1>2, <1>3, <1>4, <1>6, StepKeeps

\* stop
LEMMA StopEachIInv ==
  ASSUME IInv, NEW c \in Callers, StopEach(c)
  PROVE  IInv'
<1>1. /\ call \in [Callers -> CallRecords] /\ call[c] \in CallRecords /\ call[c].pc = "stopEach"
      /\ UNCHANGED <<factory, producers, consumes, registered>>
  BY DEF IInv, TypeOK, StopEach
<1>2. PICK k \in {NoCall} \cup {[call[c] EXCEPT !.todo = @ \ {l}] : l \in call[c].todo} :
        /\ Go(c, k)
        /\ UNCHANGED controller \/ \E l \in call[c].todo : Stopped(l)
  BY DEF StopEach, Return
<1>3. /\ k \in CallRecords /\ k.pc \in {"idle", "stopEach"} /\ call[c].todo \subseteq Controllers
  BY <1>1 DEF NoCall, CallRecords, Labels
<1>4. StepOf(c) /\ call'[c] = k /\ UNCHANGED reused BY <1>1, <1>2, <1>3, Advances DEF Go
<1>5. /\ controller' \in [Controllers -> {"unused", "running", "stopped", "closed"}]
      /\ \A m \in Controllers : controller'[m] = "running" => controller[m] = "running"
      /\ \A m \in Controllers : controller[m] # "unused" => controller'[m] # "unused"
  BY <1>2, <1>3, StopsControllers DEF IInv, TypeOK
<1>6. ShutdownFits(call[c])' BY <1>3, <1>4 DEF ShutdownFits
<1>7. QED BY <1>1, <1>3, <1>4, <1>5, <1>6, EndingStep

\* The controllers of unregister.
LEMMA CloseEachIInv ==
  ASSUME IInv, NEW c \in Callers, CloseEach(c)
  PROVE  IInv'
<1>1. /\ call \in [Callers -> CallRecords] /\ call[c] \in CallRecords /\ call[c].pc = "closeEach"
      /\ UNCHANGED <<factory, producers, consumes>> /\ call[c].id \in Identities
  BY DEF IInv, TypeOK, CloseEach, CallInv, Fits, UnregisterLabels
<1>2. PICK k \in {NoCall, [call[c] EXCEPT !.pc = "removeContext"]}
                   \cup {[call[c] EXCEPT !.todo = @ \ {l}] : l \in call[c].todo} :
        /\ Go(c, k)
        /\ \/ UNCHANGED <<controller, registered>>
           \/ \E l \in call[c].todo : Stopped(l) /\ UNCHANGED registered
           \/ \E l \in call[c].todo : Closed(l) /\ registered' = registered \ {l}
  BY DEF CloseEach, Return, To
<1>3. /\ k \in CallRecords /\ k.pc \in {"idle", "closeEach", "removeContext"}
      /\ k.pc # "idle" => k.id = call[c].id
      /\ call[c].todo \subseteq Controllers
  BY <1>1 DEF NoCall, CallRecords, Labels, ProduceLabels, ConsumeLabels, UnregisterLabels,
      ShutdownLabels
<1>4. StepOf(c) /\ call'[c] = k /\ UNCHANGED reused BY <1>1, <1>2, <1>3, Advances DEF Go
<1>5. /\ controller' \in [Controllers -> {"unused", "running", "stopped", "closed"}]
      /\ \A m \in Controllers : controller'[m] = "running" =>
            controller[m] = "running" /\ (m \in registered => m \in registered')
      /\ \A m \in Controllers : controller[m] # "unused" => controller'[m] # "unused"
      /\ registered' \subseteq registered
  BY <1>2, <1>3, StopsControllers DEF IInv, TypeOK
<1>6. ShutdownFits(call[c])' BY <1>3, <1>4 DEF ShutdownFits
<1>7. QED BY <1>1, <1>3, <1>4, <1>5, <1>6, EndingStep

\* The controllers of shutdown.
LEMMA ShutEachIInv ==
  ASSUME IInv, NEW c \in Callers, ShutEach(c)
  PROVE  IInv'
<1>1. /\ call \in [Callers -> CallRecords] /\ call[c] \in CallRecords /\ call[c].pc = "shutEach"
      /\ UNCHANGED <<factory, producers, consumes, registered>> /\ call[c].todo \subseteq Controllers
      /\ ShutdownFits(call[c]) /\ registered \subseteq Controllers
  BY CallTypes DEF IInv, TypeOK, ShutEach, ShutdownInv
<1>2. CASE Return(c) /\ \E l \in call[c].todo : Stopped(l)
  <2>1. StepOf(c) /\ call'[c] = NoCall /\ UNCHANGED reused BY <1>1, <1>2, Returns
  <2>2. /\ controller' \in [Controllers -> {"unused", "running", "stopped", "closed"}]
        /\ \A m \in Controllers : controller'[m] = "running" => controller[m] = "running"
        /\ \A m \in Controllers : controller[m] # "unused" => controller'[m] # "unused"
    BY <1>1, <1>2, StopsControllers DEF IInv, TypeOK
  <2>3. ShutdownFits(call[c])' /\ call'[c].pc = "idle" BY <2>1 DEF ShutdownFits, NoCall
  <2>4. QED BY <1>1, <2>1, <2>2, <2>3, EndingStep
<1>3. ASSUME NEW l \in call[c].todo, Closed(l), Go(c, [call[c] EXCEPT !.todo = @ \ {l}])
      PROVE  IInv'
  <2> DEFINE k == [call[c] EXCEPT !.todo = @ \ {l}]
  <2>1. k \in CallRecords /\ k.pc = "shutEach" /\ k.todo = call[c].todo \ {l}
    BY <1>1 DEF CallRecords
  <2>2. Advance(c, k) /\ UNCHANGED reused BY <1>3 DEF Go
  <2> HIDE DEF k
  <2>3. StepOf(c) /\ call'[c] = k BY <1>1, <2>1, <2>2, Advances
  <2>4. /\ controller' \in [Controllers -> {"unused", "running", "stopped", "closed"}]
        /\ \A m \in Controllers : controller'[m] = "running" => controller[m] = "running"
        /\ \A m \in Controllers : controller[m] # "unused" => controller'[m] # "unused"
        /\ controller'[l] # "running"
    BY <1>1, <1>3, StopsControllers DEF IInv, TypeOK
  <2>5. ShutdownFits(call[c])' BY <1>1, <2>1, <2>3, <2>4 DEF ShutdownFits, StepOf
  <2>6. QED BY <1>1, <2>1, <2>2, <2>3, <2>4, <2>5, EndingStep
<1>4. CASE call[c].todo = {} /\ To(c, "clear") /\ UNCHANGED controller
  <2>1. StepOf(c) /\ UNCHANGED reused /\ call'[c].pc = "clear"
    BY <1>1, <1>4, Moves
    DEF Labels, ProduceLabels, ConsumeLabels, UnregisterLabels, ShutdownLabels
  <2>2. ShutdownFits(call[c])' BY <1>1, <1>4, <2>1 DEF ShutdownFits, StepOf
  <2>3. QED BY <1>1, <1>4, <2>1, <2>2, EndingStep DEF IInv, TypeOK
<1>5. QED BY <1>2, <1>3, <1>4 DEF ShutEach

\* What the set forgets without a close was added while the shutdown was under way.
LEMMA ClearControllersIInv ==
  ASSUME IInv, NEW c \in Callers, ClearControllers(c)
  PROVE  IInv'
<1>1. /\ StepOf(c) /\ UNCHANGED <<factory, producers, controller, consumes, reused>>
      /\ call[c].pc = "clear" /\ call'[c].pc = "closeValues" /\ registered' = {}
      /\ ShutdownFits(call[c]) /\ late \subseteq late'
  BY Moves DEF ClearControllers, IInv, TypeOK, ShutdownInv, StepOf, Labels, ProduceLabels,
      ConsumeLabels, UnregisterLabels, ShutdownLabels
<1>2. \A m \in registered : controller[m] = "running" => m \in late'
  BY <1>1 DEF ShutdownFits
<1>3. ShutdownFits(call[c])' BY <1>1 DEF ShutdownFits
<1>4. QED BY <1>1, <1>2, <1>3, EndingStep DEF IInv, TypeOK

\* Nothing is created, registered or under way at first.
LEMMA InitIInv == Init => IInv
<1> SUFFICES ASSUME Init PROVE IInv
  OBVIOUS
<1> USE DEF Init
<1>1. call \in [Callers -> CallRecords] /\ \A c \in Callers : call[c].pc = "idle" /\ call[c].ctl = NoController
  BY DEF NoCall, CallRecords, Labels
<1>2. TypeOK BY <1>1 DEF TypeOK
<1>3. CallInv
  BY <1>1 DEF CallInv, Fits, Labels, ProduceLabels, ConsumeLabels, UnregisterLabels,
      ShutdownLabels
<1>4. OverlapInv
  BY <1>1, ConstantsAssumption
  DEF OverlapInv, Producing, Replacing, ShutsDown, Consuming, Labels, ProduceLabels,
      ConsumeLabels, UnregisterLabels, ShutdownLabels
<1>5. ContextInv BY <1>1 DEF ContextInv, ContextsOf
<1>6. RunningIsReachable /\ ShutdownInv BY DEF RunningIsReachable, ShutdownInv, ShutdownFits
<1>7. ConsumeInv BY <1>1 DEF ConsumeInv, ConsumeFits, Of
<1>8. QED BY <1>2, <1>3, <1>4, <1>5, <1>6, <1>7 DEF IInv

\* Every step keeps the invariant.
LEMMA NextIInv == IInv /\ [Next]_vars => IInv'
<1> SUFFICES ASSUME IInv, [Next]_vars PROVE IInv'
  OBVIOUS
<1>1. CASE UNCHANGED vars
  <2>1. UNCHANGED <<identity, infoList, mapped, context, owner, controller, consumes, registered,
                    call, crowded, late, doubled, reused>>
    BY <1>1 DEF vars, factory, producers, consumers, history
  <2>2. TypeOK' /\ CallInv' BY <2>1 DEF IInv, TypeOK, CallInv, Fits
  <2>3. OverlapInv' BY <2>1 DEF IInv, OverlapInv
  <2>4. ContextInv' BY <2>1 DEF IInv, ContextInv, ContextsOf, Closing
  <2>5. RunningIsReachable' /\ ShutdownInv'
    BY <2>1 DEF IInv, RunningIsReachable, ShutdownInv, ShutdownFits
  <2>6. ConsumeInv' BY <2>1 DEF IInv, ConsumeInv, ConsumeFits, Of
  <2>7. QED BY <2>2, <2>3, <2>4, <2>5, <2>6 DEF IInv
<1>2. ASSUME NEW c \in Callers, Shutdown(c) PROVE IInv'
  BY <1>2, ShutdownIInv
<1>3. ASSUME NEW c \in Callers, NEW id \in Identities,
             \/ Produce(c, id) \/ Consume(c, id) \/ Stop(c, id) \/ Unregister(c, id)
             \/ \E i \in Infos : Register(c, id, i)
      PROVE  IInv'
  BY <1>3, CallBeginsIInv, RegisterIInv
<1>4. ASSUME NEW c \in Callers, CallStep(c) PROVE IInv'
  BY <1>4, AddInfoIInv, GetInfoIInv, ComputeIfAbsentIInv, CheckAliveIInv, UnmapIInv,
      CloseOldIInv,
     CreateNewIInv, PutIInv, UseIInv, CloseFailedIInv, CheckExistsIInv, GetConnectionInfoIInv,
     StartControllerIInv, AddControllerIInv, StopEachIInv, CloseEachIInv, CloseRemovedIInv, ForgetIInv,
     ShutEachIInv, ClearControllersIInv, CloseValuesIInv, ClearMapIInv
  DEF CallStep
<1>5. ASSUME NEW x \in Contexts, Break(x) PROVE IInv'
  BY <1>5, BreakIInv
<1>6. QED BY <1>1, <1>2, <1>3, <1>4, <1>5 DEF Next, CallBegins

\* The calls, the map of contexts and the set of controllers fit in every state.
THEOREM ProviderFits == Spec => []IInv
  BY InitIInv, NextIInv, PTL DEF Spec

\* stop, unregister and shutdown find every running controller, through
\* interleaved calls and closes that throw, apart from those that a shutdown
\* overlapped.
THEOREM RunningIsReachableAlways == Spec => []RunningIsReachable
<1>1. IInv => RunningIsReachable BY DEF IInv
<1>2. QED BY <1>1, ProviderFits, PTL

\* Overlapping consumes and reused infos apart, an identity has one controller
\* at most.
THEOREM OneControllerAlways == Spec => []OneController
<1>1. IInv => OneController
  <2> SUFFICES ASSUME IInv, ~reused, NEW id \in Identities \ doubled
               PROVE  Cardinality(Of(id)) <= 1
    BY DEF OneController
  <2>1. \A k, l \in Of(id) : k = l BY DEF IInv, ConsumeInv
  <2>2. QED BY <2>1, AtMostOne
<1>2. QED BY <1>1, ProviderFits, PTL

\* An identity whose calls do not overlap has one open producer context at most,
\* apart from those a call is about to close.
THEOREM NothingLeaksAlone == Spec => []NoLeakAlone
<1>1. IInv => NoLeakAlone
  <2> SUFFICES ASSUME IInv, NEW id \in Identities \ crowded
               PROVE  LET closing == {call[c].ctx : c \in {d \in Callers :
                                        call[d].pc \in {"closeOld", "closeFailed", "closeRemoved"}}}
                          open == {x \in Contexts : owner[x] = id /\ context[x] \in {"alive", "broken"}}
                      IN Cardinality(open \ closing) <= 1
    BY DEF NoLeakAlone
  <2> DEFINE closing == {call[c].ctx : c \in {d \in Callers :
                           call[d].pc \in {"closeOld", "closeFailed", "closeRemoved"}}}
             open == {x \in Contexts : owner[x] = id /\ context[x] \in {"alive", "broken"}}
  <2>1. ContextsOf(id) BY DEF IInv, ContextInv
  <2>2. ASSUME NEW x \in open \ closing
        PROVE  mapped[id] = x \/ \E c \in Callers : call[c].pc = "put" /\ call[c].id = id /\ call[c].ctx = x
    BY <2>1 DEF ContextsOf, Closing
  <2>3. ASSUME NEW c \in Callers, NEW d \in Callers, call[c].pc = "put", call[c].id = id,
               call[d].pc = "put", call[d].id = id
        PROVE  c = d
    BY <2>3 DEF IInv, OverlapInv, Producing, Replacing, ProduceLabels
  <2>4. ASSUME NEW c \in Callers, call[c].pc = "put", call[c].id = id
        PROVE  mapped[id] = NoContext
    BY <2>1, <2>4 DEF ContextsOf
  <2>5. \A x, y \in open \ closing : x = y
    BY <2>2, <2>3, <2>4, ConstantsAssumption
  <2> HIDE DEF open, closing
  <2>6. Cardinality(open \ closing) <= 1 BY <2>5, AtMostOne
  <2>7. QED BY <2>6 DEF open, closing
<1>2. QED BY <1>1, ProviderFits, PTL

-----------------------------------------------------------------------------
(* Proofs about JmsConsumerController, for every concurrency and every     *)
(* number of contexts and failures: the inside of one controller.          *)

\* A list has at least as many places as members.
LEMMA ListedBound ==
  ASSUME contexts \in Seq(ConsumerContexts)
  PROVE  IsFiniteSet(Listed) /\ Cardinality(Listed) <= Len(contexts)
<1> DEFINE n == Len(contexts)
           f == [i \in 1..n |-> contexts[i]]
<1>1. n \in Nat OBVIOUS
<1>2. f \in Surjection(1..n, Listed) BY DEF Listed, Surjection
<1>3. IsFiniteSet(1..n) /\ Cardinality(1..n) = n BY <1>1, FS_Interval
<1> HIDE DEF f, n
<1>4. QED BY <1>1, <1>2, <1>3, FS_Surjection DEF n

\* Removing the first occurrence of a context keeps all others in the list.
LEMMA RemoveFirstKeeps ==
  ASSUME contexts \in Seq(ConsumerContexts), NEW c \in ConsumerContexts, RemoveFirst(c)
  PROVE  /\ contexts' \in Seq(ConsumerContexts) /\ Len(contexts') <= Len(contexts)
         /\ Listed' \subseteq Listed
         /\ \A d \in Listed \ {c} : d \in Listed'
<1>1. CASE c \notin Listed /\ UNCHANGED contexts BY <1>1 DEF Listed
<1>2. CASE c \in Listed
  <2>1. PICK n \in 1..Len(contexts) :
          /\ contexts[n] = c
          /\ contexts' = [i \in 1..Len(contexts)-1 |-> contexts[IF i < n THEN i ELSE i + 1]]
    BY <1>2 DEF RemoveFirst
  <2>2. contexts' \in Seq(ConsumerContexts) /\ Len(contexts') = Len(contexts) - 1
    BY <2>1
  <2>3. ASSUME NEW i \in 1..Len(contexts), i # n
        PROVE  \E j \in 1..Len(contexts') : contexts'[j] = contexts[i]
    <3>1. CASE i < n
      <4>1. i \in 1..Len(contexts)-1 BY <3>1
      <4>2. contexts'[i] = contexts[i] BY <2>1, <3>1, <4>1
      <4>3. QED BY <2>2, <4>1, <4>2
    <3>2. CASE i > n
      <4>1. i - 1 \in 1..Len(contexts)-1 /\ ~(i - 1 < n) BY <3>2
      <4>2. contexts'[i - 1] = contexts[i] BY <2>1, <4>1
      <4>3. QED BY <2>2, <4>1, <4>2
    <3>3. QED BY <2>3, <3>1, <3>2
  <2>4. ASSUME NEW d \in Listed \ {c} PROVE d \in Listed'
    <3>1. PICK i \in 1..Len(contexts) : contexts[i] = d BY DEF Listed
    <3>2. i # n BY <2>1, <3>1
    <3>3. PICK j \in 1..Len(contexts') : contexts'[j] = d BY <2>3, <3>1, <3>2
    <3>4. QED BY <3>3 DEF Listed
  <2>5. ASSUME NEW j \in 1..Len(contexts') PROVE contexts'[j] \in Listed
    <3>1. /\ j \in 1..Len(contexts)-1 /\ j \in 1..Len(contexts) /\ j + 1 \in 1..Len(contexts)
      BY <2>2
    <3>2. contexts'[j] = contexts[j] \/ contexts'[j] = contexts[j + 1] BY <2>1, <3>1
    <3>3. QED BY <3>1, <3>2 DEF Listed
  <2>6. QED BY <2>2, <2>4, <2>5 DEF Listed
<1>3. QED BY <1>1, <1>2 DEF RemoveFirst, Listed

\* One step of an iteration over a snapshot.
LEMMA WaitingTail ==
  ASSUME rest \in Seq(ConsumerContexts), rest # <<>>
  PROVE  /\ Head(rest) \in ConsumerContexts /\ Tail(rest) \in Seq(ConsumerContexts)
         /\ Head(rest) \in Waiting
         /\ rest' = Tail(rest) => Waiting' \subseteq Waiting
         /\ rest' = Tail(rest) => \A c \in Waiting : c = Head(rest) \/ c \in Waiting'
<1>1. /\ Head(rest) = rest[1] /\ Len(rest) \in Nat \ {0}
      /\ Tail(rest) \in Seq(ConsumerContexts) /\ Len(Tail(rest)) = Len(rest) - 1
      /\ \A i \in 1..Len(rest)-1 : Tail(rest)[i] = rest[i + 1]
  OBVIOUS
<1>2. ASSUME rest' = Tail(rest), NEW i \in 1..Len(rest), i # 1
      PROVE  rest[i] \in Waiting'
  <2>1. i - 1 \in 1..Len(rest') /\ rest'[i - 1] = rest[i] BY <1>1, <1>2
  <2>2. QED BY <2>1 DEF Waiting
<1>3. ASSUME rest' = Tail(rest), NEW i \in 1..Len(rest') PROVE rest'[i] \in Waiting
  <2>1. i + 1 \in 1..Len(rest) /\ rest'[i] = rest[i + 1] BY <1>1, <1>3
  <2>2. QED BY <2>1 DEF Waiting
<1>4. Head(rest) \in ConsumerContexts /\ Head(rest) \in Waiting BY <1>1 DEF Waiting
<1>5. QED BY <1>1, <1>2, <1>3, <1>4 DEF Waiting

\* The counter of failures stays within its bound.
LEMMA FailCounts ==
  ASSUME ControllerTypeOK, Fail \/ UNCHANGED failures
  PROVE  failures' \in 0..MaxFailures
  BY ControllerConstants DEF ControllerTypeOK, Fail

\* A close that returns and one that throws both take their context out of
\* those that are open and whose close has not failed.
LEMMA CloseOrLogTakes ==
  ASSUME ControllerTypeOK, NEW c \in ConsumerContexts, CloseOrLog(c)
  PROVE  /\ state' \in [ConsumerContexts -> ContextStates]
         /\ unclosed' \subseteq ConsumerContexts
         /\ failures' \in 0..MaxFailures
         /\ \A d \in ConsumerContexts : d # c => state'[d] = state[d]
         /\ state'[c] = state[c] \/ state'[c] = "closed"
         /\ NotLost' = NotLost \ {c}
         /\ Started' = Started \ {c}
<1>1. CASE state' = [state EXCEPT ![c] = "closed"] /\ UNCHANGED <<unclosed, failures>>
  <2>1. /\ state' \in [ConsumerContexts -> ContextStates]
        /\ state'[c] = "closed" /\ \A d \in ConsumerContexts : d # c => state'[d] = state[d]
    BY <1>1 DEF ControllerTypeOK, ContextStates
  <2>2. NotLost' = NotLost \ {c} /\ Started' = Started \ {c}
    BY <1>1, <2>1 DEF NotLost, Started, Open
  <2>3. QED BY <1>1, <2>1, <2>2, FailCounts DEF ControllerTypeOK
<1>2. CASE Fail /\ unclosed' = unclosed \cup {c} /\ UNCHANGED state
  <2>1. NotLost' = NotLost \ {c} /\ Started' = Started \ {c}
    BY <1>2 DEF NotLost, Started, Open
  <2>2. QED BY <1>2, <2>1, FailCounts DEF ControllerTypeOK
<1>3. QED BY <1>1, <1>2 DEF CloseOrLog

\* Where the sets of contexts stay and no context is listed or dropped, a step
\* of the round disturbs little.
LEMMA RoundFrame ==
  ASSUME ControllerIInv, NotLost' \subseteq NotLost, Started' \subseteq Started,
         UNCHANGED <<contexts, caller, rest, threw>>,
         task # "add", task = "idle" => task' = "idle", task' # "create"
  PROVE  ListInv' /\ SnapshotInv'
<1>1. ListInv' BY DEF ControllerIInv, ListInv, Listed
<1>2. Waiting' = Waiting BY DEF Waiting
<1>3. SnapshotInv'
  <2>1. caller' \in {"stopped", "shutdown", "closed"} => rest' = <<>>
    BY DEF ControllerIInv, SnapshotInv
  <2>2. QED BY <1>2, <2>1 DEF ControllerIInv, SnapshotInv
<1>4. QED BY <1>1, <1>3

\* After start nothing is open, and the list has room.
LEMMA ControllerInitIInv == ControllerInit => ControllerIInv
<1> SUFFICES ASSUME ControllerInit PROVE ControllerIInv
  OBVIOUS
<1> USE ControllerConstants DEF ControllerInit
<1>1. ControllerTypeOK
  <2>1. <<>> \in Seq(ConsumerContexts) /\ 0 \in 0..MaxFailures OBVIOUS
  <2>2. QED BY <2>1 DEF ControllerTypeOK, ContextStates, TaskLabels, CallerLabels
<1>2. RoundInv BY DEF RoundInv, NotLost, Open, TaskLabels
<1>3. ListInv BY DEF ListInv, NotLost, Open
<1>4. SnapshotInv BY DEF SnapshotInv
<1>5. UsedInv BY DEF UsedInv, Listed, Waiting
<1>6. QED BY <1>1, <1>2, <1>3, <1>4, <1>5 DEF ControllerIInv

\* A round begins only where the list has room, and only while the flag is set.
LEMMA ControllerRoundIInv ==
  ASSUME ControllerIInv, Round
  PROVE  ControllerIInv'
<1> USE ControllerConstants DEF ControllerIInv, ControllerTypeOK, round, stopping, Round, IsFull
<1>1. ControllerTypeOK' BY DEF ContextStates, TaskLabels, CallerLabels, RoundInv
<1>2. RoundInv' BY DEF RoundInv, NotLost, Open, TaskLabels
<1>3. ListInv' BY DEF ListInv, Listed, NotLost, Open, RoundInv
<1>4. SnapshotInv' BY DEF SnapshotInv, ListInv, RoundInv, Waiting, Listed, NotLost, Started, Open
<1>5. UsedInv' BY DEF UsedInv, Listed, Waiting, RoundInv
<1>6. QED BY <1>1, <1>2, <1>3, <1>4, <1>5

\* The context of the round has its room already.
LEMMA ControllerCreateContextIInv ==
  ASSUME ControllerIInv, CreateContext
  PROVE  ControllerIInv'
<1> USE DEF ControllerIInv, stopping
<1>1. /\ task = "create"
      /\ UNCHANGED <<running, contexts, listens, handler, scheduled, caller, rest, threw, unclosed>>
  BY DEF CreateContext
<1>2. CASE Fail /\ task' = "idle" /\ UNCHANGED <<state, ctx>>
  <2>1. ControllerTypeOK' BY <1>1, <1>2, FailCounts DEF ControllerTypeOK, TaskLabels
  <2>2. NotLost' = NotLost /\ Started' = Started BY <1>1, <1>2 DEF NotLost, Started, Open
  <2>3. Len(contexts) \in Nat BY DEF ControllerTypeOK
  <2>4. RoundInv' BY <1>1, <1>2, <2>2, <2>3, ControllerConstants DEF RoundInv
  <2>5. ListInv' /\ SnapshotInv' BY <1>1, <1>2, <2>2, RoundFrame
  <2>6. UsedInv' BY <1>1, <1>2 DEF UsedInv, Listed, Waiting
  <2>7. QED BY <2>1, <2>4, <2>5, <2>6
<1>3. ASSUME NEW c \in ConsumerContexts, state[c] = "unused",
             state' = [state EXCEPT ![c] = "created"], ctx' = c, task' = "add", UNCHANGED failures
      PROVE  ControllerIInv'
  <2>1. /\ state'[c] = "created" /\ \A d \in ConsumerContexts : d # c => state'[d] = state[d]
        /\ state' \in [ConsumerContexts -> ContextStates]
    BY <1>3 DEF ControllerTypeOK, ContextStates
  <2>2. ControllerTypeOK' BY <1>1, <1>3, <2>1 DEF ControllerTypeOK, TaskLabels
  <2>3. NotLost' \subseteq NotLost \cup {c} /\ Started' = Started
    BY <1>1, <1>3, <2>1 DEF NotLost, Started, Open
  <2>4. RoundInv' BY <1>1, <1>3, <2>1, <2>3 DEF RoundInv
  <2>5. ListInv' BY <1>1, <1>3, <2>3 DEF ListInv, Listed
  <2>6. Waiting' = Waiting BY <1>1 DEF Waiting
  <2>7. SnapshotInv' BY <1>1, <1>3, <2>3, <2>6 DEF SnapshotInv
  <2>8. UsedInv'
    <3>1. Listed' = Listed BY <1>1 DEF Listed
    <3>2. Listed \cup Waiting \subseteq ConsumerContexts BY DEF Listed, Waiting, ControllerTypeOK
    <3>3. QED BY <2>1, <2>6, <3>1, <3>2 DEF UsedInv
  <2>9. QED BY <2>2, <2>4, <2>5, <2>7, <2>8
<1>4. QED BY <1>1, <1>2, <1>3 DEF CreateContext

\* The context takes its room in the list.
LEMMA ControllerAddContextIInv ==
  ASSUME ControllerIInv, AddContext
  PROVE  ControllerIInv'
<1> USE ControllerConstants DEF ControllerIInv, ControllerTypeOK, round, stopping, AddContext
<1>1. ControllerTypeOK' BY DEF ContextStates, TaskLabels, CallerLabels, RoundInv
<1>2. RoundInv' BY DEF RoundInv, NotLost, Open, TaskLabels
<1>3. ListInv' BY DEF ListInv, Listed, NotLost, Open, RoundInv
<1>4. SnapshotInv' BY DEF SnapshotInv, ListInv, RoundInv, Waiting, Listed, NotLost, Started, Open
<1>5. UsedInv' BY DEF UsedInv, Listed, Waiting, RoundInv
<1>6. QED BY <1>1, <1>2, <1>3, <1>4, <1>5

\* The listener is set before there is a consumer ...
LEMMA ControllerListenIInv ==
  ASSUME ControllerIInv, Listen
  PROVE  ControllerIInv'
<1> USE DEF ControllerIInv, stopping
<1>1. /\ task = "listen" /\ ctx \in ConsumerContexts /\ state[ctx] # "unused"
      /\ UNCHANGED <<running, contexts, state, handler, scheduled, caller, rest, threw, unclosed>>
      /\ failures' \in 0..MaxFailures /\ listens' \subseteq listens \cup {ctx}
      /\ task' \in {"setup", "idle"} /\ ctx' \in {ctx, NoConsumerContext}
      /\ task' = "setup" => ctx' = ctx
  BY FailCounts DEF Listen, RoundInv, TaskLabels, RoundFails, Throws, TaskEnds
<1>2. NotLost' = NotLost /\ Started' = Started BY <1>1 DEF NotLost, Started, Open
<1>3. ControllerTypeOK' BY <1>1 DEF ControllerTypeOK, TaskLabels
<1>4. RoundInv' BY <1>1, <1>2 DEF RoundInv, TaskLabels
<1>5. ListInv' /\ SnapshotInv' BY <1>1, <1>2, RoundFrame
<1>6. UsedInv' BY <1>1 DEF UsedInv, Listed, Waiting
<1>7. QED BY <1>3, <1>4, <1>5, <1>6

\* ... and a context that fails from here on stays open and listed.
LEMMA ControllerSetupIInv ==
  ASSUME ControllerIInv, Setup
  PROVE  ControllerIInv'
<1> USE DEF ControllerIInv, stopping
<1>1. /\ task = "setup" /\ ctx \in ConsumerContexts /\ state[ctx] # "unused"
      /\ UNCHANGED <<running, contexts, listens, handler, scheduled, caller, rest, threw, unclosed>>
      /\ failures' \in 0..MaxFailures
      /\ task' \in {"begin", "idle"} /\ ctx' \in {ctx, NoConsumerContext}
      /\ task' = "begin" => ctx' = ctx
  BY FailCounts DEF Setup, RoundInv, TaskLabels, RoundFails, Throws, TaskEnds
<1>2. /\ state' \in [ConsumerContexts -> ContextStates]
      /\ \A d \in ConsumerContexts : state'[d] = state[d] \/ (state[d] = "created" /\ state'[d] = "ready")
  BY <1>1 DEF Setup, RoundFails, ControllerTypeOK, ContextStates
<1>3. NotLost' = NotLost /\ Started' = Started BY <1>1, <1>2 DEF NotLost, Started, Open
<1>4. ControllerTypeOK' BY <1>1, <1>2 DEF ControllerTypeOK, TaskLabels
<1>5. RoundInv' BY <1>1, <1>2, <1>3 DEF RoundInv, TaskLabels
<1>6. ListInv' /\ SnapshotInv' BY <1>1, <1>3, RoundFrame
<1>7. UsedInv' BY <1>1, <1>2 DEF UsedInv, Listed, Waiting, ControllerTypeOK
<1>8. QED BY <1>4, <1>5, <1>6, <1>7

\* The one context that may start after the flag was cleared.
LEMMA ControllerBeginIInv ==
  ASSUME ControllerIInv, Begin
  PROVE  ControllerIInv'
<1> USE DEF ControllerIInv, stopping
<1>1. /\ task = "begin" /\ ctx \in ConsumerContexts /\ state[ctx] # "unused"
      /\ UNCHANGED <<running, contexts, listens, handler, scheduled, caller, rest, threw, unclosed>>
      /\ failures' \in 0..MaxFailures
      /\ task' = "idle" /\ ctx' = NoConsumerContext
  BY FailCounts DEF Begin, RoundInv, TaskLabels, RoundFails, Throws, TaskEnds
<1>2. /\ state' \in [ConsumerContexts -> ContextStates]
      /\ \A d \in ConsumerContexts : d # ctx => state'[d] = state[d]
      /\ state'[ctx] = state[ctx] \/ (state'[ctx] = "started" /\ state[ctx] # "closed")
  BY <1>1 DEF Begin, RoundFails, ControllerTypeOK, ContextStates
<1>3. NotLost' = NotLost /\ Started' \subseteq Started \cup {ctx}
  BY <1>1, <1>2 DEF NotLost, Started, Open
<1>4. ControllerTypeOK' BY <1>1, <1>2 DEF ControllerTypeOK, TaskLabels
<1>5. RoundInv' BY <1>1, <1>2, <1>3 DEF RoundInv, TaskLabels
<1>6. ListInv' BY <1>1, <1>3 DEF ListInv, Listed
<1>7. Waiting' = Waiting BY <1>1 DEF Waiting
<1>8. SnapshotInv' BY <1>1, <1>3, <1>7 DEF SnapshotInv
<1>9. UsedInv' BY <1>1, <1>2 DEF UsedInv, Listed, Waiting, ControllerTypeOK
<1>10. QED BY <1>4, <1>5, <1>6, <1>8, <1>9

\* A broken connection is noticed; the context is still open.
LEMMA ControllerBreakIInv ==
  ASSUME ControllerIInv, NEW c \in ConsumerContexts, ControllerBreak(c)
  PROVE  ControllerIInv'
<1> USE DEF ControllerIInv, stopping, round
<1>1. /\ Open(c) /\ handler[c] = "none" /\ handler' = [handler EXCEPT ![c] = "close"]
      /\ UNCHANGED <<running, contexts, state, listens, task, ctx, scheduled, caller, rest, threw, unclosed>>
      /\ failures' \in 0..MaxFailures
  BY FailCounts DEF ControllerBreak
<1>2. /\ handler' \in [ConsumerContexts -> {"none", "close", "remove"}]
      /\ handler'[c] = "close" /\ \A d \in ConsumerContexts : d # c => handler'[d] = handler[d]
  BY <1>1 DEF ControllerTypeOK
<1>3. NotLost' = NotLost /\ Started' = Started /\ Waiting' = Waiting
  BY <1>1 DEF NotLost, Started, Open, Waiting
<1>4. ControllerTypeOK' BY <1>1, <1>2 DEF ControllerTypeOK
<1>5. RoundInv' BY <1>1, <1>2, <1>3 DEF RoundInv, Open
<1>6. ListInv' BY <1>1, <1>3 DEF ListInv, Listed
<1>7. SnapshotInv' BY <1>1, <1>3 DEF SnapshotInv
<1>8. UsedInv' BY <1>1, <1>3 DEF UsedInv, Listed
<1>9. QED BY <1>4, <1>5, <1>6, <1>7, <1>8

\* The handler closes its context first ...
LEMMA ControllerHandlerCloseIInv ==
  ASSUME ControllerIInv, NEW c \in ConsumerContexts, HandlerClose(c)
  PROVE  ControllerIInv'
<1> USE DEF ControllerIInv, stopping, round
<1>1. /\ handler[c] = "close" /\ CloseOrLog(c)
      /\ handler' = [handler EXCEPT ![c] = "remove"]
      /\ UNCHANGED <<running, contexts, listens, task, ctx, scheduled, caller, rest, threw>>
  BY DEF HandlerClose
<1>2. /\ handler' \in [ConsumerContexts -> {"none", "close", "remove"}]
      /\ \A d \in ConsumerContexts : d # c => handler'[d] = handler[d]
  BY <1>1 DEF ControllerTypeOK
<1>3. /\ state' \in [ConsumerContexts -> ContextStates] /\ unclosed' \subseteq ConsumerContexts
      /\ failures' \in 0..MaxFailures
      /\ \A d \in ConsumerContexts : state'[d] = state[d] \/ state'[d] = "closed"
      /\ NotLost' = NotLost \ {c} /\ Started' = Started \ {c}
  BY <1>1, CloseOrLogTakes
<1>4. ControllerTypeOK' BY <1>1, <1>2, <1>3 DEF ControllerTypeOK
<1>5. RoundInv' BY <1>1, <1>2, <1>3 DEF RoundInv, TaskLabels
<1>6. ListInv' BY <1>1, <1>3 DEF ListInv, Listed
<1>7. Waiting' = Waiting BY <1>1 DEF Waiting
<1>8. SnapshotInv' BY <1>1, <1>3, <1>7 DEF SnapshotInv
<1>9. UsedInv' BY <1>1, <1>3 DEF UsedInv, Listed, Waiting, ControllerTypeOK
<1>10. QED BY <1>4, <1>5, <1>6, <1>8, <1>9

\* ... and removes what is closed.
LEMMA ControllerHandlerRemoveIInv ==
  ASSUME ControllerIInv, NEW c \in ConsumerContexts, HandlerRemove(c)
  PROVE  ControllerIInv'
<1> USE DEF ControllerIInv, stopping, round
<1>1. /\ contexts' \in Seq(ConsumerContexts) /\ Len(contexts') <= Len(contexts)
      /\ Listed' \subseteq Listed /\ \A d \in Listed \ {c} : d \in Listed'
  BY RemoveFirstKeeps DEF HandlerRemove, ControllerTypeOK
<1>2. /\ handler[c] = "remove" /\ handler' = [handler EXCEPT ![c] = "none"]
      /\ UNCHANGED <<running, state, listens, task, ctx, scheduled, caller, rest, threw, unclosed, failures>>
  BY DEF HandlerRemove
<1>3. /\ handler' \in [ConsumerContexts -> {"none", "close", "remove"}]
      /\ \A d \in ConsumerContexts : handler'[d] \in {"none", handler[d]}
  BY <1>2 DEF ControllerTypeOK
<1>4. NotLost' = NotLost /\ Started' = Started BY <1>2 DEF NotLost, Started, Open
<1>5. ControllerTypeOK' BY <1>1, <1>2, <1>3 DEF ControllerTypeOK
<1>6. RoundInv'
  <2>1. Len(contexts') \in Nat /\ Len(contexts) \in Nat BY <1>1 DEF ControllerTypeOK
  <2>2. Len(contexts') + (IF task \in {"create", "add"} THEN 1 ELSE 0) <= Concurrency
    BY <1>1, <2>1, ControllerConstants DEF RoundInv
  <2>3. QED BY <1>2, <1>3, <1>4, <2>2 DEF RoundInv
<1>7. ListInv'
  <2>1. c \notin NotLost BY <1>2 DEF RoundInv
  <2>2. QED BY <1>1, <1>2, <1>4, <2>1 DEF ListInv
<1>8. Waiting' = Waiting BY <1>2 DEF Waiting
<1>9. SnapshotInv' BY <1>2, <1>4, <1>8 DEF SnapshotInv
<1>10. UsedInv' BY <1>1, <1>2, <1>8 DEF UsedInv
<1>11. QED BY <1>5, <1>6, <1>7, <1>9, <1>10

\* stop clears the flag: no further round begins.
LEMMA ControllerStopIInv ==
  ASSUME ControllerIInv, ControllerStop
  PROVE  ControllerIInv'
<1> USE ControllerConstants DEF ControllerIInv, ControllerTypeOK, round, stopping, ControllerStop,
       ClearRunning
<1>1. ControllerTypeOK' BY DEF ContextStates, TaskLabels, CallerLabels, RoundInv
<1>2. RoundInv' BY DEF RoundInv, NotLost, Open, TaskLabels
<1>3. ListInv' BY DEF ListInv, Listed, NotLost, Open, RoundInv
<1>4. SnapshotInv' BY DEF SnapshotInv, ListInv, RoundInv, Waiting, Listed, NotLost, Started, Open
<1>5. UsedInv' BY DEF UsedInv, Listed, Waiting, RoundInv
<1>6. QED BY <1>1, <1>2, <1>3, <1>4, <1>5

\* So does close.
LEMMA ControllerCloseIInv ==
  ASSUME ControllerIInv, ControllerClose
  PROVE  ControllerIInv'
<1> USE ControllerConstants DEF ControllerIInv, ControllerTypeOK, round, stopping, ControllerClose,
       ClearRunning
<1>1. ControllerTypeOK' BY DEF ContextStates, TaskLabels, CallerLabels, RoundInv
<1>2. RoundInv' BY DEF RoundInv, NotLost, Open, TaskLabels
<1>3. ListInv' BY DEF ListInv, Listed, NotLost, Open, RoundInv
<1>4. SnapshotInv' BY DEF SnapshotInv, ListInv, RoundInv, Waiting, Listed, NotLost, Started, Open
<1>5. UsedInv' BY DEF UsedInv, Listed, Waiting, RoundInv
<1>6. QED BY <1>1, <1>2, <1>3, <1>4, <1>5

\* What stop iterates over holds every started context.
LEMMA ControllerSnapshotIInv ==
  ASSUME ControllerIInv, Snapshot
  PROVE  ControllerIInv'
<1> USE ControllerConstants DEF ControllerIInv, ControllerTypeOK, round, stopping, Snapshot
<1>1. ControllerTypeOK' BY DEF ContextStates, TaskLabels, CallerLabels, RoundInv
<1>2. RoundInv' BY DEF RoundInv, NotLost, Open, TaskLabels
<1>3. ListInv' BY DEF ListInv, Listed, NotLost, Open, RoundInv
<1>4. SnapshotInv' BY DEF SnapshotInv, ListInv, RoundInv, Waiting, Listed, NotLost, Started, Open
<1>5. UsedInv' BY DEF UsedInv, Listed, Waiting, RoundInv
<1>6. QED BY <1>1, <1>2, <1>3, <1>4, <1>5

\* One context of the snapshot stops, or the loop is over.
LEMMA ControllerStopNextIInv ==
  ASSUME ControllerIInv, StopNext
  PROVE  ControllerIInv'
<1> USE DEF ControllerIInv, round
<1>0. /\ Head(rest) \in ConsumerContexts /\ Tail(rest) \in Seq(ConsumerContexts)
      /\ Head(rest) \in Waiting /\ state[Head(rest)] # "unused"
      /\ caller \in {"stopEach", "closeStop"}
      /\ UNCHANGED <<running, contexts, listens, handler, task, ctx, scheduled, unclosed>>
  BY WaitingTail DEF StopNext, ControllerTypeOK, UsedInv
<1>1. CASE Throws(Head(rest)) /\ threw' = TRUE /\ caller' = "stopped" /\ rest' = <<>> /\ UNCHANGED state
  <2>1. failures' \in 0..MaxFailures BY <1>1, FailCounts DEF Throws
  <2>2. ControllerTypeOK' BY <1>0, <1>1, <2>1 DEF ControllerTypeOK, CallerLabels
  <2>3. NotLost' = NotLost /\ Started' = Started BY <1>0, <1>1 DEF NotLost, Started, Open
  <2>4. RoundInv' BY <1>0, <1>1, <2>3 DEF RoundInv
  <2>5. ListInv' BY <1>0, <1>1, <2>3 DEF ListInv, Listed
  <2>6. SnapshotInv' BY <1>1 DEF SnapshotInv
  <2>7. UsedInv' BY <1>0, <1>1 DEF UsedInv, Listed, Waiting
  <2>8. QED BY <2>2, <2>4, <2>5, <2>6, <2>7
<1>2. CASE /\ state[Head(rest)] # "closed" /\ state' = [state EXCEPT ![Head(rest)] = "stopped"]
           /\ rest' = Tail(rest) /\ UNCHANGED <<caller, threw, failures>>
  <2>1. /\ state' \in [ConsumerContexts -> ContextStates] /\ state'[Head(rest)] = "stopped"
        /\ \A d \in ConsumerContexts : d # Head(rest) => state'[d] = state[d]
    BY <1>0, <1>2 DEF ControllerTypeOK, ContextStates
  <2>2. ControllerTypeOK' BY <1>0, <1>2, <2>1 DEF ControllerTypeOK
  <2>3. NotLost' = NotLost /\ Started' = Started \ {Head(rest)}
    BY <1>0, <1>2, <2>1 DEF NotLost, Started, Open
  <2>4. /\ Waiting' \subseteq Waiting
        /\ \A c \in Waiting : c = Head(rest) \/ c \in Waiting'
    BY <1>2, WaitingTail DEF StopNext, ControllerTypeOK
  <2>5. RoundInv' BY <1>0, <1>2, <2>1, <2>3 DEF RoundInv
  <2>6. ListInv' BY <1>0, <1>2, <2>3 DEF ListInv, Listed
  <2>7. SnapshotInv' BY <1>0, <1>2, <2>3, <2>4 DEF SnapshotInv
  <2>8. UsedInv'
    <3>1. Listed' = Listed BY <1>0 DEF Listed
    <3>2. Listed \cup Waiting \subseteq ConsumerContexts BY DEF Listed, Waiting, ControllerTypeOK
    <3>3. QED BY <1>0, <2>1, <2>4, <3>1, <3>2 DEF UsedInv
  <2>9. QED BY <2>2, <2>5, <2>6, <2>7, <2>8
<1>3. QED BY <1>1, <1>2 DEF StopNext

\* close takes a snapshot of its own.
LEMMA ControllerStopReturnsIInv ==
  ASSUME ControllerIInv, StopReturns
  PROVE  ControllerIInv'
<1> USE ControllerConstants DEF ControllerIInv, ControllerTypeOK, round, stopping, StopReturns
<1>1. ControllerTypeOK' BY DEF ContextStates, TaskLabels, CallerLabels, RoundInv
<1>2. RoundInv' BY DEF RoundInv, NotLost, Open, TaskLabels
<1>3. ListInv' BY DEF ListInv, Listed, NotLost, Open, RoundInv
<1>4. SnapshotInv' BY DEF SnapshotInv, ListInv, RoundInv, Waiting, Listed, NotLost, Started, Open
<1>5. UsedInv' BY DEF UsedInv, Listed, Waiting, RoundInv
<1>6. QED BY <1>1, <1>2, <1>3, <1>4, <1>5

\* One context of the snapshot is closed.
LEMMA ControllerCloseNextIInv ==
  ASSUME ControllerIInv, CloseNext
  PROVE  ControllerIInv'
<1> USE DEF ControllerIInv, round
<1>0. /\ Head(rest) \in ConsumerContexts /\ Tail(rest) \in Seq(ConsumerContexts)
      /\ caller = "closeEach" /\ rest' = Tail(rest) /\ CloseOrLog(Head(rest))
      /\ UNCHANGED <<running, contexts, listens, handler, task, ctx, scheduled, caller, threw>>
  BY WaitingTail DEF CloseNext, ControllerTypeOK
<1>1. /\ state' \in [ConsumerContexts -> ContextStates] /\ unclosed' \subseteq ConsumerContexts
      /\ failures' \in 0..MaxFailures
      /\ \A d \in ConsumerContexts : state'[d] = state[d] \/ state'[d] = "closed"
      /\ NotLost' = NotLost \ {Head(rest)} /\ Started' = Started \ {Head(rest)}
  BY <1>0, CloseOrLogTakes
<1>2. /\ Waiting' \subseteq Waiting
      /\ \A c \in Waiting : c = Head(rest) \/ c \in Waiting'
  BY <1>0, WaitingTail DEF CloseNext, ControllerTypeOK
<1>3. ControllerTypeOK' BY <1>0, <1>1 DEF ControllerTypeOK
<1>4. RoundInv' BY <1>0, <1>1 DEF RoundInv, TaskLabels
<1>5. ListInv' BY <1>0, <1>1 DEF ListInv, Listed
<1>6. SnapshotInv' BY <1>0, <1>1, <1>2 DEF SnapshotInv
<1>7. UsedInv'
  <2>1. Listed' = Listed BY <1>0 DEF Listed
  <2>2. Listed \cup Waiting \subseteq ConsumerContexts BY DEF Listed, Waiting, ControllerTypeOK
  <2>3. QED BY <1>1, <1>2, <2>1, <2>2 DEF UsedInv
<1>8. QED BY <1>3, <1>4, <1>5, <1>6, <1>7

\* What is left open is the context of the last round.
LEMMA ControllerClearIInv ==
  ASSUME ControllerIInv, Clear
  PROVE  ControllerIInv'
<1> USE ControllerConstants DEF ControllerIInv, ControllerTypeOK, round, stopping, Clear
<1>1. ControllerTypeOK' BY DEF ContextStates, TaskLabels, CallerLabels, RoundInv
<1>2. RoundInv' BY DEF RoundInv, NotLost, Open, TaskLabels
<1>3. ListInv' BY DEF ListInv, Listed, NotLost, Open, RoundInv
<1>4. SnapshotInv' BY DEF SnapshotInv, ListInv, RoundInv, Waiting, Listed, NotLost, Started, Open
<1>5. UsedInv' BY DEF UsedInv, Listed, Waiting, RoundInv
<1>6. QED BY <1>1, <1>2, <1>3, <1>4, <1>5

\* The executor ends.
LEMMA ControllerShutdownIInv ==
  ASSUME ControllerIInv, ControllerShutdown
  PROVE  ControllerIInv'
<1> USE ControllerConstants DEF ControllerIInv, ControllerTypeOK, round, stopping, ControllerShutdown
<1>1. ControllerTypeOK' BY DEF ContextStates, TaskLabels, CallerLabels, RoundInv
<1>2. RoundInv' BY DEF RoundInv, NotLost, Open, TaskLabels
<1>3. ListInv' BY DEF ListInv, Listed, NotLost, Open, RoundInv
<1>4. SnapshotInv' BY DEF SnapshotInv, ListInv, RoundInv, Waiting, Listed, NotLost, Started, Open
<1>5. UsedInv' BY DEF UsedInv, Listed, Waiting, RoundInv
<1>6. QED BY <1>1, <1>2, <1>3, <1>4, <1>5

\* Every step keeps the invariant.
LEMMA ControllerNextIInv == ControllerIInv /\ [ControllerNext]_controllerVars => ControllerIInv'
<1> SUFFICES ASSUME ControllerIInv, [ControllerNext]_controllerVars PROVE ControllerIInv'
  OBVIOUS
<1>1. CASE UNCHANGED controllerVars
  BY <1>1
  DEF controllerVars, round, stopping, ControllerIInv, ControllerTypeOK, RoundInv, ListInv,
         UsedInv, SnapshotInv, Listed, Waiting, NotLost, Started, Open
<1>2. CASE TaskStep
  BY <1>2, ControllerRoundIInv, ControllerCreateContextIInv, ControllerAddContextIInv,
         ControllerListenIInv, ControllerSetupIInv, ControllerBeginIInv
  DEF TaskStep
<1>3. ASSUME NEW c \in ConsumerContexts, HandlerStep(c) \/ ControllerBreak(c)
      PROVE  ControllerIInv'
  BY <1>3, ControllerHandlerCloseIInv, ControllerHandlerRemoveIInv, ControllerBreakIInv
  DEF HandlerStep
<1>4. CASE CallerStep
  BY <1>4, ControllerSnapshotIInv, ControllerStopNextIInv, ControllerStopReturnsIInv,
         ControllerCloseNextIInv, ControllerClearIInv, ControllerShutdownIInv
  DEF CallerStep
<1>5. CASE ControllerStop \/ ControllerClose BY <1>5, ControllerStopIInv, ControllerCloseIInv
<1>6. QED BY <1>1, <1>2, <1>3, <1>4, <1>5 DEF ControllerNext

\* Rounds, list and snapshots fit in every state of the controller.
THEOREM ControllerFits == ControllerSpec => []ControllerIInv
  BY ControllerInitIInv, ControllerNextIInv, PTL DEF ControllerSpec

\* The broker never sees more consumers than the configured concurrency,
\* while contexts break, are replaced, stopped and closed.
THEOREM NeverTooManyConsumers == ControllerSpec => []AtMostConcurrency
<1>1. ControllerIInv => AtMostConcurrency
  <2> SUFFICES ASSUME ControllerIInv PROVE AtMostConcurrency
    OBVIOUS
  <2> DEFINE S == NotLost
  <2>1. IsFiniteSet(Listed) /\ Cardinality(Listed) <= Len(contexts)
    BY ListedBound DEF ControllerIInv, ControllerTypeOK
  <2>2. Cardinality(Listed) \in Nat /\ Len(contexts) \in Nat
    BY <2>1, FS_CardinalityType DEF ControllerIInv, ControllerTypeOK
  <2>3. CASE caller \in {"shutdown", "closed"}
    <3>1. \A c, d \in S : c = d BY <2>3 DEF ControllerIInv, SnapshotInv, Waiting
    <3>2. IsFiniteSet(S) /\ Cardinality(S) <= 1 BY <3>1, AtMostOne
    <3>3. Cardinality(S) \in Nat BY <3>2, FS_CardinalityType
    <3>4. QED BY <3>2, <3>3, ControllerConstants DEF AtMostConcurrency
  <2>4. CASE caller \notin {"shutdown", "closed"} /\ task = "add"
    <3>1. S \subseteq Listed \cup {ctx} BY <2>4 DEF ControllerIInv, ListInv
    <3>2. /\ IsFiniteSet(Listed \cup {ctx})
          /\ Cardinality(Listed \cup {ctx}) <= Len(contexts) + 1
      <4>1. /\ IsFiniteSet(Listed \cup {ctx})
            /\ \/ Cardinality(Listed \cup {ctx}) = Cardinality(Listed)
               \/ Cardinality(Listed \cup {ctx}) = Cardinality(Listed) + 1
        BY <2>1, FS_AddElement
      <4>2. QED BY <2>1, <2>2, <4>1
    <3>3. Cardinality(S) <= Cardinality(Listed \cup {ctx}) /\ IsFiniteSet(S)
      BY <3>1, <3>2, FS_Subset
    <3>4. Cardinality(S) \in Nat /\ Cardinality(Listed \cup {ctx}) \in Nat
      BY <3>2, <3>3, FS_CardinalityType
    <3>5. Len(contexts) + 1 <= Concurrency BY <2>4 DEF ControllerIInv, RoundInv
    <3>6. QED
      BY <2>2, <3>2, <3>3, <3>4, <3>5, ControllerConstants DEF AtMostConcurrency
  <2>5. CASE caller \notin {"shutdown", "closed"} /\ task # "add"
    <3>1. S \subseteq Listed BY <2>5 DEF ControllerIInv, ListInv
    <3>2. Cardinality(S) <= Cardinality(Listed) /\ IsFiniteSet(S)
      BY <2>1, <3>1, FS_Subset
    <3>3. Cardinality(S) \in Nat BY <3>2, FS_CardinalityType
    <3>4. Len(contexts) <= Concurrency
      BY <2>2, ControllerConstants DEF ControllerIInv, RoundInv
    <3>5. QED
      BY <2>1, <2>2, <3>2, <3>3, <3>4, ControllerConstants DEF AtMostConcurrency
  <2>6. QED BY <2>3, <2>4, <2>5
<1>2. QED BY <1>1, ControllerFits, PTL

\* stop and close do not wait for the round under way, yet a stop that got
\* through leaves one consumer started at most, a close one context open.
THEOREM AtMostOneEscapesAlways == ControllerSpec => []AtMostOneEscapes
<1>1. ControllerIInv => AtMostOneEscapes
  <2> SUFFICES ASSUME ControllerIInv PROVE AtMostOneEscapes
    OBVIOUS
  <2>1. CASE caller = "stopped" /\ ~threw
    <3>1. \A c, d \in Started : c = d
      BY <2>1 DEF ControllerIInv, SnapshotInv, Waiting
    <3>2. QED BY <2>1, <3>1, AtMostOne DEF AtMostOneEscapes
  <2>2. CASE caller = "closed"
    <3>1. \A c, d \in NotLost : c = d
      BY <2>2 DEF ControllerIInv, SnapshotInv, Waiting
    <3>2. QED BY <2>2, <3>1, AtMostOne DEF AtMostOneEscapes
  <2>3. QED BY <2>1, <2>2 DEF AtMostOneEscapes
<1>2. QED BY <1>1, ControllerFits, PTL
=============================================================================
