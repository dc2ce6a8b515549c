------------------------------ MODULE SseBroker ------------------------------
(***************************************************************************)
(* Server-sent events of microfox-http, for one identity: sseRegister,     *)
(* sseUnregister and ssePublisher on the SSE registry, the handshake of    *)
(* BaseServlet.handleSse and the subscriber that writes events to a        *)
(* connection.  The SubmissionPublisher is external: a bounded buffer per  *)
(* subscriber, a submit that waits for room while it holds the publisher's *)
(* lock, and a close after which the subscribers complete.                 *)
(***************************************************************************)
EXTENDS Naturals, Sequences, FiniteSets

CONSTANTS Callers,      \* threads that register, unregister and publish
          Clients,      \* event-stream requests, one handshake each
          Infos,        \* SseInfo objects of a behaviour
          Publishers,   \* SubmissionPublisher objects of a behaviour
          Events,       \* published events, each once
          Capacity,     \* Flow.defaultBufferSize()
          NoInfo, NoPublisher, NoEvent, NoCaller

ASSUME ConstantsAssumption ==
    /\ Capacity \in Nat \ {0}
    /\ NoInfo \notin Infos /\ NoPublisher \notin Publishers
    /\ NoEvent \notin Events /\ NoCaller \notin Callers

VARIABLES listed,      \* the entry of SSE_LIST for the identity
          publisher,   \* SseInfo -> its publisher, NoPublisher: not created yet
          closed,      \* the closed publishers
          lock,        \* publisher -> the caller whose submit holds its lock
          client,      \* request -> its handshake and connection
          buffer,      \* request -> events its subscription holds
          call,        \* caller -> its call under way
          sent,        \* history: publisher -> the events submitted to it
          start,       \* history: request -> events submitted before it subscribed
          received,    \* history: request -> the events handed to it, NoEvent: not written
          broken,      \* history: requests that an exception of onNext ended
          missed       \* history: requests that an unregistration overlapped

broker == <<listed, publisher, closed>>
history == <<sent, start, received, broken>>
vars == <<broker, lock, client, buffer, call, history, missed>>

ClientLabels == {"idle", "getPublisher", "check", "replace", "subscribe", "open", "done"}
CallLabels == {"idle", "close", "remove", "submit", "offer"}

NoCall == [pc |-> "idle", info |-> NoInfo, pub |-> NoPublisher, event |-> NoEvent, todo |-> {}]

ClientRecords == [pc : ClientLabels, info : Infos \cup {NoInfo}, pub : Publishers \cup {NoPublisher}]

CallRecords == [pc : CallLabels, info : Infos \cup {NoInfo}, pub : Publishers \cup {NoPublisher},
                event : Events \cup {NoEvent}, todo : SUBSET Clients]

TypeOK ==
    /\ listed \in Infos \cup {NoInfo}
    /\ publisher \in [Infos -> Publishers \cup {NoPublisher}]
    /\ listed # NoInfo => publisher[listed] # NoPublisher
    /\ closed \subseteq Publishers
    /\ lock \in [Publishers -> Callers \cup {NoCaller}]
    /\ client \in [Clients -> ClientRecords]
    /\ buffer \in [Clients -> Seq(Events)]
    /\ \A k \in Clients : Len(buffer[k]) <= Capacity
    /\ call \in [Callers -> CallRecords]
    /\ sent \in [Publishers -> Seq(Events)]
    /\ start \in [Clients -> Nat]
    /\ received \in [Clients -> Seq(Events \cup {NoEvent})]
    /\ broken \subseteq Clients
    /\ missed \subseteq Clients

Init ==
    /\ listed = NoInfo
    /\ publisher = [i \in Infos |-> NoPublisher]
    /\ closed = {}
    /\ lock = [p \in Publishers |-> NoCaller]
    /\ client = [k \in Clients |-> [pc |-> "idle", info |-> NoInfo, pub |-> NoPublisher]]
    /\ buffer = [k \in Clients |-> <<>>]
    /\ call = [c \in Callers |-> NoCall]
    /\ sent = [p \in Publishers |-> <<>>]
    /\ start = [k \in Clients |-> 0]
    /\ received = [k \in Clients |-> <<>>]
    /\ broken = {}
    /\ missed = {}

Unused(p) == /\ \A i \in Infos : publisher[i] # p
             /\ \A k \in Clients : client[k].pub # p
             /\ p \notin closed

Subscribers(p) == {k \in Clients : client[k].pc = "open" /\ client[k].pub = p}

Handshaking == {k \in Clients : client[k].pc \in {"getPublisher", "check", "replace", "subscribe"}}

-----------------------------------------------------------------------------
(* Callers.                                                                *)

\* Mutated form: the publisher is left to the first handshake.
RegisterLazily(c) ==
    /\ call[c].pc = "idle" /\ listed = NoInfo
    /\ \E i \in Infos : publisher[i] = NoPublisher /\ listed' = i
    /\ UNCHANGED <<publisher, closed, lock, client, buffer, call, history, missed>>

\* SSE_LIST is a set of identities: registering twice changes nothing.
Register(c) ==
    /\ call[c].pc = "idle"
    /\ listed = NoInfo
    /\ \E i \in Infos, p \in Publishers :
          /\ publisher[i] = NoPublisher /\ Unused(p)
          /\ listed' = i
          /\ publisher' = [publisher EXCEPT ![i] = p]
    /\ UNCHANGED <<closed, lock, client, buffer, call, history, missed>>

\* sseUnregister looks up the entry; without one it goes on to remove ...
FindSse(c) ==
    /\ call[c].pc = "idle"
    /\ call' = [call EXCEPT ![c].pc = IF listed = NoInfo THEN "remove" ELSE "close",
                            ![c].info = listed]
    /\ missed' = missed \cup Handshaking
    /\ UNCHANGED <<broker, lock, client, buffer, history>>

\* ... closes the publisher the entry has by now ...
ClosePublisher(c) ==
    LET p == publisher[call[c].info] IN
    /\ call[c].pc = "close" /\ lock[p] = NoCaller
    /\ closed' = closed \cup {p}
    /\ call' = [call EXCEPT ![c].pc = "remove"]
    /\ UNCHANGED <<listed, publisher, lock, client, buffer, history, missed>>

\* Mutated form: the entry stays.
RemoveNothing(c) ==
    /\ call[c].pc = "remove"
    /\ call' = [call EXCEPT ![c] = NoCall]
    /\ UNCHANGED <<broker, lock, client, buffer, history, missed>>

\* ... and removes what is listed by then.
RemoveSse(c) ==
    /\ call[c].pc = "remove"
    /\ listed' = NoInfo
    /\ call' = [call EXCEPT ![c] = NoCall]
    /\ UNCHANGED <<publisher, closed, lock, client, buffer, history, missed>>

\* ssePublisher looks up the publisher (and throws when there is none) ...
Publish(c, e) ==
    /\ call[c].pc = "idle"
    /\ listed # NoInfo
    /\ \A d \in Callers : call[d].event # e
    /\ \A p \in Publishers : \A n \in 1..Len(sent[p]) : sent[p][n] # e
    /\ call' = [call EXCEPT ![c] = [NoCall EXCEPT !.pc = "submit", !.event = e,
                                                  !.pub = publisher[listed]]]
    /\ UNCHANGED <<broker, lock, client, buffer, history, missed>>

\* ... and submits: an exception when it has been closed, otherwise one
\* offer per subscriber under the publisher's lock.
Submit(c) ==
    LET p == call[c].pub IN
    /\ call[c].pc = "submit"
    /\ lock[p] = NoCaller
    /\ \/ /\ p \in closed
          /\ call' = [call EXCEPT ![c] = NoCall]
          /\ UNCHANGED <<lock, sent>>
       \/ /\ p \notin closed
          /\ lock' = [lock EXCEPT ![p] = c]
          /\ sent' = [sent EXCEPT ![p] = Append(@, call[c].event)]
          /\ call' = [call EXCEPT ![c].pc = "offer", ![c].todo = Subscribers(p)]
    /\ UNCHANGED <<broker, client, buffer, start, received, broken, missed>>

\* Mutated form: a full buffer drops the event.
OfferDropping(c, k) ==
    /\ call[c].pc = "offer" /\ k \in call[c].todo
    /\ \/ /\ client[k].pc = "open" /\ Len(buffer[k]) < Capacity
          /\ buffer' = [buffer EXCEPT ![k] = Append(@, call[c].event)]
       \/ /\ client[k].pc = "done" \/ Len(buffer[k]) = Capacity
          /\ UNCHANGED buffer
    /\ call' = [call EXCEPT ![c].todo = @ \ {k}]
    /\ UNCHANGED <<broker, lock, client, history, missed>>

\* A full buffer makes submit wait; a cancelled subscription is left out.
Offer(c, k) ==
    /\ call[c].pc = "offer" /\ k \in call[c].todo
    /\ \/ /\ client[k].pc = "open" /\ Len(buffer[k]) < Capacity
          /\ buffer' = [buffer EXCEPT ![k] = Append(@, call[c].event)]
       \/ client[k].pc = "done" /\ UNCHANGED buffer
    /\ call' = [call EXCEPT ![c].todo = @ \ {k}]
    /\ UNCHANGED <<broker, lock, client, history, missed>>

SubmitReturns(c) ==
    /\ call[c].pc = "offer" /\ call[c].todo = {}
    /\ lock' = [lock EXCEPT ![call[c].pub] = NoCaller]
    /\ call' = [call EXCEPT ![c] = NoCall]
    /\ UNCHANGED <<broker, client, buffer, history, missed>>

-----------------------------------------------------------------------------
(* handleSse.                                                              *)

Goto(k, label) == client' = [client EXCEPT ![k].pc = label]

\* startAsync without a timeout; an unknown path is completed as not found.
Connect(k) ==
    /\ client[k].pc = "idle"
    /\ client' = [client EXCEPT ![k].pc = IF listed = NoInfo THEN "done" ELSE "getPublisher",
                                ![k].info = listed]
    /\ missed' = IF \E c \in Callers : call[c].pc \in {"close", "remove"} THEN missed \cup {k} ELSE missed
    /\ UNCHANGED <<broker, lock, buffer, call, history>>

GetPublisher(k) ==
    /\ client[k].pc = "getPublisher"
    /\ client' = [client EXCEPT ![k].pc = "check", ![k].pub = publisher[client[k].info]]
    /\ UNCHANGED <<broker, lock, buffer, call, history, missed>>

CheckClosed(k) ==
    /\ client[k].pc = "check"
    /\ Goto(k, IF client[k].pub \in closed THEN "replace" ELSE "subscribe")
    /\ UNCHANGED <<broker, lock, buffer, call, history, missed>>

\* A closed publisher is replaced, in an SseInfo that may be off the list.
Replace(k) ==
    /\ client[k].pc = "replace"
    /\ \E p \in Publishers :
          /\ Unused(p)
          /\ publisher' = [publisher EXCEPT ![client[k].info] = p]
          /\ client' = [client EXCEPT ![k].pc = "subscribe", ![k].pub = p]
    /\ UNCHANGED <<listed, closed, lock, buffer, call, history, missed>>

\* subscribe on a publisher closed since the check completes at once.
Subscribe(k) ==
    LET p == client[k].pub IN
    /\ client[k].pc = "subscribe"
    /\ lock[p] = NoCaller
    /\ Goto(k, IF p \in closed THEN "done" ELSE "open")
    /\ start' = [start EXCEPT ![k] = Len(sent[p])]
    /\ UNCHANGED <<broker, lock, buffer, call, sent, received, broken, missed>>

-----------------------------------------------------------------------------
(* SseSubscriber.                                                          *)

\* sendResponse writes the event, or logs that the write failed.
SendResponse(e) == {e, NoEvent}

\* sse comes back from a failing write as from any other; only a failing flush
\* makes it throw.
Sse(k) == \E e \in SendResponse(Head(buffer[k])) :
             received' = [received EXCEPT ![k] = Append(@, e)]

\* onNext requests the next event after the write, or cancels the subscription
\* and completes the request after an exception.
OnNext(k) ==
    /\ client[k].pc = "open" /\ buffer[k] # <<>>
    /\ \/ /\ Sse(k)
          /\ buffer' = [buffer EXCEPT ![k] = Tail(@)]
          /\ UNCHANGED <<client, broken>>
       \/ /\ Goto(k, "done")
          /\ buffer' = [buffer EXCEPT ![k] = <<>>]
          /\ broken' = broken \cup {k}
          /\ UNCHANGED received
    /\ UNCHANGED <<broker, lock, call, sent, start, missed>>

\* Mutated form: completion discards what is still in the buffer.
OnCompleteEarly(k) ==
    /\ client[k].pc = "open" /\ client[k].pub \in closed
    /\ Goto(k, "done")
    /\ UNCHANGED <<broker, lock, buffer, call, history, missed>>

OnComplete(k) ==
    /\ client[k].pc = "open" /\ client[k].pub \in closed /\ buffer[k] = <<>>
    /\ Goto(k, "done")
    /\ UNCHANGED <<broker, lock, buffer, call, history, missed>>

-----------------------------------------------------------------------------

CallStep(c) == \/ ClosePublisher(c) \/ RemoveSse(c) \/ Submit(c) \/ SubmitReturns(c)
               \/ \E k \in Clients : Offer(c, k)

ClientStep(k) == \/ GetPublisher(k) \/ CheckClosed(k) \/ Replace(k) \/ Subscribe(k)
                 \/ OnNext(k) \/ OnComplete(k)

Next == \/ \E c \in Callers : \/ Register(c) \/ FindSse(c) \/ CallStep(c)
                              \/ \E e \in Events : Publish(c, e)
        \/ \E k \in Clients : Connect(k) \/ ClientStep(k)

Spec == Init /\ [][Next]_vars

-----------------------------------------------------------------------------

\* Event e of k's publisher is being offered and k has not got it yet.
InOffer(k) == {n \in {Len(sent[client[k].pub])} : \E c \in Callers :
                  call[c].pc = "offer" /\ call[c].pub = client[k].pub /\ k \in call[c].todo}

\* s hands on the events t, each once and in order; a write that failed leaves
\* its place empty.
HandsOn(s, t) == Len(s) = Len(t) /\ \A n \in 1..Len(t) : s[n] \in {t[n], NoEvent}

\* Every event submitted since a connection subscribed waits in its buffer or has
\* been handed to it, once and in order, however slow it is and whoever publishes:
\* nothing but a write that failed keeps one from it.
NothingLost ==
    \A k \in Clients : client[k].pc = "open" =>
        HandsOn(received[k] \o buffer[k],
                SubSeq(sent[client[k].pub], start[k] + 1,
                       Len(sent[client[k].pub]) - Cardinality(InOffer(k))))

\* An open connection is reachable: the next ssePublisher finds its
\* publisher, or that publisher is closed and the connection completes;
\* only a handshake that overlapped an unregistration may end up on a
\* publisher that nobody can look up.
OpenIsReachable ==
    \A k \in Clients : client[k].pc = "open" /\ k \notin missed =>
        \/ listed # NoInfo /\ publisher[listed] = client[k].pub
        \/ client[k].pub \in closed

\* What was submitted before the unregistration is still handed to a connection
\* before it is completed, unless an exception of onNext ends it.
CompletesAfterLastEvent ==
    [][\A k \in Clients :
          client[k].pc = "open" /\ client'[k].pc = "done" /\ buffer' = buffer
              => HandsOn(received[k], SubSeq(sent[client[k].pub], start[k] + 1, Len(sent[client[k].pub])))]_vars

-----------------------------------------------------------------------------
(* The inductive invariant.                                                *)

\* What a request and a call refer to fits their labels.  The events of a submit
\* go to the connections of its publisher, which it keeps locked and open.
FitInv ==
    /\ \A k \in Clients :
          /\ client[k].pc = "idle" => client[k].info = NoInfo /\ client[k].pub = NoPublisher
          /\ client[k].info # NoInfo => publisher[client[k].info] # NoPublisher
          /\ client[k].pc \notin {"idle", "done"} => client[k].info # NoInfo
          /\ client[k].pc \notin {"idle", "done", "getPublisher"} => client[k].pub # NoPublisher
          /\ client[k].pc \notin {"open", "done"} => buffer[k] = <<>> /\ received[k] = <<>>
          /\ k \in broken => client[k].pc = "done"
    /\ \A c \in Callers :
          /\ call[c].pc = "close" =>
                call[c].info # NoInfo /\ publisher[call[c].info] # NoPublisher
          /\ call[c].pc \in {"submit", "offer"} =>
                call[c].pub # NoPublisher /\ call[c].event # NoEvent

Offering(c, k) == call[c].pc = "offer" /\ k \in call[c].todo

OfferInv ==
    \A c \in Callers : call[c].pc = "offer" =>
        /\ lock[call[c].pub] = c
        /\ call[c].pub \notin closed
        /\ sent[call[c].pub] # <<>>
        /\ sent[call[c].pub][Len(sent[call[c].pub])] = call[c].event
        /\ \A k \in call[c].todo : client[k].pub = call[c].pub /\ client[k].pc \in {"open", "done"}

\* What a connection was handed and what waits for it are the events of its
\* publisher since it subscribed, but for the one that is being offered; a failed
\* write leaves its place empty.
DeliveryInv ==
    \A k \in Clients : client[k].pc = "open" =>
        /\ start[k] + Len(received[k]) + Len(buffer[k])
              + (IF \E c \in Callers : Offering(c, k) THEN 1 ELSE 0) = Len(sent[client[k].pub])
        /\ \A n \in 1..Len(received[k]) : received[k][n] \in {sent[client[k].pub][start[k] + n], NoEvent}
        /\ \A n \in 1..Len(buffer[k]) :
              buffer[k][n] = sent[client[k].pub][start[k] + Len(received[k]) + n]

Unregistering == {c \in Callers : call[c].pc \in {"close", "remove"}}
Removing == {c \in Callers : call[c].pc = "remove"}

\* Nobody who connected undisturbed to this entry waits for events any more.
Settled(i) ==
    \A k \in Clients : client[k].info = i /\ k \notin missed =>
        client[k].pc = "done" \/ (client[k].pc = "open" /\ client[k].pub \in closed)

\* Whatever a removal is going to take off the list is settled, and only while a
\* removal is under way does anybody see a closed publisher on the list.
UnregisterInv ==
    /\ Unregistering # {} => Handshaking \subseteq missed
    /\ listed # NoInfo =>
          /\ Removing # {} => Settled(listed)
          /\ \A c \in Unregistering : call[c].info # listed => Settled(listed)
          /\ publisher[listed] \in closed => Removing # {}
          /\ \A k \in Clients :
                /\ client[k].info = listed
                /\ client[k].pc = "replace" \/ (client[k].pc = "check" /\ client[k].pub \in closed)
                => Removing # {}

\* An undisturbed request and the list go together.
RequestInv ==
    \A k \in Clients \ missed :
        /\ client[k].pc \in {"getPublisher", "check", "subscribe"} => client[k].info = listed
        /\ client[k].pc # "replace"
        /\ client[k].pc \in {"check", "subscribe"} =>
              client[k].pub = publisher[listed] /\ client[k].pub \notin closed
        /\ client[k].pc = "open" /\ client[k].pub \notin closed =>
              client[k].info = listed /\ client[k].pub = publisher[listed]

IInv == /\ TypeOK /\ FitInv /\ OfferInv /\ DeliveryInv
        /\ UnregisterInv /\ RequestInv

-----------------------------------------------------------------------------
(* What the broker promises: the handshake, the buffers and the locks are  *)
(* hidden, and a request counts as new until it is subscribed.             *)

Ended(k) == IF k \in broken THEN "broken" ELSE "done"

Status(k) == CASE client[k].pc = "open" -> "open"
               [] client[k].pc = "done" -> Ended(k)
               [] OTHER -> "new"

Source(k) == IF client[k].pc \in {"open", "done"} THEN client[k].pub ELSE NoPublisher

Promise == INSTANCE Broadcast WITH
    Readers <- Clients,
    log <- sent,
    status <- [k \in Clients |-> Status(k)],
    source <- [k \in Clients |-> Source(k)],
    from <- start,
    got <- received

\* Registry, handshakes, locked submits and bounded buffers implement the
\* broadcast: a connection reads its publisher's log from where it subscribed,
\* one event after the other, losing one only to a failed write of that event,
\* and unless onNext throws it is completed only when the publisher is closed
\* and the whole log has been handed to it.
ImplementsBroadcast == Promise!Spec
=============================================================================
