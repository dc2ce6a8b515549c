--------------------------- MODULE SseBrokerProofs ---------------------------
(***************************************************************************)
(* Proofs about SseBroker, for any callers, requests, entries, publishers  *)
(* and events, and buffers of any capacity.                                *)
(***************************************************************************)
EXTENDS SseBroker, FiniteSetTheorems, SequenceTheorems, TLAPS

\* The fields of a request.
LEMMA ClientTypes ==
  ASSUME TypeOK, NEW k \in Clients
  PROVE  /\ client[k] \in ClientRecords
         /\ client[k].pc \in ClientLabels
         /\ client[k].info \in Infos \cup {NoInfo}
         /\ client[k].pub \in Publishers \cup {NoPublisher}
  BY DEF TypeOK, ClientRecords

\* The fields of a call.
LEMMA CallTypes ==
  ASSUME TypeOK, NEW c \in Callers
  PROVE  /\ call[c] \in CallRecords
         /\ call[c].pc \in CallLabels
         /\ call[c].info \in Infos \cup {NoInfo}
         /\ call[c].pub \in Publishers \cup {NoPublisher}
         /\ call[c].event \in Events \cup {NoEvent}
         /\ call[c].todo \in SUBSET Clients
  BY DEF TypeOK, CallRecords

\* A request goes to another label.
LEMMA ClientGoes ==
  ASSUME TypeOK, NEW k \in Clients, NEW label \in ClientLabels, Goto(k, label)
  PROVE  /\ client' \in [Clients -> ClientRecords]
         /\ client'[k].pc = label /\ client'[k].info = client[k].info
         /\ client'[k].pub = client[k].pub
         /\ \A j \in Clients \ {k} : client'[j] = client[j]
<1>1. client[k] \in ClientRecords /\ client \in [Clients -> ClientRecords] BY DEF TypeOK
<1>2. client' = [client EXCEPT ![k] = [client[k] EXCEPT !.pc = label]] BY DEF Goto
<1>3. [client[k] EXCEPT !.pc = label] \in ClientRecords BY <1>1 DEF ClientRecords
<1>4. /\ [client[k] EXCEPT !.pc = label].pc = label
      /\ [client[k] EXCEPT !.pc = label].info = client[k].info
      /\ [client[k] EXCEPT !.pc = label].pub = client[k].pub
  BY <1>1 DEF ClientRecords
<1>5. QED BY <1>1, <1>2, <1>3, <1>4

\* A call takes a new record.
LEMMA CallGoes ==
  ASSUME TypeOK, NEW c \in Callers, NEW r \in CallRecords, call' = [call EXCEPT ![c] = r]
  PROVE  /\ call' \in [Callers -> CallRecords] /\ call'[c] = r
         /\ \A d \in Callers \ {c} : call'[d] = call[d]
  BY DEF TypeOK

\* The record of a caller without a call.
LEMMA NoCallRecord ==
  /\ NoCall \in CallRecords
  /\ NoCall.pc = "idle" /\ NoCall.info = NoInfo /\ NoCall.pub = NoPublisher
  /\ NoCall.event = NoEvent /\ NoCall.todo = {}
  BY DEF NoCall, CallRecords, CallLabels

\* Nothing is registered, connected or called at first.
LEMMA InitIInv == Init => IInv
<1> SUFFICES ASSUME Init PROVE IInv
  OBVIOUS
<1>1. \A c \in Callers : call[c] = NoCall /\ call[c].pc = "idle" BY NoCallRecord DEF Init
<1>2. \A k \in Clients : /\ client[k].pc = "idle" /\ client[k].info = NoInfo
                         /\ buffer[k] = <<>> /\ received[k] = <<>>
  BY DEF Init
<1>3. TypeOK
  <2>1. client \in [Clients -> ClientRecords] BY DEF Init, ClientRecords, ClientLabels
  <2>2. call \in [Callers -> CallRecords] BY NoCallRecord DEF Init
  <2>3. \A k \in Clients : Len(buffer[k]) <= Capacity BY <1>2, ConstantsAssumption
  <2>4. QED BY <2>1, <2>2, <2>3 DEF Init, TypeOK
<1>4. FitInv
  <2>1. \A k \in Clients : client[k].pub = NoPublisher /\ k \notin broken BY DEF Init
  <2>2. QED BY <1>1, <1>2, <2>1 DEF FitInv
<1>5. OfferInv /\ DeliveryInv BY <1>1, <1>2 DEF OfferInv, DeliveryInv
<1>6. UnregisterInv
  <2>1. Unregistering = {} /\ Removing = {} BY <1>1 DEF Unregistering, Removing
  <2>2. QED BY <2>1 DEF UnregisterInv, Init
<1>7. RequestInv BY <1>2 DEF RequestInv
<1>8. QED BY <1>3, <1>4, <1>5, <1>6, <1>7 DEF IInv

-----------------------------------------------------------------------------
(* Registration.                                                           *)

\* A new entry has no connections yet, and its publisher is new.
LEMMA RegisterIInv ==
  ASSUME IInv, NEW c \in Callers, Register(c)
  PROVE  IInv'
<1>1. PICK i \in Infos, p \in Publishers :
        /\ publisher[i] = NoPublisher /\ Unused(p)
        /\ listed' = i /\ publisher' = [publisher EXCEPT ![i] = p]
  BY DEF Register
<1>2. /\ listed = NoInfo
      /\ UNCHANGED <<closed, lock, client, buffer, call, sent, start, received, broken, missed>>
  BY DEF Register, history
<1>3. /\ publisher'[i] = p /\ p # NoPublisher /\ i # NoInfo /\ p \notin closed
      /\ \A j \in Infos \ {i} : publisher'[j] = publisher[j]
  BY <1>1, ConstantsAssumption DEF IInv, TypeOK, Unused
<1>4. \A k \in Clients : client[k].info # i BY <1>1, <1>3 DEF IInv, FitInv
<1>5. TypeOK' BY <1>1, <1>2, <1>3 DEF IInv, TypeOK
<1>6. FitInv'
  <2>1. \A j \in Infos : publisher[j] # NoPublisher => publisher'[j] # NoPublisher BY <1>3
  <2>2. QED BY <1>2, <2>1, ClientTypes, CallTypes DEF IInv, FitInv
<1>7. OfferInv' /\ DeliveryInv' BY <1>2 DEF IInv, OfferInv, DeliveryInv, Offering
<1>8. UnregisterInv'
  <2>1. Settled(i)' BY <1>2, <1>4 DEF Settled
  <2>2. Unregistering' = Unregistering /\ Handshaking' = Handshaking
    BY <1>2 DEF Unregistering, Handshaking
  <2>3. QED BY <1>1, <1>2, <1>3, <1>4, <2>1, <2>2 DEF IInv, UnregisterInv, Settled
<1>9. RequestInv'
  <2>1. ASSUME NEW k \in Clients \ missed
        PROVE  /\ client[k].pc \notin {"getPublisher", "check", "subscribe", "replace"}
               /\ client[k].pc = "open" => client[k].pub \in closed
    BY <1>2 DEF IInv, RequestInv, FitInv
  <2>2. QED BY <1>2, <2>1 DEF RequestInv
<1>10. QED BY <1>5, <1>6, <1>7, <1>8, <1>9 DEF IInv

\* Whoever is in a handshake when an unregistration begins has met one.
LEMMA FindSseIInv ==
  ASSUME IInv, NEW c \in Callers, FindSse(c)
  PROVE  IInv'
<1>1. PICK label \in {"close", "remove"} : label = IF listed = NoInfo THEN "remove" ELSE "close"
  OBVIOUS
<1>2. PICK r : r = [call[c] EXCEPT !.pc = label, !.info = listed] OBVIOUS
<1>3. /\ r \in CallRecords /\ r.pc = label /\ r.info = listed
      /\ call' = [call EXCEPT ![c] = r]
  BY <1>1, <1>2, CallTypes DEF FindSse, IInv, TypeOK, CallRecords, CallLabels
<1>4. /\ call' \in [Callers -> CallRecords] /\ call'[c] = r
      /\ \A d \in Callers \ {c} : call'[d] = call[d]
  BY <1>3, CallGoes DEF IInv
<1>5. /\ call[c].pc = "idle" /\ missed' = missed \cup Handshaking
      /\ UNCHANGED <<listed, publisher, closed, lock, client, buffer, sent, start, received, broken>>
  BY DEF FindSse, broker, history
<1>6. TypeOK' BY <1>4, <1>5 DEF IInv, TypeOK, Handshaking
<1>7. FitInv' BY <1>1, <1>3, <1>4, <1>5 DEF IInv, FitInv, TypeOK
<1>8. \A d \in Callers : call'[d].pc = "offer" => d # c /\ call'[d] = call[d] BY <1>1, <1>3, <1>4
<1>9. OfferInv' BY <1>5, <1>8 DEF IInv, OfferInv
<1>10. DeliveryInv'
  <2>1. \A d \in Callers, k \in Clients : Offering(d, k)' <=> Offering(d, k)
    BY <1>1, <1>3, <1>4, <1>5 DEF Offering
  <2>2. QED BY <1>5, <2>1 DEF IInv, DeliveryInv
<1>11. UnregisterInv'
  <2>1. Handshaking' \subseteq missed' BY <1>5 DEF Handshaking
  <2>2. \A i : Settled(i) => Settled(i)' BY <1>5 DEF Settled
  <2>3. \A d \in Callers : d \in Removing => d \in Removing' BY <1>4, <1>5 DEF Removing
  <2>4. listed # NoInfo => Removing' \subseteq Removing /\ call'[c].info = listed
    BY <1>1, <1>3, <1>4 DEF Removing
  <2>5. \A d \in Callers \ {c} : d \in Unregistering' <=> d \in Unregistering
    BY <1>4 DEF Unregistering
  <2>6. Removing # {} => Removing' # {} BY <2>3 DEF Removing
  <2>7. QED BY <1>4, <1>5, <2>1, <2>2, <2>4, <2>5, <2>6 DEF IInv, UnregisterInv, Unregistering
<1>12. RequestInv' BY <1>5 DEF IInv, RequestInv
<1>13. QED BY <1>6, <1>7, <1>9, <1>10, <1>11, <1>12 DEF IInv

\* The close settles the entry: a publisher that was replaced before belongs to
\* an entry whose removal is under way.
LEMMA ClosePublisherIInv ==
  ASSUME IInv, NEW c \in Callers, ClosePublisher(c)
  PROVE  IInv'
<1>1. PICK i : i = call[c].info OBVIOUS
<1>2. PICK p : p = publisher[i] OBVIOUS
<1>3. /\ call[c].pc = "close" /\ lock[p] = NoCaller /\ closed' = closed \cup {p}
      /\ UNCHANGED <<listed, publisher, lock, client, buffer, sent, start, received, broken, missed>>
  BY <1>1, <1>2 DEF ClosePublisher, history
<1>4. i \in Infos /\ p \in Publishers
  BY <1>1, <1>2, <1>3, CallTypes DEF IInv, FitInv, TypeOK
<1>5. PICK r : r = [call[c] EXCEPT !.pc = "remove"] OBVIOUS
<1>6. /\ r \in CallRecords /\ r.pc = "remove" /\ r.info = i
      /\ call' = [call EXCEPT ![c] = r]
  BY <1>1, <1>5, CallTypes DEF ClosePublisher, IInv, TypeOK, CallRecords, CallLabels
<1>7. /\ call' \in [Callers -> CallRecords] /\ call'[c] = r
      /\ \A d \in Callers \ {c} : call'[d] = call[d]
  BY <1>6, CallGoes DEF IInv
<1>8. TypeOK' BY <1>3, <1>4, <1>7 DEF IInv, TypeOK
<1>9. FitInv' BY <1>3, <1>6, <1>7 DEF IInv, FitInv
<1>10. OfferInv'
  <2> SUFFICES ASSUME NEW d \in Callers, call'[d].pc = "offer"
               PROVE  /\ lock[call[d].pub] = d
                      /\ call[d].pub \notin closed'
                      /\ sent[call[d].pub] # <<>>
                      /\ sent[call[d].pub][Len(sent[call[d].pub])] = call[d].event
                      /\ \A k \in call[d].todo :
                             client[k].pub = call[d].pub /\ client[k].pc \in {"open", "done"}
                      /\ call'[d] = call[d]
    BY <1>3 DEF OfferInv
  <2>1. call'[d] = call[d] /\ call[d].pc = "offer" BY <1>6, <1>7
  <2>2. call[d].pub # p BY <1>3, <2>1, ConstantsAssumption DEF IInv, OfferInv
  <2>3. QED BY <1>3, <2>1, <2>2 DEF IInv, OfferInv
<1>11. DeliveryInv'
  <2>1. \A d \in Callers, k \in Clients : Offering(d, k)' <=> Offering(d, k)
    BY <1>3, <1>6, <1>7 DEF Offering
  <2>2. QED BY <1>3, <2>1 DEF IInv, DeliveryInv
<1>12. c \in Unregistering /\ c \in Removing' /\ Handshaking \subseteq missed
  BY <1>3, <1>6, <1>7 DEF IInv, UnregisterInv, Unregistering, Removing
<1>13. listed # NoInfo => Settled(listed)'
  <2>1. CASE i # listed BY <1>1, <1>3, <1>12, <2>1 DEF IInv, UnregisterInv, Settled
  <2>2. CASE i = listed
    <3>1. ASSUME NEW k \in Clients \ missed, client[k].info = listed, client[k].pc # "done"
          PROVE  client[k].pc = "open" /\ client[k].pub \in closed'
      <4>1. client[k].pc = "open"
        BY <1>4, <1>12, <2>2, <3>1, ClientTypes, ConstantsAssumption
        DEF ClientLabels, Handshaking, IInv, FitInv
      <4>2. QED BY <1>2, <1>3, <2>2, <4>1 DEF IInv, RequestInv
    <3>2. QED BY <1>3, <3>1 DEF Settled
  <2>3. QED BY <2>1, <2>2
<1>14. UnregisterInv'
  <2>1. Handshaking' \subseteq missed' BY <1>3, <1>12 DEF Handshaking
  <2>2. Removing' # {} BY <1>12
  <2>3. QED BY <1>3, <1>13, <2>1, <2>2 DEF UnregisterInv
<1>15. RequestInv' BY <1>3, <1>12 DEF IInv, RequestInv, Handshaking
<1>16. QED BY <1>8, <1>9, <1>10, <1>11, <1>14, <1>15 DEF IInv

\* What goes off the list is settled.
LEMMA RemoveSseIInv ==
  ASSUME IInv, NEW c \in Callers, RemoveSse(c)
  PROVE  IInv'
<1>1. /\ call[c].pc = "remove" /\ listed' = NoInfo /\ call' = [call EXCEPT ![c] = NoCall]
      /\ UNCHANGED <<publisher, closed, lock, client, buffer, sent, start, received, broken, missed>>
  BY DEF RemoveSse, history
<1>2. /\ call' \in [Callers -> CallRecords] /\ call'[c] = NoCall
      /\ \A d \in Callers \ {c} : call'[d] = call[d]
  BY <1>1, NoCallRecord, CallGoes DEF IInv
<1>3. TypeOK' BY <1>1, <1>2 DEF IInv, TypeOK
<1>4. FitInv' BY <1>1, <1>2, NoCallRecord DEF IInv, FitInv
<1>5. \A d \in Callers : call'[d].pc = "offer" => d # c /\ call'[d] = call[d]
  BY <1>2, NoCallRecord
<1>6. OfferInv' BY <1>1, <1>5 DEF IInv, OfferInv
<1>7. DeliveryInv'
  <2>1. \A d \in Callers, k \in Clients : Offering(d, k)' <=> Offering(d, k)
    BY <1>1, <1>2, NoCallRecord DEF Offering
  <2>2. QED BY <1>1, <2>1 DEF IInv, DeliveryInv
<1>8. c \in Unregistering /\ c \in Removing /\ Handshaking \subseteq missed
  BY <1>1 DEF IInv, UnregisterInv, Unregistering, Removing
<1>9. UnregisterInv'
  <2>1. Handshaking' \subseteq missed' BY <1>1, <1>8 DEF Handshaking
  <2>2. QED BY <1>1, <2>1 DEF UnregisterInv
<1>10. RequestInv'
  <2>1. ASSUME NEW k \in Clients \ missed
        PROVE  /\ client[k].pc \notin {"getPublisher", "check", "subscribe", "replace"}
               /\ client[k].pc = "open" => client[k].pub \in closed
    <3>1. client[k].pc \notin {"getPublisher", "check", "subscribe", "replace"}
      BY <1>8 DEF Handshaking
    <3>2. ASSUME client[k].pc = "open", client[k].pub \notin closed PROVE FALSE
      <4>1. client[k].info = listed /\ listed # NoInfo BY <3>2 DEF IInv, RequestInv, FitInv
      <4>2. QED BY <1>8, <3>2, <4>1 DEF IInv, UnregisterInv, Settled
    <3>3. QED BY <3>1, <3>2
  <2>2. QED BY <1>1, <2>1 DEF RequestInv
<1>11. QED BY <1>3, <1>4, <1>6, <1>7, <1>9, <1>10 DEF IInv

-----------------------------------------------------------------------------
(* Publication.                                                            *)

\* A step of ssePublisher leaves the list and the handshakes alone.
LEMMA PublishingStep ==
  ASSUME IInv, NEW c \in Callers, UNCHANGED <<listed, publisher, closed, client, missed>>,
         call[c].pc \notin {"close", "remove"}, call'[c].pc \notin {"close", "remove"},
         \A d \in Callers \ {c} : call'[d] = call[d]
  PROVE  UnregisterInv' /\ RequestInv'
<1>1. \A d \in Callers : /\ d \in Unregistering' <=> d \in Unregistering
                         /\ d \in Removing' <=> d \in Removing
                         /\ d \in Unregistering => call'[d] = call[d]
  BY DEF Unregistering, Removing
<1>2. Unregistering' = Unregistering /\ Removing' = Removing
  BY <1>1 DEF Unregistering, Removing
<1>3. Handshaking' = Handshaking /\ \A i : Settled(i) => Settled(i)' BY DEF Handshaking, Settled
<1>4. UnregisterInv' BY <1>1, <1>2, <1>3 DEF IInv, UnregisterInv, Unregistering
<1>5. RequestInv' BY DEF IInv, RequestInv
<1>6. QED BY <1>4, <1>5

\* The publisher is looked up before the submit.
LEMMA PublishIInv ==
  ASSUME IInv, NEW c \in Callers, NEW e \in Events, Publish(c, e)
  PROVE  IInv'
<1>1. PICK p : p = publisher[listed] OBVIOUS
<1>2. PICK r : r = [NoCall EXCEPT !.pc = "submit", !.event = e, !.pub = p] OBVIOUS
<1>3. /\ call[c].pc = "idle" /\ p \in Publishers
      /\ UNCHANGED <<listed, publisher, closed, lock, client, buffer, sent, start, received, broken, missed>>
  BY <1>1 DEF Publish, broker, history, IInv, TypeOK
<1>4. /\ r \in CallRecords /\ r.pc = "submit" /\ r.event = e /\ r.pub = p
      /\ call' = [call EXCEPT ![c] = r]
  BY <1>1, <1>2, <1>3, NoCallRecord DEF Publish, CallRecords, CallLabels
<1>5. /\ call' \in [Callers -> CallRecords] /\ call'[c] = r
      /\ \A d \in Callers \ {c} : call'[d] = call[d]
  BY <1>4, CallGoes DEF IInv
<1>6. TypeOK' BY <1>3, <1>5 DEF IInv, TypeOK
<1>7. FitInv' BY <1>3, <1>4, <1>5, ConstantsAssumption DEF IInv, FitInv
<1>8. \A d \in Callers : call'[d].pc = "offer" => d # c /\ call'[d] = call[d] BY <1>4, <1>5
<1>9. OfferInv' BY <1>3, <1>8 DEF IInv, OfferInv
<1>10. DeliveryInv'
  <2>1. \A d \in Callers, k \in Clients : Offering(d, k)' <=> Offering(d, k)
    BY <1>3, <1>4, <1>5 DEF Offering
  <2>2. QED BY <1>3, <2>1 DEF IInv, DeliveryInv
<1>11. UnregisterInv' /\ RequestInv' BY <1>3, <1>4, <1>5, PublishingStep
<1>12. QED BY <1>6, <1>7, <1>9, <1>10, <1>11 DEF IInv

\* The sequences of a connection and of its publisher.
LEMMA Sequences ==
  ASSUME TypeOK, NEW k \in Clients, client[k].pub # NoPublisher
  PROVE  /\ received[k] \in Seq(Events \cup {NoEvent}) /\ Len(received[k]) \in Nat
         /\ buffer[k] \in Seq(Events) /\ Len(buffer[k]) \in Nat
         /\ start[k] \in Nat
         /\ client[k].pub \in Publishers
         /\ sent[client[k].pub] \in Seq(Events) /\ Len(sent[client[k].pub]) \in Nat
<1>1. client[k].pub \in Publishers BY ClientTypes
<1>2. QED BY <1>1 DEF TypeOK

\* One caller at a time offers events of a publisher.
LEMMA OneOffers ==
  ASSUME IInv, NEW c \in Callers, NEW k \in Clients, Offering(c, k)
  PROVE  lock[client[k].pub] = c /\ client[k].pub = call[c].pub
  BY DEF IInv, OfferInv, Offering

\* A submit waits until no other offers events of the publisher, and then begins
\* to offer its event to every connection.
LEMMA SubmitIInv ==
  ASSUME IInv, NEW c \in Callers, Submit(c)
  PROVE  IInv'
<1>1. PICK p, e : p = call[c].pub /\ e = call[c].event OBVIOUS
<1>2. /\ call[c].pc = "submit" /\ lock[p] = NoCaller
      /\ UNCHANGED <<listed, publisher, closed, client, buffer, start, received, broken, missed>>
  BY <1>1 DEF Submit, broker
<1>3. p \in Publishers /\ e \in Events
  BY <1>1, <1>2, CallTypes DEF IInv, FitInv
<1>4. CASE call' = [call EXCEPT ![c] = NoCall] /\ UNCHANGED <<lock, sent>>
  <2>1. /\ call' \in [Callers -> CallRecords] /\ call'[c] = NoCall
        /\ \A d \in Callers \ {c} : call'[d] = call[d]
    BY <1>4, NoCallRecord, CallGoes DEF IInv
  <2>2. TypeOK' BY <1>2, <1>4, <2>1 DEF IInv, TypeOK
  <2>3. FitInv' BY <1>2, <1>4, <2>1, NoCallRecord DEF IInv, FitInv
  <2>4. \A d \in Callers : call'[d].pc = "offer" => d # c /\ call'[d] = call[d]
    BY <2>1, NoCallRecord
  <2>5. OfferInv' BY <1>2, <1>4, <2>4 DEF IInv, OfferInv
  <2>6. DeliveryInv'
    <3>1. \A d \in Callers, k \in Clients : Offering(d, k)' <=> Offering(d, k)
      BY <1>2, <2>1, NoCallRecord DEF Offering
    <3>2. QED BY <1>2, <1>4, <3>1 DEF IInv, DeliveryInv
  <2>7. UnregisterInv' /\ RequestInv' BY <1>2, <2>1, NoCallRecord, PublishingStep
  <2>8. QED BY <2>2, <2>3, <2>5, <2>6, <2>7 DEF IInv
<1>5. CASE /\ p \notin closed
           /\ lock' = [lock EXCEPT ![p] = c]
           /\ sent' = [sent EXCEPT ![p] = Append(@, e)]
           /\ call' = [call EXCEPT ![c].pc = "offer", ![c].todo = Subscribers(p)]
  <2>1. PICK r : r = [call[c] EXCEPT !.pc = "offer", !.todo = Subscribers(p)] OBVIOUS
  <2>2. /\ r \in CallRecords /\ r.pc = "offer" /\ r.pub = p /\ r.event = e /\ r.todo = Subscribers(p)
        /\ call' = [call EXCEPT ![c] = r]
    BY <1>1, <1>5, <2>1, CallTypes DEF IInv, TypeOK, CallRecords, CallLabels, Subscribers
  <2>3. /\ call' \in [Callers -> CallRecords] /\ call'[c] = r
        /\ \A d \in Callers \ {c} : call'[d] = call[d]
    BY <2>2, CallGoes DEF IInv
  <2>4. /\ lock'[p] = c /\ \A q \in Publishers \ {p} : lock'[q] = lock[q] /\ sent'[q] = sent[q]
        /\ sent' \in [Publishers -> Seq(Events)] /\ sent[p] \in Seq(Events)
        /\ sent'[p] = Append(sent[p], e)
    BY <1>3, <1>5 DEF IInv, TypeOK
  <2>5. /\ Len(sent[p]) \in Nat /\ Len(sent'[p]) = Len(sent[p]) + 1 /\ sent'[p] # <<>>
        /\ sent'[p][Len(sent[p]) + 1] = e
        /\ \A n \in 1..Len(sent[p]) : sent'[p][n] = sent[p][n]
    BY <1>3, <2>4
  <2>6. TypeOK' BY <1>2, <1>3, <1>5, <2>3, <2>4 DEF IInv, TypeOK
  <2>7. FitInv' BY <1>2, <1>3, <2>2, <2>3, ConstantsAssumption DEF IInv, FitInv
  <2>8. \A d \in Callers, k \in Clients : Offering(d, k) => client[k].pub # p /\ d # c
    BY <1>2, OneOffers, ConstantsAssumption DEF Offering
  <2>9. OfferInv'
    <3> SUFFICES ASSUME NEW d \in Callers, call'[d].pc = "offer"
                 PROVE  /\ lock'[call'[d].pub] = d
                        /\ call'[d].pub \notin closed
                        /\ sent'[call'[d].pub] # <<>>
                        /\ sent'[call'[d].pub][Len(sent'[call'[d].pub])] = call'[d].event
                        /\ \A k \in call'[d].todo :
                               client[k].pub = call'[d].pub /\ client[k].pc \in {"open", "done"}
      BY <1>2 DEF OfferInv
    <3>1. CASE d = c BY <1>5, <2>2, <2>3, <2>4, <2>5, <3>1 DEF Subscribers
    <3>2. CASE d # c
      <4>1. call'[d] = call[d] BY <2>3, <3>2
      <4>2. call[d].pub \in Publishers \ {p}
        BY <1>2, <4>1, CallTypes, ConstantsAssumption DEF IInv, FitInv, OfferInv
      <4>3. lock'[call[d].pub] = lock[call[d].pub] /\ sent'[call[d].pub] = sent[call[d].pub]
        BY <2>4, <4>2
      <4>4. QED BY <4>1, <4>3 DEF IInv, OfferInv
    <3>3. QED BY <3>1, <3>2
  <2>10. DeliveryInv'
    <3> SUFFICES ASSUME NEW k \in Clients, client[k].pc = "open"
                 PROVE  /\ start[k] + Len(received[k]) + Len(buffer[k])
                             + (IF \E d \in Callers : Offering(d, k)' THEN 1 ELSE 0) = Len(sent'[client[k].pub])
                        /\ \A n \in 1..Len(received[k]) : received[k][n] \in {sent'[client[k].pub][start[k] + n], NoEvent}
                        /\ \A n \in 1..Len(buffer[k]) :
                              buffer[k][n] = sent'[client[k].pub][start[k] + Len(received[k]) + n]
      BY <1>2 DEF DeliveryInv
    <3>1. client[k].pub # NoPublisher BY DEF IInv, FitInv
    <3>2. CASE client[k].pub = p
      <4>1. Offering(c, k)' BY <2>2, <2>3, <3>2 DEF Offering, Subscribers
      <4>2. ~ \E d \in Callers : Offering(d, k) BY <2>8, <3>2
      <4>3. start[k] + Len(received[k]) + Len(buffer[k]) = Len(sent[p])
        BY <3>1, <3>2, <4>2, Sequences DEF IInv, DeliveryInv
      <4>4. \A n \in 1..Len(received[k]) : start[k] + n \in 1..Len(sent[p])
        BY <3>1, <4>3, Sequences DEF IInv
      <4>5. \A n \in 1..Len(buffer[k]) : start[k] + Len(received[k]) + n \in 1..Len(sent[p])
        BY <3>1, <4>3, Sequences DEF IInv
      <4>6. /\ \A n \in 1..Len(received[k]) : received[k][n] \in {sent[p][start[k] + n], NoEvent}
            /\ \A n \in 1..Len(buffer[k]) : buffer[k][n] = sent[p][start[k] + Len(received[k]) + n]
        BY <3>2 DEF IInv, DeliveryInv
      <4>7. start[k] + Len(received[k]) + Len(buffer[k]) + 1 = Len(sent'[p])
        BY <2>5, <3>1, <4>3, Sequences DEF IInv
      <4>8. QED BY <2>5, <3>2, <4>1, <4>4, <4>5, <4>6, <4>7
    <3>3. CASE client[k].pub # p
      <4>1. sent'[client[k].pub] = sent[client[k].pub] BY <2>4, <3>1, <3>3, Sequences DEF IInv
      <4>2. \A d \in Callers : Offering(d, k)' <=> Offering(d, k)
        BY <1>2, <2>2, <2>3, <2>8, <3>3 DEF Offering, Subscribers
      <4>3. QED BY <4>1, <4>2 DEF IInv, DeliveryInv
    <3>4. QED BY <3>2, <3>3
  <2>11. UnregisterInv' /\ RequestInv' BY <1>2, <2>2, <2>3, PublishingStep
  <2>12. QED BY <2>6, <2>7, <2>9, <2>10, <2>11 DEF IInv
<1>6. QED BY <1>1, <1>4, <1>5 DEF Submit

\* An offered event joins the end of the buffer, or is left out for a connection
\* that has ended.
LEMMA OfferIInv ==
  ASSUME IInv, NEW c \in Callers, NEW k \in Clients, Offer(c, k)
  PROVE  IInv'
<1>1. PICK p, e : p = call[c].pub /\ e = call[c].event OBVIOUS
<1>2. /\ Offering(c, k) /\ call[c].pc = "offer"
      /\ UNCHANGED <<listed, publisher, closed, lock, client, sent, start, received, broken, missed>>
  BY <1>1 DEF Offer, Offering, broker, history
<1>3. p \in Publishers /\ e \in Events
  BY <1>1, <1>2, CallTypes DEF IInv, FitInv
<1>4. PICK r : r = [call[c] EXCEPT !.todo = @ \ {k}] OBVIOUS
<1>5. /\ r \in CallRecords /\ r.pc = "offer" /\ r.pub = p /\ r.event = e /\ r.todo = call[c].todo \ {k}
      /\ call' = [call EXCEPT ![c] = r]
  BY <1>1, <1>2, <1>4, CallTypes DEF Offer, IInv, TypeOK, CallRecords, CallLabels
<1>6. /\ call' \in [Callers -> CallRecords] /\ call'[c] = r
      /\ \A d \in Callers \ {c} : call'[d] = call[d]
  BY <1>5, CallGoes DEF IInv
<1>7. \A d \in Callers : ~Offering(d, k)'
  BY <1>2, <1>5, <1>6, OneOffers DEF Offering
<1>8. \A d \in Callers, j \in Clients \ {k} : Offering(d, j)' <=> Offering(d, j)
  BY <1>2, <1>5, <1>6 DEF Offering
<1>9. OfferInv'
  <2> SUFFICES ASSUME NEW d \in Callers, call'[d].pc = "offer"
               PROVE  /\ lock[call'[d].pub] = d
                      /\ call'[d].pub \notin closed
                      /\ sent[call'[d].pub] # <<>>
                      /\ sent[call'[d].pub][Len(sent[call'[d].pub])] = call'[d].event
                      /\ \A j \in call'[d].todo :
                             client[j].pub = call'[d].pub /\ client[j].pc \in {"open", "done"}
    BY <1>2 DEF OfferInv
  <2>1. CASE d = c BY <1>1, <1>2, <1>5, <1>6, <2>1 DEF IInv, OfferInv
  <2>2. CASE d # c BY <1>6, <2>2 DEF IInv, OfferInv
  <2>3. QED BY <2>1, <2>2
<1>10. UnregisterInv' /\ RequestInv' BY <1>2, <1>5, <1>6, PublishingStep
<1>11. CASE client[k].pc = "done" /\ UNCHANGED buffer
  <2>1. TypeOK' BY <1>2, <1>6, <1>11 DEF IInv, TypeOK
  <2>2. FitInv' BY <1>2, <1>3, <1>5, <1>6, <1>11, ConstantsAssumption DEF IInv, FitInv
  <2>3. DeliveryInv' BY <1>2, <1>8, <1>11 DEF IInv, DeliveryInv
  <2>4. QED BY <1>9, <1>10, <2>1, <2>2, <2>3 DEF IInv
<1>12. CASE /\ client[k].pc = "open" /\ Len(buffer[k]) < Capacity
            /\ buffer' = [buffer EXCEPT ![k] = Append(@, e)]
  <2>1. /\ client[k].pub = p /\ sent[p][Len(sent[p])] = e
    BY <1>1, <1>2 DEF IInv, OfferInv, Offering
  <2>2. /\ received[k] \in Seq(Events \cup {NoEvent}) /\ Len(received[k]) \in Nat
        /\ buffer[k] \in Seq(Events) /\ Len(buffer[k]) \in Nat /\ start[k] \in Nat
        /\ sent[p] \in Seq(Events) /\ Len(sent[p]) \in Nat
    BY <1>3, <2>1, Sequences, ConstantsAssumption DEF IInv
  <2>3. /\ buffer'[k] = Append(buffer[k], e) /\ \A j \in Clients \ {k} : buffer'[j] = buffer[j]
        /\ buffer' \in [Clients -> Seq(Events)]
    BY <1>3, <1>12, <2>2 DEF IInv, TypeOK
  <2>4. /\ Len(buffer'[k]) = Len(buffer[k]) + 1 /\ buffer'[k][Len(buffer[k]) + 1] = e
        /\ \A n \in 1..Len(buffer[k]) : buffer'[k][n] = buffer[k][n]
    BY <1>3, <2>2, <2>3
  <2>5. TypeOK'
    <3>1. \A j \in Clients : Len(buffer'[j]) <= Capacity
      BY <1>12, <2>2, <2>3, <2>4, ConstantsAssumption DEF IInv, TypeOK
    <3>2. QED BY <1>2, <1>6, <2>3, <3>1 DEF IInv, TypeOK
  <2>6. FitInv' BY <1>2, <1>3, <1>5, <1>6, <1>12, <2>3, ConstantsAssumption DEF IInv, FitInv
  <2>7. start[k] + Len(received[k]) + Len(buffer[k]) + 1 = Len(sent[p])
    BY <1>2, <1>12, <2>1, <2>2 DEF IInv, DeliveryInv
  <2>8. ASSUME NEW n \in 1..Len(buffer'[k])
        PROVE  buffer'[k][n] = sent[p][start[k] + Len(received[k]) + n]
    <3>1. CASE n \in 1..Len(buffer[k])
      BY <1>12, <2>1, <2>4, <3>1 DEF IInv, DeliveryInv
    <3>2. CASE n = Len(buffer[k]) + 1
      <4>0. PICK s \in Nat, a \in Nat, b \in Nat :
              s = start[k] /\ a = Len(received[k]) /\ b = Len(buffer[k])
        BY <2>2
      <4>1. start[k] + Len(received[k]) + n = Len(sent[p])
        <5>1. s + a + b + 1 = Len(sent[p]) /\ n = b + 1 BY <2>7, <3>2, <4>0
        <5>2. s + a + n = s + a + b + 1 BY <5>1
        <5>3. QED BY <4>0, <5>1, <5>2
      <4>2. QED BY <2>1, <2>4, <3>2, <4>1
    <3>3. QED BY <2>2, <2>4, <3>1, <3>2
  <2>9. DeliveryInv'
    <3> SUFFICES ASSUME NEW j \in Clients, client[j].pc = "open"
                 PROVE  /\ start[j] + Len(received[j]) + Len(buffer'[j])
                             + (IF \E d \in Callers : Offering(d, j)' THEN 1 ELSE 0) = Len(sent[client[j].pub])
                        /\ \A n \in 1..Len(received[j]) : received[j][n] \in {sent[client[j].pub][start[j] + n], NoEvent}
                        /\ \A n \in 1..Len(buffer'[j]) :
                              buffer'[j][n] = sent[client[j].pub][start[j] + Len(received[j]) + n]
      BY <1>2 DEF DeliveryInv
    <3>1. CASE j # k BY <1>8, <2>3, <3>1 DEF IInv, DeliveryInv
    <3>2. CASE j = k
      <4>0. PICK s \in Nat, a \in Nat, b \in Nat :
              s = start[k] /\ a = Len(received[k]) /\ b = Len(buffer[k])
        BY <2>2
      <4>1. start[k] + Len(received[k]) + Len(buffer'[k]) = Len(sent[p])
        <5>1. s + a + b + 1 = Len(sent[p]) /\ Len(buffer'[k]) = b + 1 BY <2>4, <2>7, <4>0
        <5>2. s + a + (b + 1) = s + a + b + 1 OBVIOUS
        <5>3. QED BY <4>0, <5>1, <5>2
      <4>2. start[k] + Len(received[k]) + Len(buffer'[k]) + 0 = Len(sent[p]) BY <2>2, <2>4, <4>1
      <4>3. \A n \in 1..Len(received[k]) : received[k][n] \in {sent[p][start[k] + n], NoEvent}
        BY <1>12, <2>1 DEF IInv, DeliveryInv
      <4>4. QED BY <1>7, <2>1, <2>8, <3>2, <4>2, <4>3
    <3>3. QED BY <3>1, <3>2
  <2>10. QED BY <1>9, <1>10, <2>5, <2>6, <2>9 DEF IInv
<1>13. QED BY <1>1, <1>11, <1>12 DEF Offer

\* The event has been offered to every connection when the lock is released.
LEMMA SubmitReturnsIInv ==
  ASSUME IInv, NEW c \in Callers, SubmitReturns(c)
  PROVE  IInv'
<1>1. /\ call[c].pc = "offer" /\ call[c].todo = {}
      /\ lock' = [lock EXCEPT ![call[c].pub] = NoCaller] /\ call' = [call EXCEPT ![c] = NoCall]
      /\ UNCHANGED <<listed, publisher, closed, client, buffer, sent, start, received, broken, missed>>
  BY DEF SubmitReturns, broker, history
<1>2. /\ call' \in [Callers -> CallRecords] /\ call'[c] = NoCall
      /\ \A d \in Callers \ {c} : call'[d] = call[d]
  BY <1>1, NoCallRecord, CallGoes DEF IInv
<1>3. TypeOK' BY <1>1, <1>2 DEF IInv, TypeOK
<1>4. FitInv' BY <1>1, <1>2, NoCallRecord DEF IInv, FitInv
<1>5. \A d \in Callers : call'[d].pc = "offer" => d # c /\ call'[d] = call[d]
  BY <1>2, NoCallRecord
<1>6. OfferInv'
  <2> SUFFICES ASSUME NEW d \in Callers, call'[d].pc = "offer"
               PROVE  /\ lock'[call'[d].pub] = d
                      /\ call'[d].pub \notin closed
                      /\ sent[call'[d].pub] # <<>>
                      /\ sent[call'[d].pub][Len(sent[call'[d].pub])] = call'[d].event
                      /\ \A j \in call'[d].todo :
                             client[j].pub = call'[d].pub /\ client[j].pc \in {"open", "done"}
    BY <1>1 DEF OfferInv
  <2>1. call'[d] = call[d] /\ d # c BY <1>5
  <2>2. lock[call[d].pub] = d /\ lock[call[c].pub] = c BY <1>1, <2>1 DEF IInv, OfferInv
  <2>3. call[d].pub \in Publishers BY <2>1, CallTypes DEF IInv, FitInv
  <2>4. lock'[call[d].pub] = d BY <1>1, <2>1, <2>2, <2>3 DEF IInv, TypeOK
  <2>5. QED BY <2>1, <2>4 DEF IInv, OfferInv
<1>7. DeliveryInv'
  <2>1. \A d \in Callers, k \in Clients : Offering(d, k)' <=> Offering(d, k)
    BY <1>1, <1>2, NoCallRecord DEF Offering
  <2>2. QED BY <1>1, <2>1 DEF IInv, DeliveryInv
<1>8. UnregisterInv' /\ RequestInv' BY <1>1, <1>2, NoCallRecord, PublishingStep
<1>9. QED BY <1>3, <1>4, <1>6, <1>7, <1>8 DEF IInv

-----------------------------------------------------------------------------
(* The handshake.                                                          *)

\* A step of a handshake does not touch what is offered.
LEMMA HandshakeOffers ==
  ASSUME IInv, NEW k \in Clients, client[k].pc \notin {"open", "done"},
         \A j \in Clients \ {k} : client'[j] = client[j],
         UNCHANGED <<lock, call, sent, closed>>
  PROVE  OfferInv' /\ \A c \in Callers : ~Offering(c, k)
<1>1. \A c \in Callers : ~Offering(c, k) BY DEF IInv, OfferInv, Offering
<1>2. OfferInv'
  <2> SUFFICES ASSUME NEW d \in Callers, call[d].pc = "offer"
               PROVE  /\ lock[call[d].pub] = d
                      /\ call[d].pub \notin closed
                      /\ sent[call[d].pub] # <<>>
                      /\ sent[call[d].pub][Len(sent[call[d].pub])] = call[d].event
                      /\ \A j \in call[d].todo :
                             client'[j].pub = call[d].pub /\ client'[j].pc \in {"open", "done"}
    BY DEF OfferInv
  <2>1. k \notin call[d].todo /\ call[d].todo \subseteq Clients
    BY <1>1, CallTypes DEF Offering, IInv
  <2>2. QED BY <2>1 DEF IInv, OfferInv
<1>3. QED BY <1>1, <1>2

\* Before it subscribes it does not touch what is delivered either.
LEMMA HandshakeDelivers ==
  ASSUME IInv, NEW k \in Clients, client'[k].pc # "open",
         \A j \in Clients \ {k} : client'[j] = client[j],
         UNCHANGED <<call, sent, buffer, start, received>>
  PROVE  DeliveryInv'
<1>1. \A d \in Callers, j \in Clients : Offering(d, j)' <=> Offering(d, j) BY DEF Offering
<1>2. QED BY <1>1 DEF IInv, DeliveryInv

\* A request that finds the entry while an unregistration is under way has met one.
LEMMA ConnectIInv ==
  ASSUME IInv, NEW k \in Clients, Connect(k)
  PROVE  IInv'
<1>1. PICK label : label = IF listed = NoInfo THEN "done" ELSE "getPublisher" OBVIOUS
<1>2. PICK r : r = [client[k] EXCEPT !.pc = label, !.info = listed] OBVIOUS
<1>3. /\ client[k].pc = "idle"
      /\ missed' = IF Unregistering # {} THEN missed \cup {k} ELSE missed
      /\ UNCHANGED <<listed, publisher, closed, lock, buffer, call, sent, start, received, broken>>
  BY DEF Connect, Unregistering, broker, history
<1>4. /\ r \in ClientRecords /\ r.pc = label /\ r.info = listed
      /\ client' = [client EXCEPT ![k] = r]
  BY <1>1, <1>2, ClientTypes DEF Connect, IInv, TypeOK, ClientRecords, ClientLabels
<1>5. /\ client' \in [Clients -> ClientRecords] /\ client'[k] = r
      /\ \A j \in Clients \ {k} : client'[j] = client[j]
  BY <1>4 DEF IInv, TypeOK
<1>6. TypeOK' BY <1>3, <1>5 DEF IInv, TypeOK
<1>7. FitInv' BY <1>1, <1>3, <1>4, <1>5 DEF IInv, FitInv, TypeOK
<1>8. OfferInv' BY <1>3, <1>5, HandshakeOffers
<1>9. DeliveryInv' BY <1>1, <1>3, <1>4, <1>5, HandshakeDelivers
<1>10. Unregistering' = Unregistering /\ Removing' = Removing BY <1>3 DEF Unregistering, Removing
<1>11. Unregistering # {} => k \in missed' BY <1>3
<1>12. UnregisterInv'
  <2>1. Unregistering # {} => Handshaking' \subseteq missed'
    BY <1>3, <1>5, <1>11 DEF IInv, UnregisterInv, Handshaking
  <2>2. \A i : Settled(i) /\ Unregistering # {} => Settled(i)' BY <1>3, <1>5, <1>11 DEF Settled
  <2>3. Removing \subseteq Unregistering BY DEF Removing, Unregistering
  <2>4. ASSUME NEW j \in Clients, client'[j].info = listed, listed # NoInfo,
               client'[j].pc = "replace" \/ (client'[j].pc = "check" /\ client'[j].pub \in closed)
        PROVE  Removing # {}
    BY <1>1, <1>4, <1>5, <2>4 DEF IInv, UnregisterInv
  <2>5. QED BY <1>3, <1>10, <2>1, <2>2, <2>3, <2>4 DEF IInv, UnregisterInv
<1>13. RequestInv'
  <2> SUFFICES ASSUME NEW j \in Clients \ missed'
               PROVE  /\ client'[j].pc \in {"getPublisher", "check", "subscribe"} => client'[j].info = listed
                      /\ client'[j].pc # "replace"
                      /\ client'[j].pc \in {"check", "subscribe"} =>
                            client'[j].pub = publisher[listed] /\ client'[j].pub \notin closed
                      /\ client'[j].pc = "open" /\ client'[j].pub \notin closed =>
                            client'[j].info = listed /\ client'[j].pub = publisher[listed]
    BY <1>3 DEF RequestInv
  <2>1. CASE j = k BY <1>1, <1>4, <1>5, <2>1
  <2>2. CASE j # k
    <3>1. j \in Clients \ missed /\ client'[j] = client[j] BY <1>3, <1>5, <2>2
    <3>2. QED BY <3>1 DEF IInv, RequestInv
  <2>3. QED BY <2>1, <2>2
<1>14. QED BY <1>6, <1>7, <1>8, <1>9, <1>12, <1>13 DEF IInv

\* Only while a removal is under way does a handshake meet a closed publisher on
\* the list.
LEMMA GetPublisherIInv ==
  ASSUME IInv, NEW k \in Clients, GetPublisher(k)
  PROVE  IInv'
<1>1. PICK i, p : i = client[k].info /\ p = publisher[i] OBVIOUS
<1>2. PICK r : r = [client[k] EXCEPT !.pc = "check", !.pub = p] OBVIOUS
<1>3. /\ client[k].pc = "getPublisher"
      /\ UNCHANGED <<listed, publisher, closed, lock, buffer, call, sent, start, received, broken, missed>>
  BY DEF GetPublisher, broker, history
<1>4. i \in Infos /\ p \in Publishers
  BY <1>1, <1>3, ClientTypes DEF IInv, FitInv, TypeOK
<1>5. /\ r \in ClientRecords /\ r.pc = "check" /\ r.info = i /\ r.pub = p
      /\ client' = [client EXCEPT ![k] = r]
  BY <1>1, <1>2, <1>4, ClientTypes DEF GetPublisher, IInv, TypeOK, ClientRecords, ClientLabels
<1>6. /\ client' \in [Clients -> ClientRecords] /\ client'[k] = r
      /\ \A j \in Clients \ {k} : client'[j] = client[j]
  BY <1>5 DEF IInv, TypeOK
<1>7. TypeOK' BY <1>3, <1>6 DEF IInv, TypeOK
<1>8. FitInv' BY <1>1, <1>3, <1>4, <1>5, <1>6, ConstantsAssumption DEF IInv, FitInv
<1>9. OfferInv' BY <1>3, <1>6, HandshakeOffers
<1>10. DeliveryInv' BY <1>3, <1>5, <1>6, HandshakeDelivers
<1>11. UnregisterInv'
  <2>1. Unregistering' = Unregistering /\ Removing' = Removing BY <1>3 DEF Unregistering, Removing
  <2>2. Handshaking' = Handshaking BY <1>3, <1>5, <1>6 DEF Handshaking
  <2>3. \A h : Settled(h) => Settled(h)' BY <1>1, <1>3, <1>5, <1>6 DEF Settled
  <2>4. ASSUME NEW j \in Clients, client'[j].info = listed, listed # NoInfo,
               client'[j].pc = "replace" \/ (client'[j].pc = "check" /\ client'[j].pub \in closed)
        PROVE  Removing # {}
    <3>1. CASE j = k BY <1>1, <1>5, <1>6, <2>4, <3>1 DEF IInv, UnregisterInv
    <3>2. CASE j # k BY <1>6, <2>4, <3>2 DEF IInv, UnregisterInv
    <3>3. QED BY <3>1, <3>2
  <2>5. QED BY <1>3, <2>1, <2>2, <2>3, <2>4 DEF IInv, UnregisterInv
<1>12. RequestInv'
  <2>1. ASSUME k \notin missed PROVE i = listed /\ p \notin closed
    <3>1. i = listed /\ listed # NoInfo BY <1>1, <1>3, <1>4, <2>1, ConstantsAssumption DEF IInv, RequestInv
    <3>2. Unregistering = {} BY <1>3, <2>1 DEF IInv, UnregisterInv, Handshaking
    <3>3. Removing = {} BY <3>2 DEF Removing, Unregistering
    <3>4. QED BY <1>1, <3>1, <3>3 DEF IInv, UnregisterInv
  <2>2. QED BY <1>1, <1>3, <1>5, <1>6, <2>1 DEF IInv, RequestInv
<1>13. QED BY <1>7, <1>8, <1>9, <1>10, <1>11, <1>12 DEF IInv

\* A closed publisher sends the handshake to its replacement.
LEMMA CheckClosedIInv ==
  ASSUME IInv, NEW k \in Clients, CheckClosed(k)
  PROVE  IInv'
<1>1. PICK label : label = IF client[k].pub \in closed THEN "replace" ELSE "subscribe" OBVIOUS
<1>2. /\ client[k].pc = "check" /\ Goto(k, label) /\ label \in ClientLabels
      /\ UNCHANGED <<listed, publisher, closed, lock, buffer, call, sent, start, received, broken, missed>>
  BY <1>1 DEF CheckClosed, ClientLabels, broker, history
<1>3. /\ client' \in [Clients -> ClientRecords]
      /\ client'[k].pc = label /\ client'[k].info = client[k].info
      /\ client'[k].pub = client[k].pub
      /\ \A j \in Clients \ {k} : client'[j] = client[j]
  BY <1>2, ClientGoes DEF IInv
<1>4. TypeOK' BY <1>2, <1>3 DEF IInv, TypeOK
<1>5. FitInv' BY <1>1, <1>2, <1>3 DEF IInv, FitInv
<1>6. OfferInv' BY <1>2, <1>3, HandshakeOffers
<1>7. DeliveryInv' BY <1>1, <1>2, <1>3, HandshakeDelivers
<1>8. UnregisterInv'
  <2>1. Unregistering' = Unregistering /\ Removing' = Removing BY <1>2 DEF Unregistering, Removing
  <2>2. Handshaking' = Handshaking BY <1>1, <1>2, <1>3 DEF Handshaking
  <2>3. \A h : Settled(h) => Settled(h)' BY <1>2, <1>3 DEF Settled
  <2>4. ASSUME NEW j \in Clients, client'[j].info = listed, listed # NoInfo,
               client'[j].pc = "replace" \/ (client'[j].pc = "check" /\ client'[j].pub \in closed)
        PROVE  Removing # {}
    <3>1. CASE j = k BY <1>1, <1>2, <1>3, <2>4, <3>1 DEF IInv, UnregisterInv
    <3>2. CASE j # k BY <1>3, <2>4, <3>2 DEF IInv, UnregisterInv
    <3>3. QED BY <3>1, <3>2
  <2>5. QED BY <1>2, <2>1, <2>2, <2>3, <2>4 DEF IInv, UnregisterInv
<1>9. RequestInv' BY <1>1, <1>2, <1>3 DEF IInv, RequestInv
<1>10. QED BY <1>4, <1>5, <1>6, <1>7, <1>8, <1>9 DEF IInv

\* The publisher of an entry on the list is replaced only while a removal is under
\* way, when nobody undisturbed waits for its events.
LEMMA ReplaceIInv ==
  ASSUME IInv, NEW k \in Clients, Replace(k)
  PROVE  IInv'
<1>1. PICK i : i = client[k].info OBVIOUS
<1>2. PICK p \in Publishers :
        /\ Unused(p) /\ publisher' = [publisher EXCEPT ![i] = p]
        /\ client' = [client EXCEPT ![k].pc = "subscribe", ![k].pub = p]
  BY <1>1 DEF Replace
<1>3. PICK r : r = [client[k] EXCEPT !.pc = "subscribe", !.pub = p] OBVIOUS
<1>4. /\ client[k].pc = "replace"
      /\ UNCHANGED <<listed, closed, lock, buffer, call, sent, start, received, broken, missed>>
  BY DEF Replace, history
<1>5. i \in Infos /\ p # NoPublisher /\ p \notin closed
  BY <1>1, <1>2, <1>4, ClientTypes, ConstantsAssumption DEF IInv, FitInv, Unused
<1>6. /\ r \in ClientRecords /\ r.pc = "subscribe" /\ r.info = i /\ r.pub = p
      /\ client' = [client EXCEPT ![k] = r]
  BY <1>1, <1>2, <1>3, ClientTypes DEF IInv, TypeOK, ClientRecords, ClientLabels
<1>7. /\ client' \in [Clients -> ClientRecords] /\ client'[k] = r
      /\ \A j \in Clients \ {k} : client'[j] = client[j]
  BY <1>6 DEF IInv, TypeOK
<1>8. publisher'[i] = p /\ \A h \in Infos \ {i} : publisher'[h] = publisher[h]
  BY <1>2, <1>5 DEF IInv, TypeOK
<1>9. TypeOK' BY <1>2, <1>4, <1>5, <1>7, <1>8 DEF IInv, TypeOK
<1>10. FitInv'
  <2>1. \A h \in Infos : publisher[h] # NoPublisher => publisher'[h] # NoPublisher BY <1>5, <1>8
  <2>2. ASSUME NEW j \in Clients
        PROVE  /\ client'[j].pc = "idle" => client'[j].info = NoInfo /\ client'[j].pub = NoPublisher
               /\ client'[j].info # NoInfo => publisher'[client'[j].info] # NoPublisher
               /\ client'[j].pc \notin {"idle", "done"} => client'[j].info # NoInfo
               /\ client'[j].pc \notin {"idle", "done", "getPublisher"} => client'[j].pub # NoPublisher
               /\ client'[j].pc \notin {"open", "done"} => buffer[j] = <<>> /\ received[j] = <<>>
               /\ j \in broken => client'[j].pc = "done"
    <3>1. CASE j = k BY <1>4, <1>5, <1>6, <1>7, <1>8, <3>1, ConstantsAssumption DEF IInv, FitInv
    <3>2. CASE j # k BY <1>7, <2>1, <3>2, ClientTypes DEF IInv, FitInv
    <3>3. QED BY <3>1, <3>2
  <2>3. QED BY <1>4, <2>1, <2>2, CallTypes DEF IInv, FitInv
<1>11. OfferInv' BY <1>4, <1>7, HandshakeOffers
<1>12. DeliveryInv' BY <1>4, <1>6, <1>7, HandshakeDelivers
<1>13. k \in missed BY <1>4 DEF IInv, RequestInv
<1>14. i = listed => Removing # {} /\ Settled(listed) /\ Handshaking \subseteq missed
  <2> SUFFICES ASSUME i = listed PROVE Removing # {} /\ Settled(listed) /\ Handshaking \subseteq missed
    OBVIOUS
  <2>1. Removing # {} BY <1>1, <1>4, <1>5, ConstantsAssumption DEF IInv, UnregisterInv
  <2>2. Unregistering # {} BY <2>1 DEF Removing, Unregistering
  <2>3. QED BY <1>5, <2>1, <2>2, ConstantsAssumption DEF IInv, UnregisterInv
<1>15. UnregisterInv'
  <2>1. Unregistering' = Unregistering /\ Removing' = Removing BY <1>4 DEF Unregistering, Removing
  <2>2. Handshaking' = Handshaking BY <1>4, <1>6, <1>7 DEF Handshaking
  <2>3. \A h : Settled(h) => Settled(h)' BY <1>4, <1>7, <1>13 DEF Settled
  <2>4. ASSUME NEW j \in Clients, client'[j].info = listed, listed # NoInfo,
               client'[j].pc = "replace" \/ (client'[j].pc = "check" /\ client'[j].pub \in closed)
        PROVE  Removing # {}
    BY <1>6, <1>7, <2>4 DEF IInv, UnregisterInv
  <2>5. listed # NoInfo /\ publisher'[listed] \in closed => Removing # {}
    BY <1>5, <1>8 DEF IInv, UnregisterInv, TypeOK
  <2>6. QED BY <1>4, <2>1, <2>2, <2>3, <2>4, <2>5 DEF IInv, UnregisterInv
<1>16. RequestInv'
  <2> SUFFICES ASSUME NEW j \in Clients \ missed
               PROVE  /\ client[j].pc \in {"getPublisher", "check", "subscribe"} => client[j].info = listed
                      /\ client[j].pc # "replace"
                      /\ client[j].pc \in {"check", "subscribe"} =>
                            client[j].pub = publisher'[listed] /\ client[j].pub \notin closed
                      /\ client[j].pc = "open" /\ client[j].pub \notin closed =>
                            client[j].info = listed /\ client[j].pub = publisher'[listed]
    BY <1>4, <1>7, <1>13 DEF RequestInv
  <2>1. CASE i = listed
    <3>1. client[j].pc \notin {"getPublisher", "check", "subscribe", "replace"}
      BY <1>14, <2>1 DEF Handshaking
    <3>2. ~(client[j].pc = "open" /\ client[j].pub \notin closed)
      BY <1>14, <2>1 DEF IInv, RequestInv, Settled
    <3>3. QED BY <3>1, <3>2
  <2>2. CASE i # listed
    <3>1. listed \in Infos => publisher'[listed] = publisher[listed] BY <1>8, <2>2
    <3>2. client[j].pc \in {"check", "subscribe"} \/ (client[j].pc = "open" /\ client[j].pub \notin closed)
            => client[j].info = listed /\ listed \in Infos
      BY ClientTypes DEF IInv, RequestInv, FitInv
    <3>3. QED BY <3>1, <3>2 DEF IInv, RequestInv
  <2>3. QED BY <2>1, <2>2
<1>17. QED BY <1>9, <1>10, <1>11, <1>12, <1>15, <1>16 DEF IInv

\* A connection begins with an empty buffer, between two submits.
LEMMA SubscribeIInv ==
  ASSUME IInv, NEW k \in Clients, Subscribe(k)
  PROVE  IInv'
<1>1. PICK p : p = client[k].pub OBVIOUS
<1>2. PICK label : label = IF p \in closed THEN "done" ELSE "open" OBVIOUS
<1>3. /\ client[k].pc = "subscribe" /\ Goto(k, label) /\ label \in ClientLabels
      /\ start' = [start EXCEPT ![k] = Len(sent[p])]
      /\ UNCHANGED <<listed, publisher, closed, lock, buffer, call, sent, received, broken, missed>>
  BY <1>1, <1>2 DEF Subscribe, ClientLabels, broker
<1>4. /\ client' \in [Clients -> ClientRecords]
      /\ client'[k].pc = label /\ client'[k].info = client[k].info
      /\ client'[k].pub = p
      /\ \A j \in Clients \ {k} : client'[j] = client[j]
  BY <1>1, <1>3, ClientGoes DEF IInv
<1>5. p \in Publishers BY <1>1, <1>3, ClientTypes DEF IInv, FitInv
<1>6. /\ Len(sent[p]) \in Nat /\ start' \in [Clients -> Nat] /\ start'[k] = Len(sent[p])
      /\ \A j \in Clients \ {k} : start'[j] = start[j]
  BY <1>3, <1>5 DEF IInv, TypeOK
<1>7. TypeOK' BY <1>3, <1>4, <1>6 DEF IInv, TypeOK
<1>8. FitInv' BY <1>1, <1>2, <1>3, <1>4 DEF IInv, FitInv
<1>9. OfferInv' /\ \A c \in Callers : ~Offering(c, k) BY <1>3, <1>4, HandshakeOffers
<1>10. DeliveryInv'
  <2> SUFFICES ASSUME NEW j \in Clients, client'[j].pc = "open"
               PROVE  /\ start'[j] + Len(received[j]) + Len(buffer[j])
                           + (IF \E d \in Callers : Offering(d, j) THEN 1 ELSE 0) = Len(sent[client'[j].pub])
                      /\ \A n \in 1..Len(received[j]) : received[j][n] \in {sent[client'[j].pub][start'[j] + n], NoEvent}
                      /\ \A n \in 1..Len(buffer[j]) :
                            buffer[j][n] = sent[client'[j].pub][start'[j] + Len(received[j]) + n]
    BY <1>3 DEF DeliveryInv, Offering
  <2>1. CASE j # k BY <1>4, <1>6, <2>1 DEF IInv, DeliveryInv
  <2>2. CASE j = k
    <3>1. buffer[k] = <<>> /\ received[k] = <<>> BY <1>3 DEF IInv, FitInv
    <3>2. Len(buffer[k]) = 0 /\ Len(received[k]) = 0 BY <3>1
    <3>3. QED BY <1>4, <1>6, <1>9, <2>2, <3>2
  <2>3. QED BY <2>1, <2>2
<1>11. UnregisterInv'
  <2>1. Unregistering' = Unregistering /\ Removing' = Removing BY <1>3 DEF Unregistering, Removing
  <2>2. Handshaking' \subseteq Handshaking /\ k \in Handshaking BY <1>2, <1>3, <1>4 DEF Handshaking
  <2>3. \A h : Settled(h) /\ Unregistering # {} => Settled(h)'
    BY <1>3, <1>4, <2>2 DEF Settled, IInv, UnregisterInv
  <2>4. Removing \subseteq Unregistering BY DEF Removing, Unregistering
  <2>5. ASSUME NEW j \in Clients, client'[j].info = listed, listed # NoInfo,
               client'[j].pc = "replace" \/ (client'[j].pc = "check" /\ client'[j].pub \in closed)
        PROVE  Removing # {}
    BY <1>2, <1>4, <2>5 DEF IInv, UnregisterInv
  <2>6. QED BY <1>3, <2>1, <2>2, <2>3, <2>4, <2>5 DEF IInv, UnregisterInv
<1>12. RequestInv' BY <1>1, <1>2, <1>3, <1>4 DEF IInv, RequestInv
<1>13. QED BY <1>7, <1>8, <1>9, <1>10, <1>11, <1>12 DEF IInv

-----------------------------------------------------------------------------
(* Delivery.                                                               *)

\* The end of a connection settles it.
LEMMA ConnectionEnds ==
  ASSUME IInv, NEW k \in Clients, client[k].pc = "open", Goto(k, "done"),
         UNCHANGED <<listed, publisher, closed, lock, call, sent, start, received, missed>>,
         broken' \subseteq broken \cup {k},
         \A j \in Clients \ {k} : buffer'[j] = buffer[j]
  PROVE  /\ client' \in [Clients -> ClientRecords]
         /\ FitInv' /\ OfferInv' /\ DeliveryInv' /\ UnregisterInv' /\ RequestInv'
<1>1. /\ client' \in [Clients -> ClientRecords]
      /\ client'[k].pc = "done" /\ client'[k].info = client[k].info
      /\ client'[k].pub = client[k].pub
      /\ \A j \in Clients \ {k} : client'[j] = client[j]
  BY ClientGoes DEF IInv, ClientLabels
<1>2. FitInv' BY <1>1 DEF IInv, FitInv
<1>3. OfferInv'
  <2> SUFFICES ASSUME NEW d \in Callers, call[d].pc = "offer"
               PROVE  /\ lock[call[d].pub] = d
                      /\ call[d].pub \notin closed
                      /\ sent[call[d].pub] # <<>>
                      /\ sent[call[d].pub][Len(sent[call[d].pub])] = call[d].event
                      /\ \A j \in call[d].todo :
                             client'[j].pub = call[d].pub /\ client'[j].pc \in {"open", "done"}
    BY DEF OfferInv
  <2>1. call[d].todo \subseteq Clients BY CallTypes DEF IInv
  <2>2. QED BY <1>1, <2>1 DEF IInv, OfferInv
<1>4. DeliveryInv'
  <2>1. \A d \in Callers, j \in Clients : Offering(d, j)' <=> Offering(d, j) BY DEF Offering
  <2>2. \A j \in Clients : client'[j].pc = "open" =>
           client[j].pc = "open" /\ client'[j] = client[j] /\ buffer'[j] = buffer[j]
    BY <1>1
  <2>3. DeliveryInv BY DEF IInv
  <2>4. start' = start /\ received' = received /\ sent' = sent OBVIOUS
  <2>5. QED BY <2>1, <2>2, <2>3, <2>4 DEF DeliveryInv
<1>5. UnregisterInv'
  <2>1. Unregistering' = Unregistering /\ Removing' = Removing BY DEF Unregistering, Removing
  <2>2. Handshaking' \subseteq Handshaking BY <1>1 DEF Handshaking
  <2>3. \A h : Settled(h) => Settled(h)' BY <1>1 DEF Settled
  <2>4. ASSUME NEW j \in Clients, client'[j].info = listed, listed # NoInfo,
               client'[j].pc = "replace" \/ (client'[j].pc = "check" /\ client'[j].pub \in closed)
        PROVE  Removing # {}
    BY <1>1, <2>4 DEF IInv, UnregisterInv
  <2>5. QED BY <2>1, <2>2, <2>3, <2>4 DEF IInv, UnregisterInv
<1>6. RequestInv' BY <1>1 DEF IInv, RequestInv
<1>7. QED BY <1>1, <1>2, <1>3, <1>4, <1>5, <1>6

\* onNext takes the first event of the buffer, or nothing if its write fails, to
\* the end of what was handed over; an exception ends the connection.
LEMMA OnNextIInv ==
  ASSUME IInv, NEW k \in Clients, OnNext(k)
  PROVE  IInv'
<1>1. /\ client[k].pc = "open" /\ buffer[k] # <<>> /\ client[k].pub # NoPublisher
      /\ UNCHANGED <<listed, publisher, closed, lock, call, sent, start, missed>>
  BY DEF OnNext, broker, IInv, FitInv
<1>2. PICK p : p = client[k].pub OBVIOUS
<1>3. PICK a, b, s : a = received[k] /\ b = buffer[k] /\ s = start[k] OBVIOUS
<1>4. /\ a \in Seq(Events \cup {NoEvent}) /\ b \in Seq(Events) /\ b # <<>> /\ s \in Nat
      /\ p \in Publishers /\ sent[p] \in Seq(Events) /\ Len(sent[p]) \in Nat
  BY <1>1, <1>2, <1>3, Sequences DEF IInv
<1>5. CASE /\ Goto(k, "done") /\ buffer' = [buffer EXCEPT ![k] = <<>>]
           /\ broken' = broken \cup {k} /\ UNCHANGED received
  <2>1. /\ buffer' \in [Clients -> Seq(Events)] /\ buffer'[k] = <<>>
        /\ \A j \in Clients \ {k} : buffer'[j] = buffer[j]
    BY <1>5 DEF IInv, TypeOK
  <2>2. /\ client' \in [Clients -> ClientRecords]
        /\ FitInv' /\ OfferInv' /\ DeliveryInv' /\ UnregisterInv' /\ RequestInv'
    BY <1>1, <1>5, <2>1, ConnectionEnds
  <2>3. \A j \in Clients : Len(buffer'[j]) <= Capacity BY <2>1, ConstantsAssumption DEF IInv, TypeOK
  <2>4. TypeOK' BY <1>1, <1>5, <2>1, <2>2, <2>3 DEF IInv, TypeOK
  <2>5. QED BY <2>2, <2>4 DEF IInv
<1>6. ASSUME NEW h \in {Head(b), NoEvent},
             received' = [received EXCEPT ![k] = Append(@, h)],
             buffer' = [buffer EXCEPT ![k] = Tail(@)],
             UNCHANGED <<client, broken>>
      PROVE  IInv'
  <2>1. /\ Head(b) = b[1] /\ Head(b) \in Events /\ Tail(b) \in Seq(Events)
        /\ Len(b) \in Nat \ {0} /\ Len(Tail(b)) = Len(b) - 1
        /\ \A n \in 1..Len(Tail(b)) : Tail(b)[n] = b[n + 1]
    BY <1>4
  <2>2. PICK t : t = Tail(b) OBVIOUS
  <2>3. /\ buffer'[k] = t /\ received'[k] = Append(a, h)
        /\ buffer' \in [Clients -> Seq(Events)] /\ received' \in [Clients -> Seq(Events \cup {NoEvent})]
        /\ \A j \in Clients \ {k} : buffer'[j] = buffer[j] /\ received'[j] = received[j]
    BY <1>3, <1>4, <1>6, <2>1, <2>2 DEF IInv, TypeOK
  <2>4. /\ Len(a) \in Nat /\ Len(received'[k]) = Len(a) + 1 /\ received'[k][Len(a) + 1] = h
        /\ \A n \in 1..Len(a) : received'[k][n] = a[n]
    <3>1. PICK e \in Events \cup {NoEvent} : e = h BY <1>6, <2>1
    <3>2. Len(Append(a, e)) = Len(a) + 1 /\ Append(a, e)[Len(a) + 1] = e BY <1>4
    <3>3. \A n \in 1..Len(a) : Append(a, e)[n] = a[n] BY <1>4
    <3>4. QED BY <1>4, <2>3, <3>1, <3>2, <3>3
  <2>5. TypeOK'
    <3>1. Len(t) <= Capacity BY <1>3, <2>1, <2>2, ConstantsAssumption DEF IInv, TypeOK
    <3>2. \A j \in Clients : Len(buffer'[j]) <= Capacity BY <2>3, <3>1 DEF IInv, TypeOK
    <3>3. QED BY <1>1, <1>6, <2>3, <3>2 DEF IInv, TypeOK
  <2>6. FitInv' BY <1>1, <1>6, <2>3 DEF IInv, FitInv
  <2>7. OfferInv' BY <1>1, <1>6 DEF IInv, OfferInv
  <2>8. /\ \A d \in Callers, j \in Clients : Offering(d, j)' <=> Offering(d, j)
        /\ s + Len(a) + Len(b) + (IF \E d \in Callers : Offering(d, k) THEN 1 ELSE 0) = Len(sent[p])
        /\ \A n \in 1..Len(a) : a[n] \in {sent[p][s + n], NoEvent}
        /\ \A n \in 1..Len(b) : b[n] = sent[p][s + Len(a) + n]
    BY <1>1, <1>2, <1>3 DEF IInv, DeliveryInv, Offering
  <2>9. PICK o \in Nat : o = IF \E d \in Callers : Offering(d, k) THEN 1 ELSE 0 OBVIOUS
  <2>10. s + Len(received'[k]) + Len(t) + o = Len(sent[p])
    <3>1. PICK x \in Nat, y \in Nat : x = Len(a) /\ y = Len(b) BY <2>1, <2>4
    <3>2. s + x + y + o = Len(sent[p]) BY <2>8, <2>9, <3>1
    <3>3. Len(received'[k]) = x + 1 /\ Len(t) = y - 1 BY <2>1, <2>2, <2>4, <3>1
    <3>4. s + (x + 1) + (y - 1) + o = s + x + y + o BY <1>4, <3>1
    <3>5. QED BY <3>2, <3>3, <3>4
  <2>11. ASSUME NEW n \in 1..Len(received'[k]) PROVE received'[k][n] \in {sent[p][s + n], NoEvent}
    <3>1. CASE n \in 1..Len(a) BY <2>4, <2>8, <3>1
    <3>2. CASE n = Len(a) + 1
      <4>1. 1 \in 1..Len(b) BY <2>1
      <4>2. s + Len(a) + 1 = s + n BY <1>4, <2>4, <3>2
      <4>3. h \in {sent[p][s + n], NoEvent} BY <1>6, <2>1, <2>2, <2>8, <4>1, <4>2
      <4>4. QED BY <2>4, <3>2, <4>3
    <3>3. QED BY <2>4, <3>1, <3>2
  <2>12. ASSUME NEW n \in 1..Len(t) PROVE t[n] = sent[p][s + Len(received'[k]) + n]
    <3>1. n + 1 \in 1..Len(b) /\ t[n] = b[n + 1] BY <2>1, <2>2
    <3>2. s + Len(a) + (n + 1) = s + Len(received'[k]) + n
      <4>1. PICK x \in Nat : x = Len(a) BY <2>4
      <4>2. s + x + (n + 1) = s + (x + 1) + n BY <1>4, <2>1, <2>2
      <4>3. QED BY <2>4, <4>1, <4>2
    <3>3. QED BY <2>8, <3>1, <3>2
  <2>13. DeliveryInv'
    <3> SUFFICES ASSUME NEW j \in Clients, client[j].pc = "open"
                 PROVE  /\ start[j] + Len(received'[j]) + Len(buffer'[j])
                             + (IF \E d \in Callers : Offering(d, j) THEN 1 ELSE 0) = Len(sent[client[j].pub])
                        /\ \A n \in 1..Len(received'[j]) : received'[j][n] \in {sent[client[j].pub][start[j] + n], NoEvent}
                        /\ \A n \in 1..Len(buffer'[j]) :
                              buffer'[j][n] = sent[client[j].pub][start[j] + Len(received'[j]) + n]
      BY <1>1, <1>6, <2>8 DEF DeliveryInv
    <3>1. CASE j # k
      <4>1. buffer'[j] = buffer[j] /\ received'[j] = received[j] BY <2>3, <3>1
      <4>2. /\ start[j] + Len(received[j]) + Len(buffer[j])
                 + (IF \E d \in Callers : Offering(d, j) THEN 1 ELSE 0) = Len(sent[client[j].pub])
            /\ \A n \in 1..Len(received[j]) : received[j][n] \in {sent[client[j].pub][start[j] + n], NoEvent}
            /\ \A n \in 1..Len(buffer[j]) :
                  buffer[j][n] = sent[client[j].pub][start[j] + Len(received[j]) + n]
        BY DEF IInv, DeliveryInv
      <4>3. QED BY <4>1, <4>2
    <3>2. CASE j = k BY <1>2, <1>3, <2>3, <2>9, <2>10, <2>11, <2>12, <3>2
    <3>3. QED BY <3>1, <3>2
  <2>14. UnregisterInv'
    BY <1>1, <1>6 DEF IInv, UnregisterInv, Unregistering, Removing, Handshaking, Settled
  <2>15. RequestInv' BY <1>1, <1>6 DEF IInv, RequestInv
  <2>16. QED BY <2>5, <2>6, <2>7, <2>13, <2>14, <2>15 DEF IInv
<1>7. QED BY <1>3, <1>5, <1>6 DEF OnNext, Sse, SendResponse

\* A connection completes when its buffer is empty.
LEMMA OnCompleteIInv ==
  ASSUME IInv, NEW k \in Clients, OnComplete(k)
  PROVE  IInv'
<1>1. /\ client[k].pc = "open" /\ Goto(k, "done")
      /\ UNCHANGED <<listed, publisher, closed, lock, buffer, call, sent, start, received, broken, missed>>
  BY DEF OnComplete, broker, history
<1>2. /\ client' \in [Clients -> ClientRecords]
      /\ FitInv' /\ OfferInv' /\ DeliveryInv' /\ UnregisterInv' /\ RequestInv'
  BY <1>1, ConnectionEnds
<1>3. TypeOK' BY <1>1, <1>2 DEF IInv, TypeOK
<1>4. QED BY <1>2, <1>3 DEF IInv

-----------------------------------------------------------------------------
(* The theorems.                                                           *)

\* Every step keeps the invariant.
LEMMA NextIInv == IInv /\ [Next]_vars => IInv'
<1> SUFFICES ASSUME IInv, [Next]_vars PROVE IInv'
  OBVIOUS
<1>1. CASE UNCHANGED vars
  <2>1. UNCHANGED <<listed, publisher, closed, lock, client, buffer, call, sent, start, received, broken, missed>>
    BY <1>1 DEF vars, broker, history
  <2>2. TypeOK' /\ FitInv' /\ OfferInv' /\ RequestInv'
    BY <2>1 DEF IInv, TypeOK, FitInv, OfferInv, RequestInv
  <2>3. DeliveryInv' BY <2>1 DEF IInv, DeliveryInv, Offering
  <2>4. UnregisterInv'
    BY <2>1 DEF IInv, UnregisterInv, Unregistering, Removing, Handshaking, Settled
  <2>5. QED BY <2>2, <2>3, <2>4 DEF IInv
<1>2. ASSUME NEW c \in Callers, Register(c) \/ FindSse(c) \/ CallStep(c) PROVE IInv'
  BY <1>2, RegisterIInv, FindSseIInv, ClosePublisherIInv, RemoveSseIInv, SubmitIInv,
     SubmitReturnsIInv, OfferIInv DEF CallStep
<1>3. ASSUME NEW c \in Callers, NEW e \in Events, Publish(c, e) PROVE IInv'
  BY <1>3, PublishIInv
<1>4. ASSUME NEW k \in Clients, Connect(k) \/ ClientStep(k) PROVE IInv'
  BY <1>4, ConnectIInv, GetPublisherIInv, CheckClosedIInv, ReplaceIInv, SubscribeIInv,
     OnNextIInv, OnCompleteIInv DEF ClientStep
<1>5. QED BY <1>1, <1>2, <1>3, <1>4 DEF Next

\* Requests, calls and publishers fit, whatever calls and handshakes overlap.
THEOREM BrokerFits == Spec => []IInv
  BY InitIInv, NextIInv, PTL DEF Spec

\* An open connection is reachable unless its handshake overlapped an unregistration.
THEOREM OpenIsReachableAlways == Spec => []OpenIsReachable
<1>1. IInv => OpenIsReachable BY DEF IInv, OpenIsReachable, RequestInv, FitInv
<1>2. QED BY <1>1, BrokerFits, PTL

\* From the events one by one to the sequence of them; a failed write leaves its
\* place empty.
LEMMA Delivered ==
  ASSUME IInv, NEW k \in Clients, client[k].pc = "open"
  PROVE  /\ Cardinality(InOffer(k)) = IF \E c \in Callers : Offering(c, k) THEN 1 ELSE 0
         /\ HandsOn(received[k] \o buffer[k],
                    SubSeq(sent[client[k].pub], start[k] + 1,
                           Len(sent[client[k].pub]) - Cardinality(InOffer(k))))
<1>1. PICK p : p = client[k].pub OBVIOUS
<1>2. PICK a, b, s : a = received[k] /\ b = buffer[k] /\ s = start[k] OBVIOUS
<1>3. /\ a \in Seq(Events \cup {NoEvent}) /\ b \in Seq(Events) /\ s \in Nat /\ Len(a) \in Nat /\ Len(b) \in Nat
      /\ p \in Publishers /\ sent[p] \in Seq(Events) /\ Len(sent[p]) \in Nat
  BY <1>1, <1>2, Sequences DEF IInv, FitInv
<1>4. PICK o \in Nat : o = IF \E c \in Callers : Offering(c, k) THEN 1 ELSE 0 OBVIOUS
<1>5. Cardinality(InOffer(k)) = o
  <2>1. CASE \E c \in Callers : Offering(c, k)
    <3>1. InOffer(k) = {Len(sent[p])}
      BY <1>1, <2>1, OneOffers DEF InOffer, Offering
    <3>2. QED BY <1>4, <2>1, <3>1, FS_Singleton
  <2>2. CASE ~ \E c \in Callers : Offering(c, k)
    <3>1. InOffer(k) = {} BY <2>2 DEF InOffer, Offering
    <3>2. QED BY <1>4, <2>2, <3>1, FS_EmptySet
  <2>3. QED BY <2>1, <2>2
<1>6. PICK x \in Nat, y \in Nat : x = Len(a) /\ y = Len(b) BY <1>3
<1>7. /\ s + x + y + o = Len(sent[p])
      /\ \A n \in 1..x : a[n] \in {sent[p][s + n], NoEvent}
      /\ \A n \in 1..y : b[n] = sent[p][s + x + n]
  BY <1>1, <1>2, <1>4, <1>6 DEF IInv, DeliveryInv
<1>8. Len(sent[p]) - o = s + x + y BY <1>3, <1>7
<1>9. PICK lo \in Int, hi \in Int : lo = s + 1 /\ hi = s + x + y BY <1>3
<1>10. /\ SubSeq(sent[p], lo, hi) \in Seq(Events) /\ Len(SubSeq(sent[p], lo, hi)) = x + y
       /\ \A n \in 1..(x + y) : SubSeq(sent[p], lo, hi)[n] = sent[p][s + n]
  <2>1. \A n \in lo..hi : n \in 1..Len(sent[p]) BY <1>3, <1>7, <1>9
  <2>2. \A n \in lo..hi : sent[p][n] \in Events BY <1>3, <2>1
  <2>3. /\ SubSeq(sent[p], lo, hi) \in Seq(Events)
        /\ Len(SubSeq(sent[p], lo, hi)) = IF lo <= hi THEN hi - lo + 1 ELSE 0
        /\ \A n \in 1..hi - lo + 1 : SubSeq(sent[p], lo, hi)[n] = sent[p][lo + n - 1]
    BY <2>2, SubSeqProperties
  <2>4. hi - lo + 1 = x + y /\ (lo <= hi <=> x + y # 0) BY <1>3, <1>9
  <2>5. \A n \in 1..(x + y) : lo + n - 1 = s + n BY <1>3, <1>9
  <2>6. QED BY <2>3, <2>4, <2>5
<1>11. /\ Len(a \o b) = x + y
       /\ \A n \in 1..(x + y) : (a \o b)[n] \in {sent[p][s + n], NoEvent}
  <2>1. b \in Seq(Events \cup {NoEvent}) BY <1>3
  <2>2. /\ Len(a \o b) = x + y
        /\ \A n \in 1..(x + y) : (a \o b)[n] = IF n <= x THEN a[n] ELSE b[n - x]
    BY <1>3, <1>6, <2>1, ConcatProperties
  <2>3. ASSUME NEW n \in 1..(x + y) PROVE (a \o b)[n] \in {sent[p][s + n], NoEvent}
    <3>1. CASE n <= x BY <1>7, <2>2, <3>1
    <3>2. CASE ~(n <= x)
      <4>1. n - x \in 1..y /\ s + x + (n - x) = s + n BY <1>3, <3>2
      <4>2. b[n - x] = sent[p][s + n] BY <1>7, <4>1
      <4>3. QED BY <2>2, <3>2, <4>2
    <3>3. QED BY <3>1, <3>2
  <2>4. QED BY <2>2, <2>3
<1>12. HandsOn(a \o b, SubSeq(sent[p], lo, hi)) BY <1>10, <1>11 DEF HandsOn
<1>13. QED BY <1>1, <1>2, <1>4, <1>5, <1>8, <1>9, <1>12

\* Every connection is handed all events of its publisher since it subscribed,
\* once and in order, for any number of publishers, slow connections and
\* capacities; only a failed write keeps one from it.
THEOREM NothingLostEver == Spec => []NothingLost
<1>1. IInv => NothingLost BY Delivered DEF NothingLost
<1>2. QED BY <1>1, BrokerFits, PTL

\* A connection that completes has been handed everything that was submitted.
THEOREM CompletesAfterLastEventAlways == Spec => CompletesAfterLastEvent
<1> DEFINE Complete ==
      \A k \in Clients :
          client[k].pc = "open" /\ client'[k].pc = "done" /\ buffer' = buffer
              => HandsOn(received[k], SubSeq(sent[client[k].pub], start[k] + 1, Len(sent[client[k].pub])))
<1>1. IInv /\ [Next]_vars => [Complete]_vars
  <2> SUFFICES ASSUME IInv, Next, NEW k \in Clients, client[k].pc = "open", client'[k].pc = "done",
                      buffer' = buffer
               PROVE  HandsOn(received[k], SubSeq(sent[client[k].pub], start[k] + 1, Len(sent[client[k].pub])))
    OBVIOUS
  <2>1. ~UNCHANGED client OBVIOUS
  <2>2. PICK j \in Clients : Connect(j) \/ ClientStep(j)
    BY <2>1 DEF Next, CallStep, Register, FindSse, ClosePublisher, RemoveSse, Publish, Submit,
                SubmitReturns, Offer
  <2>3. client \in [Clients -> ClientRecords] BY DEF IInv, TypeOK
  <2>4. \A i \in Clients \ {j} : client'[i] = client[i]
    BY <2>2, <2>3 DEF ClientStep, Connect, GetPublisher, CheckClosed, Replace, Subscribe, OnNext,
                      OnComplete, Goto
  <2>5. j = k BY <2>4
  <2>6. OnNext(k) \/ OnComplete(k)
    BY <2>2, <2>5 DEF ClientStep, Connect, GetPublisher, CheckClosed, Replace, Subscribe
  <2>7. ~OnNext(k)
    <3> SUFFICES ASSUME OnNext(k) PROVE FALSE
      OBVIOUS
    <3>1. buffer[k] # <<>> /\ (buffer' = [buffer EXCEPT ![k] = <<>>] \/ UNCHANGED client)
      BY DEF OnNext
    <3>2. buffer' = [buffer EXCEPT ![k] = <<>>] BY <2>1, <3>1
    <3>3. buffer'[k] = <<>> BY <3>2 DEF IInv, TypeOK
    <3>4. QED BY <3>1, <3>3
  <2>8. client[k].pub \in closed /\ buffer[k] = <<>> BY <2>6, <2>7 DEF OnComplete
  <2>9. \A c \in Callers : ~Offering(c, k) BY <2>8 DEF IInv, OfferInv, Offering
  <2>10. /\ Cardinality(InOffer(k)) = 0
         /\ HandsOn(received[k] \o buffer[k],
                    SubSeq(sent[client[k].pub], start[k] + 1,
                           Len(sent[client[k].pub]) - Cardinality(InOffer(k))))
    BY <2>9, Delivered
  <2>11. received[k] \o <<>> = received[k]
    BY ConcatEmptySeq DEF IInv, TypeOK
  <2>12. Len(sent[client[k].pub]) - 0 = Len(sent[client[k].pub])
    BY Sequences DEF IInv, FitInv
  <2>13. QED BY <2>8, <2>10, <2>11, <2>12
<1>2. QED BY <1>1, BrokerFits, PTL DEF Spec, CompletesAfterLastEvent

-----------------------------------------------------------------------------
(* The broker implements Broadcast.                                        *)

\* A request that a step leaves alone is the same reader.
LEMMA SameReader ==
  ASSUME NEW k \in Clients, client'[k] = client[k], k \in broken' <=> k \in broken
  PROVE  Status(k)' = Status(k) /\ Source(k)' = Source(k)
  BY DEF Status, Source, Ended

\* A request is a new reader until its handshake is over.
LEMMA HandshakeHidden ==
  ASSUME NEW k \in Clients, client[k].pc \notin {"open", "done"},
         client'[k].pc \notin {"open", "done"}
  PROVE  Status(k)' = Status(k) /\ Source(k)' = Source(k)
  BY DEF Status, Source

\* Steps inside the broker are stuttering steps of the promise.
LEMMA HiddenStep ==
  ASSUME UNCHANGED <<closed, sent, start, received>>,
         \A k \in Clients : Status(k)' = Status(k) /\ Source(k)' = Source(k)
  PROVE  UNCHANGED Promise!vars
  BY DEF Promise!vars, Promise!readers

\* A step that changes one reader.
LEMMA OneReader ==
  ASSUME NEW k \in Clients,
         \A j \in Clients \ {k} : Status(j)' = Status(j) /\ Source(j)' = Source(j)
  PROVE  /\ [j \in Clients |-> Status(j)]' =
              [[j \in Clients |-> Status(j)] EXCEPT ![k] = Status(k)']
         /\ [j \in Clients |-> Source(j)]' =
              [[j \in Clients |-> Source(j)] EXCEPT ![k] = Source(k)']
  OBVIOUS

\* Steps of the callers: closing, sending, and what is hidden.
LEMMA CallerStep ==
  ASSUME IInv, NEW c \in Callers,
         \/ Register(c) \/ FindSse(c) \/ CallStep(c)
         \/ \E e \in Events : Publish(c, e)
  PROVE  [Promise!Next]_(Promise!vars)
<1>1. client' = client /\ broken' = broken /\ start' = start /\ received' = received
  BY DEF Register, FindSse, CallStep, Publish, ClosePublisher, RemoveSse, Submit, SubmitReturns,
         Offer, history
<1>2. \A k \in Clients : Status(k)' = Status(k) /\ Source(k)' = Source(k)
  BY <1>1, SameReader
<1>3. UNCHANGED Promise!readers BY <1>1, <1>2 DEF Promise!readers
<1>4. CASE ClosePublisher(c)
  <2>1. PICK p : p = publisher[call[c].info] OBVIOUS
  <2>2. p \in Publishers BY <1>4, <2>1, CallTypes DEF ClosePublisher, IInv, TypeOK, FitInv
  <2>3. closed' = closed \cup {p} /\ sent' = sent
    BY <1>4, <2>1 DEF ClosePublisher, history
  <2>4. Promise!Close(p) BY <1>3, <2>3 DEF Promise!Close
  <2>5. QED BY <2>2, <2>4 DEF Promise!Next
<1>5. CASE Submit(c) /\ sent' # sent
  <2>1. PICK p, e : p = call[c].pub /\ e = call[c].event OBVIOUS
  <2>2. p \in Publishers /\ e \in Events
    BY <1>5, <2>1, CallTypes DEF Submit, IInv, FitInv
  <2>3. p \notin closed /\ closed' = closed /\ sent' = [sent EXCEPT ![p] = Append(@, e)]
    BY <1>5, <2>1 DEF Submit, broker
  <2>4. Promise!Send(p, e) BY <1>3, <2>3 DEF Promise!Send
  <2>5. QED BY <2>2, <2>4 DEF Promise!Next
<1>6. CASE ~ClosePublisher(c) /\ ~(Submit(c) /\ sent' # sent)
  <2>1. closed' = closed /\ sent' = sent
    BY <1>6 DEF Register, FindSse, CallStep, Publish, RemoveSse, Submit, SubmitReturns, Offer,
                history, broker
  <2>2. QED BY <1>1, <1>2, <2>1, HiddenStep
<1>7. QED BY <1>4, <1>5, <1>6

\* The handshake is hidden but for its end: not found, or subscribed.
LEMMA HandshakeStep ==
  ASSUME IInv, NEW k \in Clients,
         \/ Connect(k) \/ GetPublisher(k) \/ CheckClosed(k) \/ Replace(k) \/ Subscribe(k)
  PROVE  [Promise!Next]_(Promise!vars)
<1>1. /\ client \in [Clients -> ClientRecords]
      /\ k \notin broken /\ client[k].pc \notin {"open", "done"}
      /\ closed' = closed /\ sent' = sent /\ received' = received /\ broken' = broken
  BY DEF IInv, TypeOK, FitInv, Connect, GetPublisher, CheckClosed, Replace, Subscribe,
         history, broker
<1>2. \A j \in Clients \ {k} : client'[j] = client[j]
  BY <1>1 DEF Connect, GetPublisher, CheckClosed, Replace, Subscribe, Goto
<1>3. \A j \in Clients \ {k} : Status(j)' = Status(j) /\ Source(j)' = Source(j)
  BY <1>1, <1>2, SameReader
<1>4. Status(k) = "new" /\ Source(k) = NoPublisher BY <1>1 DEF Status, Source
<1>5. CASE client'[k].pc \notin {"open", "done"}
  <2>1. start' = start
    BY <1>5, ClientGoes DEF Connect, GetPublisher, CheckClosed, Replace, Subscribe, history,
                            ClientLabels, IInv
  <2>2. QED BY <1>1, <1>3, <1>5, <2>1, HandshakeHidden, HiddenStep
<1>6. CASE Connect(k) /\ client'[k].pc = "done"
  <2>1. PICK r : r = [client[k] EXCEPT !.pc = "done", !.info = listed] OBVIOUS
  <2>2. listed = NoInfo /\ client[k].pc = "idle" /\ start' = start
    BY <1>1, <1>6 DEF Connect, ClientRecords, history
  <2>3. client'[k] = r BY <1>1, <1>6, <2>1, <2>2 DEF Connect
  <2>4. client'[k].pub = NoPublisher
    BY <1>1, <2>1, <2>2, <2>3 DEF ClientRecords, IInv, FitInv
  <2>5. Status(k)' = "done" /\ Source(k)' = Source(k)
    BY <1>1, <1>4, <1>6, <2>4 DEF Status, Source, Ended
  <2>6. \A j \in Clients : Source(j)' = Source(j) BY <1>3, <2>5
  <2>7. Promise!TurnAway(k)
    BY <1>1, <1>3, <1>4, <2>2, <2>5, <2>6, OneReader DEF Promise!TurnAway
  <2>8. QED BY <2>7 DEF Promise!Next
<1>7. CASE Subscribe(k)
  <2>1. PICK p : p = client[k].pub OBVIOUS
  <2>2. p \in Publishers
    BY <1>7, <2>1, ClientTypes DEF Subscribe, IInv, FitInv
  <2>3. PICK label \in {"open", "done"} : label = IF p \in closed THEN "done" ELSE "open"
    OBVIOUS
  <2>4. Goto(k, label) /\ start' = [start EXCEPT ![k] = Len(sent[p])]
    BY <1>7, <2>1, <2>3 DEF Subscribe
  <2>5. client'[k].pc = label /\ client'[k].pub = p
    BY <2>1, <2>3, <2>4, ClientGoes DEF IInv, ClientLabels
  <2>6. Status(k)' = label /\ Source(k)' = p
    BY <1>1, <2>3, <2>5 DEF Status, Source, Ended
  <2>7. Promise!Subscribe(k, p)
    BY <1>1, <1>3, <1>4, <2>3, <2>4, <2>6, OneReader DEF Promise!Subscribe
  <2>8. QED BY <2>2, <2>7 DEF Promise!Next
<1>8. client'[k].pc \in {"open", "done"} => Subscribe(k) \/ (Connect(k) /\ client'[k].pc = "done")
  <2>1. CASE Connect(k)
    <3>1. PICK label \in {"done", "getPublisher"} :
            label = IF listed = NoInfo THEN "done" ELSE "getPublisher"
      OBVIOUS
    <3>2. client'[k].pc = label BY <1>1, <2>1, <3>1 DEF Connect, ClientRecords
    <3>3. QED BY <2>1, <3>1, <3>2
  <2>2. CASE GetPublisher(k) BY <1>1, <2>2 DEF GetPublisher, ClientRecords
  <2>3. CASE CheckClosed(k)
    <3>1. PICK label \in {"replace", "subscribe"} :
            label = IF client[k].pub \in closed THEN "replace" ELSE "subscribe"
      OBVIOUS
    <3>2. client'[k].pc = label
      BY <2>3, <3>1, ClientGoes DEF CheckClosed, IInv, ClientLabels
    <3>3. QED BY <3>1, <3>2
  <2>4. CASE Replace(k) BY <1>1, <2>4 DEF Replace, ClientRecords
  <2>5. QED BY <2>1, <2>2, <2>3, <2>4
<1>9. QED BY <1>5, <1>6, <1>7, <1>8

\* What an open connection has not been handed yet: the events in its buffer,
\* and one more while an event is being offered to it.
LEMMA UnreadEvents ==
  ASSUME IInv, NEW k \in Clients, client[k].pc = "open"
  PROVE  /\ start[k] \in Nat /\ Len(received[k]) \in Nat
         /\ Len(sent[client[k].pub]) \in Nat
         /\ buffer[k] # <<>> =>
              /\ start[k] + Len(received[k]) < Len(sent[client[k].pub])
              /\ Head(buffer[k]) = sent[client[k].pub][start[k] + Len(received[k]) + 1]
         /\ client[k].pub \in closed /\ buffer[k] = <<>> =>
              ~(start[k] + Len(received[k]) < Len(sent[client[k].pub]))
<1>1. /\ received[k] \in Seq(Events \cup {NoEvent}) /\ buffer[k] \in Seq(Events) /\ start[k] \in Nat
      /\ Len(received[k]) \in Nat /\ Len(buffer[k]) \in Nat
      /\ Len(sent[client[k].pub]) \in Nat
  BY Sequences DEF IInv, FitInv
<1>2. PICK x \in Nat, y \in Nat, z \in Nat, s \in Nat :
        x = Len(received[k]) /\ y = Len(buffer[k]) /\ z = Len(sent[client[k].pub]) /\ s = start[k]
  BY <1>1
<1>3. PICK o \in {0, 1} : o = IF \E c \in Callers : Offering(c, k) THEN 1 ELSE 0 OBVIOUS
<1>4. s + x + y + o = z BY <1>2, <1>3 DEF IInv, DeliveryInv
<1>5. ASSUME buffer[k] # <<>>
      PROVE  /\ s + x < z
             /\ Head(buffer[k]) = sent[client[k].pub][s + x + 1]
  <2>1. y > 0 /\ Head(buffer[k]) = buffer[k][1] BY <1>1, <1>2, <1>5
  <2>2. 1 \in 1..Len(buffer[k]) BY <1>2, <2>1
  <2>3. buffer[k][1] = sent[client[k].pub][s + x + 1] BY <1>2, <2>2 DEF IInv, DeliveryInv
  <2>4. Head(buffer[k]) = sent[client[k].pub][s + x + 1] BY <2>1, <2>3
  <2>5. o \in Nat BY <1>3
  <2>6. s + x < z BY <1>2, <1>4, <2>1, <2>5
  <2>7. QED BY <2>4, <2>6
<1>6. ASSUME client[k].pub \in closed, buffer[k] = <<>> PROVE ~(s + x < z)
  <2>1. o = 0 BY <1>3, <1>6 DEF IInv, OfferInv, Offering
  <2>2. y = 0 BY <1>2, <1>6
  <2>3. QED BY <1>4, <2>1, <2>2
<1>7. QED BY <1>1, <1>2, <1>5, <1>6

\* A write is a receipt, a loss or a break, and onComplete completes at the end of a
\* closed log.
LEMMA DeliveryStep ==
  ASSUME IInv, NEW k \in Clients, OnNext(k) \/ OnComplete(k)
  PROVE  [Promise!Next]_(Promise!vars)
<1>1. /\ client[k].pc = "open" /\ k \notin broken
      /\ closed' = closed /\ sent' = sent /\ start' = start
  BY DEF OnNext, OnComplete, IInv, FitInv, broker, history
<1>2. PICK p : p = client[k].pub OBVIOUS
<1>3. Status(k) = "open" /\ Source(k) = p BY <1>1, <1>2 DEF Status, Source
<1>4. CASE OnNext(k) /\ client' = client /\ broken' = broken
  <2>1. \A j \in Clients : Status(j)' = Status(j) /\ Source(j)' = Source(j)
    BY <1>4, SameReader
  <2>2. /\ start[k] + Len(received[k]) < Len(sent[p])
        /\ Head(buffer[k]) = sent[p][start[k] + Len(received[k]) + 1]
    BY <1>1, <1>2, <1>4, UnreadEvents DEF OnNext
  <2>3. PICK e : /\ e \in {sent[p][start[k] + Len(received[k]) + 1], NoEvent}
                 /\ received' = [received EXCEPT ![k] = Append(@, e)]
    <3>1. ~Goto(k, "done")
      <4>1. Goto(k, "done") => client'[k].pc = "done" BY ClientGoes DEF IInv, ClientLabels
      <4>2. QED BY <1>1, <1>4, <4>1
    <3>2. \E e \in {Head(buffer[k]), NoEvent} : received' = [received EXCEPT ![k] = Append(@, e)]
      BY <1>4, <3>1 DEF OnNext, Sse, SendResponse
    <3>3. QED BY <2>2, <3>2
  <2>4. Promise!Receive(k) \/ Promise!Lose(k)
    <3>1. Promise!Hand(k, e)
      BY <1>1, <1>3, <2>1, <2>2, <2>3 DEF Promise!Hand, Promise!Unread, Promise!Read
    <3>2. QED BY <1>3, <2>3, <3>1 DEF Promise!Receive, Promise!Lose, Promise!Read
  <2>5. QED BY <2>4 DEF Promise!Next
<1>5. CASE OnNext(k) /\ Goto(k, "done") /\ broken' = broken \cup {k} /\ received' = received
  <2>1. /\ client'[k].pc = "done" /\ client'[k].pub = p
        /\ \A j \in Clients \ {k} : client'[j] = client[j]
    BY <1>2, <1>5, ClientGoes DEF IInv, ClientLabels
  <2>2. \A j \in Clients \ {k} : Status(j)' = Status(j) /\ Source(j)' = Source(j)
    BY <1>5, <2>1, SameReader
  <2>3. Status(k)' = "broken" /\ Source(k)' = Source(k)
    BY <1>3, <1>5, <2>1 DEF Status, Source, Ended
  <2>4. \A j \in Clients : Source(j)' = Source(j) BY <2>2, <2>3
  <2>5. start[k] + Len(received[k]) < Len(sent[p])
    BY <1>1, <1>2, <1>5, UnreadEvents DEF OnNext
  <2>6. Promise!Break(k)
    BY <1>1, <1>3, <1>5, <2>2, <2>3, <2>4, <2>5, OneReader
       DEF Promise!Break, Promise!Unread, Promise!Read
  <2>7. QED BY <2>6 DEF Promise!Next
<1>6. CASE OnComplete(k)
  <2>1. Goto(k, "done") /\ p \in closed /\ buffer[k] = <<>> /\ broken' = broken
        /\ received' = received
    BY <1>2, <1>6 DEF OnComplete, history
  <2>2. /\ client'[k].pc = "done" /\ client'[k].pub = p
        /\ \A j \in Clients \ {k} : client'[j] = client[j]
    BY <1>2, <2>1, ClientGoes DEF IInv, ClientLabels
  <2>3. \A j \in Clients \ {k} : Status(j)' = Status(j) /\ Source(j)' = Source(j)
    BY <2>1, <2>2, SameReader
  <2>4. Status(k)' = "done" /\ Source(k)' = Source(k)
    BY <1>1, <1>3, <2>1, <2>2 DEF Status, Source, Ended
  <2>5. \A j \in Clients : Source(j)' = Source(j) BY <2>3, <2>4
  <2>6. ~(start[k] + Len(received[k]) < Len(sent[p]))
    BY <1>1, <1>2, <2>1, UnreadEvents
  <2>7. Promise!Complete(k)
    BY <1>1, <1>3, <2>1, <2>3, <2>4, <2>5, <2>6, OneReader
       DEF Promise!Complete, Promise!Unread, Promise!Read
  <2>8. QED BY <2>7 DEF Promise!Next
<1>7. QED BY <1>4, <1>5, <1>6 DEF OnNext

\* SseBroker implements Broadcast, for any number of callers, requests and
\* publishers and buffers of any capacity.
THEOREM BroadcastImplemented == Spec => ImplementsBroadcast
<1>1. Init => Promise!Init
  <2> SUFFICES ASSUME Init PROVE Promise!Init
    OBVIOUS
  <2>1. \A k \in Clients : Status(k) = "new" /\ Source(k) = NoPublisher
    BY DEF Init, Status, Source
  <2>2. QED BY <2>1 DEF Init, Promise!Init
<1>2. IInv /\ [Next]_vars => [Promise!Next]_(Promise!vars)
  <2> SUFFICES ASSUME IInv, [Next]_vars PROVE [Promise!Next]_(Promise!vars)
    OBVIOUS
  <2>1. CASE UNCHANGED vars
    <3>1. UNCHANGED <<closed, client, sent, start, received, broken>>
      BY <2>1 DEF vars, broker, history
    <3>2. \A k \in Clients : Status(k)' = Status(k) /\ Source(k)' = Source(k)
      BY <3>1, SameReader
    <3>3. QED BY <3>1, <3>2, HiddenStep
  <2>2. ASSUME NEW c \in Callers,
               \/ Register(c) \/ FindSse(c) \/ CallStep(c)
               \/ \E e \in Events : Publish(c, e)
        PROVE  [Promise!Next]_(Promise!vars)
    BY <2>2, CallerStep
  <2>3. ASSUME NEW k \in Clients, Connect(k) \/ ClientStep(k)
        PROVE  [Promise!Next]_(Promise!vars)
    BY <2>3, HandshakeStep, DeliveryStep DEF ClientStep
  <2>4. QED BY <2>1, <2>2, <2>3 DEF Next
<1>3. QED BY <1>1, <1>2, BrokerFits, PTL DEF Spec, ImplementsBroadcast, Promise!Spec
=============================================================================
