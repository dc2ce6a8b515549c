------------------------------ MODULE Broadcast ------------------------------
(***************************************************************************)
(* What server-sent events promise: every publisher has a log, a reader    *)
(* that subscribes is handed what is appended from then on, one event      *)
(* after the other, and is completed only when the publisher is closed and *)
(* the log has been read to its end.  An event whose write fails is lost   *)
(* to that reader, which goes on with the next.  Buffers, locks and        *)
(* handshakes are not part of the promise.                                 *)
(***************************************************************************)
EXTENDS Naturals, Sequences

CONSTANTS Publishers, Readers, Events, NoPublisher, NoEvent

VARIABLES log,      \* publisher -> the events sent to it
          closed,   \* the closed publishers
          status,   \* reader -> "new", "open", "done" or "broken"
          source,   \* reader -> the publisher it subscribed to
          from,     \* reader -> length of the log when it subscribed
          got       \* reader -> the events handed to it, NoEvent: lost

readers == <<status, source, from, got>>
vars == <<log, closed, readers>>

Init ==
    /\ log = [p \in Publishers |-> <<>>]
    /\ closed = {}
    /\ status = [k \in Readers |-> "new"]
    /\ source = [k \in Readers |-> NoPublisher]
    /\ from = [k \in Readers |-> 0]
    /\ got = [k \in Readers |-> <<>>]

Read(k) == from[k] + Len(got[k])

Unread(k) == Read(k) < Len(log[source[k]])

Send(p, e) ==
    /\ p \notin closed
    /\ log' = [log EXCEPT ![p] = Append(@, e)]
    /\ UNCHANGED <<closed, readers>>

Close(p) ==
    /\ closed' = closed \cup {p}
    /\ UNCHANGED <<log, readers>>

\* Nobody publishes under the path.
TurnAway(k) ==
    /\ status[k] = "new"
    /\ status' = [status EXCEPT ![k] = "done"]
    /\ UNCHANGED <<log, closed, source, from, got>>

Subscribe(k, p) ==
    /\ status[k] = "new"
    /\ status' = [status EXCEPT ![k] = IF p \in closed THEN "done" ELSE "open"]
    /\ source' = [source EXCEPT ![k] = p]
    /\ from' = [from EXCEPT ![k] = Len(log[p])]
    /\ UNCHANGED <<log, closed, got>>

Hand(k, e) ==
    /\ status[k] = "open" /\ Unread(k)
    /\ got' = [got EXCEPT ![k] = Append(@, e)]
    /\ UNCHANGED <<log, closed, status, source, from>>

Receive(k) == Hand(k, log[source[k]][Read(k) + 1])

Lose(k) == Hand(k, NoEvent)

Complete(k) ==
    /\ status[k] = "open" /\ source[k] \in closed /\ ~Unread(k)
    /\ status' = [status EXCEPT ![k] = "done"]
    /\ UNCHANGED <<log, closed, source, from, got>>

\* The connection fails while there is something to write.
Break(k) ==
    /\ status[k] = "open" /\ Unread(k)
    /\ status' = [status EXCEPT ![k] = "broken"]
    /\ UNCHANGED <<log, closed, source, from, got>>

Next ==
    \/ \E p \in Publishers : Close(p) \/ \E e \in Events : Send(p, e)
    \/ \E k \in Readers : \/ TurnAway(k) \/ Receive(k) \/ Lose(k) \/ Complete(k) \/ Break(k)
                          \/ \E p \in Publishers : Subscribe(k, p)

Spec == Init /\ [][Next]_vars
=============================================================================
