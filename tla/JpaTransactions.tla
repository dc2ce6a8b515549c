--------------------------- MODULE JpaTransactions --------------------------
(***************************************************************************)
(* Transaction propagation of microfox-jpa: the five policies of           *)
(* Jpa.persistence, rollback and openEntityManager, with the request scope *)
(* of EntityManagerFilter.  One thread nests calls; the entity managers    *)
(* visible to it are a ScopedValue holding a map from database identity to *)
(* entity manager, which every binding replaces as a whole.                *)
(*                                                                         *)
(* A frame of "stack" is one call whose consumer is running.  An exception *)
(* that leaves a call is caught by the caller's code or not: the caller's  *)
(* body goes on, or throws in turn.                                        *)
(***************************************************************************)
EXTENDS Naturals, Sequences, FiniteSets

CONSTANTS Identities,   \* registered database identities
          Ems,          \* names for entity managers
          Writes,       \* the persist calls of a behaviour, each made once
          NoEm,
          MaxDepth,     \* bound on nested calls
          MaxErrors     \* bound on bodies that die with an Error

ASSUME ConstantsAssumption ==
    /\ NoEm \notin Ems
    /\ MaxDepth \in Nat /\ MaxErrors \in Nat

VARIABLES stack,      \* calls under way, the innermost last
          open,       \* the entity managers that are open
          active,     \* the entity managers whose transaction is active
          pending,    \* entity manager -> writes of its transaction
          db,         \* committed writes
          async,      \* entity managers left to an AsyncListener
          made,       \* history: the writes made so far
          decider,    \* history: depth of the call that decides about a write
          abandoned   \* history: entity managers left behind by a dying body

vars == <<stack, open, active, pending, db, async, made, decider, abandoned>>

Policies == {"REQUIRED", "REQUIRED_NEW", "MANDATORY", "NEVER", "NOT_SUPPORTED", "OPEN"}

Frames == [policy : Policies, id : Identities, em : Ems \cup {NoEm},
           owner : BOOLEAN, scope : [Identities -> Ems \cup {NoEm}]]

TypeOK ==
    /\ stack \in Seq(Frames)
    /\ open \subseteq Ems /\ active \subseteq Ems /\ async \subseteq open
    /\ pending \in [Ems -> SUBSET Writes]
    /\ db \subseteq Writes /\ made \subseteq Writes
    /\ decider \in [Writes -> Nat]
    /\ abandoned \subseteq Ems

Init ==
    /\ stack = <<>>
    /\ open = {} /\ active = {} /\ async = {} /\ abandoned = {}
    /\ pending = [e \in Ems |-> {}]
    /\ db = {} /\ made = {}
    /\ decider = [w \in Writes |-> 0]

Top == stack[Len(stack)]

\* sv.isBound(), and the map it is bound to.
Bound == stack # <<>>
Visible(id) == IF Bound THEN Top.scope[id] ELSE NoEm

InTx(e) == e \in open /\ e \in active

Fresh == {e \in Ems : e \notin open \cup active /\ \A i \in 1..Len(stack) : stack[i].em # e}

\* Map.of(identity, em)
OnlyBinding(id, e) == [i \in Identities |-> IF i = id THEN e ELSE NoEm]

Push(policy, id, e, owner, scope) ==
    /\ Len(stack) < MaxDepth
    /\ stack' = Append(stack, [policy |-> policy, id |-> id, em |-> e,
                               owner |-> owner, scope |-> scope])

-----------------------------------------------------------------------------
(* Calls.                                                                  *)

\* A call on a new entity manager, with a transaction or without.
PushOwner(policy, id, transactional) ==
    \E e \in Fresh :
        /\ Push(policy, id, e, TRUE, OnlyBinding(id, e))
        /\ open' = open \cup {e}
        /\ active' = IF transactional THEN active \cup {e} ELSE active
        /\ UNCHANGED <<pending, db, async, made, decider, abandoned>>

PushGuest(policy, id, scope) ==
    /\ Push(policy, id, Visible(id), FALSE, scope)
    /\ UNCHANGED <<open, active, pending, db, async, made, decider, abandoned>>

\* Mutated form: an active transaction is not joined.
AlwaysOwner(id) == PushOwner("REQUIRED", id, TRUE)

RequiredTx(id) ==
    LET isOwner == Visible(id) = NoEm \/ ~InTx(Visible(id)) IN
    \/ isOwner /\ PushOwner("REQUIRED", id, TRUE)
    \/ ~isOwner /\ PushGuest("REQUIRED", id, OnlyBinding(id, Visible(id)))

RequiredNewTx(id) == PushOwner("REQUIRED_NEW", id, TRUE)

\* Unbound (NoSuchElementException), or no active transaction: it throws.
MandatoryTx(id) ==
    /\ Bound /\ Visible(id) # NoEm /\ InTx(Visible(id))
    /\ PushGuest("MANDATORY", id, Top.scope)

\* It throws when unbound or in a transaction; an identity that is not in
\* the map gives the consumer a null entity manager.
NeverTx(id) ==
    /\ Bound
    /\ ~(Visible(id) # NoEm /\ InTx(Visible(id)))
    /\ PushGuest("NEVER", id, Top.scope)

NotSupportedTx(id) ==
    \/ /\ Visible(id) # NoEm /\ Visible(id) \in open
       /\ PushGuest("NOT_SUPPORTED", id, Top.scope)
    \/ /\ ~(Visible(id) # NoEm /\ Visible(id) \in open)
       /\ PushOwner("NOT_SUPPORTED", id, FALSE)

\* openEntityManager, called by EntityManagerFilter around the filter chain.
OpenEntityManager(id) == PushOwner("OPEN", id, FALSE)

-----------------------------------------------------------------------------
(* What a consumer does.                                                   *)

\* The call whose end decides about what the innermost one writes: the nearest
\* one around it that works on an entity manager of its own.
Nearest(i, n) == stack[i].owner /\ \A k \in (i + 1)..n : ~stack[k].owner

Decider == CHOOSE i \in 1..Len(stack) : Nearest(i, Len(stack))

Decided(i) == decider' = [w \in Writes |-> IF decider[w] = i THEN 0 ELSE decider[w]]

\* Without a transaction the entity is never flushed.
Persist(w) ==
    /\ Bound /\ Top.em # NoEm
    /\ w \notin made
    /\ made' = made \cup {w}
    /\ \/ /\ InTx(Top.em)
          /\ pending' = [pending EXCEPT ![Top.em] = @ \cup {w}]
          /\ decider' = [decider EXCEPT ![w] = Decider]
       \/ /\ ~InTx(Top.em)
          /\ UNCHANGED <<pending, decider>>
    /\ UNCHANGED <<stack, open, active, db, async, abandoned>>

\* JpaProviderImpl.rollback
Rollback(id) ==
    /\ Bound /\ Visible(id) # NoEm
    /\ InTx(Visible(id))
    /\ active' = active \ {Visible(id)}
    /\ pending' = [pending EXCEPT ![Visible(id)] = {}]
    /\ Decided(Decider)
    /\ UNCHANGED <<stack, open, db, async, made, abandoned>>

-----------------------------------------------------------------------------
(* The ends of a call.                                                     *)

Pop == stack' = SubSeq(stack, 1, Len(stack) - 1)

Transactional == Top.owner /\ Top.policy \in {"REQUIRED", "REQUIRED_NEW"}

\* The transaction of the innermost call ends and its entity manager closes.
EndTx(committed) ==
    /\ db' = db \cup committed
    /\ pending' = [pending EXCEPT ![Top.em] = {}]
    /\ active' = active \ {Top.em}
    /\ open' = open \ {Top.em}
    /\ Decided(Len(stack))
    /\ UNCHANGED <<async, made, abandoned>>

\* The consumer of an owner returns: commit succeeds, or fails and has
\* rolled back.  REQUIRED does not commit what rollback() has ended;
\* REQUIRED_NEW tries to and throws.
ReturnOwner ==
    /\ Bound /\ Transactional
    /\ \/ EndTx(pending[Top.em])
       \/ Top.em \in active /\ EndTx({})
    /\ Pop

\* The consumer of an owner throws an Exception: catch rolls back.
ThrowOwner ==
    /\ Bound /\ Transactional
    /\ EndTx({})
    /\ Pop

\* The consumer dies with an Error: there is no catch for it.  The finally
\* block closes the entity manager under its active transaction; the filter
\* has none, and its entity manager stays open.
DieOwner ==
    /\ Bound /\ Top.owner /\ Top.policy # "NOT_SUPPORTED"
    /\ Cardinality(abandoned) < MaxErrors
    /\ open' = IF Transactional THEN open \ {Top.em} ELSE open
    /\ abandoned' = IF Transactional /\ Top.em \notin active
                      THEN abandoned ELSE abandoned \cup {Top.em}
    /\ Pop
    /\ Decided(Len(stack))
    /\ UNCHANGED <<active, pending, db, async, made>>

\* Mutated form: without the isOwner check before commit a call that joined
\* commits the transaction of its caller.
LeaveGuestCommitting ==
    /\ Bound /\ ~Top.owner
    /\ Pop
    /\ db' = db \cup UNION {pending[e] : e \in active \cap {Top.em}}
    /\ pending' = [e \in Ems |-> IF e = Top.em THEN {} ELSE pending[e]]
    /\ active' = active \ {Top.em}
    /\ UNCHANGED <<open, async, made, decider, abandoned>>

\* Mutated form: without the isOwner checks a call that joined rolls back
\* and closes what is not its own.
LeaveGuestEnding ==
    /\ Bound /\ ~Top.owner
    /\ Pop
    /\ open' = open \ {Top.em}
    /\ active' = active \ {Top.em}
    /\ UNCHANGED <<pending, db, async, made, decider, abandoned>>

\* A call that joined leaves everything to the owner, whether its consumer
\* returns or throws.
LeaveGuest ==
    /\ Bound /\ ~Top.owner
    /\ Pop
    /\ UNCHANGED <<open, active, pending, db, async, made, decider, abandoned>>

\* Mutated form: the new entity manager is not closed.
LeaveOpen ==
    /\ Bound /\ Top.owner /\ Top.policy \in {"NOT_SUPPORTED", "OPEN"}
    /\ Pop
    /\ UNCHANGED <<open, active, pending, db, async, made, decider, abandoned>>

\* Mutated form: the filter closes the entity manager of a request that has
\* gone asynchronous.
LeaveClosingAsync ==
    /\ Bound /\ Top.owner /\ Top.policy \in {"NOT_SUPPORTED", "OPEN"}
    /\ Pop
    /\ open' = open \ {Top.em}
    /\ async' = IF Top.policy = "OPEN" THEN async \cup {Top.em} ELSE async
    /\ UNCHANGED <<active, pending, db, made, decider, abandoned>>

\* try-with-resources of NOT_SUPPORTED, and the filter around the request:
\* it closes the entity manager unless the request has gone asynchronous.
LeaveUntransacted ==
    /\ Bound /\ Top.owner /\ Top.policy \in {"NOT_SUPPORTED", "OPEN"}
    /\ Pop
    /\ \/ /\ open' = open \ {Top.em}
          /\ UNCHANGED async
       \/ /\ Top.policy = "OPEN"
          /\ async' = async \cup {Top.em}
          /\ UNCHANGED open
    /\ UNCHANGED <<active, pending, db, made, decider, abandoned>>

\* AsyncListener: completion, timeout or error of the asynchronous request.
AsyncDone(e) ==
    /\ e \in async
    /\ async' = async \ {e}
    /\ open' = open \ {e}
    /\ UNCHANGED <<stack, active, pending, db, made, decider, abandoned>>

-----------------------------------------------------------------------------

Call(id) == RequiredTx(id) \/ RequiredNewTx(id) \/ MandatoryTx(id) \/ NeverTx(id)
                \/ NotSupportedTx(id) \/ OpenEntityManager(id)

Exit == ReturnOwner \/ ThrowOwner \/ DieOwner \/ LeaveGuest \/ LeaveUntransacted

Next == \/ \E id \in Identities : Call(id) \/ Rollback(id)
        \/ \E w \in Writes : Persist(w)
        \/ Exit
        \/ \E e \in Ems : AsyncDone(e)

Spec == Init /\ [][Next]_vars

-----------------------------------------------------------------------------

\* A write is pending in one transaction at most, an active one.
WriteInv ==
    /\ db \subseteq made
    /\ \A e \in Ems : pending[e] # {} => e \in active
    /\ \A e \in Ems : \A w \in pending[e] : w \in made
    /\ \A e, f \in Ems : e # f => pending[e] \cap pending[f] = {}

\* A call decides about the writes that are pending in its own transaction.
DeciderInv ==
    /\ \A w \in Writes : decider[w] # 0 =>
          /\ decider[w] \in 1..Len(stack) /\ stack[decider[w]].owner
          /\ w \in pending[stack[decider[w]].em]
    /\ \A i \in 1..Len(stack) : stack[i].owner =>
          \A w \in pending[stack[i].em] : decider[w] = i

\* An entity manager has one owner; without a transaction it never gets one, and
\* nobody runs with the entity manager of an asynchronous request.
OwnerInv ==
    /\ \A i, j \in 1..Len(stack) :
          stack[i].owner /\ stack[j].owner /\ stack[i].em = stack[j].em => i = j
    /\ \A i \in 1..Len(stack) :
          /\ stack[i].em \notin async
          /\ stack[i].owner => stack[i].em # NoEm
          /\ stack[i].owner /\ stack[i].policy \notin {"REQUIRED", "REQUIRED_NEW"} => stack[i].em \notin active

\* What a consumer gets and what it sees is owned by its call or by one around it.
OwnedBelow(i, e) == \E j \in 1..i : stack[j].owner /\ stack[j].em = e

ScopeInv ==
    \A i \in 1..Len(stack) :
      /\ stack[i].em # NoEm => OwnedBelow(i, stack[i].em)
      /\ \A id \in Identities : stack[i].scope[id] # NoEm => OwnedBelow(i, stack[i].scope[id])

\* The entity manager of an owner stays visible through calls that joined it.
Joined(i, n) == \A k \in (i + 1)..n : stack[k].id = stack[i].id /\ ~stack[k].owner

BindingInv ==
    \A n \in 1..Len(stack) : \A i \in 1..n :
        stack[i].owner /\ Joined(i, n) => stack[n].scope[stack[i].id] = stack[i].em

\* What a call sees is the entity manager of the nearest owner around it, and
\* it works with that one or with none.
NearestInv ==
    \A n \in 1..Len(stack) : \E i \in 1..n :
        /\ Nearest(i, n)
        /\ stack[n].scope = OnlyBinding(stack[i].id, stack[i].em)
        /\ stack[n].em \in {NoEm, stack[i].em}

\* The writes of a transaction share one fate: they get into the database only
\* in the step in which the call ends that began the transaction, with all
\* that the calls inside it wrote that joined it, whether these returned or
\* threw; no call that joined commits or loses a part of them before.
AllOrNothing ==
    [][\A w \in Writes : w \in db' \ db =>
          /\ decider[w] = Len(stack) /\ Len(stack') = Len(stack) - 1
          /\ \A v \in Writes : decider[v] = decider[w] => v \in db']_vars

Owned(e) == \E i \in 1..Len(stack) : stack[i].em = e /\ stack[i].owner

\* Whatever way the calls end, an open entity manager has a call or an
\* asynchronous request that will close it, and an active transaction has a
\* call that will end it, unless a body died with an Error.
NothingLeftBehind ==
    /\ \A e \in open : Owned(e) \/ e \in async \cup abandoned
    /\ \A e \in active : Owned(e) \/ e \in abandoned

\* No consumer is left with an entity manager that an inner call closed.
EmOfBodyIsOpen ==
    \A i \in 1..Len(stack) : stack[i].em # NoEm => stack[i].em \in open

\* Two transactions on one identity are active together only when the inner
\* call asked for a new one or another identity was bound in between.
ActiveFrame(i) == stack[i].owner /\ stack[i].em \in active

NoAccidentalNesting ==
    \A i, j \in 1..Len(stack) :
        i < j /\ ActiveFrame(i) /\ ActiveFrame(j) /\ stack[i].id = stack[j].id
            => \/ stack[j].policy = "REQUIRED_NEW"
               \/ \E k \in (i + 1)..(j - 1) :
                     stack[k].id # stack[i].id \/ stack[k].owner

\* The inductive invariant.
IInv == /\ TypeOK /\ WriteInv /\ DeciderInv /\ OwnerInv /\ ScopeInv /\ BindingInv
        /\ NearestInv
        /\ NothingLeftBehind /\ EmOfBodyIsOpen /\ NoAccidentalNesting

\* The comment of notSupportedTx: the consumer gets an entity manager apart
\* from the parent's transaction.
NotSupportedRunsOutside ==
    \A i \in 1..Len(stack) :
        stack[i].policy = "NOT_SUPPORTED" => ~InTx(stack[i].em)
=============================================================================
