------------------------ MODULE JpaTransactionsProofs ------------------------
(***************************************************************************)
(* Proofs about JpaTransactions, for any identities, entity managers and   *)
(* writes, and any depth of nested calls.                                  *)
(***************************************************************************)
EXTENDS JpaTransactions, SequenceTheorems, TLAPS

\* What the stack is after a call.
LEMMA Pushed ==
  ASSUME stack \in Seq(Frames), NEW f \in Frames, stack' = Append(stack, f)
  PROVE  /\ stack' \in Seq(Frames) /\ Len(stack) \in Nat /\ Len(stack') = Len(stack) + 1
         /\ \A i \in 1..Len(stack) : stack'[i] = stack[i]
         /\ stack'[Len(stack) + 1] = f
  OBVIOUS

\* What it is after the end of one.
LEMMA Popped ==
  ASSUME stack \in Seq(Frames), Bound, Pop
  PROVE  /\ stack' \in Seq(Frames)
         /\ Len(stack) \in Nat \ {0} /\ Len(stack') = Len(stack) - 1
         /\ \A i \in 1..Len(stack') : i \in 1..Len(stack) /\ stack'[i] = stack[i]
         /\ Top \in Frames
<1>1. Len(stack) \in Nat \ {0} BY DEF Bound
<1> DEFINE n == Len(stack) - 1
<1>2. n \in Nat /\ \A i \in 1..n : stack[i] \in Frames BY <1>1
<1> HIDE DEF n
<1>3. /\ stack' \in Seq(Frames) /\ Len(stack') = IF 1 <= n THEN n - 1 + 1 ELSE 0
      /\ \A i \in 1..n - 1 + 1 : stack'[i] = stack[1 + i - 1]
  BY <1>2, SubSeqProperties DEF Pop, n
<1>4. Len(stack') = n /\ \A i \in 1..n : stack'[i] = stack[i] BY <1>2, <1>3
<1>5. \A i \in 1..n : i \in 1..Len(stack) BY <1>1 DEF n
<1>6. stack[Len(stack)] \in Frames BY <1>1
<1>7. QED BY <1>1, <1>3, <1>4, <1>5, <1>6 DEF Top, n

\* The fields of a frame.
LEMMA FrameTypes ==
  ASSUME stack \in Seq(Frames), NEW i \in 1..Len(stack)
  PROVE  /\ stack[i].policy \in Policies /\ stack[i].id \in Identities
         /\ stack[i].em \in Ems \cup {NoEm} /\ stack[i].owner \in BOOLEAN
         /\ stack[i].scope \in [Identities -> Ems \cup {NoEm}]
<1>1. stack[i] \in Frames OBVIOUS
<1>2. QED BY <1>1 DEF Frames

\* No call is under way at first, and nothing is open.
LEMMA InitIInv == Init => IInv
<1> SUFFICES ASSUME Init PROVE IInv
  OBVIOUS
<1>1. stack = <<>> /\ stack \in Seq(Frames) /\ Len(stack) = 0 BY DEF Init
<1>2. TypeOK BY <1>1 DEF Init, TypeOK
<1>3. WriteInv BY DEF Init, WriteInv
<1>4. OwnerInv /\ ScopeInv /\ BindingInv /\ NearestInv /\ DeciderInv
  BY <1>1 DEF Init, OwnerInv, ScopeInv, BindingInv, NearestInv, DeciderInv
<1>5. NothingLeftBehind BY DEF Init, NothingLeftBehind
<1>6. EmOfBodyIsOpen /\ NoAccidentalNesting BY <1>1 DEF EmOfBodyIsOpen, NoAccidentalNesting
<1>7. QED BY <1>2, <1>3, <1>4, <1>5, <1>6 DEF IInv

\* What the frames below keep when a call is pushed.
LEMMA BelowKept ==
  ASSUME stack \in Seq(Frames), NEW f \in Frames, stack' = Append(stack, f),
         NEW m \in Nat, m = Len(stack)
  PROVE  /\ \A i \in 1..(m + 1) : i \in 1..m \/ i = m + 1
         /\ \A i \in 1..m : \A e : OwnedBelow(i, e) => OwnedBelow(i, e)'
         /\ \A i \in 1..m : \A e : OwnedBelow(i, e) => OwnedBelow(m + 1, e)'
         /\ \A n \in 1..m, i \in 1..m : i <= n /\ Joined(i, n)' => Joined(i, n)
         /\ \A i \in 1..m : Joined(i, m + 1)' => Joined(i, m) /\ f.id = stack[i].id /\ ~f.owner
<1>1. /\ Len(stack') = m + 1 /\ \A i \in 1..m : stack'[i] = stack[i]
      /\ stack'[m + 1] = f
  BY Pushed
<1>2. \A i \in 1..(m + 1) : i \in 1..m \/ i = m + 1 OBVIOUS
<1>3. ASSUME NEW i \in 1..m, NEW e, OwnedBelow(i, e)
      PROVE  OwnedBelow(i, e)' /\ OwnedBelow(m + 1, e)'
  <2>1. PICK j \in 1..i : stack[j].owner /\ stack[j].em = e BY <1>3 DEF OwnedBelow
  <2>2. j \in 1..m /\ j \in 1..(m + 1) OBVIOUS
  <2>3. QED BY <1>1, <2>1, <2>2 DEF OwnedBelow
<1>4. ASSUME NEW n \in 1..m, NEW i \in 1..m, i <= n, Joined(i, n)'
      PROVE  Joined(i, n)
  <2>1. \A k \in (i + 1)..n : k \in 1..m BY <1>4
  <2>2. QED BY <1>1, <1>4, <2>1 DEF Joined
<1>5. ASSUME NEW i \in 1..m, Joined(i, m + 1)'
      PROVE  Joined(i, m) /\ f.id = stack[i].id /\ ~f.owner
  <2>1. m + 1 \in (i + 1)..(m + 1) /\ \A k \in (i + 1)..m : k \in (i + 1)..(m + 1) /\ k \in 1..m
    OBVIOUS
  <2>2. QED BY <1>1, <1>5, <2>1 DEF Joined
<1>6. QED BY <1>2, <1>3, <1>4, <1>5

\* The calls that decide about writes keep their entity managers and theirs.
LEMMA DecidersStay ==
  ASSUME IInv, NEW n \in Nat, n <= Len(stack), n <= Len(stack'),
         \A i \in 1..n : stack'[i] = stack[i],
         UNCHANGED <<pending, decider>>,
         \A w \in Writes : decider[w] <= n,
         \A i \in 1..Len(stack') : i \in 1..n \/ (stack'[i].owner => pending[stack'[i].em] = {})
  PROVE  DeciderInv'
<1>1. Len(stack) \in Nat BY DEF IInv, TypeOK
<1>2. ASSUME NEW w \in Writes, decider[w] # 0
      PROVE  /\ decider[w] \in 1..Len(stack') /\ stack'[decider[w]].owner
             /\ w \in pending[stack'[decider[w]].em]
  <2>1. decider[w] \in 1..n /\ n \in 1..n BY <1>1, <1>2 DEF IInv, TypeOK, DeciderInv
  <2>2. QED BY <1>1, <1>2, <2>1 DEF IInv, TypeOK, DeciderInv
<1>3. ASSUME NEW i \in 1..Len(stack'), stack'[i].owner, NEW w \in pending[stack'[i].em]
      PROVE  decider[w] = i
  <2>1. i \in 1..n /\ i \in 1..Len(stack) BY <1>1, <1>3
  <2>2. QED BY <1>3, <2>1 DEF IInv, DeciderInv
<1>4. QED BY <1>2, <1>3 DEF DeciderInv

\* The nearest owner of a call that stays on the stack remains the same.
LEMMA NearestKept ==
  ASSUME IInv, NEW n \in 1..Len(stack), \A i \in 1..n : stack'[i] = stack[i]
  PROVE  \E i \in 1..n : /\ Nearest(i, n)'
                         /\ stack'[n].scope = OnlyBinding(stack'[i].id, stack'[i].em)
                         /\ stack'[n].em \in {NoEm, stack'[i].em}
<1>0. Len(stack) \in Nat BY DEF IInv, TypeOK
<1>1. PICK i \in 1..n : /\ Nearest(i, n)
                        /\ stack[n].scope = OnlyBinding(stack[i].id, stack[i].em)
                        /\ stack[n].em \in {NoEm, stack[i].em}
  BY DEF IInv, NearestInv
<1>2. \A k \in (i + 1)..n : k \in 1..n BY <1>0
<1>3. n \in 1..n BY <1>0
<1>4. QED BY <1>1, <1>2, <1>3 DEF Nearest

\* A call that joins: what it sees is what the call around it sees.
LEMMA PushGuestIInv ==
  ASSUME IInv, NEW policy \in Policies, NEW id \in Identities,
         NEW scope \in [Identities -> Ems \cup {NoEm}], PushGuest(policy, id, scope), Bound,
         scope = Top.scope
  PROVE  IInv'
<1> DEFINE f == [policy |-> policy, id |-> id, em |-> Visible(id), owner |-> FALSE, scope |-> scope]
<1>1. PICK m \in Nat : m = Len(stack) /\ m \in 1..m BY DEF IInv, TypeOK, Bound
<1>0. /\ scope[id] = Visible(id) /\ \A h \in Identities : scope[h] \in {NoEm, Visible(h)}
      /\ scope = stack[m].scope
  BY <1>1 DEF Visible, Top
<1>2. f \in Frames BY <1>0 DEF Frames
<1>3. UNCHANGED <<open, active, pending, db, async, made, decider, abandoned>> BY DEF PushGuest
<1>4. stack \in Seq(Frames) /\ stack' = Append(stack, f) BY DEF PushGuest, Push, IInv, TypeOK
<1>5. PICK e \in Ems \cup {NoEm} : e = Visible(id) BY <1>2 DEF Frames
<1>6. /\ f.policy = policy /\ f.id = id /\ f.em = e /\ f.owner = FALSE /\ f.scope = scope
  BY <1>5
<1> HIDE DEF f
<1>7. /\ stack' \in Seq(Frames) /\ Len(stack') = m + 1
      /\ \A i \in 1..m : stack'[i] = stack[i]
      /\ stack'[m + 1].id = id /\ stack'[m + 1].em = e /\ ~stack'[m + 1].owner
      /\ stack'[m + 1].scope = scope
  BY <1>1, <1>2, <1>4, <1>6, Pushed
<1>8. /\ \A i \in 1..(m + 1) : i \in 1..m \/ i = m + 1
      /\ \A i \in 1..m : \A x : OwnedBelow(i, x) => OwnedBelow(i, x)'
      /\ \A i \in 1..m : \A x : OwnedBelow(i, x) => OwnedBelow(m + 1, x)'
      /\ \A n \in 1..m, i \in 1..m : i <= n /\ Joined(i, n)' => Joined(i, n)
      /\ \A i \in 1..m : Joined(i, m + 1)' => Joined(i, m) /\ id = stack[i].id
  BY <1>1, <1>2, <1>4, <1>6, BelowKept
<1>9. \A h \in Identities : Visible(h) # NoEm => OwnedBelow(m, Visible(h))
  BY <1>1 DEF Visible, Top, IInv, ScopeInv
<1>10. e # NoEm => \E j \in 1..m : stack[j].em = e BY <1>1, <1>5, <1>9 DEF OwnedBelow
<1>11. TypeOK' BY <1>3, <1>7 DEF IInv, TypeOK
<1>12. WriteInv' BY <1>3 DEF IInv, WriteInv
<1>13. ScopeInv'
  <2>1. ASSUME NEW i \in 1..m, NEW h \in Identities
        PROVE  /\ stack'[i].em # NoEm => OwnedBelow(i, stack[i].em)'
               /\ stack'[i].scope[h] # NoEm => OwnedBelow(i, stack[i].scope[h])'
    <3>1. PICK x, y : x = stack[i].em /\ y = stack[i].scope[h] OBVIOUS
    <3>2. stack'[i].em = x /\ stack'[i].scope[h] = y BY <1>7, <3>1
    <3>3. (x # NoEm => OwnedBelow(i, x)) /\ (y # NoEm => OwnedBelow(i, y))
      BY <1>1, <3>1 DEF IInv, ScopeInv
    <3>4. (x # NoEm => OwnedBelow(i, x)') /\ (y # NoEm => OwnedBelow(i, y)') BY <1>8, <3>3
    <3>5. QED BY <3>2, <3>4 DEF OwnedBelow
  <2>2. ASSUME NEW h \in Identities
        PROVE  /\ e # NoEm => OwnedBelow(m + 1, e)'
               /\ scope[h] # NoEm => OwnedBelow(m + 1, scope[h])'
    BY <1>0, <1>1, <1>5, <1>8, <1>9
  <2>3. ASSUME NEW h \in Identities
        PROVE  /\ stack'[m + 1].em # NoEm => OwnedBelow(m + 1, stack[m + 1].em)'
               /\ stack'[m + 1].scope[h] # NoEm => OwnedBelow(m + 1, stack[m + 1].scope[h])'
    BY <1>7, <2>2 DEF OwnedBelow
  <2>4. QED BY <1>7, <1>8, <2>1, <2>3 DEF ScopeInv
<1>14. EmOfBodyIsOpen'
  BY <1>1, <1>3, <1>7, <1>8, <1>10 DEF IInv, EmOfBodyIsOpen
<1>15. OwnerInv'
  BY <1>1, <1>3, <1>7, <1>8, <1>10, ConstantsAssumption DEF IInv, OwnerInv, TypeOK
<1>16. BindingInv'
  <2>1. ASSUME NEW n \in 1..m, NEW i \in 1..n, stack'[i].owner, Joined(i, n)'
        PROVE  stack'[n].scope[stack'[i].id] = stack'[i].em
    <3>1. i \in 1..m /\ i <= n BY <1>1
    <3>2. stack[i].owner /\ Joined(i, n) BY <1>7, <1>8, <2>1, <3>1
    <3>3. stack[n].scope[stack[i].id] = stack[i].em BY <1>1, <3>2 DEF IInv, BindingInv
    <3>4. QED BY <1>7, <3>1, <3>3
  <2>2. ASSUME NEW i \in 1..m, stack'[i].owner, Joined(i, m + 1)'
        PROVE  scope[stack'[i].id] = stack'[i].em
    <3>1. stack[i].owner /\ Joined(i, m) /\ stack[i].id = id BY <1>7, <1>8, <2>2
    <3>2. Visible(id) = stack[i].em BY <1>1, <3>1 DEF IInv, BindingInv, Visible, Top
    <3>3. QED BY <1>0, <1>7, <3>1, <3>2
  <2>3. QED BY <1>7, <1>8, <2>1, <2>2 DEF BindingInv
<1>20. NearestInv'
  <2>1. ASSUME NEW n \in 1..m
        PROVE  \E i \in 1..n : /\ Nearest(i, n)'
                               /\ stack'[n].scope = OnlyBinding(stack'[i].id, stack'[i].em)
                               /\ stack'[n].em \in {NoEm, stack'[i].em}
    BY <1>1, <1>7, NearestKept
  <2>2. PICK i \in 1..m : /\ Nearest(i, m)
                          /\ stack[m].scope = OnlyBinding(stack[i].id, stack[i].em)
    BY <1>1 DEF IInv, NearestInv
  <2>3. Nearest(i, m + 1)'
    <3>1. stack'[i].owner /\ ~stack'[m + 1].owner BY <1>7, <2>2 DEF Nearest
    <3>2. ASSUME NEW k \in (i + 1)..(m + 1) PROVE ~stack'[k].owner
      <4>1. CASE k = m + 1 BY <3>1, <4>1
      <4>2. CASE k \in (i + 1)..m
        <5>1. k \in 1..m BY <4>2
        <5>2. QED BY <1>7, <2>2, <4>2, <5>1 DEF Nearest
      <4>3. QED BY <1>1, <4>1, <4>2
    <3>3. QED BY <3>1, <3>2 DEF Nearest
  <2>4. /\ stack'[m + 1].scope = OnlyBinding(stack'[i].id, stack'[i].em)
        /\ stack'[m + 1].em \in {NoEm, stack'[i].em}
    <3>1. e = OnlyBinding(stack[i].id, stack[i].em)[id] BY <1>0, <1>5, <2>2
    <3>2. e \in {NoEm, stack[i].em} BY <3>1 DEF OnlyBinding
    <3>3. QED BY <1>0, <1>7, <2>2, <3>2
  <2>5. i \in 1..(m + 1) OBVIOUS
  <2>6. QED BY <1>7, <1>8, <2>1, <2>3, <2>4, <2>5 DEF NearestInv
<1>21. DeciderInv'
  <2>1. \A w \in Writes : decider[w] <= m BY <1>1 DEF IInv, TypeOK, DeciderInv
  <2>2. QED BY <1>1, <1>3, <1>7, <1>8, <2>1, DecidersStay
<1>17. NothingLeftBehind'
  BY <1>1, <1>3, <1>7 DEF IInv, NothingLeftBehind, Owned
<1>18. NoAccidentalNesting'
  <2>1. ASSUME NEW i \in 1..m, NEW j \in 1..m, i < j, ActiveFrame(i)', ActiveFrame(j)',
               stack'[i].id = stack'[j].id, stack'[j].policy # "REQUIRED_NEW"
        PROVE  \E k \in (i + 1)..(j - 1) : stack'[k].id # stack'[i].id \/ stack'[k].owner
    <3>1. ActiveFrame(i) /\ ActiveFrame(j) /\ stack[i].id = stack[j].id /\ stack[j].policy # "REQUIRED_NEW"
      BY <1>3, <1>7, <2>1 DEF ActiveFrame
    <3>2. PICK k \in (i + 1)..(j - 1) : stack[k].id # stack[i].id \/ stack[k].owner
      BY <1>1, <2>1, <3>1 DEF IInv, NoAccidentalNesting
    <3>3. k \in 1..m BY <1>1
    <3>4. QED BY <1>7, <3>2, <3>3
  <2>2. \A i \in 1..(m + 1) : ActiveFrame(i)' => i \in 1..m BY <1>7, <1>8 DEF ActiveFrame
  <2>3. QED BY <1>7, <2>1, <2>2 DEF NoAccidentalNesting
<1>19. QED BY <1>11, <1>12, <1>13, <1>14, <1>15, <1>16, <1>17, <1>18, <1>20, <1>21 DEF IInv

\* A call with an entity manager of its own.  It begins a transaction inside one
\* of its identity only where that one is not in sight, or it asks for a new one.
LEMMA PushOwnerIInv ==
  ASSUME IInv, NEW policy \in Policies, NEW id \in Identities, NEW tx \in BOOLEAN,
         PushOwner(policy, id, tx),
         policy \notin {"REQUIRED", "REQUIRED_NEW"} => ~tx,
         tx /\ policy # "REQUIRED_NEW" => Visible(id) = NoEm \/ ~InTx(Visible(id))
  PROVE  IInv'
<1>1. PICK e \in Fresh :
        /\ Push(policy, id, e, TRUE, OnlyBinding(id, e))
        /\ open' = open \cup {e}
        /\ active' = IF tx THEN active \cup {e} ELSE active
        /\ UNCHANGED <<pending, db, async, made, decider, abandoned>>
  BY DEF PushOwner
<1> DEFINE f == [policy |-> policy, id |-> id, em |-> e, owner |-> TRUE, scope |-> OnlyBinding(id, e)]
<1>2. PICK m \in Nat : m = Len(stack) BY DEF IInv, TypeOK
<1>3. /\ e \in Ems /\ e \notin open /\ e \notin active /\ e # NoEm
      /\ \A i \in 1..m : stack[i].em # e
  BY <1>2, ConstantsAssumption DEF Fresh
<1>4. /\ OnlyBinding(id, e) \in [Identities -> Ems \cup {NoEm}]
      /\ OnlyBinding(id, e)[id] = e
      /\ \A h \in Identities : OnlyBinding(id, e)[h] \in {NoEm, e}
  BY <1>3 DEF OnlyBinding
<1>5. f \in Frames BY <1>3, <1>4 DEF Frames
<1>6. stack \in Seq(Frames) /\ stack' = Append(stack, f) BY <1>1 DEF Push, IInv, TypeOK
<1>7. PICK scope : scope = OnlyBinding(id, e) OBVIOUS
<1>8. /\ f.policy = policy /\ f.id = id /\ f.em = e /\ f.owner = TRUE /\ f.scope = scope
  BY <1>7
<1> HIDE DEF f
<1>9. /\ stack' \in Seq(Frames) /\ Len(stack') = m + 1
      /\ \A i \in 1..m : stack'[i] = stack[i]
      /\ stack'[m + 1].id = id /\ stack'[m + 1].em = e /\ stack'[m + 1].owner
      /\ stack'[m + 1].scope = scope /\ stack'[m + 1].policy = policy
      /\ scope[id] = e /\ \A h \in Identities : scope[h] \in {NoEm, e}
  BY <1>2, <1>4, <1>5, <1>6, <1>7, <1>8, Pushed
<1>10. /\ \A i \in 1..(m + 1) : i \in 1..m \/ i = m + 1
       /\ \A i \in 1..m : \A x : OwnedBelow(i, x) => OwnedBelow(i, x)'
       /\ \A n \in 1..m, i \in 1..m : i <= n /\ Joined(i, n)' => Joined(i, n)
       /\ \A i \in 1..m : ~Joined(i, m + 1)'
  BY <1>2, <1>5, <1>6, <1>8, BelowKept
<1>11. active' \subseteq active \cup {e} /\ (~tx => active' = active) BY <1>1
<1>12. TypeOK' BY <1>1, <1>3, <1>9, <1>11 DEF IInv, TypeOK
<1>13. WriteInv' BY <1>1, <1>11 DEF IInv, WriteInv
<1>21. NearestInv'
  <2>1. ASSUME NEW n \in 1..m
        PROVE  \E i \in 1..n : /\ Nearest(i, n)'
                               /\ stack'[n].scope = OnlyBinding(stack'[i].id, stack'[i].em)
                               /\ stack'[n].em \in {NoEm, stack'[i].em}
    BY <1>2, <1>9, NearestKept
  <2>2. Nearest(m + 1, m + 1)' BY <1>2, <1>9 DEF Nearest
  <2>3. m + 1 \in 1..(m + 1) OBVIOUS
  <2>4. stack'[m + 1].scope = OnlyBinding(stack'[m + 1].id, stack'[m + 1].em) BY <1>7, <1>9
  <2>5. QED BY <1>9, <1>10, <2>1, <2>2, <2>3, <2>4 DEF NearestInv
<1>22. DeciderInv'
  <2>1. \A w \in Writes : decider[w] <= m BY <1>2 DEF IInv, TypeOK, DeciderInv
  <2>2. pending[e] = {} BY <1>3 DEF IInv, WriteInv
  <2>3. QED BY <1>1, <1>2, <1>9, <1>10, <2>1, <2>2, DecidersStay
<1>14. ScopeInv'
  <2>1. ASSUME NEW i \in 1..m, NEW h \in Identities
        PROVE  /\ stack'[i].em # NoEm => OwnedBelow(i, stack[i].em)'
               /\ stack'[i].scope[h] # NoEm => OwnedBelow(i, stack[i].scope[h])'
    <3>1. PICK x, y : x = stack[i].em /\ y = stack[i].scope[h] OBVIOUS
    <3>2. stack'[i].em = x /\ stack'[i].scope[h] = y BY <1>9, <3>1
    <3>3. (x # NoEm => OwnedBelow(i, x)) /\ (y # NoEm => OwnedBelow(i, y))
      BY <1>2, <3>1 DEF IInv, ScopeInv
    <3>4. (x # NoEm => OwnedBelow(i, x)') /\ (y # NoEm => OwnedBelow(i, y)') BY <1>10, <3>3
    <3>5. QED BY <3>2, <3>4 DEF OwnedBelow
  <2>2. OwnedBelow(m + 1, e)' BY <1>9 DEF OwnedBelow
  <2>3. ASSUME NEW h \in Identities
        PROVE  /\ stack'[m + 1].em # NoEm => OwnedBelow(m + 1, stack[m + 1].em)'
               /\ stack'[m + 1].scope[h] # NoEm => OwnedBelow(m + 1, stack[m + 1].scope[h])'
    BY <1>9, <2>2 DEF OwnedBelow
  <2>4. QED BY <1>9, <1>10, <2>1, <2>3 DEF ScopeInv
<1>15. EmOfBodyIsOpen'
  BY <1>1, <1>2, <1>9, <1>10 DEF IInv, EmOfBodyIsOpen
<1>16. OwnerInv'
  <2>1. ASSUME NEW i \in 1..(m + 1)
        PROVE  /\ stack'[i].em \notin async'
               /\ stack'[i].owner => stack'[i].em # NoEm
               /\ stack'[i].owner /\ stack'[i].policy \notin {"REQUIRED", "REQUIRED_NEW"}
                    => stack'[i].em \notin active'
    <3>1. CASE i \in 1..m BY <1>1, <1>2, <1>3, <1>9, <1>11, <3>1 DEF IInv, OwnerInv
    <3>2. CASE i = m + 1 BY <1>1, <1>3, <1>9, <1>11, <3>2 DEF IInv, TypeOK
    <3>3. QED BY <1>10, <3>1, <3>2
  <2>2. ASSUME NEW i \in 1..(m + 1), NEW j \in 1..(m + 1), stack'[i].owner, stack'[j].owner,
               stack'[i].em = stack'[j].em
        PROVE  i = j
    BY <1>2, <1>3, <1>9, <1>10, <2>2 DEF IInv, OwnerInv
  <2>3. QED BY <1>9, <2>1, <2>2 DEF OwnerInv
<1>17. BindingInv'
  <2>1. ASSUME NEW n \in 1..m, NEW i \in 1..n, stack'[i].owner, Joined(i, n)'
        PROVE  stack'[n].scope[stack'[i].id] = stack'[i].em
    <3>1. i \in 1..m /\ i <= n OBVIOUS
    <3>2. stack[i].owner /\ Joined(i, n) BY <1>9, <1>10, <2>1, <3>1
    <3>3. stack[n].scope[stack[i].id] = stack[i].em BY <1>2, <3>2 DEF IInv, BindingInv
    <3>4. QED BY <1>9, <3>1, <3>3
  <2>2. QED BY <1>9, <1>10, <2>1 DEF BindingInv
<1>18. NothingLeftBehind'
  <2>1. \A x : Owned(x) => Owned(x)' BY <1>2, <1>9 DEF Owned
  <2>2. Owned(e)' BY <1>9 DEF Owned
  <2>3. QED BY <1>1, <1>11, <2>1, <2>2 DEF IInv, NothingLeftBehind
<1>19. NoAccidentalNesting'
  <2>1. ASSUME NEW i \in 1..m, NEW j \in 1..m, i < j, ActiveFrame(i)', ActiveFrame(j)',
               stack'[i].id = stack'[j].id, stack'[j].policy # "REQUIRED_NEW"
        PROVE  \E k \in (i + 1)..(j - 1) : stack'[k].id # stack'[i].id \/ stack'[k].owner
    <3>1. ActiveFrame(i) /\ ActiveFrame(j) /\ stack[i].id = stack[j].id /\ stack[j].policy # "REQUIRED_NEW"
      BY <1>3, <1>9, <1>11, <2>1 DEF ActiveFrame
    <3>2. PICK k \in (i + 1)..(j - 1) : stack[k].id # stack[i].id \/ stack[k].owner
      BY <1>2, <2>1, <3>1 DEF IInv, NoAccidentalNesting
    <3>3. k \in 1..m OBVIOUS
    <3>4. QED BY <1>9, <3>2, <3>3
  <2>2. ASSUME NEW i \in 1..m, ActiveFrame(i)', ActiveFrame(m + 1)', stack'[i].id = id,
               policy # "REQUIRED_NEW"
        PROVE  \E k \in (i + 1)..m : stack'[k].id # stack'[i].id \/ stack'[k].owner
    <3>1. tx BY <1>3, <1>9, <1>11, <2>2 DEF ActiveFrame
    <3>2. ActiveFrame(i) /\ stack[i].id = id BY <1>3, <1>9, <1>11, <2>2 DEF ActiveFrame
    <3>3. stack[i].em # NoEm /\ stack[i].em \in open
      BY <1>2, <3>2 DEF IInv, OwnerInv, EmOfBodyIsOpen, ActiveFrame
    <3>4. ~Joined(i, m)
      <4>1. SUFFICES ASSUME Joined(i, m) PROVE FALSE OBVIOUS
      <4>2. m \in 1..m /\ i \in 1..m OBVIOUS
      <4>3. stack[m].scope[id] = stack[i].em
        BY <1>2, <3>2, <4>1, <4>2 DEF IInv, BindingInv, ActiveFrame
      <4>4. Visible(id) = stack[i].em BY <1>2, <4>2, <4>3 DEF Visible, Top, Bound
      <4>5. QED BY <2>2, <3>1, <3>2, <3>3, <4>4 DEF InTx, ActiveFrame
    <3>5. PICK k \in (i + 1)..m : stack[k].id # stack[i].id \/ stack[k].owner
      BY <3>4 DEF Joined
    <3>6. k \in 1..m OBVIOUS
    <3>7. QED BY <1>9, <3>5, <3>6
  <2>3. QED BY <1>9, <1>10, <2>1, <2>2 DEF NoAccidentalNesting
<1>20. QED BY <1>12, <1>13, <1>14, <1>15, <1>16, <1>17, <1>18, <1>19, <1>21, <1>22 DEF IInv

\* The end of a call.  Only an owner closes its entity manager, or leaves it to
\* an asynchronous request, and no call below runs with it.
LEMMA Leaves ==
  ASSUME IInv, Bound, Pop, active' \subseteq active, open' \subseteq open,
         NEW t \in Frames, t = Top,
         \A e \in open : e \in open' \/ (e = t.em /\ t.owner),
         \A e \in async' : e \in async \/ (e = t.em /\ t.owner)
  PROVE  /\ OwnerInv' /\ ScopeInv' /\ BindingInv' /\ EmOfBodyIsOpen' /\ NoAccidentalNesting'
         /\ NearestInv' /\ stack' \in Seq(Frames)
         /\ \A e : Owned(e) => Owned(e)' \/ (e = t.em /\ t.owner)
<1>1. PICK n \in Nat : n = Len(stack) - 1 BY DEF IInv, TypeOK, Bound
<1>2. /\ stack' \in Seq(Frames) /\ Len(stack') = n /\ Len(stack) = n + 1
      /\ \A i \in 1..n : i \in 1..Len(stack) /\ stack'[i] = stack[i]
      /\ stack[n + 1] = t
  BY <1>1, Popped DEF IInv, TypeOK, Top
<1>3. \A i \in 1..n : \A e : OwnedBelow(i, e) => OwnedBelow(i, e)'
  <2>1. ASSUME NEW i \in 1..n, NEW e, NEW j \in 1..i, stack[j].owner, stack[j].em = e
        PROVE  OwnedBelow(i, e)'
    <3>1. j \in 1..n BY <1>1
    <3>2. QED BY <1>2, <2>1, <3>1 DEF OwnedBelow
  <2>2. QED BY <2>1 DEF OwnedBelow
<1>4. \A k \in 1..n, i \in 1..n : Joined(i, k)' => Joined(i, k)
  <2>1. ASSUME NEW k \in 1..n, NEW i \in 1..n, NEW l \in (i + 1)..k PROVE l \in 1..n
    BY <1>1
  <2>2. QED BY <1>2, <2>1 DEF Joined
<1>5. t.owner => \A i \in 1..n : stack[i].em # t.em
  <2> SUFFICES ASSUME t.owner, NEW i \in 1..n, stack[i].em = t.em PROVE FALSE
    OBVIOUS
  <2>1. n + 1 \in 1..Len(stack) BY <1>1, <1>2
  <2>2. t.em # NoEm BY <1>2, <2>1 DEF IInv, OwnerInv
  <2>3. PICK j \in 1..i : stack[j].owner /\ stack[j].em = t.em
    BY <1>2, <2>2 DEF IInv, ScopeInv, OwnedBelow
  <2>4. j \in 1..Len(stack) /\ j # n + 1 BY <1>1, <1>2
  <2>5. QED BY <1>2, <2>1, <2>3, <2>4 DEF IInv, OwnerInv
<1>6. OwnerInv'
  BY <1>2, <1>5 DEF IInv, OwnerInv
<1>7. ScopeInv'
  <2>1. ASSUME NEW i \in 1..n
        PROVE  stack'[i].em # NoEm => OwnedBelow(i, stack[i].em)'
    <3>1. stack[i].em # NoEm => OwnedBelow(i, stack[i].em) BY <1>2 DEF IInv, ScopeInv
    <3>2. PICK x : x = stack[i].em OBVIOUS
    <3>3. stack'[i].em = x /\ (x # NoEm => OwnedBelow(i, x)') BY <1>2, <1>3, <3>1, <3>2
    <3>4. QED BY <3>3 DEF OwnedBelow
  <2>2. ASSUME NEW i \in 1..n, NEW h \in Identities
        PROVE  stack'[i].scope[h] # NoEm => OwnedBelow(i, stack[i].scope[h])'
    <3>1. PICK x : x = stack[i].scope[h] OBVIOUS
    <3>2. x # NoEm => OwnedBelow(i, x) BY <1>2, <3>1 DEF IInv, ScopeInv
    <3>3. stack'[i].scope[h] = x /\ (x # NoEm => OwnedBelow(i, x)') BY <1>2, <1>3, <3>1, <3>2
    <3>4. QED BY <3>3 DEF OwnedBelow
  <2>3. QED BY <1>2, <2>1, <2>2 DEF ScopeInv
<1>8. BindingInv'
  <2>1. ASSUME NEW k \in 1..n, NEW i \in 1..k, stack'[i].owner, Joined(i, k)'
        PROVE  stack'[k].scope[stack'[i].id] = stack'[i].em
    <3>1. i \in 1..n BY <1>1
    <3>2. stack[i].owner /\ Joined(i, k) BY <1>2, <1>4, <2>1, <3>1
    <3>3. stack[k].scope[stack[i].id] = stack[i].em BY <1>2, <3>2 DEF IInv, BindingInv
    <3>4. QED BY <1>2, <3>1, <3>3
  <2>2. QED BY <1>2, <2>1 DEF BindingInv
<1>9. EmOfBodyIsOpen'
  BY <1>2, <1>5 DEF IInv, EmOfBodyIsOpen
<1>10. NoAccidentalNesting'
  <2>1. ASSUME NEW i \in 1..n, NEW j \in 1..n, i < j, ActiveFrame(i)', ActiveFrame(j)',
               stack'[i].id = stack'[j].id, stack'[j].policy # "REQUIRED_NEW"
        PROVE  \E k \in (i + 1)..(j - 1) : stack'[k].id # stack'[i].id \/ stack'[k].owner
    <3>1. ActiveFrame(i) /\ ActiveFrame(j) /\ stack[i].id = stack[j].id /\ stack[j].policy # "REQUIRED_NEW"
      BY <1>2, <2>1 DEF ActiveFrame
    <3>2. PICK k \in (i + 1)..(j - 1) : stack[k].id # stack[i].id \/ stack[k].owner
      BY <1>2, <2>1, <3>1 DEF IInv, NoAccidentalNesting
    <3>3. k \in 1..n BY <1>1
    <3>4. QED BY <1>2, <3>2, <3>3
  <2>2. QED BY <1>2, <2>1 DEF NoAccidentalNesting
<1>11. ASSUME NEW e, Owned(e) PROVE Owned(e)' \/ (e = t.em /\ t.owner)
  <2>1. PICK i \in 1..Len(stack) : stack[i].em = e /\ stack[i].owner BY <1>11 DEF Owned
  <2>2. CASE i = n + 1 BY <1>2, <2>1, <2>2
  <2>3. CASE i \in 1..n BY <1>2, <2>1, <2>3 DEF Owned
  <2>4. QED BY <1>1, <1>2, <2>2, <2>3
<1>12. NearestInv' BY <1>2, NearestKept DEF NearestInv
<1>13. QED BY <1>2, <1>6, <1>7, <1>8, <1>9, <1>10, <1>11, <1>12

\* The calls below one that ends keep what they decide about, and the call
\* itself decides about nothing any more.
LEMMA DecidersLeft ==
  ASSUME IInv, Bound, Pop, NEW t \in Frames, t = Top,
         \/ Decided(Len(stack))
         \/ UNCHANGED decider /\ (t.owner => pending[t.em] = {}),
         pending' \in [Ems -> SUBSET Writes],
         \A e \in Ems : pending'[e] = pending[e] \/ (e = t.em /\ t.owner)
  PROVE  DeciderInv'
<1>1. PICK n \in Nat : n = Len(stack) - 1 BY DEF IInv, TypeOK, Bound
<1>2. /\ Len(stack') = n /\ Len(stack) = n + 1 /\ n + 1 \in 1..(n + 1)
      /\ \A i \in 1..n : i \in 1..Len(stack) /\ stack'[i] = stack[i]
      /\ stack[n + 1] = t
  BY <1>1, Popped DEF IInv, TypeOK, Top
<1>3. \A i \in 1..n : stack[i].owner => /\ stack[i].em \in Ems
                                        /\ ~(stack[i].em = t.em /\ t.owner)
  BY <1>1, <1>2, FrameTypes DEF IInv, TypeOK, OwnerInv
<1>4. \A w \in Writes : /\ decider'[w] # 0 => decider'[w] = decider[w] /\ decider[w] \in 1..n
                        /\ decider[w] \in 1..n => decider'[w] = decider[w]
  <2>1. CASE Decided(Len(stack))
    BY <1>2, <2>1 DEF Decided, IInv, TypeOK, DeciderInv
  <2>2. CASE UNCHANGED decider /\ (t.owner => pending[t.em] = {})
    <3>1. \A w \in Writes : decider[w] # n + 1 BY <1>2, <2>2 DEF IInv, DeciderInv
    <3>2. QED BY <1>2, <2>2, <3>1 DEF IInv, TypeOK, DeciderInv
  <2>3. QED BY <2>1, <2>2
<1>5. ASSUME NEW w \in Writes, decider'[w] # 0
      PROVE  /\ decider'[w] \in 1..Len(stack') /\ stack'[decider'[w]].owner
             /\ w \in pending'[stack'[decider'[w]].em]
  <2>1. decider'[w] = decider[w] /\ decider[w] \in 1..n /\ decider[w] # 0 BY <1>4, <1>5
  <2>2. stack[decider[w]].owner /\ w \in pending[stack[decider[w]].em]
    BY <2>1 DEF IInv, DeciderInv
  <2>3. QED BY <1>2, <1>3, <2>1, <2>2
<1>6. ASSUME NEW i \in 1..Len(stack'), stack'[i].owner, NEW w \in pending'[stack'[i].em]
      PROVE  decider'[w] = i
  <2>1. i \in 1..n /\ i \in 1..Len(stack) /\ stack[i].owner /\ w \in pending[stack[i].em]
    BY <1>2, <1>3, <1>6
  <2>2. decider[w] = i /\ w \in Writes BY <1>3, <2>1 DEF IInv, DeciderInv, TypeOK
  <2>3. QED BY <1>4, <2>1, <2>2
<1>7. QED BY <1>5, <1>6 DEF DeciderInv

\* The transaction of a call ends as a whole: its writes are committed, or lost.
LEMMA EndTxIInv ==
  ASSUME IInv, Bound, Pop, Transactional, NEW committed, EndTx(committed),
         committed = pending[Top.em] \/ committed = {}
  PROVE  IInv'
<1>1. PICK t \in Frames : t = Top BY Popped DEF IInv, TypeOK
<1>2. t.owner /\ t.em \in Ems
  <2>1. Len(stack) \in 1..Len(stack) BY Popped DEF IInv, TypeOK
  <2>2. t.owner /\ t.em # NoEm BY <1>1, <2>1 DEF Transactional, Top, IInv, OwnerInv
  <2>3. QED BY <2>2 DEF Frames
<1>3. /\ committed = pending[t.em] \/ committed = {}
      /\ db' = db \cup committed
      /\ pending' = [pending EXCEPT ![t.em] = {}]
      /\ active' = active \ {t.em}
      /\ open' = open \ {t.em}
      /\ Decided(Len(stack))
      /\ UNCHANGED <<async, made, abandoned>>
  BY <1>1 DEF EndTx
<1>4. /\ OwnerInv' /\ ScopeInv' /\ BindingInv' /\ EmOfBodyIsOpen' /\ NoAccidentalNesting'
      /\ NearestInv' /\ stack' \in Seq(Frames)
      /\ \A e : Owned(e) => Owned(e)' \/ (e = t.em /\ t.owner)
  BY <1>1, <1>2, <1>3, Leaves
<1>5. pending[t.em] \subseteq Writes BY <1>2 DEF IInv, TypeOK
<1>6. TypeOK'
  <2>1. t.em \notin async
    <3>1. Len(stack) \in 1..Len(stack) BY Popped DEF IInv, TypeOK
    <3>2. QED BY <1>1, <3>1 DEF Top, IInv, OwnerInv
  <2>2. decider' \in [Writes -> Nat] BY <1>3 DEF IInv, TypeOK, Decided
  <2>3. db' \subseteq Writes BY <1>3, <1>5 DEF IInv, TypeOK
  <2>4. QED BY <1>3, <1>4, <2>1, <2>2, <2>3 DEF IInv, TypeOK
<1>10. /\ pending'[t.em] = {} /\ \A e \in Ems \ {t.em} : pending'[e] = pending[e]
  BY <1>2, <1>3 DEF IInv, TypeOK
<1>7. WriteInv'
  <2>1. db' \subseteq made' BY <1>2, <1>3 DEF IInv, WriteInv
  <2>2. \A e \in Ems : /\ pending'[e] # {} => e \in active'
                      /\ \A w \in pending'[e] : w \in made'
    BY <1>2, <1>3, <1>10 DEF IInv, WriteInv
  <2>3. \A e, g \in Ems : e # g => pending'[e] \cap pending'[g] = {}
    BY <1>2, <1>10 DEF IInv, WriteInv
  <2>4. QED BY <2>1, <2>2, <2>3 DEF WriteInv
<1>11. DeciderInv'
  <2>1. pending' \in [Ems -> SUBSET Writes] BY <1>6 DEF TypeOK
  <2>2. QED BY <1>1, <1>2, <1>3, <1>10, <2>1, DecidersLeft
<1>8. NothingLeftBehind' BY <1>3, <1>4 DEF IInv, NothingLeftBehind
<1>9. QED BY <1>4, <1>6, <1>7, <1>8, <1>11 DEF IInv

\* An Error leaves an active transaction, or the entity manager of a request,
\* behind; what is committed does not change.
LEMMA DieOwnerIInv ==
  ASSUME IInv, DieOwner
  PROVE  IInv'
<1>1. PICK t \in Frames : t = Top BY Popped DEF IInv, TypeOK, DieOwner
<1>2. Len(stack) \in 1..Len(stack) BY Popped DEF IInv, TypeOK, DieOwner
<1>3. /\ t.owner /\ t.em \in Ems /\ t.em \notin async
      /\ t.policy \notin {"REQUIRED", "REQUIRED_NEW"} => t.em \notin active
  <2>1. t.owner /\ t.em \in Ems \cup {NoEm} BY <1>1 DEF DieOwner, Frames
  <2>2. /\ t.em # NoEm /\ t.em \notin async
        /\ t.policy \notin {"REQUIRED", "REQUIRED_NEW"} => t.em \notin active
    BY <1>1, <1>2, <2>1 DEF Top, IInv, OwnerInv
  <2>3. QED BY <2>1, <2>2
<1>4. /\ open' \subseteq open /\ \A e \in open : e \in open' \/ e = t.em
      /\ abandoned' = abandoned \/ abandoned' = abandoned \cup {t.em}
      /\ t.em \in open' \cup active => t.em \in abandoned'
      /\ UNCHANGED <<active, pending, db, async, made>> /\ Pop /\ Bound
      /\ Decided(Len(stack))
  BY <1>1, <1>3 DEF DieOwner, Transactional
<1>5. /\ OwnerInv' /\ ScopeInv' /\ BindingInv' /\ EmOfBodyIsOpen' /\ NoAccidentalNesting'
      /\ NearestInv' /\ stack' \in Seq(Frames)
      /\ \A e : Owned(e) => Owned(e)' \/ (e = t.em /\ t.owner)
  BY <1>1, <1>3, <1>4, Leaves
<1>6. TypeOK' BY <1>3, <1>4, <1>5 DEF IInv, TypeOK, Decided
<1>7. WriteInv' BY <1>4 DEF IInv, WriteInv
<1>8. NothingLeftBehind' BY <1>4, <1>5 DEF IInv, NothingLeftBehind
<1>10. DeciderInv' BY <1>1, <1>4, DecidersLeft DEF IInv, TypeOK
<1>9. QED BY <1>5, <1>6, <1>7, <1>8, <1>10 DEF IInv

\* A call that joined leaves everything to the owner.
LEMMA LeaveGuestIInv ==
  ASSUME IInv, LeaveGuest
  PROVE  IInv'
<1>1. PICK t \in Frames : t = Top BY Popped DEF IInv, TypeOK, LeaveGuest
<1>2. /\ ~t.owner /\ UNCHANGED <<open, active, pending, db, async, made, decider, abandoned>> /\ Pop /\ Bound
  BY <1>1 DEF LeaveGuest
<1>3. /\ OwnerInv' /\ ScopeInv' /\ BindingInv' /\ EmOfBodyIsOpen' /\ NoAccidentalNesting'
      /\ NearestInv' /\ stack' \in Seq(Frames)
      /\ \A e : Owned(e) => Owned(e)' \/ (e = t.em /\ t.owner)
  BY <1>1, <1>2, Leaves
<1>4. TypeOK' /\ WriteInv' BY <1>2, <1>3 DEF IInv, TypeOK, WriteInv
<1>5. NothingLeftBehind' BY <1>2, <1>3 DEF IInv, NothingLeftBehind
<1>6. DeciderInv' BY <1>1, <1>2, DecidersLeft DEF IInv, TypeOK
<1>7. QED BY <1>3, <1>4, <1>5, <1>6 DEF IInv

\* An owner without a transaction closes its entity manager, or leaves it to the
\* asynchronous request.
LEMMA LeaveUntransactedIInv ==
  ASSUME IInv, LeaveUntransacted
  PROVE  IInv'
<1>1. PICK t \in Frames : t = Top BY Popped DEF IInv, TypeOK, LeaveUntransacted
<1>2. Len(stack) \in 1..Len(stack) BY Popped DEF IInv, TypeOK, LeaveUntransacted
<1>3. t.owner /\ t.em \in Ems /\ t.em \notin async /\ t.em \notin active /\ t.em \in open
  BY <1>1, <1>2 DEF LeaveUntransacted, Top, IInv, OwnerInv, EmOfBodyIsOpen, Frames
<1>4. /\ UNCHANGED <<active, pending, db, made, decider, abandoned>> /\ Pop /\ Bound
      /\ \/ open' = open \ {t.em} /\ async' = async
         \/ open' = open /\ async' = async \cup {t.em}
  BY <1>1 DEF LeaveUntransacted
<1>5. /\ OwnerInv' /\ ScopeInv' /\ BindingInv' /\ EmOfBodyIsOpen' /\ NoAccidentalNesting'
      /\ NearestInv' /\ stack' \in Seq(Frames)
      /\ \A e : Owned(e) => Owned(e)' \/ (e = t.em /\ t.owner)
  BY <1>1, <1>3, <1>4, Leaves
<1>6. TypeOK' BY <1>3, <1>4, <1>5 DEF IInv, TypeOK
<1>7. WriteInv' BY <1>4 DEF IInv, WriteInv
<1>8. NothingLeftBehind' BY <1>3, <1>4, <1>5 DEF IInv, NothingLeftBehind
<1>10. DeciderInv'
  <2>1. pending[t.em] = {} BY <1>3 DEF IInv, WriteInv
  <2>2. QED BY <1>1, <1>4, <2>1, DecidersLeft DEF IInv, TypeOK
<1>9. QED BY <1>5, <1>6, <1>7, <1>8, <1>10 DEF IInv

\* The calls under way keep their frames when something else changes.
LEMMA StackStays ==
  ASSUME IInv, UNCHANGED stack, active' \subseteq active, async' \subseteq async
  PROVE  OwnerInv' /\ ScopeInv' /\ BindingInv' /\ NoAccidentalNesting' /\ NearestInv'
<1>1. OwnerInv' BY DEF IInv, OwnerInv
<1>2. ScopeInv' BY DEF IInv, ScopeInv, OwnedBelow
<1>3. BindingInv' BY DEF IInv, BindingInv, Joined
<1>4. NoAccidentalNesting' BY DEF IInv, NoAccidentalNesting, ActiveFrame
<1>5. NearestInv' BY DEF IInv, NearestInv, Nearest
<1>6. QED BY <1>1, <1>2, <1>3, <1>4, <1>5

\* Nobody runs with the entity manager that an asynchronous request closes.
LEMMA AsyncDoneIInv ==
  ASSUME IInv, NEW e \in Ems, AsyncDone(e)
  PROVE  IInv'
<1>1. OwnerInv' /\ ScopeInv' /\ BindingInv' /\ NoAccidentalNesting' /\ NearestInv'
  BY StackStays DEF AsyncDone
<1>2. TypeOK' /\ WriteInv' /\ DeciderInv'
  BY DEF IInv, TypeOK, WriteInv, DeciderInv, AsyncDone
<1>3. EmOfBodyIsOpen' BY DEF IInv, EmOfBodyIsOpen, OwnerInv, AsyncDone
<1>4. NothingLeftBehind' BY DEF IInv, NothingLeftBehind, Owned, AsyncDone
<1>5. QED BY <1>1, <1>2, <1>3, <1>4 DEF IInv

\* The innermost call has one nearest owner, whose entity manager it sees.
LEMMA DeciderOfTop ==
  ASSUME IInv, Bound
  PROVE  /\ Decider \in 1..Len(stack) /\ stack[Decider].owner
         /\ Top.em \in {NoEm, stack[Decider].em}
         /\ \A id \in Identities : Visible(id) \in {NoEm, stack[Decider].em}
<1>1. PICK n \in Nat : n = Len(stack) /\ n \in 1..n BY DEF IInv, TypeOK, Bound
<1>2. PICK i \in 1..n : /\ Nearest(i, n)
                        /\ stack[n].scope = OnlyBinding(stack[i].id, stack[i].em)
                        /\ stack[n].em \in {NoEm, stack[i].em}
  BY <1>1 DEF IInv, NearestInv
<1>3. \A j \in 1..n : Nearest(j, n) => j = i
  <2> SUFFICES ASSUME NEW j \in 1..n, Nearest(j, n), j # i PROVE FALSE
    OBVIOUS
  <2>1. i \in (j + 1)..n \/ j \in (i + 1)..n OBVIOUS
  <2>2. QED BY <1>2, <2>1 DEF Nearest
<1>4. Decider = i
  <2>1. \E j \in 1..n : Nearest(j, n) BY <1>2
  <2>2. Decider \in 1..n /\ Nearest(Decider, n) BY <1>1, <2>1 DEF Decider
  <2>3. QED BY <1>3, <2>2
<1>5. QED BY <1>1, <1>2, <1>4 DEF Nearest, Top, Visible, OnlyBinding

\* A write belongs to one transaction, or to none.
LEMMA PersistIInv ==
  ASSUME IInv, NEW w \in Writes, Persist(w)
  PROVE  IInv'
<1>1. PICK t \in Frames : t = Top
  <2>1. Len(stack) \in 1..Len(stack) BY DEF Persist, Bound, IInv, TypeOK
  <2>2. QED BY <2>1 DEF Top, IInv, TypeOK
<1>2. /\ t.em \in Ems /\ w \notin made /\ made' = made \cup {w}
      /\ UNCHANGED <<stack, open, active, db, async, abandoned>>
  BY <1>1 DEF Persist, Frames
<1>3. OwnerInv' /\ ScopeInv' /\ BindingInv' /\ NoAccidentalNesting' /\ NearestInv'
  BY <1>2, StackStays
<1>4. EmOfBodyIsOpen' /\ NothingLeftBehind'
  BY <1>2 DEF IInv, EmOfBodyIsOpen, NothingLeftBehind, Owned
<1>5. \A e \in Ems : w \notin pending[e] BY <1>2 DEF IInv, WriteInv
<1>6. CASE /\ InTx(t.em)
           /\ pending' = [pending EXCEPT ![t.em] = @ \cup {w}]
           /\ decider' = [decider EXCEPT ![w] = Decider]
  <2>1. /\ pending'[t.em] = pending[t.em] \cup {w}
        /\ \A e \in Ems \ {t.em} : pending'[e] = pending[e]
        /\ decider'[w] = Decider /\ \A v \in Writes \ {w} : decider'[v] = decider[v]
    BY <1>2, <1>6 DEF IInv, TypeOK
  <2>2. PICK i : i = Decider OBVIOUS
  <2>3. i \in 1..Len(stack) /\ i # 0 /\ i \in Nat /\ stack[i].owner /\ stack[i].em = t.em
    BY <1>1, <1>2, <2>2, DeciderOfTop, ConstantsAssumption DEF Persist, IInv, TypeOK
  <2>4. TypeOK' BY <1>2, <1>6, <2>2, <2>3 DEF IInv, TypeOK
  <2>5. WriteInv'
    <3>1. db' \subseteq made' BY <1>2 DEF IInv, WriteInv
    <3>2. \A e \in Ems : /\ pending'[e] # {} => e \in active'
                        /\ \A v \in pending'[e] : v \in made'
      BY <1>2, <1>6, <2>1 DEF IInv, WriteInv, InTx
    <3>3. \A e, g \in Ems : e # g => pending'[e] \cap pending'[g] = {}
      BY <1>2, <1>5, <2>1 DEF IInv, WriteInv
    <3>4. QED BY <3>1, <3>2, <3>3 DEF WriteInv
  <2>6. ASSUME NEW v \in Writes, decider'[v] # 0
        PROVE  /\ decider'[v] \in 1..Len(stack') /\ stack'[decider'[v]].owner
               /\ v \in pending'[stack'[decider'[v]].em]
    <3>1. CASE v = w BY <1>2, <2>1, <2>2, <2>3, <3>1
    <3>2. CASE v # w
      <4>1. /\ decider'[v] = decider[v] /\ decider[v] \in 1..Len(stack) /\ stack[decider[v]].owner
            /\ v \in pending[stack[decider[v]].em]
        BY <2>1, <2>6, <3>2 DEF IInv, DeciderInv
      <4>2. stack[decider[v]].em \in Ems
        BY <4>1, FrameTypes DEF IInv, TypeOK, OwnerInv
      <4>3. QED BY <1>2, <2>1, <4>1, <4>2
    <3>3. QED BY <3>1, <3>2
  <2>7. ASSUME NEW j \in 1..Len(stack'), stack'[j].owner, NEW v \in pending'[stack'[j].em]
        PROVE  decider'[v] = j
    <3>1. j \in 1..Len(stack) /\ stack[j].owner /\ stack[j].em \in Ems /\ v \in Writes
      BY <1>2, <2>4, <2>7, FrameTypes DEF IInv, TypeOK, OwnerInv
    <3>2. CASE v = w
      <4>1. stack[j].em = t.em BY <1>2, <1>5, <2>1, <2>7, <3>1, <3>2
      <4>2. j = i BY <2>3, <3>1, <4>1 DEF IInv, OwnerInv
      <4>3. QED BY <2>1, <2>2, <3>2, <4>2
    <3>3. CASE v # w
      <4>1. v \in pending[stack[j].em] BY <1>2, <2>1, <2>7, <3>1, <3>3
      <4>2. QED BY <2>1, <3>1, <3>3, <4>1 DEF IInv, DeciderInv
    <3>4. QED BY <3>2, <3>3
  <2>8. DeciderInv' BY <2>6, <2>7 DEF DeciderInv
  <2>9. QED BY <1>3, <1>4, <2>4, <2>5, <2>8 DEF IInv
<1>7. CASE UNCHANGED <<pending, decider>>
  <2>1. TypeOK' BY <1>2, <1>7 DEF IInv, TypeOK
  <2>2. WriteInv' BY <1>2, <1>7 DEF IInv, WriteInv
  <2>3. DeciderInv' BY <1>2, <1>7 DEF IInv, DeciderInv
  <2>4. QED BY <1>3, <1>4, <2>1, <2>2, <2>3 DEF IInv
<1>8. QED BY <1>1, <1>6, <1>7 DEF Persist

\* rollback() loses all writes of the transaction it ends.
LEMMA RollbackIInv ==
  ASSUME IInv, NEW id \in Identities, Rollback(id)
  PROVE  IInv'
<1>1. PICK e, i : e = Visible(id) /\ i = Decider OBVIOUS
<1>2. /\ e \in Ems /\ active' = active \ {e} /\ pending' = [pending EXCEPT ![e] = {}]
      /\ decider' = [w \in Writes |-> IF decider[w] = i THEN 0 ELSE decider[w]]
      /\ UNCHANGED <<stack, open, db, async, made, abandoned>>
  BY <1>1 DEF Rollback, InTx, IInv, TypeOK, Decided
<1>3. OwnerInv' /\ ScopeInv' /\ BindingInv' /\ NoAccidentalNesting' /\ NearestInv'
  BY <1>2, StackStays
<1>4. EmOfBodyIsOpen' /\ NothingLeftBehind'
  BY <1>2 DEF IInv, EmOfBodyIsOpen, NothingLeftBehind, Owned
<1>5. pending'[e] = {} /\ \A g \in Ems \ {e} : pending'[g] = pending[g]
  BY <1>2 DEF IInv, TypeOK
<1>6. TypeOK' BY <1>2 DEF IInv, TypeOK
<1>7. WriteInv'
  <2>1. \A g \in Ems : /\ pending'[g] # {} => g \in active'
                      /\ \A w \in pending'[g] : w \in made'
    BY <1>2, <1>5 DEF IInv, WriteInv
  <2>2. \A g, h \in Ems : g # h => pending'[g] \cap pending'[h] = {}
    BY <1>2, <1>5 DEF IInv, WriteInv
  <2>3. QED BY <1>2, <2>1, <2>2 DEF IInv, WriteInv
<1>8. i \in 1..Len(stack) /\ stack[i].owner /\ stack[i].em = e
  BY <1>1, <1>2, DeciderOfTop, ConstantsAssumption DEF Rollback
<1>9. ASSUME NEW w \in Writes, decider'[w] # 0
      PROVE  /\ decider'[w] \in 1..Len(stack') /\ stack'[decider'[w]].owner
             /\ w \in pending'[stack'[decider'[w]].em]
  <2>1. /\ decider'[w] = decider[w] /\ decider[w] # i
        /\ decider[w] \in 1..Len(stack) /\ stack[decider[w]].owner
        /\ w \in pending[stack[decider[w]].em]
    BY <1>2, <1>9 DEF IInv, DeciderInv
  <2>2. stack[decider[w]].em \in Ems \ {e}
    BY <1>8, <2>1, FrameTypes DEF IInv, TypeOK, OwnerInv
  <2>3. QED BY <1>2, <1>5, <2>1, <2>2
<1>10. ASSUME NEW j \in 1..Len(stack'), stack'[j].owner, NEW w \in pending'[stack'[j].em]
       PROVE  decider'[w] = j
  <2>1. /\ j \in 1..Len(stack) /\ stack[j].owner /\ stack[j].em \in Ems /\ w \in Writes
    BY <1>2, <1>6, <1>10, FrameTypes DEF IInv, TypeOK, OwnerInv
  <2>2. stack[j].em # e /\ w \in pending[stack[j].em] BY <1>2, <1>5, <1>10, <2>1
  <2>3. decider[w] = j /\ j # i BY <1>8, <2>1, <2>2 DEF IInv, DeciderInv
  <2>4. QED BY <1>2, <2>1, <2>3
<1>11. DeciderInv' BY <1>9, <1>10 DEF DeciderInv
<1>12. QED BY <1>3, <1>4, <1>6, <1>7, <1>11 DEF IInv

\* A call begins.
LEMMA CallIInv ==
  ASSUME IInv, NEW id \in Identities, Call(id)
  PROVE  IInv'
<1> USE DEF Policies
<1>1. Bound => /\ Top.scope \in [Identities -> Ems \cup {NoEm}]
               /\ \A h \in Identities : Top.scope[h] = Visible(h)
  <2> SUFFICES ASSUME Bound PROVE Top.scope \in [Identities -> Ems \cup {NoEm}]
    BY DEF Visible
  <2>1. Len(stack) \in 1..Len(stack) BY DEF Bound, IInv, TypeOK
  <2>2. QED BY <2>1, FrameTypes DEF Top, IInv, TypeOK
<1>2. Visible(id) # NoEm => Bound BY DEF Visible
<1>3. Bound => Visible(id) \in Ems \cup {NoEm} BY <1>1
<1>4. CASE RequiredTx(id)
  <2>1. CASE PushOwner("REQUIRED", id, TRUE) /\ (Visible(id) = NoEm \/ ~InTx(Visible(id)))
    BY <2>1, PushOwnerIInv
  <2>2. CASE PushGuest("REQUIRED", id, OnlyBinding(id, Visible(id))) /\ Visible(id) # NoEm
    <3>1. OnlyBinding(id, Visible(id)) = Top.scope
      <4>1. PICK n \in Nat : n = Len(stack) /\ n \in 1..n BY <1>2, <2>2 DEF IInv, TypeOK, Bound
      <4>2. PICK i \in 1..n : stack[n].scope = OnlyBinding(stack[i].id, stack[i].em)
        BY <4>1 DEF IInv, NearestInv
      <4>3. Visible(id) = OnlyBinding(stack[i].id, stack[i].em)[id]
        BY <1>1, <1>2, <2>2, <4>1, <4>2 DEF Top
      <4>4. id = stack[i].id /\ Visible(id) = stack[i].em BY <2>2, <4>3 DEF OnlyBinding
      <4>5. QED BY <4>1, <4>2, <4>4 DEF Top
    <3>2. QED BY <1>1, <1>2, <2>2, <3>1, PushGuestIInv
  <2>3. QED BY <1>4, <2>1, <2>2 DEF RequiredTx
<1>5. CASE RequiredNewTx(id) BY <1>5, PushOwnerIInv DEF RequiredNewTx
<1>6. CASE MandatoryTx(id) BY <1>1, <1>6, PushGuestIInv DEF MandatoryTx
<1>7. CASE NeverTx(id) BY <1>1, <1>7, PushGuestIInv DEF NeverTx
<1>8. CASE NotSupportedTx(id)
  <2>1. CASE PushOwner("NOT_SUPPORTED", id, FALSE) BY <2>1, PushOwnerIInv
  <2>2. CASE PushGuest("NOT_SUPPORTED", id, Top.scope) /\ Visible(id) # NoEm
    BY <1>1, <1>2, <2>2, PushGuestIInv
  <2>3. QED BY <1>8, <2>1, <2>2 DEF NotSupportedTx
<1>9. CASE OpenEntityManager(id) BY <1>9, PushOwnerIInv DEF OpenEntityManager
<1>10. QED BY <1>4, <1>5, <1>6, <1>7, <1>8, <1>9 DEF Call

\* Every step keeps the invariant.
LEMMA NextIInv == IInv /\ [Next]_vars => IInv'
<1> SUFFICES ASSUME IInv, [Next]_vars PROVE IInv'
  OBVIOUS
<1>1. CASE UNCHANGED vars
  <2>1. UNCHANGED <<stack, open, active, pending, db, async, made, decider, abandoned>> BY <1>1 DEF vars
  <2>2. OwnerInv' /\ ScopeInv' /\ BindingInv' /\ NoAccidentalNesting' /\ NearestInv'
    BY <2>1, StackStays
  <2>3. TypeOK' /\ WriteInv' /\ DeciderInv' BY <2>1 DEF IInv, TypeOK, WriteInv, DeciderInv
  <2>4. EmOfBodyIsOpen' /\ NothingLeftBehind'
    BY <2>1 DEF IInv, EmOfBodyIsOpen, NothingLeftBehind, Owned
  <2>5. QED BY <2>2, <2>3, <2>4 DEF IInv
<1>2. ASSUME NEW id \in Identities, Call(id) \/ Rollback(id) PROVE IInv'
  BY <1>2, CallIInv, RollbackIInv
<1>3. ASSUME NEW w \in Writes, Persist(w) PROVE IInv'
  BY <1>3, PersistIInv
<1>4. CASE Exit
  <2>1. CASE ReturnOwner
    <3>1. CASE EndTx(pending[Top.em]) BY <2>1, <3>1, EndTxIInv DEF ReturnOwner
    <3>2. CASE EndTx({}) BY <2>1, <3>2, EndTxIInv DEF ReturnOwner
    <3>3. QED BY <2>1, <3>1, <3>2 DEF ReturnOwner
  <2>2. CASE ThrowOwner BY <2>2, EndTxIInv DEF ThrowOwner
  <2>3. QED BY <1>4, <2>1, <2>2, DieOwnerIInv, LeaveGuestIInv, LeaveUntransactedIInv DEF Exit
<1>5. ASSUME NEW e \in Ems, AsyncDone(e) PROVE IInv'
  BY <1>5, AsyncDoneIInv
<1>6. QED BY <1>1, <1>2, <1>3, <1>4, <1>5 DEF Next

\* Calls, bindings, entity managers and writes fit at any depth of nesting.
THEOREM NestingFits == Spec => []IInv
  BY InitIInv, NextIInv, PTL DEF Spec

\* Writes get into the database when the call ends that began their transaction,
\* together with all that was written in it and in the calls that joined it.
THEOREM AllOrNothingAlways == Spec => AllOrNothing
<1> DEFINE Together ==
      \A w \in Writes : w \in db' \ db =>
          /\ decider[w] = Len(stack) /\ Len(stack') = Len(stack) - 1
          /\ \A v \in Writes : decider[v] = decider[w] => v \in db'
<1>1. IInv /\ [Next]_vars => [Together]_vars
  <2> SUFFICES ASSUME IInv, Next, NEW w \in Writes, w \in db' \ db
               PROVE  /\ decider[w] = Len(stack) /\ Len(stack') = Len(stack) - 1
                      /\ \A v \in Writes : decider[v] = decider[w] => v \in db'
    OBVIOUS
  <2>1. /\ Bound /\ Transactional /\ Pop
        /\ db' = db \cup pending[Top.em]
    BY DEF Next, Call, RequiredTx, RequiredNewTx, MandatoryTx, NeverTx, NotSupportedTx,
           OpenEntityManager, PushOwner, PushGuest, Rollback, Persist, Exit, ReturnOwner,
           ThrowOwner, EndTx, DieOwner, LeaveGuest, LeaveUntransacted, AsyncDone
  <2>2. PICK n \in Nat : n = Len(stack) /\ n \in 1..n BY <2>1 DEF IInv, TypeOK, Bound
  <2>3. stack[n].owner /\ w \in pending[stack[n].em] BY <2>1, <2>2 DEF Transactional, Top
  <2>4. decider[w] = n BY <2>2, <2>3 DEF IInv, DeciderInv
  <2>5. Len(stack') = n - 1 BY <2>1, <2>2, Popped DEF IInv, TypeOK
  <2>6. ASSUME NEW v \in Writes, decider[v] = n PROVE v \in db'
    BY <2>1, <2>2, <2>6 DEF IInv, DeciderInv, Top
  <2>7. QED BY <2>2, <2>4, <2>5, <2>6
<1>2. QED BY <1>1, NestingFits, PTL DEF Spec, AllOrNothing

\* Whatever way the calls end, what is open and what is active has a call or an
\* asynchronous request that will end it, unless a body died with an Error.
THEOREM NothingLeftBehindAlways == Spec => []NothingLeftBehind
<1>1. IInv => NothingLeftBehind BY DEF IInv
<1>2. QED BY <1>1, NestingFits, PTL

\* No consumer is left with an entity manager that an inner call, or the end of
\* an asynchronous request, closed.
THEOREM EmOfBodyIsOpenAlways == Spec => []EmOfBodyIsOpen
<1>1. IInv => EmOfBodyIsOpen BY DEF IInv
<1>2. QED BY <1>1, NestingFits, PTL

\* Two transactions on one identity are active together only when the inner call
\* asked for a new one or another binding came between.
THEOREM NestsOnlyOnPurpose == Spec => []NoAccidentalNesting
<1>1. IInv => NoAccidentalNesting BY DEF IInv
<1>2. QED BY <1>1, NestingFits, PTL
=============================================================================
