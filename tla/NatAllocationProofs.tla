------------------------ MODULE NatAllocationProofs ------------------------
(***************************************************************************)
(* Proofs about NatAllocation: whatever requests overlap, fail or are cut  *)
(* off by restarts, no two endpoints ever share an address, provided the   *)
(* configured subnet is never changed.                                     *)
(***************************************************************************)
EXTENDS NatAllocation, WellFoundedInduction, TLAPS

\* The largest element of a set of integers with an upper bound.
LEMMA MaxOfBounded ==
    ASSUME NEW S \in SUBSET Int, NEW b \in Int, S # {}, \A x \in S : x <= b
    PROVE  Max(S) \in S /\ \A x \in S : x <= Max(S)
  <1> DEFINE T == {n \in Nat : b - n \in S}
  <1>1. T # {} /\ T \subseteq Nat
    <2>1. PICK x \in S : TRUE
      OBVIOUS
    <2>2. b - x \in Nat /\ b - (b - x) = x
      BY <2>1
    <2> QED
      BY <2>1, <2>2
  <1>2. PICK n \in T : \A m \in T : ~(<<m, n>> \in OpToRel(<, Nat))
    <2> HIDE DEF T
    <2> QED
      BY <1>1, WFMin, NatLessThanWellFounded
  <1>3. \A m \in T : ~(m < n)
    BY <1>2 DEF OpToRel
  <1>4. b - n \in S /\ \A x \in S : x <= b - n
    <2>1. ASSUME NEW x \in S PROVE x <= b - n
      <3>1. b - x \in T
        <4>1. b - x \in Nat /\ b - (b - x) = x
          OBVIOUS
        <4> QED
          BY <4>1
      <3> QED
        BY <1>3, <3>1
    <2> QED
      BY <2>1
  <1> QED
    BY <1>4 DEF Max

\* The larger of 2 and an offset, as allocate_next_docker_nat_ip takes it.
LEMMA MaxOfTwo ==
    ASSUME NEW n \in Nat
    PROVE  Max({2, n}) \in {2, n} /\ Max({2, n}) >= 2 /\ Max({2, n}) >= n
  <1>1. {2, n} \in SUBSET Int /\ {2, n} # {} /\ n + 2 \in Int
    OBVIOUS
  <1>2. \A x \in {2, n} : x <= n + 2
    OBVIOUS
  <1>3. Max({2, n}) \in {2, n} /\ \A x \in {2, n} : x <= Max({2, n})
    <2> DEFINE S == {2, n}
          b == n + 2
    <2>1. S \in SUBSET Int /\ S # {} /\ b \in Int /\ \A x \in S : x <= b
      BY <1>1, <1>2
    <2>2. Max(S) \in S /\ \A x \in S : x <= Max(S)
      <3> HIDE DEF S, b
      <3> QED
        BY <2>1, MaxOfBounded
    <2> QED
      BY <2>2
  <1>4. Max({2, n}) \in Nat
    BY <1>3
  <1> DEFINE m == Max({2, n})
  <1>5. m \in {2, n} /\ m \in Nat /\ 2 <= m /\ n <= m
    BY <1>3, <1>4
  <1> HIDE DEF m
  <1>6. m \in {2, n} /\ m >= 2 /\ m >= n
    BY <1>5
  <1> QED
    BY <1>6 DEF m

\* The numbers of the configured subnet are positive.
LEMMA SubnetType ==
    ASSUME subnet \in Subnets
    PROVE  subnet.base \in Nat \ {0} /\ subnet.size \in Nat \ {0}
  BY NatAssumption

\* Looking at the stored addresses finds an offset above each of them.
LEMMA FoundOffsetIsNew ==
    ASSUME TypeOK
    PROVE  /\ FindNextOffset \in Nat
           /\ \A e \in existing : InSubnet(natIp[e], subnet) =>
                                      natIp[e] < subnet.base + FindNextOffset
  <1>1. subnet.base \in Nat \ {0} /\ subnet.size \in Nat \ {0}
    BY SubnetType DEF TypeOK
  <1>2. \A e \in existing : natIp[e] \in Nat
    BY DEF TypeOK
  <1> DEFINE base == subnet.base
             size == subnet.size
             inside == {f \in existing : InSubnet(natIp[f], subnet)}
             offsets == {natIp[e] - base : e \in inside}
             S == offsets \cup {1}
             m == Max(S)
  <1>3. \A e \in inside : natIp[e] \in Nat /\ natIp[e] < base + size
    BY <1>2 DEF InSubnet
  <1>4. S \in SUBSET Int /\ S # {} /\ size \in Int /\ \A x \in S : x <= size
    <2> HIDE DEF inside, base, size
    <2>1. base \in Nat \ {0} /\ size \in Nat \ {0}
      BY <1>1 DEF base, size
    <2> QED
      BY <1>3, <2>1
  <1>5. m \in S /\ \A x \in S : x <= m
    <2> HIDE DEF S, size
    <2> QED
      BY <1>4, MaxOfBounded
  <1>6. m \in Int /\ 1 <= m
    <2> HIDE DEF m
    <2> QED
      BY <1>4, <1>5
  <1>7. FindNextOffset = 1 + m
    BY DEF FindNextOffset
  <1>8. ASSUME NEW e \in existing, InSubnet(natIp[e], subnet)
        PROVE  natIp[e] < base + FindNextOffset
    <2>1. natIp[e] - base \in S
      BY <1>8
    <2>2. natIp[e] - base <= m
      BY <1>5, <2>1
    <2>3. natIp[e] \in Nat /\ base \in Nat
      BY <1>1, <1>2
    <2> DEFINE a == natIp[e]
    <2> HIDE DEF a, base, m
    <2> QED
      BY <1>6, <1>7, <2>2, <2>3 DEF a
  <1> HIDE DEF m
  <1> QED
    BY <1>6, <1>7, <1>8

\* The offset that is handed out next is above the one kept, or else above
\* that of every stored address.
LEMMA NextOffsetIsNew ==
    ASSUME TypeOK
    PROVE  /\ NextOffset \in Nat /\ NextOffset >= 2 /\ NextOffset >= nextOffset
           /\ nextOffset = 0 =>
                  \A e \in existing : InSubnet(natIp[e], subnet) =>
                                          natIp[e] < subnet.base + NextOffset
  <1> DEFINE n == IF nextOffset = 0 THEN FindNextOffset ELSE nextOffset
  <1>1. nextOffset \in Nat /\ n \in Nat
    BY FoundOffsetIsNew DEF TypeOK
  <1>2. NextOffset = Max({2, n})
    BY DEF NextOffset
  <1>3. NextOffset \in {2, n} /\ NextOffset >= 2 /\ NextOffset >= n
    <2> HIDE DEF n
    <2> QED
      BY <1>1, <1>2, MaxOfTwo
  <1>4. NextOffset \in Nat /\ NextOffset >= nextOffset
    BY <1>1, <1>3
  <1>5. ASSUME nextOffset = 0, NEW e \in existing, InSubnet(natIp[e], subnet)
        PROVE  natIp[e] < subnet.base + NextOffset
    <2>1. FindNextOffset \in Nat /\ natIp[e] < subnet.base + FindNextOffset
      BY <1>5, FoundOffsetIsNew
    <2>2. NextOffset >= FindNextOffset
      BY <1>3, <1>5
    <2>3. natIp[e] \in Nat /\ subnet.base \in Nat
      BY SubnetType DEF TypeOK
    <2> QED
      BY <1>4, <2>1, <2>2, <2>3
  <1> QED
    BY <1>3, <1>4, <1>5

-----------------------------------------------------------------------------
\* The inductive invariant.

\* The addresses an endpoint has, in the database, in its files or in the
\* hands of a thread.
Owned(e) ==
    ({natIp[e], files[e]} \cup {ip[t] : t \in {u \in Workers : on[u] = e}}) \ {None}

\* A thread that is to write an address has one.
HandsFull == \A t \in Workers : at[t] \in {"files", "metadata"} => ip[t] # None

\* Nobody works on an id that was not given out.
FreshUntouched ==
    todo \cap fresh = {} /\ \A t \in Workers : at[t] # "idle" => on[t] \notin fresh

FreshOwnNothing == \A e \in fresh : Owned(e) = {}
OwnHosts == \A e \in existing : Owned(e) \subseteq Hosts(subnet)
OwnApart == \A e, f \in existing : e # f => Owned(e) \cap Owned(f) = {}

\* Before the offset is kept, every address is the stored one; afterwards the
\* offset is above all of them.
OffsetUnset == nextOffset = 0 => \A e \in existing : Owned(e) \subseteq {natIp[e]}
OffsetAbove ==
    nextOffset # 0 => \A e \in existing : \A a \in Owned(e) : a < subnet.base + nextOffset

Ownership == FreshOwnNothing /\ OwnHosts /\ OwnApart /\ OffsetUnset /\ OffsetAbove

IInv == TypeOK /\ HandsFull /\ FreshUntouched /\ Ownership

\* The subnet of the configuration is never changed.
SubnetIsFixed == \A s, r \in Subnets : s = r

\* The initial states satisfy the invariant: an address is a stored one.
LEMMA InitIInv == Init => IInv
  <1> SUFFICES ASSUME Init PROVE IInv
    OBVIOUS
  <1>1. subnet.base \in Nat \ {0} /\ subnet.size \in Nat \ {0}
    BY SubnetType DEF Init
  <1>2. Hosts(subnet) \subseteq Nat \ {None}
    BY <1>1 DEF Hosts, None
  <1>3. TypeOK
    <2>1. natIp \in [Endpoints -> Nat]
      BY <1>2 DEF Init, None
    <2> QED
      BY <2>1 DEF Init, TypeOK, None
  <1>4. HandsFull
    BY DEF Init, HandsFull
  <1>5. FreshUntouched
    BY DEF Init, FreshUntouched
  <1>6. \A e \in Endpoints : Owned(e) = {natIp[e]} \ {None}
    BY DEF Init, Owned
  <1>7. Ownership
    BY <1>2, <1>6 DEF Init, Ownership, FreshOwnNothing, OwnHosts, OwnApart,
       OffsetUnset, OffsetAbove
  <1> QED
    BY <1>3, <1>4, <1>5, <1>7 DEF IInv

\* Type correctness is kept by each action.
LEMMA TypeStep ==
    ASSUME TypeOK, [Next]_vars
    PROVE  TypeOK'
  <1> USE DEF TypeOK, threadVars, history, Begin
  <1>1. CASE UNCHANGED vars
    BY <1>1 DEF vars
  <1>2. ASSUME NEW e \in Endpoints, BootSync(e) PROVE TypeOK'
    <2>1. Boot \in Workers
      BY DEF Workers
    <2> QED
      BY <1>2, <2>1 DEF BootSync, Enter, Goto
  <1>3. ASSUME NEW t \in Threads, NEW e \in Endpoints,
               Create(t, e) \/ Update(t, e) \/ DeleteFiles(t, e) \/ DeleteFails(t, e)
        PROVE  TypeOK'
    <2>1. t \in Workers
      BY DEF Workers
    <2>2. CASE Create(t, e)
      BY <2>1, <2>2 DEF Create, Enter, Goto, None, Serving
    <2>3. CASE Update(t, e)
      BY <2>1, <2>3 DEF Update, Enter, Goto, Serving
    <2>4. CASE DeleteFiles(t, e)
      BY <2>1, <2>4 DEF DeleteFiles, Enter, Goto, None, Serving
    <2>5. CASE DeleteFails(t, e)
      BY <2>1, <2>5 DEF DeleteFails, None
    <2> QED
      BY <1>3, <2>2, <2>3, <2>4, <2>5
  <1>4. ASSUME NEW t \in Workers, DeleteRow(t) PROVE TypeOK'
    BY <1>4 DEF DeleteRow, Return, Goto, None
  <1>5. ASSUME NEW t \in Workers, SyncStep(t) PROVE TypeOK'
    <2>1. CASE KeepIp(t)
      BY <2>1 DEF KeepIp, Goto
    <2>2. CASE Allocate(t)
      <3>1. NextOffset + 1 \in Nat /\ subnet.base + NextOffset \in Nat
        BY NextOffsetIsNew, SubnetType
      <3> QED
        BY <2>2, <3>1 DEF Allocate, Return, Goto, None
    <2>3. CASE WriteFiles(t)
      BY <2>3 DEF WriteFiles, Goto
    <2>4. CASE WriteMetadata(t)
      BY <2>4 DEF WriteMetadata, Return, Goto, None
    <2> QED
      BY <1>5, <2>1, <2>2, <2>3, <2>4 DEF SyncStep
  <1>6. ASSUME NEW t \in Workers, Raise(t) PROVE TypeOK'
    BY <1>6 DEF Raise, Return, Goto, None
  <1>7. CASE Restart
    BY <1>7 DEF Restart, None
  <1>8. Threads \subseteq Workers
    BY DEF Workers
  <1> QED
    BY <1>1, <1>2, <1>3, <1>4, <1>5, <1>6, <1>7, <1>8 DEF Next

\* A step that gives no endpoint an address it did not have, and removes no
\* stored one before the offset is kept, disturbs nothing.
LEMMA NothingGained ==
    ASSUME TypeOK, Ownership,
           subnet' = subnet, nextOffset' = nextOffset,
           existing' \subseteq existing \cup fresh, fresh' \subseteq fresh,
           existing' \subseteq Endpoints,
           \A e \in Endpoints : Owned(e)' \subseteq Owned(e),
           nextOffset = 0 => \A e \in existing' : natIp'[e] = natIp[e]
    PROVE  Ownership'
  <1>1. \A e \in Endpoints : e \in fresh => Owned(e)' = {}
    BY DEF Ownership, FreshOwnNothing
  <1>2. FreshOwnNothing'
    BY <1>1 DEF FreshOwnNothing, TypeOK
  <1>3. OwnHosts'
    BY <1>1 DEF Ownership, OwnHosts, Hosts
  <1>4. OwnApart'
    BY <1>1 DEF Ownership, OwnApart
  <1>5. OffsetUnset'
    BY <1>1 DEF Ownership, OffsetUnset
  <1>6. OffsetAbove'
    BY <1>1 DEF Ownership, OffsetAbove
  <1> QED
    BY <1>2, <1>3, <1>4, <1>5, <1>6 DEF Ownership

\* A new address lies above every address in use.
LEMMA AllocateStep ==
    ASSUME IInv, NEW t \in Workers, Allocate(t), NextOffset <= subnet.size - 2
    PROVE  Ownership'
  <1> DEFINE a == subnet.base + NextOffset
  <1>1. /\ subnet' = subnet /\ existing' = existing /\ fresh' = fresh
        /\ natIp' = natIp /\ files' = files /\ at[t] = "sync" /\ on' = on
        /\ nextOffset' = NextOffset + 1 /\ ip' = [ip EXCEPT ![t] = a]
    BY DEF Allocate, Goto, IInv, TypeOK
  <1>2. on[t] \in Endpoints \ fresh
    BY <1>1 DEF IInv, TypeOK, FreshUntouched
  <1>3. /\ NextOffset \in Nat /\ NextOffset >= 2 /\ NextOffset >= nextOffset
        /\ subnet.base \in Nat /\ subnet.size \in Nat /\ nextOffset \in Nat
        /\ a \in Nat
    BY NextOffsetIsNew, SubnetType DEF IInv, TypeOK
  <1>4. a \in Hosts(subnet) /\ a # None
    BY <1>3 DEF Hosts, None
  <1>5. \A e \in existing : Owned(e) \subseteq Nat
    BY <1>3 DEF IInv, Ownership, OwnHosts, Hosts
  <1>6. \A e \in existing : \A b \in Owned(e) : b < a
    <2> SUFFICES ASSUME NEW e \in existing, NEW b \in Owned(e) PROVE b < a
      OBVIOUS
    <2>1. CASE nextOffset = 0
      <3>1. b = natIp[e] /\ b \in Hosts(subnet)
        BY <2>1 DEF IInv, Ownership, OffsetUnset, OwnHosts
      <3>2. InSubnet(natIp[e], subnet)
        BY <1>3, <3>1 DEF Hosts, InSubnet
      <3> QED
        BY <2>1, <3>1, <3>2, NextOffsetIsNew DEF IInv
    <2>2. CASE nextOffset # 0
      <3>1. b < subnet.base + nextOffset /\ b \in Nat
        BY <1>5, <2>2 DEF IInv, Ownership, OffsetAbove
      <3> QED
        BY <1>3, <3>1
    <2> QED
      BY <2>1, <2>2
  <1>7. \A e : Owned(e)' \subseteq Owned(e) \cup (IF e = on[t] THEN {a} ELSE {})
    BY <1>1 DEF Owned, IInv, TypeOK
  <1> HIDE DEF a
  <1>8. FreshOwnNothing'
    BY <1>1, <1>2, <1>7 DEF IInv, Ownership, FreshOwnNothing
  <1>9. OwnHosts'
    BY <1>1, <1>4, <1>7 DEF IInv, Ownership, OwnHosts, Hosts
  <1>10. OwnApart'
    <2> SUFFICES ASSUME NEW e \in existing', NEW f \in existing', e # f,
                        NEW b \in Owned(e)' \cap Owned(f)'
                 PROVE  FALSE
      BY DEF OwnApart
    <2>1. e \in existing /\ f \in existing
      BY <1>1
    <2>2. a \notin Owned(e) /\ a \notin Owned(f)
      BY <1>3, <1>6, <2>1
    <2>3. Owned(e) \cap Owned(f) = {}
      BY <2>1 DEF IInv, Ownership, OwnApart
    <2> QED
      BY <1>7, <2>2, <2>3
  <1>11. OffsetUnset'
    BY <1>1, <1>3 DEF OffsetUnset
  <1>12. OffsetAbove'
    <2> SUFFICES ASSUME NEW e \in existing, NEW b \in Owned(e)'
                 PROVE  b < subnet.base + (NextOffset + 1)
      BY <1>1 DEF OffsetAbove
    <2>1. b \in Nat /\ b <= a
      BY <1>3, <1>5, <1>6, <1>7
    <2> QED
      BY <1>3, <2>1 DEF a
  <1> QED
    BY <1>8, <1>9, <1>10, <1>11, <1>12 DEF Ownership

\* Every other step of a sync gives an endpoint only what it owned.
LEMMA SyncOwnership ==
    ASSUME IInv, NEW t \in Workers, SyncStep(t)
    PROVE  Ownership'
  <1> USE DEF IInv
  <1>1. CASE KeepIp(t)
    <2>1. \A e \in Endpoints : Owned(e)' \subseteq Owned(e)
      BY <1>1 DEF KeepIp, Goto, Owned, TypeOK
    <2> QED
      BY <1>1, <2>1, NothingGained DEF KeepIp, TypeOK
  <1>2. CASE Allocate(t)
    <2>1. CASE NextOffset <= subnet.size - 2
      BY <1>2, <2>1, AllocateStep
    <2>2. CASE ~(NextOffset <= subnet.size - 2)
      <3>1. \A e \in Endpoints : Owned(e)' \subseteq Owned(e)
        BY <1>2, <2>2 DEF Allocate, Return, Goto, Owned, TypeOK, None
      <3> QED
        BY <1>2, <2>2, <3>1, NothingGained DEF Allocate, TypeOK
    <2> QED
      BY <2>1, <2>2
  <1>3. CASE WriteFiles(t)
    <2>1. \A e \in Endpoints : Owned(e)' \subseteq Owned(e)
      BY <1>3 DEF WriteFiles, Goto, Owned, TypeOK
    <2> QED
      BY <1>3, <2>1, NothingGained DEF WriteFiles, TypeOK
  <1>4. CASE WriteMetadata(t)
    <2>1. \A e \in Endpoints : Owned(e)' \subseteq Owned(e)
      BY <1>4 DEF WriteMetadata, Return, Goto, Owned, TypeOK, None
    <2>2. ASSUME nextOffset = 0, NEW e \in existing PROVE natIp'[e] = natIp[e]
      <3>1. CASE e # on[t]
        BY <1>4, <3>1 DEF WriteMetadata, TypeOK
      <3>2. CASE e = on[t]
        <4>1. ip[t] \in Owned(e)
          BY <1>4, <3>2 DEF WriteMetadata, HandsFull, Owned
        <4>2. ip[t] = natIp[e]
          BY <2>2, <4>1 DEF Ownership, OffsetUnset
        <4> QED
          BY <1>4, <3>2, <4>2 DEF WriteMetadata, TypeOK
      <3> QED
        BY <3>1, <3>2
    <2> QED
      BY <1>4, <2>1, <2>2, NothingGained DEF WriteMetadata, TypeOK
  <1> QED
    BY <1>1, <1>2, <1>3, <1>4 DEF SyncStep

\* A write that raises leaves the old address, none or the one in hand.
LEMMA RaiseOwnership ==
    ASSUME IInv, NEW t \in Workers, Raise(t)
    PROVE  Ownership'
  <1> USE DEF IInv
  <1>1. \A e \in Endpoints : Owned(e)' \subseteq Owned(e)
    <2>1. on[t] \in Endpoints /\ on'[t] = NoEndpoint
      BY DEF Raise, Return, Goto, TypeOK
    <2>2. \A e \in Endpoints : files'[e] \in {files[e], None} \cup {ip[u] : u \in {v \in Workers : on[v] = e}}
      BY <2>1 DEF Raise, TypeOK
    <2>3. \A u \in Workers : on'[u] \in Endpoints => on'[u] = on[u] /\ ip'[u] = ip[u]
      BY NatAssumption, <2>1 DEF Raise, Return, Goto, TypeOK
    <2>4. natIp' = natIp
      BY DEF Raise
    <2> QED
      BY <2>2, <2>3, <2>4 DEF Owned
  <1> QED
    BY <1>1, NothingGained DEF Raise, TypeOK

\* Nor does any other step, as long as the subnet stays.
LEMMA OwnershipStep ==
    ASSUME IInv, [Next]_vars, SubnetIsFixed
    PROVE  Ownership'
  <1> USE DEF IInv
  <1>1. CASE UNCHANGED vars
    <2>1. \A e \in Endpoints : Owned(e)' \subseteq Owned(e)
      BY <1>1 DEF vars, Owned
    <2> QED
      BY <1>1, <2>1, NothingGained DEF vars, TypeOK
  <1>2. ASSUME NEW e \in Endpoints, BootSync(e) PROVE Ownership'
    <2>1. \A f \in Endpoints : Owned(f)' \subseteq Owned(f)
      BY <1>2 DEF BootSync, Enter, Goto, Owned, TypeOK
    <2> QED
      BY <1>2, <2>1, NothingGained DEF BootSync, TypeOK
  <1>3. ASSUME NEW t \in Threads, NEW e \in Endpoints, Create(t, e) PROVE Ownership'
    <2>1. \A f \in Endpoints : Owned(f)' \subseteq Owned(f)
      BY <1>3 DEF Create, Enter, Goto, Owned, TypeOK, None
    <2> QED
      BY <1>3, <2>1, NothingGained DEF Create, TypeOK
  <1>4. ASSUME NEW t \in Threads, NEW e \in Endpoints, Update(t, e) PROVE Ownership'
    <2>1. \A f \in Endpoints : Owned(f)' \subseteq Owned(f)
      BY <1>4 DEF Update, Enter, Goto, Owned, TypeOK
    <2> QED
      BY <1>4, <2>1, NothingGained DEF Update, TypeOK
  <1>5. ASSUME NEW t \in Threads, NEW e \in Endpoints, DeleteFiles(t, e) PROVE Ownership'
    <2>1. \A f \in Endpoints : Owned(f)' \subseteq Owned(f)
      BY <1>5 DEF DeleteFiles, Enter, Goto, Owned, TypeOK, None
    <2> QED
      BY <1>5, <2>1, NothingGained DEF DeleteFiles, TypeOK
  <1>6. ASSUME NEW t \in Threads, DeleteRow(t) PROVE Ownership'
    <2>1. \A f \in Endpoints : Owned(f)' \subseteq Owned(f)
      BY <1>6 DEF DeleteRow, Return, Goto, Owned, TypeOK, None
    <2>2. \A f \in existing' : natIp'[f] = natIp[f]
      BY <1>6 DEF DeleteRow, TypeOK
    <2> QED
      BY <1>6, <2>1, <2>2, NothingGained DEF DeleteRow, TypeOK
  <1>7. ASSUME NEW t \in Threads, NEW e \in Endpoints, DeleteFails(t, e) PROVE Ownership'
    <2>1. \A f \in Endpoints : Owned(f)' \subseteq Owned(f)
      BY <1>7 DEF DeleteFails, Owned, TypeOK, threadVars
    <2> QED
      BY <1>7, <2>1, NothingGained DEF DeleteFails, TypeOK
  <1>8. CASE Restart
    <2>1. subnet' = subnet
      BY <1>8 DEF Restart, SubnetIsFixed, TypeOK
    <2>2. \A f \in Endpoints : Owned(f)' \subseteq Owned(f)
      BY <1>8 DEF Restart, Owned, None
    <2> QED
      BY <1>8, <2>1, <2>2, NothingGained DEF Restart, TypeOK
  <1> QED
    BY <1>1, <1>2, <1>3, <1>4, <1>5, <1>6, <1>7, <1>8, SyncOwnership, RaiseOwnership DEF Next

\* What a thread holds between two of its steps stays as the steps assume it.
LEMMA ThreadStep ==
    ASSUME IInv, [Next]_vars
    PROVE  HandsFull' /\ FreshUntouched'
  <1> USE DEF IInv, TypeOK, HandsFull, FreshUntouched
  <1>1. CASE UNCHANGED vars
    BY <1>1 DEF vars
  <1>2. ASSUME NEW e \in Endpoints, BootSync(e) PROVE HandsFull' /\ FreshUntouched'
    BY <1>2 DEF BootSync, Enter, Goto
  <1>3. ASSUME NEW t \in Threads, NEW e \in Endpoints,
               Create(t, e) \/ Update(t, e) \/ DeleteFiles(t, e)
        PROVE  HandsFull' /\ FreshUntouched'
    BY <1>3 DEF Create, Update, DeleteFiles, Serving, Enter, Goto
  <1>4. ASSUME NEW t \in Threads, DeleteRow(t) PROVE HandsFull' /\ FreshUntouched'
    BY <1>4 DEF DeleteRow, Return, Goto
  <1>5. ASSUME NEW t \in Workers, SyncStep(t) PROVE HandsFull' /\ FreshUntouched'
    <2>1. CASE KeepIp(t)
      BY <2>1 DEF KeepIp, Usable, Goto
    <2>2. CASE Allocate(t)
      <3>1. subnet.base + NextOffset # None
        BY NextOffsetIsNew, SubnetType DEF None
      <3> QED
        BY <2>2, <3>1 DEF Allocate, Return, Goto
    <2>3. CASE WriteFiles(t)
      BY <2>3 DEF WriteFiles, Goto
    <2>4. CASE WriteMetadata(t)
      BY <2>4 DEF WriteMetadata, Return, Goto
    <2> QED
      BY <1>5, <2>1, <2>2, <2>3, <2>4 DEF SyncStep
  <1>6. ASSUME NEW t \in Workers, Raise(t) PROVE HandsFull' /\ FreshUntouched'
    BY <1>6 DEF Raise, Return, Goto
  <1>7. ASSUME NEW t \in Threads, NEW e \in Endpoints, DeleteFails(t, e)
        PROVE  HandsFull' /\ FreshUntouched'
    BY <1>7 DEF DeleteFails, threadVars
  <1>8. CASE Restart
    BY <1>8 DEF Restart
  <1> QED
    BY <1>1, <1>2, <1>3, <1>4, <1>5, <1>6, <1>7, <1>8 DEF Next

-----------------------------------------------------------------------------
\* Requests that have an endpoint for themselves.

IdleOnNothing == \A t \in Workers : at[t] = "idle" => on[t] = NoEndpoint

\* Nobody else works on an endpoint that is not overlapped.
SoleWorker ==
    \A t, u \in Workers : on[t] \in Endpoints \ overlapped /\ on[u] = on[t] => t = u

\* Its files are the stored ones while nobody works on it, unless the latest
\* operation on it raised over them ...
Settled ==
    \A e \in existing \ (overlapped \cup todo \cup failed) :
        natIp[e] # None /\ (\A u \in Workers : on[u] # e) => files[e] = natIp[e]

\* ... and who does has the stored address in hand, if there is one.
InHand ==
    \A t \in Workers : on[t] \in existing \ overlapped =>
        /\ at[t] = "sync" => ip[t] = natIp[on[t]]
        /\ at[t] \in {"files", "metadata"} /\ natIp[on[t]] # None => ip[t] = natIp[on[t]]
        /\ at[t] = "metadata" => files[on[t]] = ip[t]

Tidy == IdleOnNothing /\ SoleWorker /\ Settled /\ InHand

LEMMA InitTidy ==
    ASSUME Init
    PROVE  Tidy
  BY NatAssumption DEF Init, Tidy, IdleOnNothing, SoleWorker, Settled, InHand

\* An address that is stored is one that sync_endpoint keeps.
LEMMA StoredIsUsable ==
    ASSUME IInv, NEW e \in existing, natIp[e] # None
    PROVE  Usable(natIp[e])
  <1>1. natIp[e] \in Hosts(subnet)
    BY DEF IInv, Ownership, OwnHosts, Owned
  <1>2. subnet.base \in Nat \ {0} /\ subnet.size \in Nat \ {0}
    BY SubnetType DEF IInv, TypeOK
  <1> QED
    BY <1>1, <1>2 DEF Hosts, Usable, InSubnet, None

\* The beginning of an operation on e by t, with the stored address or to
\* delete it.
LEMMA EnterTidy ==
    ASSUME IInv, Tidy, NEW t \in Workers, NEW e \in Endpoints, NEW l, NEW a,
           at[t] = "idle", Enter(t, l, e, a),
           l = "delete" \/ (l = "sync" /\ a = natIp[e]),
           natIp' = natIp, existing' \subseteq existing \cup {e}, todo \subseteq todo' \cup {e},
           \A f \in Endpoints : f # e => files'[f] = files[f]
    PROVE  Tidy'
  <1> USE DEF IInv, TypeOK, Enter, Begin, Goto
  <1>1. /\ at' = [at EXCEPT ![t] = l] /\ on' = [on EXCEPT ![t] = e] /\ ip' = [ip EXCEPT ![t] = a]
        /\ \A f \in Endpoints : f # e => (f \in overlapped' <=> f \in overlapped)
        /\ failed' = failed \ {e}
        /\ e \notin overlapped' => \A u \in Workers : on[u] # e
        /\ on[t] = NoEndpoint
    BY DEF Tidy, IdleOnNothing
  <1>2. IdleOnNothing'
    BY <1>1 DEF Tidy, IdleOnNothing
  <1>3. SoleWorker'
    BY <1>1 DEF Tidy, SoleWorker
  <1>4. Settled'
    <2> SUFFICES ASSUME NEW f \in existing' \ (overlapped' \cup todo' \cup failed'),
                        natIp'[f] # None,
                        \A u \in Workers : on'[u] # f
                 PROVE  files'[f] = natIp'[f]
      BY DEF Settled
    <2>1. f # e /\ f \in existing \ (overlapped \cup todo \cup failed)
      BY <1>1
    <2>2. \A u \in Workers : on[u] # f
      BY <1>1, <2>1, NatAssumption
    <2> QED
      BY <2>1, <2>2 DEF Tidy, Settled
  <1>5. InHand'
    <2> SUFFICES ASSUME NEW u \in Workers, on'[u] \in existing' \ overlapped'
                 PROVE  /\ at'[u] = "sync" => ip'[u] = natIp'[on'[u]]
                        /\ at'[u] \in {"files", "metadata"} /\ natIp'[on'[u]] # None =>
                                ip'[u] = natIp'[on'[u]]
                        /\ at'[u] = "metadata" => files'[on'[u]] = ip'[u]
      BY DEF InHand
    <2>1. CASE u = t
      BY <1>1, <2>1
    <2>2. CASE u # t
      <3>1. on'[u] = on[u] /\ at'[u] = at[u] /\ ip'[u] = ip[u] /\ on[u] # e
        BY <1>1, <2>2
      <3>2. on[u] \in existing \ overlapped
        BY <1>1, <3>1
      <3> QED
        BY <3>1, <3>2 DEF Tidy, InHand
    <2> QED
      BY <2>1, <2>2
  <1> QED
    BY <1>2, <1>3, <1>4, <1>5 DEF Tidy

\* A step of t that changes at most the files and the stored address of its
\* own endpoint e, and leaves both as Tidy wants them.
LEMMA WorkTidy ==
    ASSUME IInv, Tidy, NEW t \in Workers, NEW e \in Endpoints, on[t] = e, NEW l, NEW a,
           Goto(t, l, e, a) \/ Return(t), Goto(t, l, e, a) => l # "idle",
           todo' = todo, overlapped' = overlapped, failed \ {e} \subseteq failed',
           existing' \subseteq existing,
           \A f \in Endpoints : f # e => files'[f] = files[f] /\ natIp'[f] = natIp[f],
           e \in existing' \ (overlapped \cup failed') /\ Return(t) /\ natIp'[e] # None =>
                files'[e] = natIp'[e],
           e \in existing' \ overlapped /\ Goto(t, l, e, a) =>
                /\ l # "sync"
                /\ l \in {"files", "metadata"} /\ natIp'[e] # None => a = natIp'[e]
                /\ l = "metadata" => files'[e] = a
    PROVE  Tidy'
  <1> USE DEF IInv, TypeOK
  <1>1. /\ \A u \in Workers : u # t => at'[u] = at[u] /\ on'[u] = on[u] /\ ip'[u] = ip[u]
        /\ on' \in [Workers -> Endpoints \cup {NoEndpoint}]
    BY DEF Goto, Return
  <1>2. \/ Goto(t, l, e, a) /\ at'[t] = l /\ on'[t] = e /\ ip'[t] = a
        \/ Return(t) /\ at'[t] = "idle" /\ on'[t] = NoEndpoint
    BY DEF Goto, Return
  <1>3. IdleOnNothing'
    BY <1>1, <1>2 DEF Tidy, IdleOnNothing
  <1>4. SoleWorker'
    BY <1>1, <1>2, NatAssumption DEF Tidy, SoleWorker
  <1>5. Settled'
    <2> SUFFICES ASSUME NEW f \in existing' \ (overlapped \cup todo \cup failed'),
                        natIp'[f] # None,
                        \A u \in Workers : on'[u] # f
                 PROVE  files'[f] = natIp'[f]
      BY DEF Settled
    <2>1. CASE f = e
      BY <1>2, <2>1
    <2>2. CASE f # e
      <3>1. \A u \in Workers : on[u] # f
        BY <1>1, <2>2
      <3> QED
        BY <2>2, <3>1 DEF Tidy, Settled
    <2> QED
      BY <2>1, <2>2
  <1>6. InHand'
    <2> SUFFICES ASSUME NEW u \in Workers, on'[u] \in existing' \ overlapped
                 PROVE  /\ at'[u] = "sync" => ip'[u] = natIp'[on'[u]]
                        /\ at'[u] \in {"files", "metadata"} /\ natIp'[on'[u]] # None =>
                                ip'[u] = natIp'[on'[u]]
                        /\ at'[u] = "metadata" => files'[on'[u]] = ip'[u]
      BY DEF InHand
    <2>1. CASE u = t
      BY <1>2, <2>1, NatAssumption
    <2>2. CASE u # t
      <3>1. on[u] # e
        BY <1>1, <2>2 DEF Tidy, SoleWorker
      <3> QED
        BY <1>1, <2>2, <3>1 DEF Tidy, InHand
    <2> QED
      BY <2>1, <2>2
  <1> QED
    BY <1>3, <1>4, <1>5, <1>6 DEF Tidy

LEMMA SyncTidy ==
    ASSUME IInv, Tidy, NEW t \in Workers, SyncStep(t)
    PROVE  Tidy'
  <1> USE DEF IInv, TypeOK, history
  <1>1. on[t] \in Endpoints
    BY DEF SyncStep, KeepIp, Allocate, WriteFiles, WriteMetadata
  <1> DEFINE e == on[t]
  <1>2. CASE KeepIp(t)
    <2>1. e \in existing \ overlapped => ip[t] = natIp[e]
      BY <1>2 DEF KeepIp, Tidy, InHand
    <2>2. /\ Goto(t, "files", e, ip[t]) /\ ~Return(t)
          /\ existing' = existing /\ natIp' = natIp /\ files' = files
          /\ todo' = todo /\ overlapped' = overlapped /\ failed' = failed
      BY <1>2 DEF KeepIp, Return, Goto
    <2> HIDE DEF e
    <2> QED
      BY <1>1, <2>1, <2>2, WorkTidy DEF e
  <1>3. CASE Allocate(t)
    <2>1. e \in existing \ overlapped => natIp[e] = None
      <3>1. e \in existing \ overlapped => ~Usable(natIp[e])
        BY <1>3 DEF Allocate, Tidy, InHand
      <3> QED
        BY <3>1, StoredIsUsable
    <2>2. /\ existing' = existing /\ natIp' = natIp /\ files' = files
          /\ todo' = todo /\ overlapped' = overlapped /\ failed' = failed
          /\ Goto(t, "files", e, subnet.base + NextOffset) \/ Return(t)
      BY <1>3 DEF Allocate
    <2> HIDE DEF e
    <2> QED
      BY <1>1, <2>1, <2>2, WorkTidy DEF e
  <1>4. CASE WriteFiles(t)
    <2>1. e \in existing \ overlapped /\ natIp[e] # None => ip[t] = natIp[e]
      BY <1>4 DEF WriteFiles, Tidy, InHand
    <2>2. /\ existing' = existing /\ natIp' = natIp
          /\ todo' = todo /\ overlapped' = overlapped /\ failed' = failed
          /\ \A f \in Endpoints : f # e => files'[f] = files[f]
      BY <1>4 DEF WriteFiles
    <2>3. files'[e] = ip[t] /\ Goto(t, "metadata", e, ip[t]) /\ ~Return(t)
      BY <1>1, <1>4 DEF WriteFiles, Goto, Return
    <2> HIDE DEF e
    <2> QED
      BY <1>1, <2>1, <2>2, <2>3, WorkTidy DEF e
  <1>5. CASE WriteMetadata(t)
    <2>1. e \in existing \ overlapped => files[e] = ip[t]
      BY <1>5 DEF WriteMetadata, Tidy, InHand
    <2>2. /\ existing' = existing /\ files' = files
          /\ todo' = todo /\ overlapped' = overlapped /\ failed' = failed
          /\ \A f \in Endpoints : f # e => natIp'[f] = natIp[f]
          /\ e \in existing => natIp'[e] = ip[t]
          /\ Return(t)
      BY <1>1, <1>5 DEF WriteMetadata
    <2>3. ~Goto(t, "files", e, ip[t])
      BY <2>2 DEF Goto, Return
    <2> HIDE DEF e
    <2> QED
      BY <1>1, <2>1, <2>2, <2>3, WorkTidy DEF e
  <1> QED
    BY <1>2, <1>3, <1>4, <1>5 DEF SyncStep

\* Raising over the files spoils them; raising elsewhere leaves them as they
\* are stored, as the place it happens at shows.
LEMMA RaiseTidy ==
    ASSUME IInv, Tidy, NEW t \in Workers, Raise(t)
    PROVE  Tidy'
  <1> USE DEF IInv, TypeOK
  <1>1. on[t] \in Endpoints
    BY DEF Raise
  <1> DEFINE e == on[t]
  <1>2. /\ existing' = existing /\ natIp' = natIp
        /\ todo' = todo /\ overlapped' = overlapped /\ failed \subseteq failed'
        /\ \A f \in Endpoints : f # e => files'[f] = files[f]
        /\ Return(t) /\ ~Goto(t, "files", e, ip[t])
    BY <1>1 DEF Raise, Return, Goto
  <1>3. ASSUME e \in existing \ (overlapped \cup failed'), natIp[e] # None
        PROVE  files'[e] = natIp[e]
    <2>1. at[t] \in {"sync", "metadata"} /\ files'[e] = files[e]
      BY <1>1, <1>3 DEF Raise
    <2>2. CASE at[t] = "sync"
      <3>1. ip[t] = natIp[e] /\ ~Usable(ip[t])
        BY <1>3, <2>2 DEF Raise, Tidy, InHand
      <3> QED
        BY <1>3, <3>1, StoredIsUsable
    <2>3. CASE at[t] = "metadata"
      BY <1>3, <2>1, <2>3 DEF Tidy, InHand
    <2> QED
      BY <2>1, <2>2, <2>3
  <1> HIDE DEF e
  <1> QED
    BY <1>1, <1>2, <1>3, WorkTidy DEF e

\* A delete that cannot remove the files spoils those of its endpoint.
LEMMA DeleteFailsTidy ==
    ASSUME IInv, Tidy, NEW t \in Threads, NEW e \in Endpoints, DeleteFails(t, e)
    PROVE  Tidy'
  <1> USE DEF IInv, TypeOK
  <1>1. /\ at' = at /\ on' = on /\ ip' = ip /\ natIp' = natIp
        /\ existing' = existing /\ todo' = todo /\ failed' = failed \cup {e}
        /\ \A f \in Endpoints : f # e => files'[f] = files[f]
        /\ \A f \in Endpoints : f # e => (f \in overlapped' <=> f \in overlapped)
        /\ e \notin overlapped' => \A u \in Workers : on[u] # e
    BY DEF DeleteFails, Begin, threadVars
  <1>2. IdleOnNothing'
    BY <1>1 DEF Tidy, IdleOnNothing
  <1>3. SoleWorker'
    BY <1>1 DEF Tidy, SoleWorker
  <1>4. Settled'
    BY <1>1 DEF Tidy, Settled
  <1>5. InHand'
    BY <1>1 DEF Tidy, InHand
  <1> QED
    BY <1>2, <1>3, <1>4, <1>5 DEF Tidy

LEMMA TidyStep ==
    ASSUME IInv, Tidy, [Next]_vars
    PROVE  Tidy'
  <1> USE DEF IInv, TypeOK, history
  <1>1. CASE UNCHANGED vars
    BY <1>1 DEF vars, Tidy, IdleOnNothing, SoleWorker, Settled, InHand
  <1>2. ASSUME NEW e \in Endpoints, BootSync(e) PROVE Tidy'
    <2>1. Boot \in Workers
      BY DEF Workers
    <2> QED
      BY <1>2, <2>1, EnterTidy DEF BootSync
  <1>3. ASSUME NEW t \in Threads, NEW e \in Endpoints, Create(t, e) PROVE Tidy'
    <2>1. natIp[e] = None
      BY <1>3 DEF Create, Ownership, FreshOwnNothing, Owned
    <2>2. t \in Workers
      BY DEF Workers
    <2> QED
      BY <1>3, <2>1, <2>2, EnterTidy DEF Create, Serving
  <1>4. ASSUME NEW t \in Threads, NEW e \in Endpoints, Update(t, e) \/ DeleteFiles(t, e)
        PROVE  Tidy'
    <2>1. t \in Workers
      BY DEF Workers
    <2>2. CASE Update(t, e)
      BY <2>1, <2>2, EnterTidy DEF Update, Serving
    <2>3. CASE DeleteFiles(t, e)
      BY <2>1, <2>3, EnterTidy DEF DeleteFiles, Serving
    <2> QED
      BY <1>4, <2>2, <2>3
  <1>5. ASSUME NEW t \in Threads, DeleteRow(t) PROVE Tidy'
    <2>1. t \in Workers /\ on[t] \in Endpoints
      BY <1>5 DEF Workers, DeleteRow
    <2>2. ~Goto(t, "delete", on[t], None)
      BY <1>5, <2>1 DEF DeleteRow, Return, Goto
    <2>3. /\ Return(t) /\ on[t] \notin existing' /\ existing' \subseteq existing
          /\ \A f \in Endpoints : f # on[t] => natIp'[f] = natIp[f]
          /\ files' = files /\ todo' = todo /\ overlapped' = overlapped /\ failed' = failed
      BY <1>5 DEF DeleteRow
    <2> QED
      BY <2>1, <2>2, <2>3, WorkTidy
  <1>6. CASE Restart
    BY <1>6, NatAssumption DEF Restart, Tidy, IdleOnNothing, SoleWorker, Settled, InHand
  <1> QED
    BY <1>1, <1>2, <1>3, <1>4, <1>5, <1>6, SyncTidy, RaiseTidy, DeleteFailsTidy DEF Next

-----------------------------------------------------------------------------
\* The theorems.

\* Every state is well typed, whatever the subnets.
THEOREM TypeCorrect == Spec => []TypeOK
  <1>1. Init => TypeOK
    BY InitIInv DEF IInv
  <1>2. TypeOK /\ [Next]_vars => TypeOK'
    BY TypeStep
  <1> QED
    BY <1>1, <1>2, PTL DEF Spec

\* With a fixed subnet the addresses in the database, in the files and in the
\* hands of the threads are hosts of that subnet, each of one endpoint.
THEOREM Invariant ==
    ASSUME SubnetIsFixed
    PROVE  Spec => []IInv
  <1>1. Init => IInv
    BY InitIInv
  <1>2. IInv /\ [Next]_vars => IInv'
    <2> SUFFICES ASSUME IInv, [Next]_vars PROVE IInv'
      OBVIOUS
    <2>1. TypeOK'
      BY TypeStep DEF IInv
    <2> QED
      BY <2>1, OwnershipStep, ThreadStep DEF IInv
  <1> QED
    BY <1>1, <1>2, PTL DEF Spec

\* With a fixed subnet no two endpoints share an address: allocate_next_
\* docker_nat_ip stays above every address that is stored, written to files
\* or about to be, whatever requests overlap and wherever the server crashes.
THEOREM UniqueTheorem ==
    ASSUME SubnetIsFixed
    PROVE  Spec => []UniqueIps
  <1>1. IInv => UniqueIps
    <2> SUFFICES ASSUME IInv, NEW e \in existing, NEW f \in existing, e # f
                 PROVE  /\ ~(natIp[e] = natIp[f] /\ natIp[e] # None)
                        /\ ~(files[e] = files[f] /\ files[e] # None)
                        /\ ~(natIp[e] = files[f] /\ natIp[e] # None)
      BY DEF UniqueIps
    <2>1. Owned(e) \cap Owned(f) = {}
      BY DEF IInv, Ownership, OwnApart
    <2> QED
      BY <2>1 DEF Owned
  <1> QED
    BY <1>1, Invariant, PTL

\* With a fixed subnet every stored address is one a host may have.
THEOREM HostTheorem ==
    ASSUME SubnetIsFixed
    PROVE  Spec => []IpsAreHosts
  <1>1. IInv => IpsAreHosts
    BY DEF IInv, TypeOK, Ownership, OwnHosts, Owned, IpsAreHosts
  <1> QED
    BY <1>1, Invariant, PTL

\* With a fixed subnet, an endpoint nobody else works on is tidy in every place
\* of sync_endpoint.
THEOREM TidyInvariant ==
    ASSUME SubnetIsFixed
    PROVE  Spec => [](IInv /\ Tidy)
  <1>1. Init => Tidy
    BY InitTidy
  <1>2. IInv /\ Tidy /\ [Next]_vars => Tidy'
    BY TidyStep
  <1> QED
    BY <1>1, <1>2, Invariant, PTL DEF Spec

\* With a fixed subnet the generated files agree with the table for every
\* endpoint whose latest operation had it for itself and wrote them, whatever
\* raised before, the requests on other endpoints do and wherever the server
\* crashes.
THEOREM FilesTheorem ==
    ASSUME SubnetIsFixed
    PROVE  Spec => []FilesAgree
  <1>1. IInv /\ Tidy => FilesAgree
    BY NatAssumption DEF IInv, TypeOK, Tidy, Settled, IdleOnNothing, FilesAgree
  <1> QED
    BY <1>1, TidyInvariant, PTL

\* With a fixed subnet a stored address is never replaced, but by overlapping
\* requests on its endpoint.
THEOREM FixedTheorem ==
    ASSUME SubnetIsFixed
    PROVE  Spec => IpIsFixed
  <1>1. ASSUME IInv, Tidy, [Next]_vars, NEW e \in (existing \cap existing') \ overlapped,
               natIp[e] # None
        PROVE  natIp'[e] = natIp[e]
    <2> USE DEF IInv, TypeOK
    <2>1. ASSUME NEW t \in Threads, DeleteRow(t) PROVE natIp'[e] = natIp[e]
      BY <1>1, <2>1 DEF DeleteRow
    <2>2. ASSUME NEW t \in Workers, SyncStep(t) PROVE natIp'[e] = natIp[e]
      <3>1. CASE WriteMetadata(t)
        BY <1>1, <3>1 DEF WriteMetadata, Tidy, InHand
      <3> QED
        BY <2>2, <3>1 DEF SyncStep, KeepIp, Allocate, WriteFiles
    <2> QED
      BY <1>1, <2>1, <2>2 DEF Next, vars, BootSync, Create, Update, DeleteFiles,
         DeleteFails, Raise, Restart
  <1>2. IInv /\ Tidy /\ [Next]_vars =>
            [\A e \in (existing \cap existing') \ overlapped :
                natIp[e] # None => natIp'[e] = natIp[e]]_vars
    BY <1>1
  <1> QED
    BY <1>2, TidyInvariant, PTL DEF Spec, IpIsFixed
=============================================================================
