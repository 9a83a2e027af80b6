------------------------ MODULE PgSessionLockProofs ------------------------
(***************************************************************************)
(* What PostgreSQL has locked and what the pools have lent out is what the *)
(* calls believe, and functions that share a key run one after another,    *)
(* for any calls and nesting, keys, pods and pool sizes.                   *)
(*                                                                         *)
(* IInv is inductive as long as every branch that is not awaited is        *)
(* counted by its outermost call (BranchesCounted). Three of its parts     *)
(* carry the argument: localNestedLock keeps the calls of one connection   *)
(* apart (Apart), so that PostgreSQL never grants a key twice; the         *)
(* outermost call is there for as long as calls use its connection         *)
(* (RootWaits); and a key that a callback takes for granted is locked by a *)
(* call that ends no earlier (HeldIsLocked).                               *)
(***************************************************************************)
EXTENDS PgSessionLock, FiniteSetTheorems, WellFoundedInduction, TLAPS

-----------------------------------------------------------------------------
(* The calls a lock serves *)

\* A branch that its callback does not await is made directly in an outermost
\* callback, while that runs or when it is over, and asks for a key the
\* callback does not hold: endNested then tells the outermost call when the
\* branch has left.
BranchesCounted ==
  \A c \in Detached :
    Parent[c] # NoCall =>
      /\ Parent[Parent[c]] = NoCall
      /\ When[c] \subseteq {"run", "done"}
      /\ ~(KeysOf(c) \subseteq KeysOf(Parent[c]))

-----------------------------------------------------------------------------
(* The inductive invariant *)

Live(c) == pc[c] \notin {"idle"} \cup Over

\* A call made on the connection of another.
Nested(c) == root[c] # NoCall /\ ~IsRoot(c)

\* An outermost call that has its connection.
Using(c) == IsRoot(c) /\ pc[c] \in {"poll", "probe", "run", "drain", "unlock"}

RootKnown(c) ==
  /\ root[c] = NoCall <=> pc[c] \in {"idle", "busy"}
  /\ root[c] # NoCall => root[root[c]] = root[c]
  /\ Parent[c] = NoCall => ~Nested(c)
  /\ Nested(c) => /\ root[c] = root[Parent[c]]
                  /\ held[Parent[c]] # {} /\ held[root[c]] # {}
  /\ pc[c] \in {"reserve", "drain"} => IsRoot(c)
  /\ pc[c] = "local" => Nested(c)
  /\ pc[c] = "probe" => c \in Probes
  /\ active[c] => Using(c)

HeldKnown(c) ==
  /\ held[c] # {} => /\ pc[c] \in {"run", "drain", "unlock", "done"}
                     /\ KeysOf(c) \cup KeysOf(root[c]) \subseteq held[c]
  /\ pc[c] = "run" => held[c] # {}
  /\ IsRoot(c) => held[c] \subseteq KeysOf(c)

RootKeys(c) ==
  /\ loc[c] = {}
  /\ got[c] \subseteq KeysOf(c)
  /\ pc[c] \in {"reserve", "poll", "probe"} =>
       want[c] \cup got[c] = KeysOf(c) /\ want[c] \cap got[c] = {} /\ want[c] # {}
  /\ pc[c] \in {"run", "drain"} /\ held[c] # {} => got[c] = KeysOf(c)

NestedKeys(c) ==
  /\ got[c] \subseteq loc[c] /\ loc[c] \subseteq KeysOf(c)
  /\ (loc[c] \cup want[c]) \cap KeysOf(root[c]) = {}
  /\ pc[c] \in {"local", "poll", "probe"} =>
       want[c] \cup got[c] = Missing(c) /\ want[c] \cap got[c] = {} /\ want[c] # {}
  /\ pc[c] = "local" => got[c] = {} /\ loc[c] \subseteq want[c] /\ loc[c] # want[c]
  /\ pc[c] \in {"poll", "probe"} => loc[c] = want[c] \cup got[c]
  /\ pc[c] = "run" => want[c] = {} /\ got[c] = loc[c] /\ Missing(c) \subseteq got[c]
  /\ pc[c] = "unlock" => loc[c] # {}

KeysKnown(c) ==
  /\ IsRoot(c) => RootKeys(c)
  /\ Nested(c) => NestedKeys(c)
  /\ pc[c] \in {"reserve"} \cup {"idle"} \cup Over => got[c] = {}
  /\ pc[c] = "idle" => loc[c] = {} /\ want[c] = {} /\ conn[c] = NoConn

\* localNestedLock keeps the calls of one connection apart.
Apart ==
  \A c, d \in Calls :
    c # d /\ Nested(c) /\ Nested(d) /\ root[c] = root[d] /\ Live(c) /\ Live(d) =>
      loc[c] \cap loc[d] = {}

ConnKnown ==
  /\ \A c \in Calls : Using(c) => conn[c] \in Conns \ free
  /\ \A c, d \in Calls : Using(c) /\ Using(d) /\ conn[c] = conn[d] => c = d
  /\ \A s \in Conns \ free : \E c \in Calls : Using(c) /\ conn[c] = s

\* withLocks' finally waits for the calls made on its connection.
RootWaits ==
  \A c \in Calls :
    Nested(c) /\ Live(c) => \/ pc[root[c]] = "run"
                            \/ pc[root[c]] = "drain" /\ ~drained[root[c]]

\* A callback waits for the calls it awaits.
CallbackWaits ==
  \A c \in Calls \ Detached :
    Parent[c] # NoCall /\ Live(c) => pc[Parent[c]] = "run"

\* What a running callback takes for granted is locked, by itself or by a call
\* that goes on at least as long.
HeldIsLocked ==
  \A c \in Calls :
    pc[c] = "run" =>
      \A k \in held[c] :
        \E e \in Above[c] : /\ e \in Calls /\ k \in got[e] /\ root[e] = root[c]
                            /\ IsRoot(e) \/ pc[e] = "run"

CallInv == \A c \in Calls : RootKnown(c) /\ HeldKnown(c) /\ KeysKnown(c)

IInv ==
  /\ TypeOK /\ CallInv /\ Apart /\ ConnKnown /\ RootWaits /\ CallbackWaits
  /\ LocksMatchCalls /\ HeldIsLocked

-----------------------------------------------------------------------------
(* Keys and callers *)

LEMMA NoConnIsNone == NoConn \notin Conns
BY DEF NoConn, Conns

LEMMA KeysFacts ==
  ASSUME PgAssumption, NEW c \in Calls
  PROVE  /\ KeysOf(c) \subseteq Keys /\ KeysOf(c) # {}
         /\ c \in Probes => KeysOf(c) = {List[c][1]}
         /\ Keys \subseteq Nat
<1>1. /\ List[c] \in Seq(Keys) /\ List[c] # <<>> /\ Keys \subseteq Nat
      /\ c \in Probes => Len(List[c]) = 1
  BY DEF PgAssumption
<1>2. /\ Len(List[c]) \in Nat \ {0} /\ DOMAIN List[c] = 1..Len(List[c])
      /\ \A i \in 1..Len(List[c]) : List[c][i] \in Keys
  BY <1>1
<1>3. KeysOf(c) = {List[c][i] : i \in 1..Len(List[c])}
  BY <1>2 DEF KeysOf
<1>4. KeysOf(c) \subseteq Keys
  BY <1>2, <1>3
<1>5. 1 \in 1..Len(List[c])
  BY <1>2
<1>6. List[c][1] \in KeysOf(c)
  BY <1>3, <1>5
<1>7. ASSUME c \in Probes PROVE KeysOf(c) = {List[c][1]}
  <2>1. Len(List[c]) = 1
    BY <1>1, <1>7
  <2>2. \A i \in 1..Len(List[c]) : i = 1
    BY <2>1
  <2> QED BY <2>2, <1>3, <1>5
<1> QED BY <1>1, <1>4, <1>6, <1>7

LEMMA LeastNumber ==
  ASSUME NEW T, T \subseteq Nat, T # {}
  PROVE  \E x \in T : \A y \in T : x <= y
<1>1. PICK x \in T : \A y \in T : ~(<<y, x>> \in OpToRel(<, Nat))
  BY NatLessThanWellFounded, WFMin
<1>2. \A y \in T : ~(y < x)
  BY <1>1 DEF OpToRel
<1> QED BY <1>2

\* The least key of a set is in it.
LEMMA FirstIn ==
  ASSUME NEW c, NEW T, T \subseteq Nat, T # {}
  PROVE  First(c, T) \in T
<1>1. \E k \in T : \A x \in T \ {k} : Precedes(c, k, x)
  <2>1. PICK k \in T : \A y \in T : k <= y
    BY LeastNumber
  <2>2. \A x \in T \ {k} : k < x
    BY <2>1
  <2> QED BY <2>2 DEF Precedes
<1> QED BY <1>1 DEF First

LEMMA ListBounded ==
  ASSUME NEW n \in Nat, NEW f, \A i \in 1..n : f[i] \in Nat
  PROVE  \E u \in Nat : \A i \in 1..n : f[i] <= u
<1> DEFINE Bound(m, u) == \A i \in 1..m : f[i] <= u
           T == {m \in Nat : m <= n /\ ~\E u \in Nat : Bound(m, u)}
<1>1. T = {}
  <2>1. SUFFICES ASSUME T # {} PROVE FALSE
    OBVIOUS
  <2>2. PICK m \in T : \A y \in T : m <= y
    <3>1. T \subseteq Nat
      OBVIOUS
    <3> QED BY <3>1, <2>1, LeastNumber
  <2>3. Bound(0, 0)
    OBVIOUS
  <2>4. m \in Nat /\ m # 0 /\ m <= n
    BY <2>2, <2>3
  <2>5. m - 1 \in Nat /\ m - 1 <= n /\ m - 1 < m
    BY <2>4
  <2>6. m - 1 \notin T
    <3>1. SUFFICES ASSUME m - 1 \in T PROVE FALSE
      OBVIOUS
    <3>2. m <= m - 1
      BY <3>1, <2>2
    <3> QED BY <3>2, <2>4
  <2>7. PICK u \in Nat : Bound(m - 1, u)
    BY <2>5, <2>6
  <2>8. f[m] \in Nat
    BY <2>4
  <2>9. \E v \in Nat : u <= v /\ f[m] <= v
    <3>1. CASE u <= f[m]
      <4>1. f[m] \in Nat /\ u <= f[m] /\ f[m] <= f[m]
        BY <3>1, <2>8
      <4> QED BY <4>1
    <3>2. CASE ~(u <= f[m])
      <4>1. u \in Nat /\ u <= u /\ f[m] <= u
        BY <3>2, <2>8
      <4> QED BY <4>1
    <3> QED BY <3>1, <3>2
  <2>10. PICK v \in Nat : u <= v /\ f[m] <= v
    BY <2>9
  <2>11. Bound(m, v)
    <3>1. TAKE i \in 1..m
    <3>2. i = m \/ i \in 1..(m - 1)
      BY <2>4
    <3>3. i \in 1..n
      BY <2>4
    <3>4. CASE i = m
      BY <3>4, <2>10
    <3>5. CASE i \in 1..(m - 1)
      <4>1. f[i] <= u /\ f[i] \in Nat
        BY <3>5, <3>3, <2>7
      <4> QED BY <4>1, <2>10
    <3> QED BY <3>2, <3>4, <3>5
  <2> QED BY <2>2, <2>11
<1>2. n \notin T
  BY <1>1
<1> QED BY <1>2

\* The keys of a call have a bound, as a call lists finitely many.
LEMMA KeysBounded ==
  ASSUME PgAssumption, NEW c \in Calls
  PROVE  \E u \in Nat : \A k \in KeysOf(c) : k <= u
<1>1. List[c] \in Seq(Keys) /\ Keys \subseteq Nat
  BY DEF PgAssumption
<1>2. /\ Len(List[c]) \in Nat /\ DOMAIN List[c] = 1..Len(List[c])
      /\ \A i \in 1..Len(List[c]) : List[c][i] \in Nat
  <2>1. /\ Len(List[c]) \in Nat /\ DOMAIN List[c] = 1..Len(List[c])
        /\ \A i \in 1..Len(List[c]) : List[c][i] \in Keys
    BY <1>1
  <2> QED BY <2>1, <1>1
<1>3. PICK u \in Nat : \A i \in 1..Len(List[c]) : List[c][i] <= u
  BY <1>2, ListBounded
<1>4. \A k \in KeysOf(c) : k <= u
  BY <1>2, <1>3 DEF KeysOf
<1> QED BY <1>4

\* The greatest key a call has locked is one it has locked.
LEMMA LastIn ==
  ASSUME PgAssumption, NEW c \in Calls, NEW T, T \subseteq KeysOf(c), T # {}
  PROVE  Last(c, T) \in T
<1>1. T \subseteq Nat
  BY KeysFacts
<1> DEFINE U == {u \in Nat : \A k \in T : k <= u}
<1>2. U # {} /\ U \subseteq Nat
  BY KeysBounded
<1> HIDE DEF U
<1>3. PICK m \in U : \A u \in U : m <= u
  BY <1>2, LeastNumber
<1>4. m \in Nat /\ \A k \in T : k <= m
  BY <1>3 DEF U
<1>5. m \in T
  <2>1. SUFFICES ASSUME m \notin T PROVE FALSE
    OBVIOUS
  <2>2. \A k \in T : k < m
    BY <1>1, <1>4, <2>1
  <2>5. PICK k0 \in T : TRUE
    OBVIOUS
  <2>6. k0 \in Nat /\ k0 < m
    BY <2>5, <2>2, <1>1
  <2>7. m - 1 \in Nat
    BY <2>6, <1>4
  <2>3. m - 1 \in Nat /\ \A k \in T : k <= m - 1
    <3>1. ASSUME NEW k \in T PROVE k <= m - 1
      <4>1. k \in Nat /\ k < m /\ m \in Nat
        BY <1>1, <1>4, <2>2
      <4> QED BY <4>1
    <3> QED BY <3>1, <2>7
  <2>4. m - 1 \in U
    BY <2>3 DEF U
  <2>8. m <= m - 1
    BY <1>3, <2>4
  <2> QED BY <1>4, <2>8
<1>6. \A x \in T \ {m} : x < m
  BY <1>1, <1>4
<1>7. \E k \in T : \A x \in T \ {k} : Precedes(c, x, k)
  BY <1>5, <1>6 DEF Precedes
<1> QED BY <1>7 DEF Last

\* Above is what its recursive definition says: the least set that has the
\* call, and with a call its caller, satisfies the equation.
LEMMA AboveEquation ==
  ASSUME PgAssumption, NEW c \in Calls
  PROVE  Above[c] = {c} \cup IF Parent[c] = NoCall THEN {} ELSE Above[Parent[c]]
<1> DEFINE Closed(S) == \A x \in S : Parent[x] # NoCall => Parent[x] \in S
           Up == [x \in Calls |-> {y \in Calls :
                    \A S \in SUBSET Calls : x \in S /\ Closed(S) => y \in S}]
           Eq(f) == f = [x \in Calls |->
                    {x} \cup IF Parent[x] = NoCall THEN {} ELSE f[Parent[x]]]
<1>1. \A x \in Calls : Parent[x] \in Calls \cup {NoCall}
  BY DEF PgAssumption
<1>2. ASSUME NEW x \in Calls
      PROVE  Up[x] = {x} \cup IF Parent[x] = NoCall THEN {} ELSE Up[Parent[x]]
  <2> DEFINE R == {x} \cup IF Parent[x] = NoCall THEN {} ELSE Up[Parent[x]]
  <2>1. R \subseteq Up[x]
    <3>1. x \in Up[x]
      OBVIOUS
    <3>2. ASSUME Parent[x] # NoCall PROVE Up[Parent[x]] \subseteq Up[x]
      <4>1. Parent[x] \in Calls
        BY <1>1, <3>2
      <4>2. ASSUME NEW y \in Up[Parent[x]], NEW S \in SUBSET Calls, x \in S, Closed(S)
            PROVE  y \in S
        <5>1. Parent[x] \in S
          BY <4>2, <3>2
        <5> QED BY <5>1, <4>1, <4>2
      <4> QED BY <4>1, <4>2
    <3> QED BY <3>1, <3>2
  <2>2. R \in SUBSET Calls /\ x \in R
    BY <1>1
  <2>3. Closed(R)
    <3>1. ASSUME NEW z \in R, Parent[z] # NoCall PROVE Parent[z] \in R
      <4>1. CASE z = x
        <5>1. Parent[x] \in Up[Parent[x]]
          BY <1>1, <4>1, <3>1
        <5> QED BY <5>1, <4>1, <3>1
      <4>2. CASE z # x
        <5>1. Parent[x] # NoCall /\ z \in Up[Parent[x]] /\ Parent[x] \in Calls
          BY <4>2, <3>1, <1>1
        <5>2. Parent[z] \in Calls
          BY <5>1, <1>1, <3>1
        <5>3. ASSUME NEW S \in SUBSET Calls, Parent[x] \in S, Closed(S)
              PROVE  Parent[z] \in S
          <6>1. z \in S
            BY <5>1, <5>3
          <6> QED BY <6>1, <5>3, <3>1
        <5>4. Parent[z] \in Up[Parent[x]]
          BY <5>1, <5>2, <5>3
        <5> QED BY <5>1, <5>4
      <4> QED BY <4>1, <4>2
    <3> QED BY <3>1
  <2>4. Up[x] \subseteq R
    <3> HIDE DEF R
    <3> QED BY <2>2, <2>3
  <2> QED BY <2>1, <2>4
<1>3. Eq(Up)
  <2>1. Up = [x \in Calls |-> Up[x]]
    OBVIOUS
  <2> HIDE DEF Up
  <2> QED BY <2>1, <1>2
<1>4. Above = CHOOSE f : Eq(f)
  BY DEF Above
<1>5. Eq(Above)
  <2> HIDE DEF Eq, Up
  <2> QED BY <1>3, <1>4
<1> QED BY <1>5

-----------------------------------------------------------------------------
(* The moves of a call: the actions with what their guards amount to. *)

\* A call that is made on the connection of its caller's outermost call.
Enters(c) ==
  /\ pc[c] = "idle" /\ Parent[c] \in Calls
  /\ pc[Parent[c]] = "run" /\ held[Parent[c]] # {}
  /\ root[Parent[c]] \in Calls /\ IsRoot(root[Parent[c]])
  /\ \/ pc[root[Parent[c]]] = "run"
     \/ pc[root[Parent[c]]] = "drain" /\ ~drained[root[Parent[c]]]
  /\ c \in Detached => root[Parent[c]] = Parent[c] /\ Missing(c) # {}

ChildrenOver(c) ==
  \A d \in Calls : Parent[d] = c /\ d \notin Detached => pc[d] \in {"idle"} \cup Over

EntersRoot(c) ==
  /\ pc[c] = "idle" /\ BeginRoot(c)
  /\ c \notin Detached /\ Parent[c] # NoCall => pc[Parent[c]] = "run"

EntersInner(c) == Enters(c) /\ Missing(c) = {} /\ BeginInner(c)
EntersNested(c) == Enters(c) /\ Missing(c) # {} /\ BeginNested(c, "local") /\ UNCHANGED loc

EntersProbing(c) ==
  /\ Enters(c) /\ c \in Probes /\ Missing(c) = KeysOf(c)
  /\ \A d \in Inside(root[Parent[c]]) : loc[d] \cap KeysOf(c) = {}
  /\ BeginNested(c, "probe") /\ loc' = [loc EXCEPT ![c] = KeysOf(c)]

FindsBusy(c) ==
  /\ pc[c] = "idle" /\ pc' = [pc EXCEPT ![c] = "busy"]
  /\ UNCHANGED <<root, held, want, got, loc, conn, active, drained, free, late, adv>>

LocksKey(c, k) == pc[c] \in {"poll", "probe"} /\ k \in want[c] /\ LockKey(c, k)

LocksLocally(c, k) ==
  /\ pc[c] = "local" /\ k \in want[c] \ loc[c] /\ LocallyFree(c, k)
  /\ loc' = [loc EXCEPT ![c] = @ \cup {k}]
  /\ pc' = [pc EXCEPT ![c] = IF want[c] = loc[c] \cup {k} THEN "poll" ELSE "local"]
  /\ UNCHANGED <<root, held, want, got, conn, active, drained, free, late, adv>>

GivesUp(c) == pc[c] \in {"poll", "probe"} /\ Leave(c)
Returns(c) == pc[c] = "run" /\ ChildrenOver(c) /\ (IsRoot(c) \/ loc[c] # {}) /\ Leave(c)

ReturnsInner(c) ==
  /\ pc[c] = "run" /\ ChildrenOver(c) /\ ~IsRoot(c) /\ loc[c] = {}
  /\ pc' = [pc EXCEPT ![c] = "done"]
  /\ UNCHANGED <<root, held, want, got, loc, conn, active, drained, free, late, adv>>

UnlocksKey(c, k) ==
  /\ pc[c] = "unlock" /\ k \in got[c]
  /\ got' = [got EXCEPT ![c] = @ \ {k}]
  /\ adv' = [adv EXCEPT ![k] = IF @.n = 1 THEN Unlocked
                               ELSE [by |-> @.by, n |-> @.n - 1]]
  /\ UNCHANGED <<pc, root, held, want, loc, conn, active, drained, free, late>>

Move(c) ==
  \/ EntersRoot(c) \/ EntersInner(c) \/ EntersNested(c) \/ EntersProbing(c)
  \/ FindsBusy(c)
  \/ Reserve(c) \/ ReserveTimeout(c) \/ LateCheckout(c)
  \/ \E k \in Keys : LocksLocally(c, k)
  \/ \E k \in Keys : LocksKey(c, k)
  \/ GivesUp(c) \/ Returns(c) \/ ReturnsInner(c) \/ Drain(c)
  \/ \E k \in Keys : UnlocksKey(c, k)
  \/ CloseNested(c) \/ CloseRoot(c)

-----------------------------------------------------------------------------
(* Every step is a move. *)

LEMMA ParentFacts ==
  ASSUME PgAssumption, NEW c \in Calls
  PROVE  /\ NoCall \notin Calls /\ Parent[c] \in Calls \cup {NoCall}
         /\ c \notin Detached => When[c] = {"run"}
BY DEF PgAssumption

\* A call that inherits a connection is made by a callback that runs.
LEMMA EntersCase ==
  ASSUME PgAssumption, BranchesCounted, IInv, NEW c \in Calls,
         pc[c] = "idle", Reached(c), Inherited(c)
  PROVE  Enters(c)
<1> DEFINE p == Parent[c]
           r == root[Parent[c]]
<1>1. p \in Calls /\ p # NoCall /\ pc[p] \in When[c] /\ held[p] # {} /\ active[r]
  BY ParentFacts DEF Reached, Inherited
<1>2. RootKnown(p) /\ HeldKnown(p)
  BY <1>1 DEF IInv, CallInv
<1>3. pc[p] \notin {"idle", "busy"}
  BY <1>1, <1>2 DEF HeldKnown
<1>4. r \in Calls /\ root[r] = r
  BY <1>1, <1>2, <1>3 DEF RootKnown, IInv, TypeOK
<1>5. Using(r)
  BY <1>1, <1>4 DEF IInv, CallInv, RootKnown
<1>6. CASE c \in Detached
  <2>1. Parent[p] = NoCall /\ When[c] \subseteq {"run", "done"} /\ ~(KeysOf(c) \subseteq KeysOf(p))
    BY <1>1, <1>6 DEF BranchesCounted
  <2>2. r = p
    BY <2>1, <1>2, <1>3, <1>4 DEF RootKnown, Nested, IsRoot
  <2>3. pc[p] = "run"
    BY <2>1, <2>2, <1>1, <1>5 DEF Using
  <2>4. held[p] \subseteq KeysOf(p)
    BY <2>2, <1>2, <1>4 DEF HeldKnown, IsRoot
  <2>5. Missing(c) # {}
    BY <2>1, <2>4 DEF Missing
  <2> HIDE DEF p, r
  <2> QED BY <2>2, <2>3, <2>5, <1>1, <1>4 DEF Enters, IsRoot, p, r
<1>7. CASE c \notin Detached
  <2>1. pc[p] = "run"
    BY <1>1, <1>7, ParentFacts
  <2>2. pc[r] = "run" \/ (pc[r] = "drain" /\ ~drained[r])
    <3>1. CASE IsRoot(p)
      BY <3>1, <2>1 DEF IsRoot
    <3>2. CASE ~IsRoot(p)
      <4>1. Nested(p) /\ Live(p)
        BY <3>2, <2>1, <1>2 DEF Nested, Live, RootKnown, Over
      <4> QED BY <4>1, <1>1 DEF IInv, RootWaits
    <3> QED BY <3>1, <3>2
  <2> HIDE DEF p, r
  <2> QED BY <2>1, <2>2, <1>1, <1>4, <1>7 DEF Enters, IsRoot, p, r
<1> QED BY <1>6, <1>7

LEMMA StepIsMove ==
  ASSUME PgAssumption, BranchesCounted, IInv, Next
  PROVE  \E c \in Calls : Move(c)
<1>1. PICK c \in Calls : \/ WithLocks(c) \/ TryWithLock(c)
                         \/ ReserveTimeout(c) \/ PollTimeout(c) \/ Step(c)
  BY DEF Next
<1>2. /\ RootKnown(c) /\ HeldKnown(c) /\ KeysKnown(c)
      /\ want[c] \subseteq Keys /\ got[c] \subseteq Keys /\ loc[c] \subseteq Keys
      /\ Keys \subseteq Nat
  BY KeysFacts DEF IInv, CallInv, TypeOK
<1>3. CASE WithLocks(c)
  <2>1. CASE ~Inherited(c) /\ BeginRoot(c)
    BY <1>3, <2>1, ParentFacts DEF WithLocks, Reached, Move, EntersRoot
  <2>2. CASE Inherited(c) /\ Missing(c) = {} /\ BeginInner(c)
    BY <1>3, <2>2, EntersCase DEF WithLocks, Move, EntersInner
  <2>3. CASE Inherited(c) /\ Missing(c) # {} /\ BeginNested(c, "local") /\ UNCHANGED loc
    BY <1>3, <2>3, EntersCase DEF WithLocks, Move, EntersNested
  <2> QED BY <1>3, <2>1, <2>2, <2>3 DEF WithLocks
<1>4. CASE TryWithLock(c)
  <2>1. CASE ~Inherited(c) /\ BeginRoot(c)
    BY <1>4, <2>1, ParentFacts DEF TryWithLock, Reached, Move, EntersRoot
  <2>2. CASE Inherited(c) /\ Missing(c) = {} /\ BeginInner(c)
    BY <1>4, <2>2, EntersCase DEF TryWithLock, Move, EntersInner
  <2>3. CASE /\ Inherited(c) /\ Missing(c) # {}
             /\ LocallyTaken(root[Parent[c]], List[c][1])
             /\ pc' = [pc EXCEPT ![c] = "busy"]
             /\ UNCHANGED <<root, held, want, got, loc, conn, active, drained, free,
                            late, adv>>
    BY <1>4, <2>3 DEF TryWithLock, Move, FindsBusy
  <2>4. CASE /\ Inherited(c) /\ Missing(c) # {}
             /\ ~LocallyTaken(root[Parent[c]], List[c][1])
             /\ BeginNested(c, "probe") /\ loc' = [loc EXCEPT ![c] = KeysOf(c)]
    <3>1. pc[c] = "idle" /\ c \in Probes /\ Reached(c)
      BY <1>4 DEF TryWithLock
    <3>2. KeysOf(c) = {List[c][1]}
      BY <3>1, KeysFacts
    <3>3. Missing(c) = KeysOf(c)
      BY <2>4, <3>2 DEF Missing
    <3>4. \A d \in Inside(root[Parent[c]]) : loc[d] \cap KeysOf(c) = {}
      BY <2>4, <3>2 DEF LocallyTaken
    <3> QED BY <2>4, <3>1, <3>3, <3>4, EntersCase DEF Move, EntersProbing
  <2> QED BY <1>4, <2>1, <2>2, <2>3, <2>4 DEF TryWithLock
<1>5. CASE ReserveTimeout(c)
  BY <1>5 DEF Move
<1>6. CASE PollTimeout(c)
  BY <1>6 DEF PollTimeout, Move, GivesUp
<1>7. CASE Step(c)
  <2>1. CASE \/ Reserve(c) \/ LateCheckout(c) \/ Drain(c) \/ CloseNested(c) \/ CloseRoot(c)
    BY <2>1 DEF Move
  <2>2. CASE LocalLock(c)
    <3> DEFINE k == First(c, want[c] \ loc[c])
    <3>1. pc[c] = "local"
      BY <2>2 DEF LocalLock
    <3>2. want[c] \ loc[c] # {} /\ want[c] \ loc[c] \subseteq Nat
      BY <3>1, <1>2 DEF RootKnown, KeysKnown, NestedKeys
    <3>3. k \in want[c] \ loc[c]
      BY <3>2, FirstIn
    <3>4. LocksLocally(c, k)
      BY <2>2, <3>3 DEF LocalLock, LocksLocally
    <3>5. k \in Keys
      BY <3>3, <1>2
    <3> HIDE DEF k
    <3> QED BY <3>4, <3>5 DEF Move
  <2>3. CASE Poll(c)
    <3> DEFINE k == First(c, want[c])
    <3>1. pc[c] = "poll" /\ LockKey(c, k)
      BY <2>3 DEF Poll
    <3>2. want[c] # {} /\ want[c] \subseteq Nat
      <4>1. IsRoot(c) \/ Nested(c)
        BY <3>1, <1>2 DEF RootKnown, Nested
      <4> QED BY <4>1, <3>1, <1>2 DEF KeysKnown, RootKeys, NestedKeys
    <3>3. k \in want[c]
      BY <3>2, FirstIn
    <3> HIDE DEF k
    <3> QED BY <3>1, <3>3, <1>2 DEF Move, LocksKey
  <2>4. CASE Probe(c)
    <3> DEFINE k == List[c][1]
    <3>1. pc[c] = "probe" /\ (LockKey(c, k) \/ Leave(c))
      BY <2>4 DEF Probe
    <3>2. CASE Leave(c)
      BY <3>1, <3>2 DEF Move, GivesUp
    <3>3. CASE LockKey(c, k)
      <4>1. IsRoot(c) \/ Nested(c)
        BY <3>1, <1>2 DEF RootKnown, Nested
      <4>2. want[c] # {} /\ want[c] \subseteq KeysOf(c)
        BY <4>1, <3>1, <1>2 DEF KeysKnown, RootKeys, NestedKeys, Missing
      <4>3. KeysOf(c) = {k}
        BY <3>1, <1>2, KeysFacts DEF RootKnown
      <4>4. k \in want[c]
        BY <4>2, <4>3
      <4> HIDE DEF k
      <4> QED BY <4>4, <3>1, <3>3, <1>2 DEF Move, LocksKey
    <3> QED BY <3>1, <3>2, <3>3
  <2>5. CASE FnEnd(c)
    <3>1. pc[c] = "run" /\ ChildrenOver(c)
      BY <2>5 DEF FnEnd, ChildrenOver
    <3>2. CASE IsRoot(c) \/ loc[c] # {}
      BY <3>1, <3>2, <2>5 DEF FnEnd, Move, Returns
    <3>3. CASE ~(IsRoot(c) \/ loc[c] # {})
      BY <3>1, <3>3, <2>5 DEF FnEnd, Move, ReturnsInner
    <3> QED BY <3>2, <3>3
  <2>6. CASE Unlock(c)
    <3> DEFINE k == Last(c, got[c])
    <3>1. pc[c] = "unlock" /\ got[c] # {}
      BY <2>6 DEF Unlock
    <3>2. got[c] \subseteq KeysOf(c)
      <4>1. IsRoot(c) \/ Nested(c)
        BY <3>1, <1>2 DEF RootKnown, Nested
      <4> QED BY <4>1, <3>1, <1>2 DEF KeysKnown, RootKeys, NestedKeys
    <3>3. k \in got[c]
      BY <3>1, <3>2, LastIn
    <3>4. UnlocksKey(c, k)
      BY <2>6, <3>3 DEF Unlock, UnlocksKey
    <3> HIDE DEF k
    <3> QED BY <3>3, <3>4, <1>2 DEF Move
  <2> QED BY <1>7, <2>1, <2>2, <2>3, <2>4, <2>5, <2>6 DEF Step
<1> QED BY <1>1, <1>3, <1>4, <1>5, <1>6, <1>7

\* One key, without the set of its owners.
KeyMatched(k) ==
  /\ \A c \in Calls : k \in got[c] => adv[k] = [by |-> Session(c), n |-> 1]
  /\ \A c, d \in Calls : k \in got[c] /\ k \in got[d] => c = d
  /\ (\A c \in Calls : k \notin got[c]) => adv[k] = Unlocked

LEMMA MatchedEach == LocksMatchCalls <=> \A k \in Keys : KeyMatched(k)
<1>1. ASSUME LocksMatchCalls, NEW k \in Keys PROVE KeyMatched(k)
  <2> DEFINE owners == {c \in Calls : k \in got[c]}
  <2>1. \/ owners = {} /\ adv[k] = Unlocked
        \/ \E c \in owners : owners = {c} /\ adv[k] = [by |-> Session(c), n |-> 1]
    BY <1>1 DEF LocksMatchCalls
  <2>2. \A c \in Calls : c \in owners <=> k \in got[c]
    OBVIOUS
  <2> HIDE DEF owners
  <2>3. CASE owners = {} /\ adv[k] = Unlocked
    BY <2>2, <2>3 DEF KeyMatched
  <2>4. CASE \E c \in owners : owners = {c} /\ adv[k] = [by |-> Session(c), n |-> 1]
    <3>1. PICK c \in owners : owners = {c} /\ adv[k] = [by |-> Session(c), n |-> 1]
      BY <2>4
    <3>2. \A d \in Calls : k \in got[d] => d = c
      BY <3>1, <2>2
    <3>3. c \in Calls /\ k \in got[c]
      BY <3>1 DEF owners
    <3> QED BY <3>1, <3>2, <3>3 DEF KeyMatched
  <2> QED BY <2>1, <2>3, <2>4
<1>2. ASSUME \A k \in Keys : KeyMatched(k) PROVE LocksMatchCalls
  <2>1. SUFFICES ASSUME NEW k \in Keys
                 PROVE  LET owners == {c \in Calls : k \in got[c]}
                        IN  \/ owners = {} /\ adv[k] = Unlocked
                            \/ \E c \in owners : /\ owners = {c}
                                                /\ adv[k] = [by |-> Session(c), n |-> 1]
    BY DEF LocksMatchCalls
  <2> DEFINE owners == {c \in Calls : k \in got[c]}
  <2>2. KeyMatched(k)
    BY <1>2
  <2>3. CASE \A c \in Calls : k \notin got[c]
    BY <2>2, <2>3 DEF KeyMatched
  <2>4. CASE \E c \in Calls : k \in got[c]
    <3>1. PICK c \in Calls : k \in got[c]
      BY <2>4
    <3>2. owners = {c} /\ c \in owners
      BY <3>1, <2>2 DEF KeyMatched
    <3>3. adv[k] = [by |-> Session(c), n |-> 1]
      BY <3>1, <2>2 DEF KeyMatched
    <3> QED BY <3>2, <3>3
  <2> QED BY <2>3, <2>4
<1> QED BY <1>1, <1>2

-----------------------------------------------------------------------------
(* What a move preserves *)

LEMMA TypeStep ==
  ASSUME PgAssumption, IInv, NEW c \in Calls, Move(c)
  PROVE  TypeOK'
<1>1. TypeOK /\ LocksMatchCalls
  BY DEF IInv
<1>2. KeysOf(c) \subseteq Keys /\ Missing(c) \subseteq Keys
  BY KeysFacts DEF Missing
<1>3. CASE EntersRoot(c)
  BY <1>3, <1>1, <1>2 DEF TypeOK, Over, EntersRoot, BeginRoot
<1>4. CASE EntersInner(c)
  <2>1. root[Parent[c]] \in Calls /\ held[Parent[c]] \in SUBSET Keys
    BY <1>4, <1>1 DEF EntersInner, Enters, TypeOK
  <2> QED BY <2>1, <1>4, <1>1, <1>2 DEF TypeOK, Over, EntersInner, BeginInner
<1>5. CASE EntersNested(c)
  <2>1. root[Parent[c]] \in Calls /\ held[Parent[c]] \in SUBSET Keys
    BY <1>5, <1>1 DEF EntersNested, Enters, TypeOK
  <2> QED BY <2>1, <1>5, <1>1, <1>2 DEF TypeOK, Over, EntersNested, BeginNested
<1>6. CASE EntersProbing(c)
  <2>1. root[Parent[c]] \in Calls /\ held[Parent[c]] \in SUBSET Keys
    BY <1>6, <1>1 DEF EntersProbing, Enters, TypeOK
  <2> QED BY <2>1, <1>6, <1>1, <1>2 DEF TypeOK, Over, EntersProbing, BeginNested
<1>7. CASE FindsBusy(c)
  BY <1>7, <1>1, <1>2 DEF TypeOK, Over, FindsBusy
<1>8. CASE Reserve(c)
  BY <1>8, <1>1, <1>2 DEF TypeOK, Over, Reserve
<1>9. CASE ReserveTimeout(c)
  BY <1>9, <1>1, <1>2 DEF TypeOK, Over, ReserveTimeout
<1>10. CASE LateCheckout(c)
  BY <1>10, <1>1 DEF TypeOK, LateCheckout, AfterLate
<1>11. CASE \E k \in Keys : LocksLocally(c, k)
  BY <1>11, <1>1, <1>2 DEF TypeOK, Over, LocksLocally
<1>12. CASE \E k \in Keys : LocksKey(c, k)
  <2>1. PICK k \in Keys : LocksKey(c, k)
    BY <1>12
  <2>2. RootKnown(c)
    BY DEF IInv, CallInv
  <2>3. root[c] \in Calls
    BY <2>1, <2>2, <1>1 DEF LocksKey, RootKnown, TypeOK
  <2>4. Session(c) \in Conns \cup {NoConn}
    BY <2>3, <1>1 DEF TypeOK, Session
  <2>5. [by |-> Session(c), n |-> adv[k].n + 1] \in [by : Conns \cup {NoConn}, n : Nat]
    BY <2>4, <1>1 DEF TypeOK
  <2>6. adv' = [adv EXCEPT ![k] = [by |-> Session(c), n |-> adv[k].n + 1]]
    BY <2>1 DEF LocksKey, LockKey
  <2>7. got' \in [Calls -> SUBSET Keys] /\ got'[c] \subseteq Keys /\ want' \in [Calls -> SUBSET Keys]
    BY <2>1, <1>1 DEF TypeOK, LocksKey, LockKey
  <2>8. IsRoot(c) \/ held[Parent[c]] \subseteq Keys
    BY <2>2, <2>3, <1>1, ParentFacts DEF TypeOK, RootKnown, Nested, IsRoot
  <2>9. /\ held' \in [Calls -> SUBSET Keys]
        /\ pc' \in [Calls -> {"idle", "reserve", "local", "poll", "probe", "run", "drain",
                               "unlock"} \cup Over]
    <3>1. CASE want[c] = {k}
      <4>1. /\ pc' = [pc EXCEPT ![c] = "run"]
            /\ held' = [held EXCEPT ![c] = got'[c] \cup
                         IF IsRoot(c) THEN {} ELSE held[Parent[c]]]
        BY <2>1, <3>1 DEF LocksKey, LockKey
      <4>2. got'[c] \cup (IF IsRoot(c) THEN {} ELSE held[Parent[c]]) \subseteq Keys
        BY <2>7, <2>8
      <4> QED BY <4>1, <4>2, <1>1 DEF TypeOK
    <3>2. CASE want[c] # {k}
      BY <2>1, <3>2, <1>1 DEF TypeOK, LocksKey, LockKey
    <3> QED BY <3>1, <3>2
  <2>10. adv' \in [Keys -> [by : Conns \cup {NoConn}, n : Nat]]
    BY <2>5, <2>6, <1>1 DEF TypeOK
  <2> QED BY <2>1, <2>7, <2>9, <2>10, <1>1 DEF TypeOK, LocksKey, LockKey
<1>13. CASE GivesUp(c)
  BY <1>13, <1>1, <1>2 DEF TypeOK, Over, GivesUp, Leave
<1>14. CASE Returns(c)
  BY <1>14, <1>1, <1>2 DEF TypeOK, Over, Returns, Leave
<1>15. CASE ReturnsInner(c)
  BY <1>15, <1>1, <1>2 DEF TypeOK, Over, ReturnsInner
<1>16. CASE Drain(c)
  BY <1>16, <1>1, <1>2 DEF TypeOK, Over, Drain, Drained
<1>17. CASE \E k \in Keys : UnlocksKey(c, k)
  <2>1. PICK k \in Keys : UnlocksKey(c, k)
    BY <1>17
  <2>2. adv[k].n = 1
    <3>1. KeyMatched(k)
      BY <1>1, MatchedEach
    <3>2. adv[k] = [by |-> Session(c), n |-> 1]
      BY <3>1, <2>1 DEF KeyMatched, UnlocksKey
    <3> QED BY <3>2
  <2>3. adv' = [adv EXCEPT ![k] = Unlocked]
    BY <2>1, <2>2 DEF UnlocksKey
  <2>4. Unlocked \in [by : Conns \cup {NoConn}, n : Nat]
    BY DEF Unlocked
  <2> QED BY <2>1, <2>3, <2>4, <1>1 DEF TypeOK, UnlocksKey
<1>18. CASE CloseNested(c)
  <2>1. drained' \in [Calls -> BOOLEAN]
    BY <1>18, <1>1 DEF TypeOK, CloseNested
  <2> QED BY <2>1, <1>18, <1>1 DEF TypeOK, CloseNested, Over
<1>19. CASE CloseRoot(c)
  <2>1. conn[c] \in Conns
    BY <1>19, <1>1 DEF CloseRoot, IInv, ConnKnown, Using
  <2> QED BY <2>1, <1>19, <1>1 DEF TypeOK, Over, CloseRoot
<1> QED BY <1>3, <1>4, <1>5, <1>6, <1>7, <1>8, <1>9, <1>10, <1>11, <1>12, <1>13, <1>14, <1>15, <1>16, <1>17, <1>18, <1>19 DEF Move

LEMMA RootStep ==
  ASSUME PgAssumption, IInv, NEW c \in Calls, Move(c), NEW d \in Calls
  PROVE  RootKnown(d)'
<1>1. /\ TypeOK
      /\ \A x \in Calls : /\ RootKnown(x) /\ HeldKnown(x) /\ KeysKnown(x)
                           /\ Parent[x] \in Calls \cup {NoCall}
      /\ NoCall \notin Calls
  BY ParentFacts DEF IInv, CallInv
<1>2. CASE EntersRoot(c)
  BY <1>2, <1>1 DEF RootKnown, Nested, Using, IsRoot, Over, TypeOK, EntersRoot, BeginRoot
<1>3. CASE EntersInner(c)
  <2>1. /\ Parent[c] \in Calls /\ root[Parent[c]] \in Calls /\ held[Parent[c]] # {}
        /\ root[root[Parent[c]]] = root[Parent[c]] /\ pc[c] = "idle" /\ root[c] = NoCall
        /\ pc[Parent[c]] = "run" /\ held[root[Parent[c]]] # {} /\ held[c] = {}
    BY <1>3, <1>1 DEF EntersInner, Enters, RootKnown, HeldKnown, Nested, IsRoot
  <2> QED BY <2>1, <1>3, <1>1 DEF RootKnown, Nested, Using, IsRoot, Over, TypeOK, EntersInner, BeginInner
<1>4. CASE EntersNested(c)
  <2>1. /\ Parent[c] \in Calls /\ root[Parent[c]] \in Calls /\ held[Parent[c]] # {}
        /\ root[root[Parent[c]]] = root[Parent[c]] /\ pc[c] = "idle" /\ root[c] = NoCall
        /\ pc[Parent[c]] = "run" /\ held[root[Parent[c]]] # {} /\ held[c] = {}
    BY <1>4, <1>1 DEF EntersNested, Enters, RootKnown, HeldKnown, Nested, IsRoot
  <2> QED BY <2>1, <1>4, <1>1 DEF RootKnown, Nested, Using, IsRoot, Over, TypeOK, EntersNested, BeginNested
<1>5. CASE EntersProbing(c)
  <2>1. /\ Parent[c] \in Calls /\ root[Parent[c]] \in Calls /\ held[Parent[c]] # {}
        /\ root[root[Parent[c]]] = root[Parent[c]] /\ pc[c] = "idle" /\ root[c] = NoCall
        /\ pc[Parent[c]] = "run" /\ held[root[Parent[c]]] # {} /\ held[c] = {}
    BY <1>5, <1>1 DEF EntersProbing, Enters, RootKnown, HeldKnown, Nested, IsRoot
  <2> QED BY <2>1, <1>5, <1>1 DEF RootKnown, Nested, Using, IsRoot, Over, TypeOK, EntersProbing, BeginNested
<1>6. CASE FindsBusy(c)
  BY <1>6, <1>1 DEF RootKnown, Nested, Using, IsRoot, Over, TypeOK, FindsBusy
<1>7. CASE Reserve(c)
  BY <1>7, <1>1 DEF RootKnown, Nested, Using, IsRoot, Over, TypeOK, Reserve
<1>8. CASE ReserveTimeout(c)
  BY <1>8, <1>1 DEF RootKnown, Nested, Using, IsRoot, Over, TypeOK, ReserveTimeout
<1>9. CASE LateCheckout(c)
  BY <1>9, <1>1 DEF RootKnown, Nested, Using, IsRoot, Over, TypeOK, LateCheckout
<1>10. CASE \E k \in Keys : LocksLocally(c, k)
  BY <1>10, <1>1 DEF RootKnown, Nested, Using, IsRoot, Over, TypeOK, LocksLocally
<1>11. CASE \E k \in Keys : LocksKey(c, k)
  <2>1. PICK k \in Keys : LocksKey(c, k)
    BY <1>11
  <2>2. held[c] = {}
    BY <2>1, <1>1 DEF LocksKey, HeldKnown
  <2>3. \A x \in Calls : held[x] # {} => held'[x] = held[x]
    BY <2>1, <2>2, <1>1 DEF LocksKey, LockKey, TypeOK
  <2>4. pc' = pc \/ pc' = [pc EXCEPT ![c] = "run"]
    BY <2>1 DEF LocksKey, LockKey
  <2>5. root' = root /\ active' = active /\ pc[c] \in {"poll", "probe"}
    BY <2>1 DEF LocksKey, LockKey
  <2>6. Nested(d) => root[d] \in Calls
    BY <1>1 DEF TypeOK, Nested
  <2>7. Nested(d) => Parent[d] \in Calls
    BY <1>1 DEF RootKnown
  <2>8. Nested(d)' <=> Nested(d)
    BY <2>5 DEF Nested, IsRoot
  <2>9. \A x \in Calls : pc'[x] = pc[x] \/ (x = c /\ pc'[x] = "run")
    BY <2>4, <1>1 DEF TypeOK
  <2>10. /\ root[d] = NoCall <=> pc'[d] \in {"idle", "busy"}
         /\ pc'[d] \in {"reserve", "drain"} => IsRoot(d)
         /\ pc'[d] = "local" => Nested(d)
         /\ pc'[d] = "probe" => d \in Probes
    BY <2>5, <2>9, <1>1 DEF RootKnown
  <2>11. active[d] => Using(d)'
    BY <2>5, <2>9, <1>1 DEF RootKnown, Using, IsRoot
  <2>12. Nested(d) => /\ root[d] = root[Parent[d]]
                     /\ held'[Parent[d]] # {} /\ held'[root[d]] # {}
    BY <2>3, <2>6, <2>7, <1>1 DEF RootKnown
  <2> QED BY <2>5, <2>8, <2>10, <2>11, <2>12, <1>1 DEF RootKnown, IsRoot
<1>12. CASE GivesUp(c)
  BY <1>12, <1>1 DEF RootKnown, Nested, Using, IsRoot, Over, TypeOK, GivesUp, Leave
<1>13. CASE Returns(c)
  BY <1>13, <1>1 DEF RootKnown, Nested, Using, IsRoot, Over, TypeOK, Returns, Leave
<1>14. CASE ReturnsInner(c)
  BY <1>14, <1>1 DEF RootKnown, Nested, Using, IsRoot, Over, TypeOK, ReturnsInner
<1>15. CASE Drain(c)
  BY <1>15, <1>1 DEF RootKnown, Nested, Using, IsRoot, Over, TypeOK, Drain, Drained
<1>16. CASE \E k \in Keys : UnlocksKey(c, k)
  BY <1>16, <1>1 DEF RootKnown, Nested, Using, IsRoot, Over, TypeOK, UnlocksKey
<1>17. CASE CloseNested(c)
  BY <1>17, <1>1 DEF RootKnown, Nested, Using, IsRoot, Over, TypeOK, CloseNested
<1>18. CASE CloseRoot(c)
  BY <1>18, <1>1 DEF RootKnown, Nested, Using, IsRoot, Over, TypeOK, CloseRoot
<1> QED BY <1>2, <1>3, <1>4, <1>5, <1>6, <1>7, <1>8, <1>9, <1>10, <1>11, <1>12, <1>13, <1>14, <1>15, <1>16, <1>17, <1>18 DEF Move

LEMMA HeldStep ==
  ASSUME PgAssumption, IInv, NEW c \in Calls, Move(c), NEW d \in Calls
  PROVE  HeldKnown(d)'
<1>1. /\ TypeOK
      /\ \A x \in Calls : /\ RootKnown(x) /\ HeldKnown(x) /\ KeysKnown(x)
                           /\ Parent[x] \in Calls \cup {NoCall}
      /\ NoCall \notin Calls
  BY ParentFacts DEF IInv, CallInv
<1>2. /\ KeysOf(c) # {} /\ KeysOf(d) # {}
      /\ KeysOf(c)' = KeysOf(c) /\ KeysOf(d)' = KeysOf(d)
      /\ KeysOf(root[d])' = KeysOf(root[d]') /\ KeysOf(root[c])' = KeysOf(root[c]')
  BY KeysFacts DEF KeysOf
<1>3. CASE EntersRoot(c)
  BY <1>3, <1>1, <1>2 DEF HeldKnown, IsRoot, Over, TypeOK, RootKnown, Nested, EntersRoot, BeginRoot
<1>4. CASE EntersInner(c)
  <2>1. /\ Parent[c] \in Calls /\ held[Parent[c]] # {} /\ pc[c] = "idle" /\ held[c] = {}
        /\ KeysOf(root[Parent[c]]) \subseteq held[Parent[c]]
        /\ root[c] = NoCall /\ root[Parent[c]] # c
    BY <1>4, <1>1 DEF EntersInner, Enters, HeldKnown, RootKnown, TypeOK, IsRoot
  <2> QED BY <2>1, <1>4, <1>1, <1>2 DEF HeldKnown, IsRoot, Over, TypeOK, RootKnown, Nested, Missing, EntersInner, BeginInner
<1>5. CASE EntersNested(c)
  <2>1. /\ Parent[c] \in Calls /\ held[Parent[c]] # {} /\ pc[c] = "idle" /\ held[c] = {}
        /\ KeysOf(root[Parent[c]]) \subseteq held[Parent[c]]
        /\ root[c] = NoCall /\ root[Parent[c]] # c
    BY <1>5, <1>1 DEF EntersNested, Enters, HeldKnown, RootKnown, TypeOK, IsRoot
  <2> QED BY <2>1, <1>5, <1>1, <1>2 DEF HeldKnown, IsRoot, Over, TypeOK, RootKnown, Nested, Missing, EntersNested, BeginNested
<1>6. CASE EntersProbing(c)
  <2>1. /\ Parent[c] \in Calls /\ held[Parent[c]] # {} /\ pc[c] = "idle" /\ held[c] = {}
        /\ KeysOf(root[Parent[c]]) \subseteq held[Parent[c]]
        /\ root[c] = NoCall /\ root[Parent[c]] # c
    BY <1>6, <1>1 DEF EntersProbing, Enters, HeldKnown, RootKnown, TypeOK, IsRoot
  <2> QED BY <2>1, <1>6, <1>1, <1>2 DEF HeldKnown, IsRoot, Over, TypeOK, RootKnown, Nested, Missing, EntersProbing, BeginNested
<1>7. CASE FindsBusy(c)
  BY <1>7, <1>1, <1>2 DEF HeldKnown, IsRoot, Over, TypeOK, RootKnown, Nested, FindsBusy
<1>8. CASE Reserve(c)
  BY <1>8, <1>1, <1>2 DEF HeldKnown, IsRoot, Over, TypeOK, RootKnown, Nested, Reserve
<1>9. CASE ReserveTimeout(c)
  BY <1>9, <1>1, <1>2 DEF HeldKnown, IsRoot, Over, TypeOK, RootKnown, Nested, ReserveTimeout
<1>10. CASE LateCheckout(c)
  BY <1>10, <1>1, <1>2 DEF HeldKnown, IsRoot, Over, TypeOK, RootKnown, Nested, LateCheckout
<1>11. CASE \E k \in Keys : LocksLocally(c, k)
  BY <1>11, <1>1, <1>2 DEF HeldKnown, IsRoot, Over, TypeOK, RootKnown, Nested, LocksLocally
<1>12. CASE \E k \in Keys : LocksKey(c, k)
  <2>1. PICK k \in Keys : LocksKey(c, k)
    BY <1>12
  <2>2. held[c] = {} /\ root[c] \in Calls
    <3>1. pc[c] \in {"poll", "probe"}
      BY <2>1 DEF LocksKey
    <3>2. held[c] = {}
      BY <3>1, <1>1 DEF HeldKnown
    <3>3. root[c] # NoCall
      BY <3>1, <1>1 DEF RootKnown
    <3> QED BY <3>2, <3>3, <1>1 DEF TypeOK
  <2>3. /\ root' = root /\ pc[c] \in {"poll", "probe"} /\ k \in want[c]
        /\ got' = [got EXCEPT ![c] = got[c] \cup {k}]
    BY <2>1 DEF LocksKey, LockKey
  <2>4. CASE d # c
    <3>1. held'[d] = held[d] /\ pc'[d] = pc[d]
      BY <2>1, <2>4, <1>1 DEF LocksKey, LockKey, TypeOK
    <3> QED BY <3>1, <2>3, <1>1, <1>2 DEF HeldKnown, IsRoot
  <2>5. CASE d = c /\ want[c] # {k}
    BY <2>1, <2>3, <2>5, <1>1, <1>2 DEF LocksKey, LockKey, HeldKnown, IsRoot
  <2>6. CASE d = c /\ want[c] = {k}
    <3>1. /\ pc'[c] = "run"
          /\ held'[c] = got'[c] \cup IF IsRoot(c) THEN {} ELSE held[Parent[c]]
      BY <2>1, <2>6, <1>1 DEF LocksKey, LockKey, TypeOK
    <3>2. got'[c] = got[c] \cup {k}
      BY <2>3, <1>1 DEF TypeOK
    <3>3. CASE IsRoot(c)
      <4>1. got'[c] = KeysOf(c)
        BY <3>2, <3>3, <2>3, <2>6, <1>1 DEF KeysKnown, RootKeys
      <4> QED BY <4>1, <3>1, <3>3, <2>3, <2>6, <1>1, <1>2 DEF HeldKnown, IsRoot
    <3>4. CASE ~IsRoot(c)
      <4>1. Nested(c) /\ Parent[c] \in Calls
        BY <3>4, <2>2, <1>1 DEF Nested, RootKnown
      <4>2. got'[c] = Missing(c)
        BY <3>2, <4>1, <2>3, <2>6, <1>1 DEF KeysKnown, NestedKeys
      <4>3. KeysOf(root[c]) \subseteq held[Parent[c]]
        BY <4>1, <1>1 DEF RootKnown, HeldKnown
      <4>4. KeysOf(c) \cup KeysOf(root[c]) \subseteq held'[c]
        BY <4>2, <4>3, <3>1, <3>4 DEF Missing
      <4> QED BY <4>4, <3>1, <3>4, <2>3, <2>6, <1>1, <1>2 DEF HeldKnown, IsRoot
    <3> QED BY <3>3, <3>4
  <2> QED BY <2>4, <2>5, <2>6
<1>13. CASE GivesUp(c)
  BY <1>13, <1>1, <1>2 DEF HeldKnown, IsRoot, Over, TypeOK, RootKnown, Nested, GivesUp, Leave
<1>14. CASE Returns(c)
  BY <1>14, <1>1, <1>2 DEF HeldKnown, IsRoot, Over, TypeOK, RootKnown, Nested, Returns, Leave
<1>15. CASE ReturnsInner(c)
  BY <1>15, <1>1, <1>2 DEF HeldKnown, IsRoot, Over, TypeOK, RootKnown, Nested, ReturnsInner
<1>16. CASE Drain(c)
  BY <1>16, <1>1, <1>2 DEF HeldKnown, IsRoot, Over, TypeOK, RootKnown, Nested, Drain, Drained
<1>17. CASE \E k \in Keys : UnlocksKey(c, k)
  BY <1>17, <1>1, <1>2 DEF HeldKnown, IsRoot, Over, TypeOK, RootKnown, Nested, UnlocksKey
<1>18. CASE CloseNested(c)
  BY <1>18, <1>1, <1>2 DEF HeldKnown, IsRoot, Over, TypeOK, RootKnown, Nested, CloseNested
<1>19. CASE CloseRoot(c)
  BY <1>19, <1>1, <1>2 DEF HeldKnown, IsRoot, Over, TypeOK, RootKnown, Nested, CloseRoot
<1> QED BY <1>3, <1>4, <1>5, <1>6, <1>7, <1>8, <1>9, <1>10, <1>11, <1>12, <1>13, <1>14, <1>15, <1>16, <1>17, <1>18, <1>19 DEF Move

LEMMA CallbackWaitsStep ==
  ASSUME PgAssumption, IInv, NEW c \in Calls, Move(c)
  PROVE  CallbackWaits'
<1>1. /\ TypeOK /\ CallbackWaits /\ NoCall \notin Calls
      /\ \A x \in Calls : Parent[x] \in Calls \cup {NoCall}
  BY ParentFacts DEF IInv
<1>2. CASE EntersRoot(c)
  BY <1>2, <1>1 DEF CallbackWaits, Live, Over, TypeOK, EntersRoot, BeginRoot
<1>3. CASE EntersInner(c)
  BY <1>3, <1>1 DEF CallbackWaits, Live, Over, TypeOK, EntersInner, BeginInner, Enters
<1>4. CASE EntersNested(c)
  BY <1>4, <1>1 DEF CallbackWaits, Live, Over, TypeOK, EntersNested, BeginNested, Enters
<1>5. CASE EntersProbing(c)
  BY <1>5, <1>1 DEF CallbackWaits, Live, Over, TypeOK, EntersProbing, BeginNested, Enters
<1>6. CASE FindsBusy(c)
  BY <1>6, <1>1 DEF CallbackWaits, Live, Over, TypeOK, FindsBusy
<1>7. CASE Reserve(c)
  BY <1>7, <1>1 DEF CallbackWaits, Live, Over, TypeOK, Reserve
<1>8. CASE ReserveTimeout(c)
  BY <1>8, <1>1 DEF CallbackWaits, Live, Over, TypeOK, ReserveTimeout
<1>9. CASE LateCheckout(c)
  BY <1>9, <1>1 DEF CallbackWaits, Live, Over, TypeOK, LateCheckout
<1>10. CASE \E k \in Keys : LocksLocally(c, k)
  BY <1>10, <1>1 DEF CallbackWaits, Live, Over, TypeOK, LocksLocally
<1>11. CASE \E k \in Keys : LocksKey(c, k)
  BY <1>11, <1>1 DEF CallbackWaits, Live, Over, TypeOK, LocksKey, LockKey
<1>12. CASE GivesUp(c)
  BY <1>12, <1>1 DEF CallbackWaits, Live, Over, TypeOK, GivesUp, Leave
<1>13. CASE Returns(c)
  BY <1>13, <1>1 DEF CallbackWaits, Live, Over, TypeOK, Returns, Leave, ChildrenOver
<1>14. CASE ReturnsInner(c)
  BY <1>14, <1>1 DEF CallbackWaits, Live, Over, TypeOK, ReturnsInner, ChildrenOver
<1>15. CASE Drain(c)
  BY <1>15, <1>1 DEF CallbackWaits, Live, Over, TypeOK, Drain, Drained
<1>16. CASE \E k \in Keys : UnlocksKey(c, k)
  BY <1>16, <1>1 DEF CallbackWaits, Live, Over, TypeOK, UnlocksKey
<1>17. CASE CloseNested(c)
  BY <1>17, <1>1 DEF CallbackWaits, Live, Over, TypeOK, CloseNested
<1>18. CASE CloseRoot(c)
  BY <1>18, <1>1 DEF CallbackWaits, Live, Over, TypeOK, CloseRoot
<1> QED BY <1>2, <1>3, <1>4, <1>5, <1>6, <1>7, <1>8, <1>9, <1>10, <1>11, <1>12, <1>13, <1>14, <1>15, <1>16, <1>17, <1>18 DEF Move

\* A move changes its own call only, and what a context holds is never changed.
LEMMA Frame ==
  ASSUME IInv, NEW c \in Calls, Move(c), NEW d \in Calls
  PROVE  /\ d # c => /\ pc'[d] = pc[d] /\ root'[d] = root[d] /\ held'[d] = held[d]
                     /\ want'[d] = want[d] /\ got'[d] = got[d] /\ loc'[d] = loc[d]
                     /\ conn'[d] = conn[d] /\ active'[d] = active[d]
         /\ root[d] # NoCall => root'[d] = root[d]
         /\ held[d] # {} => held'[d] = held[d]
<1>1. TypeOK /\ RootKnown(c) /\ HeldKnown(c)
  BY DEF IInv, CallInv
<1>2. root[c] # NoCall => pc[c] # "idle"
  BY <1>1 DEF RootKnown
<1>3. held[c] # {} => pc[c] \in {"run", "drain", "unlock", "done"}
  BY <1>1 DEF HeldKnown
<1>4. CASE EntersRoot(c)
  BY <1>4, <1>1, <1>2, <1>3 DEF TypeOK, EntersRoot, BeginRoot
<1>5. CASE EntersInner(c)
  BY <1>5, <1>1, <1>2, <1>3 DEF TypeOK, EntersInner, BeginInner, Enters
<1>6. CASE EntersNested(c)
  BY <1>6, <1>1, <1>2, <1>3 DEF TypeOK, EntersNested, BeginNested, Enters
<1>7. CASE EntersProbing(c)
  BY <1>7, <1>1, <1>2, <1>3 DEF TypeOK, EntersProbing, BeginNested, Enters
<1>8. CASE FindsBusy(c)
  BY <1>8, <1>1, <1>2, <1>3 DEF TypeOK, FindsBusy
<1>9. CASE Reserve(c)
  BY <1>9, <1>1, <1>2, <1>3 DEF TypeOK, Reserve
<1>10. CASE ReserveTimeout(c)
  BY <1>10, <1>1, <1>2, <1>3 DEF TypeOK, ReserveTimeout
<1>11. CASE LateCheckout(c)
  BY <1>11, <1>1, <1>2, <1>3 DEF TypeOK, LateCheckout
<1>12. CASE \E k \in Keys : LocksLocally(c, k)
  BY <1>12, <1>1, <1>2, <1>3 DEF TypeOK, LocksLocally
<1>13. CASE \E k \in Keys : LocksKey(c, k)
  BY <1>13, <1>1, <1>2, <1>3 DEF TypeOK, LocksKey, LockKey
<1>14. CASE GivesUp(c)
  BY <1>14, <1>1, <1>2, <1>3 DEF TypeOK, GivesUp, Leave
<1>15. CASE Returns(c)
  BY <1>15, <1>1, <1>2, <1>3 DEF TypeOK, Returns, Leave
<1>16. CASE ReturnsInner(c)
  BY <1>16, <1>1, <1>2, <1>3 DEF TypeOK, ReturnsInner
<1>17. CASE Drain(c)
  BY <1>17, <1>1, <1>2, <1>3 DEF TypeOK, Drain, Drained
<1>18. CASE \E k \in Keys : UnlocksKey(c, k)
  BY <1>18, <1>1, <1>2, <1>3 DEF TypeOK, UnlocksKey
<1>19. CASE CloseNested(c)
  BY <1>19, <1>1, <1>2, <1>3 DEF TypeOK, CloseNested
<1>20. CASE CloseRoot(c)
  BY <1>20, <1>1, <1>2, <1>3 DEF TypeOK, CloseRoot
<1> QED BY <1>4, <1>5, <1>6, <1>7, <1>8, <1>9, <1>10, <1>11, <1>12, <1>13, <1>14, <1>15, <1>16, <1>17, <1>18, <1>19, <1>20 DEF Move

LEMMA OwnKeysStep ==
  ASSUME PgAssumption, IInv, NEW c \in Calls, Move(c)
  PROVE  KeysKnown(c)'
<1>1. /\ TypeOK /\ RootKnown(c) /\ HeldKnown(c) /\ KeysKnown(c)
      /\ NoCall \notin Calls /\ KeysOf(c) # {}
  BY ParentFacts, KeysFacts DEF IInv, CallInv
<1>2. /\ KeysOf(c)' = KeysOf(c) /\ KeysOf(root[c])' = KeysOf(root'[c])
      /\ Nested(c) => Missing(c)' = Missing(c)
  <2>1. Nested(c) => Parent[c] \in Calls /\ held'[Parent[c]] = held[Parent[c]]
    <3>1. Nested(c) => Parent[c] \in Calls /\ held[Parent[c]] # {}
      BY <1>1, ParentFacts DEF RootKnown
    <3> QED BY <3>1, Frame
  <2> QED BY <2>1 DEF KeysOf, Missing
<1>3. CASE EntersRoot(c)
  BY <1>3, <1>1, <1>2 DEF KeysKnown, RootKeys, NestedKeys, Nested, IsRoot, Over, TypeOK, EntersRoot, BeginRoot
<1>4. CASE EntersInner(c)
  <2>1. /\ Parent[c] \in Calls /\ root[Parent[c]] \in Calls /\ pc[c] = "idle" /\ root[c] = NoCall
        /\ root[Parent[c]] # c /\ held[Parent[c]] # {} /\ HeldKnown(Parent[c])
    BY <1>4, <1>1 DEF EntersInner, Enters, RootKnown, IsRoot, IInv, CallInv
  <2>2. KeysOf(root[Parent[c]]) \subseteq held[Parent[c]]
    BY <2>1 DEF HeldKnown
  <2>3. Missing(c) \subseteq KeysOf(c) /\ Missing(c) \cap KeysOf(root[Parent[c]]) = {}
    BY <2>2 DEF Missing
  <2>4. Missing(c)' = Missing(c)
    <3>1. held'[Parent[c]] = held[Parent[c]]
      BY <2>1, Frame
    <3> QED BY <3>1 DEF Missing, KeysOf
  <2>5. /\ pc'[c] = "run" /\ want'[c] = {} /\ got'[c] = {} /\ loc'[c] = {} /\ Missing(c)' = {}
        /\ root'[c] = root[Parent[c]]
    BY <1>4, <2>1, <2>4, <1>1 DEF EntersInner, BeginInner, TypeOK, KeysKnown
  <2>6. NestedKeys(c)'
    BY <2>5 DEF NestedKeys
  <2>7. ~IsRoot(c)'
    BY <2>1, <2>5 DEF IsRoot
  <2> QED BY <2>5, <2>6, <2>7 DEF KeysKnown, Over
<1>5. CASE EntersNested(c)
  <2>1. /\ Parent[c] \in Calls /\ root[Parent[c]] \in Calls /\ pc[c] = "idle" /\ root[c] = NoCall
        /\ root[Parent[c]] # c /\ held[Parent[c]] # {} /\ HeldKnown(Parent[c])
    BY <1>5, <1>1 DEF EntersNested, Enters, RootKnown, IsRoot, IInv, CallInv
  <2>2. KeysOf(root[Parent[c]]) \subseteq held[Parent[c]]
    BY <2>1 DEF HeldKnown
  <2>3. Missing(c) \subseteq KeysOf(c) /\ Missing(c) \cap KeysOf(root[Parent[c]]) = {}
    BY <2>2 DEF Missing
  <2>4. Missing(c)' = Missing(c)
    <3>1. held'[Parent[c]] = held[Parent[c]]
      BY <2>1, Frame
    <3> QED BY <3>1 DEF Missing, KeysOf
  <2> QED BY <2>1, <2>3, <2>4, <1>5, <1>1, <1>2 DEF KeysKnown, RootKeys, NestedKeys, Nested, IsRoot, Over, TypeOK, EntersNested, BeginNested
<1>6. CASE EntersProbing(c)
  <2>1. /\ Parent[c] \in Calls /\ root[Parent[c]] \in Calls /\ pc[c] = "idle" /\ root[c] = NoCall
        /\ root[Parent[c]] # c /\ held[Parent[c]] # {} /\ HeldKnown(Parent[c])
    BY <1>6, <1>1 DEF EntersProbing, Enters, RootKnown, IsRoot, IInv, CallInv
  <2>2. KeysOf(root[Parent[c]]) \subseteq held[Parent[c]]
    BY <2>1 DEF HeldKnown
  <2>3. Missing(c) \subseteq KeysOf(c) /\ Missing(c) \cap KeysOf(root[Parent[c]]) = {}
    BY <2>2 DEF Missing
  <2>4. Missing(c)' = Missing(c)
    <3>1. held'[Parent[c]] = held[Parent[c]]
      BY <2>1, Frame
    <3> QED BY <3>1 DEF Missing, KeysOf
  <2> QED BY <2>1, <2>3, <2>4, <1>6, <1>1, <1>2 DEF KeysKnown, RootKeys, NestedKeys, Nested, IsRoot, Over, TypeOK, EntersProbing, BeginNested
<1>7. CASE FindsBusy(c)
  BY <1>7, <1>1, <1>2 DEF KeysKnown, RootKeys, NestedKeys, Nested, IsRoot, Over, TypeOK, FindsBusy
<1>8. CASE Reserve(c)
  BY <1>8, <1>1, <1>2 DEF KeysKnown, RootKeys, NestedKeys, Nested, IsRoot, Over, TypeOK, RootKnown, Reserve
<1>9. CASE ReserveTimeout(c)
  BY <1>9, <1>1, <1>2 DEF KeysKnown, RootKeys, NestedKeys, Nested, IsRoot, Over, TypeOK, ReserveTimeout
<1>10. CASE LateCheckout(c)
  BY <1>10, <1>1, <1>2 DEF KeysKnown, RootKeys, NestedKeys, Nested, IsRoot, Over, TypeOK, LateCheckout
<1>11. CASE \E k \in Keys : LocksLocally(c, k)
  <2>1. PICK k \in Keys : LocksLocally(c, k)
    BY <1>11
  <2>2. Nested(c) /\ pc[c] = "local" /\ k \in want[c] \ loc[c]
    BY <2>1, <1>1 DEF LocksLocally, RootKnown
  <2>3. /\ root' = root /\ want' = want /\ got' = got /\ held' = held
        /\ loc'[c] = loc[c] \cup {k}
        /\ pc'[c] = IF want[c] = loc[c] \cup {k} THEN "poll" ELSE "local"
    BY <2>1, <1>1 DEF LocksLocally, TypeOK
  <2>4. want[c] \subseteq KeysOf(c) /\ got[c] = {} /\ loc[c] \subseteq want[c]
    BY <2>2, <1>1 DEF KeysKnown, NestedKeys, Missing
  <2>5. NestedKeys(c)'
    BY <2>2, <2>3, <2>4, <1>1, <1>2 DEF KeysKnown, NestedKeys
  <2> QED BY <2>2, <2>3, <2>4, <2>5 DEF KeysKnown, Nested, IsRoot, Over
<1>12. CASE \E k \in Keys : LocksKey(c, k)
  <2>1. PICK k \in Keys : LocksKey(c, k)
    BY <1>12
  <2>2. /\ root' = root /\ loc' = loc /\ k \in want[c] /\ pc[c] \in {"poll", "probe"}
        /\ want'[c] = want[c] \ {k} /\ got'[c] = got[c] \cup {k}
    BY <2>1, <1>1 DEF LocksKey, LockKey, TypeOK
  <2>3. \/ want[c] = {k} /\ pc'[c] = "run"
        \/ want[c] # {k} /\ pc'[c] = pc[c] /\ held'[c] = held[c]
    BY <2>1, <1>1 DEF LocksKey, LockKey, TypeOK
  <2>4. (IsRoot(c)' <=> IsRoot(c)) /\ (Nested(c)' <=> Nested(c))
    BY <2>2 DEF IsRoot, Nested
  <2>5. IsRoot(c) => RootKeys(c)'
    BY <2>2, <2>3, <1>1, <1>2 DEF KeysKnown, RootKeys
  <2>6. Nested(c) => NestedKeys(c)'
    <3>1. SUFFICES ASSUME Nested(c) PROVE NestedKeys(c)'
      OBVIOUS
    <3>2. /\ NestedKeys(c) /\ Missing(c)' = Missing(c)
          /\ want[c] \cup got[c] = Missing(c) /\ want[c] \cap got[c] = {}
          /\ loc[c] = want[c] \cup got[c]
      BY <3>1, <2>2, <1>1, <1>2 DEF KeysKnown, NestedKeys
    <3>3. want'[c] \cup got'[c] = Missing(c) /\ want'[c] \cap got'[c] = {}
      BY <3>2, <2>2
    <3>4. CASE want[c] = {k} /\ pc'[c] = "run"
      <4>1. want'[c] = {} /\ got'[c] = Missing(c) /\ got'[c] = loc[c]
        BY <3>2, <3>3, <3>4, <2>2
      <4>2. Missing(c)' \subseteq got'[c] /\ got'[c] \subseteq loc'[c]
        <5>1. Missing(c)' = got'[c]
          BY <4>1, <3>2
        <5>2. loc'[c] = got'[c]
          BY <4>1, <2>2
        <5> HIDE <4>1, <3>2
        <5> QED BY <5>1, <5>2
      <4>3. (loc'[c] \cup want'[c]) \cap KeysOf(root'[c]) = {} /\ loc'[c] \subseteq KeysOf(c)
        BY <4>1, <3>2, <2>2 DEF NestedKeys
      <4> QED BY <4>1, <4>2, <4>3, <3>4, <2>2, <1>2 DEF NestedKeys
    <3>5. CASE want[c] # {k} /\ pc'[c] = pc[c]
      <4>1. want'[c] # {}
        BY <3>5, <2>2
      <4> QED BY <4>1, <3>2, <3>3, <3>5, <2>2, <1>2 DEF NestedKeys
    <3> QED BY <3>4, <3>5, <2>3
  <2> QED BY <2>2, <2>3, <2>4, <2>5, <2>6 DEF KeysKnown, Over
<1>13. CASE GivesUp(c)
  BY <1>13, <1>1, <1>2 DEF KeysKnown, RootKeys, NestedKeys, Nested, IsRoot, Over, TypeOK, RootKnown, HeldKnown, GivesUp, Leave
<1>14. CASE Returns(c)
  BY <1>14, <1>1, <1>2 DEF KeysKnown, RootKeys, NestedKeys, Nested, IsRoot, Over, TypeOK, Returns, Leave
<1>15. CASE ReturnsInner(c)
  BY <1>15, <1>1, <1>2 DEF KeysKnown, RootKeys, NestedKeys, Nested, IsRoot, Over, TypeOK, RootKnown, ReturnsInner
<1>16. CASE Drain(c)
  BY <1>16, <1>1, <1>2 DEF KeysKnown, RootKeys, NestedKeys, Nested, IsRoot, Over, TypeOK, RootKnown, Drain, Drained
<1>17. CASE \E k \in Keys : UnlocksKey(c, k)
  BY <1>17, <1>1, <1>2 DEF KeysKnown, RootKeys, NestedKeys, Nested, IsRoot, Over, TypeOK, UnlocksKey
<1>18. CASE CloseNested(c)
  BY <1>18, <1>1, <1>2 DEF KeysKnown, RootKeys, NestedKeys, Nested, IsRoot, Over, TypeOK, CloseNested
<1>19. CASE CloseRoot(c)
  BY <1>19, <1>1, <1>2 DEF KeysKnown, RootKeys, NestedKeys, Nested, IsRoot, Over, TypeOK, CloseRoot
<1> QED BY <1>3, <1>4, <1>5, <1>6, <1>7, <1>8, <1>9, <1>10, <1>11, <1>12, <1>13, <1>14, <1>15, <1>16, <1>17, <1>18, <1>19 DEF Move

LEMMA KeysStep ==
  ASSUME PgAssumption, IInv, NEW c \in Calls, Move(c), NEW d \in Calls
  PROVE  KeysKnown(d)'
<1>1. /\ RootKnown(d) /\ KeysKnown(d) /\ Parent[d] \in Calls \cup {NoCall}
  BY ParentFacts DEF IInv, CallInv
<1>2. CASE d # c
  <2>1. Nested(d) => Parent[d] \in Calls /\ held'[Parent[d]] = held[Parent[d]]
    <3>1. Nested(d) => Parent[d] \in Calls /\ held[Parent[d]] # {}
      BY <1>1 DEF RootKnown
    <3> QED BY <3>1, Frame
  <2>2. /\ pc'[d] = pc[d] /\ root'[d] = root[d] /\ want'[d] = want[d] /\ held'[d] = held[d]
        /\ got'[d] = got[d] /\ loc'[d] = loc[d] /\ conn'[d] = conn[d]
    BY <1>2, Frame
  <2>3. (Nested(d)' <=> Nested(d)) /\ (IsRoot(d)' <=> IsRoot(d))
    BY <2>2 DEF Nested, IsRoot
  <2>4. Nested(d) => Missing(d)' = Missing(d)
    BY <2>1 DEF Missing, KeysOf
  <2>5. RootKeys(d)' <=> RootKeys(d)
    BY <2>2 DEF RootKeys, KeysOf
  <2>6. KeysOf(root[d])' = KeysOf(root[d]) /\ KeysOf(d)' = KeysOf(d)
    BY <2>2 DEF KeysOf
  <2>7. Nested(d) => (NestedKeys(d)' <=> NestedKeys(d))
    BY <2>1, <2>2, <2>4, <2>6 DEF NestedKeys
  <2> QED BY <2>2, <2>3, <2>5, <2>7, <1>1 DEF KeysKnown
<1> QED BY <1>2, OwnKeysStep

LEMMA OwnApart ==
  ASSUME PgAssumption, IInv, NEW c \in Calls, Move(c), NEW d \in Calls, d # c,
         Nested(c)', Live(c)', Nested(d), Live(d), root'[c] = root[d]
  PROVE  loc'[c] \cap loc[d] = {}
<1>1. /\ TypeOK /\ RootKnown(c) /\ KeysKnown(c) /\ RootKnown(d) /\ KeysKnown(d)
      /\ NoCall \notin Calls /\ root[d] \in Calls
  BY ParentFacts DEF IInv, CallInv, TypeOK, Nested
<1>2. pc[c] = "idle" => loc[c] = {} /\ root[c] = NoCall
  BY <1>1 DEF KeysKnown, RootKnown
<1>3. loc[d] # {} => d \in Inside(root[d])
  BY <1>1 DEF Inside, Live, Nested, IsRoot, Over
<1>4. Nested(c) /\ Live(c) /\ root[c] = root[d] => loc[c] \cap loc[d] = {}
  BY DEF IInv, Apart
<1>5. root[c] # NoCall => root'[c] = root[c]
  BY Frame
<1>6. CASE EntersRoot(c)
  BY <1>6, <1>1 DEF EntersRoot, BeginRoot, Nested, IsRoot, TypeOK
<1>7. CASE EntersInner(c) \/ EntersNested(c)
  BY <1>7, <1>1, <1>2
     DEF EntersInner, EntersNested, Enters, BeginInner, BeginNested, TypeOK
<1>8. CASE EntersProbing(c)
  <2>1. /\ root'[c] = root[Parent[c]] /\ loc'[c] = KeysOf(c)
        /\ \A x \in Inside(root[Parent[c]]) : loc[x] \cap KeysOf(c) = {}
    BY <1>8, <1>1 DEF EntersProbing, BeginNested, TypeOK
  <2> QED BY <2>1, <1>3
<1>9. CASE \E k \in Keys : LocksLocally(c, k)
  <2>1. PICK k \in Keys : LocksLocally(c, k)
    BY <1>9
  <2>2. /\ Nested(c) /\ Live(c) /\ loc'[c] = loc[c] \cup {k} /\ root'[c] = root[c]
        /\ \A x \in Inside(root[c]) \ {c} : k \notin loc[x]
    BY <2>1, <1>1 DEF LocksLocally, LocallyFree, TypeOK, RootKnown, Live, Over
  <2>3. k \notin loc[d]
    BY <2>2, <1>3
  <2> QED BY <2>2, <2>3, <1>4
<1>10. CASE /\ loc'[c] \in {loc[c], {}} /\ pc[c] # "idle"
            /\ Live(c)' => Live(c)
  <2>1. root[c] # NoCall \/ ~Live(c)
    BY <1>10, <1>1 DEF RootKnown, Live, Over
  <2>2. Nested(c)' /\ root[c] # NoCall => Nested(c)
    BY <1>5 DEF Nested, IsRoot
  <2> QED BY <1>10, <2>1, <2>2, <1>4, <1>5
<1>11. CASE FindsBusy(c)
  BY <1>11, <1>1 DEF FindsBusy, Live, Over, TypeOK
<1>12. CASE \/ Reserve(c) \/ ReserveTimeout(c)
            \/ \E k \in Keys : LocksKey(c, k)
            \/ GivesUp(c) \/ Returns(c) \/ ReturnsInner(c) \/ Drain(c)
            \/ \E k \in Keys : UnlocksKey(c, k)
            \/ CloseNested(c) \/ CloseRoot(c)
  <2>1. loc'[c] \in {loc[c], {}} /\ pc[c] # "idle" /\ Live(c)
    BY <1>12, <1>1
       DEF Reserve, ReserveTimeout, LocksKey, LockKey, GivesUp, Returns, ReturnsInner, Leave,
           Drain, UnlocksKey, CloseNested, CloseRoot, Live, Over, TypeOK
  <2> QED BY <2>1, <1>10
<1>13. CASE LateCheckout(c)
  <2>1. loc' = loc /\ pc' = pc /\ root' = root
    BY <1>13 DEF LateCheckout
  <2> QED BY <2>1, <1>4 DEF Nested, IsRoot, Live
<1> QED BY <1>6, <1>7, <1>8, <1>9, <1>11, <1>12, <1>13 DEF Move

LEMMA ApartStep ==
  ASSUME PgAssumption, IInv, NEW c \in Calls, Move(c)
  PROVE  Apart'
<1>1. SUFFICES ASSUME NEW x \in Calls, NEW y \in Calls, x # y,
                      Nested(x)', Nested(y)', root'[x] = root'[y], Live(x)', Live(y)'
               PROVE  loc'[x] \cap loc'[y] = {}
  BY DEF Apart
<1>2. \A d \in Calls : d # c => /\ Nested(d)' => Nested(d)
                                /\ Live(d)' => Live(d)
                                /\ root'[d] = root[d] /\ loc'[d] = loc[d]
  BY Frame DEF Nested, IsRoot, Live
<1>3. CASE x = c
  BY <1>1, <1>2, <1>3, OwnApart
<1>4. CASE y = c
  BY <1>1, <1>2, <1>4, OwnApart
<1>5. CASE x # c /\ y # c
  BY <1>1, <1>2, <1>5 DEF IInv, Apart
<1> QED BY <1>3, <1>4, <1>5

-----------------------------------------------------------------------------
(* The end of an outermost call *)

\* A branch that is not awaited is counted by its outermost call until it ends.
LEMMA DetachedCounted ==
  ASSUME PgAssumption, BranchesCounted, IInv, NEW x \in Detached, Nested(x), Live(x)
  PROVE  x \in Inside(root[x])
<1>1. x \in Calls
  BY DEF PgAssumption
<1>2. /\ RootKnown(x) /\ KeysKnown(x) /\ Parent[x] \in Calls /\ NoCall \notin Calls
      /\ RootKnown(Parent[x]) /\ HeldKnown(Parent[x])
      /\ pc[x] \in {"idle", "reserve", "local", "poll", "probe", "run", "drain", "unlock"} \cup Over
  <2>1. RootKnown(x) /\ KeysKnown(x) /\ TypeOK
    BY <1>1 DEF IInv, CallInv
  <2>2. Parent[x] \in Calls /\ NoCall \notin Calls
    BY <1>1, <2>1, ParentFacts DEF RootKnown
  <2>3. RootKnown(Parent[x]) /\ HeldKnown(Parent[x])
    BY <2>2 DEF IInv, CallInv
  <2> QED BY <1>1, <2>1, <2>2, <2>3 DEF TypeOK
<1>3. Parent[Parent[x]] = NoCall /\ ~(KeysOf(x) \subseteq KeysOf(Parent[x]))
  BY <1>2 DEF BranchesCounted
<1>4. IsRoot(Parent[x])
  BY <1>2, <1>3 DEF RootKnown, Nested, IsRoot
<1>5. Missing(x) # {}
  BY <1>2, <1>3, <1>4 DEF HeldKnown, Missing
<1>6. loc[x] \cup want[x] # {}
  BY <1>2, <1>5 DEF KeysKnown, NestedKeys, RootKnown, Live, Over, Nested
<1> QED BY <1>1, <1>2, <1>6 DEF Inside, Nested, IsRoot, Live, Over

\* Who is not counted is awaited by someone who is, or by the outermost call.
LEMMA AllCounted ==
  ASSUME PgAssumption, BranchesCounted, IInv, NEW r \in Calls,
         pc[r] = "run" => ChildrenOver(r),
         NEW B, Inside(r) \subseteq B, \A b \in B : pc[b] # "run",
         NEW x \in Calls, Nested(x), Live(x), root[x] = r
  PROVE  x \in B
<1> DEFINE S == {y \in Calls : Nested(y) /\ Live(y) /\ root[y] = r /\ y \notin B}
<1>1. SUFFICES ASSUME x \notin B PROVE FALSE
  OBVIOUS
<1>2. S \in SUBSET Calls /\ S # {}
  BY <1>1
<1>3. PICK y \in S : Parent[y] \notin S
  <2> HIDE DEF S
  <2> QED BY <1>2 DEF PgAssumption
<1>4. y \in Calls /\ Nested(y) /\ Live(y) /\ root[y] = r /\ y \notin B
  BY <1>3
<1>5. Parent[y] \in Calls /\ Parent[y] # NoCall /\ root[Parent[y]] = r /\ r # NoCall
  BY <1>4, ParentFacts DEF IInv, CallInv, RootKnown
<1>6. y \notin Detached
  BY <1>4, DetachedCounted
<1>7. pc[Parent[y]] = "run"
  BY <1>4, <1>5, <1>6 DEF IInv, CallbackWaits
<1>8. Parent[y] # r
  BY <1>4, <1>5, <1>6, <1>7 DEF ChildrenOver, Live
<1>9. Parent[y] \in S
  BY <1>5, <1>7, <1>8 DEF Nested, IsRoot, Live, Over
<1> QED BY <1>3, <1>9

LEMMA RootWaitsStep ==
  ASSUME PgAssumption, BranchesCounted, IInv, NEW c \in Calls, Move(c)
  PROVE  RootWaits'
<1>1. /\ TypeOK /\ RootWaits /\ NoCall \notin Calls
      /\ \A x \in Calls : RootKnown(x) /\ (root[x] # NoCall => root[x] \in Calls)
  BY ParentFacts DEF IInv, CallInv, TypeOK
<1>2. CASE EntersRoot(c)
  BY <1>2, <1>1 DEF RootWaits, Nested, IsRoot, Live, Over, TypeOK, RootKnown, EntersRoot, BeginRoot
<1>3. CASE EntersInner(c)
  BY <1>3, <1>1 DEF RootWaits, Nested, IsRoot, Live, Over, TypeOK, RootKnown, EntersInner, BeginInner, Enters
<1>4. CASE EntersNested(c)
  BY <1>4, <1>1 DEF RootWaits, Nested, IsRoot, Live, Over, TypeOK, RootKnown, EntersNested, BeginNested, Enters
<1>5. CASE EntersProbing(c)
  BY <1>5, <1>1 DEF RootWaits, Nested, IsRoot, Live, Over, TypeOK, RootKnown, EntersProbing, BeginNested, Enters
<1>6. CASE FindsBusy(c)
  BY <1>6, <1>1 DEF RootWaits, Nested, IsRoot, Live, Over, TypeOK, RootKnown, FindsBusy
<1>7. CASE Reserve(c)
  BY <1>7, <1>1 DEF RootWaits, Nested, IsRoot, Live, Over, TypeOK, RootKnown, Reserve
<1>8. CASE ReserveTimeout(c)
  BY <1>8, <1>1 DEF RootWaits, Nested, IsRoot, Live, Over, TypeOK, RootKnown, ReserveTimeout
<1>9. CASE LateCheckout(c)
  BY <1>9, <1>1 DEF RootWaits, Nested, IsRoot, Live, Over, TypeOK, RootKnown, LateCheckout
<1>10. CASE \E k \in Keys : LocksLocally(c, k)
  BY <1>10, <1>1 DEF RootWaits, Nested, IsRoot, Live, Over, TypeOK, RootKnown, LocksLocally
<1>11. CASE \E k \in Keys : LocksKey(c, k)
  BY <1>11, <1>1 DEF RootWaits, Nested, IsRoot, Live, Over, TypeOK, RootKnown, LocksKey, LockKey
<1>12. CASE GivesUp(c)
  BY <1>12, <1>1 DEF RootWaits, Nested, IsRoot, Live, Over, TypeOK, RootKnown, GivesUp, Leave
<1>13. CASE Returns(c)
  <2>1. SUFFICES ASSUME NEW x \in Calls, Nested(x)', Live(x)'
                 PROVE  \/ pc'[root'[x]] = "run"
                        \/ pc'[root'[x]] = "drain" /\ ~drained'[root'[x]]
    BY DEF RootWaits
  <2>2. /\ root' = root /\ pc[c] = "run" /\ ChildrenOver(c)
        /\ pc' = [pc EXCEPT ![c] = IF IsRoot(c) THEN "drain" ELSE "unlock"]
        /\ drained' = [drained EXCEPT ![c] = Inside(c) = {}]
    BY <1>13 DEF Returns, Leave
  <2>3. Nested(x) /\ Live(x) /\ root[x] \in Calls
    BY <2>1, <2>2, <1>1 DEF Nested, IsRoot, Live, Over, TypeOK
  <2>4. CASE root[x] = c
    <3>1. IsRoot(c)
      BY <2>3, <2>4, <1>1 DEF RootKnown, IsRoot, Nested
    <3>2. Inside(c) # {}
      <4>1. SUFFICES ASSUME Inside(c) = {} PROVE FALSE
        OBVIOUS
      <4>2. x \in {}
        BY <4>1, <2>2, <2>3, <2>4, AllCounted
      <4> QED BY <4>2
    <3>3. pc'[c] = "drain" /\ drained'[c] = FALSE
      BY <2>2, <3>1, <3>2, <1>1 DEF TypeOK
    <3> QED BY <3>3, <2>2, <2>4
  <2>5. CASE root[x] # c
    <3>1. pc'[root[x]] = pc[root[x]] /\ drained'[root[x]] = drained[root[x]]
      BY <2>2, <2>3, <2>5, <1>1 DEF TypeOK
    <3> QED BY <3>1, <2>2, <2>3, <1>1 DEF RootWaits
  <2> QED BY <2>4, <2>5
<1>14. CASE ReturnsInner(c)
  BY <1>14, <1>1 DEF RootWaits, Nested, IsRoot, Live, Over, TypeOK, RootKnown, ReturnsInner
<1>15. CASE Drain(c)
  BY <1>15, <1>1 DEF RootWaits, Nested, IsRoot, Live, Over, TypeOK, RootKnown, Drain, Drained
<1>16. CASE \E k \in Keys : UnlocksKey(c, k)
  BY <1>16, <1>1 DEF RootWaits, Nested, IsRoot, Live, Over, TypeOK, RootKnown, UnlocksKey
<1>17. CASE CloseNested(c)
  <2>1. SUFFICES ASSUME NEW x \in Calls, Nested(x)', Live(x)'
                 PROVE  \/ pc'[root'[x]] = "run"
                        \/ pc'[root'[x]] = "drain" /\ ~drained'[root'[x]]
    BY DEF RootWaits
  <2>2. /\ root' = root /\ pc[c] = "unlock" /\ pc' = [pc EXCEPT ![c] = "done"]
        /\ drained' = [drained EXCEPT ![root[c]] = drained[root[c]] \/ Inside(root[c]) = {c}]
        /\ ~IsRoot(c)
    BY <1>17 DEF CloseNested
  <2>3. Nested(x) /\ Live(x) /\ root[x] \in Calls /\ x # c /\ root[x] # c
    BY <2>1, <2>2, <1>1 DEF Nested, IsRoot, Live, Over, TypeOK, RootKnown
  <2>4. pc'[root[x]] = pc[root[x]]
    BY <2>2, <2>3, <1>1 DEF TypeOK
  <2>5. CASE pc[root[x]] = "run"
    BY <2>5, <2>4, <2>2
  <2>6. CASE pc[root[x]] = "drain" /\ ~drained[root[x]]
    <3>1. CASE root[x] = root[c]
      <4>1. Inside(root[c]) # {c}
        <5>1. SUFFICES ASSUME Inside(root[c]) = {c} PROVE FALSE
          OBVIOUS
        <5>2. x \in {c}
          BY <5>1, <3>1, <2>2, <2>3, <2>6, AllCounted
        <5> QED BY <5>2, <2>3
      <4>2. drained'[root[x]] = FALSE
        BY <4>1, <3>1, <2>2, <2>3, <2>6, <1>1 DEF TypeOK
      <4> QED BY <4>2, <2>2, <2>4, <2>6
    <3>2. CASE root[x] # root[c]
      <4>1. drained'[root[x]] = drained[root[x]]
        BY <3>2, <2>2, <2>3, <1>1 DEF TypeOK
      <4> QED BY <4>1, <2>2, <2>4, <2>6
    <3> QED BY <3>1, <3>2
  <2> QED BY <2>3, <2>5, <2>6, <1>1 DEF RootWaits
<1>18. CASE CloseRoot(c)
  BY <1>18, <1>1 DEF RootWaits, Nested, IsRoot, Live, Over, TypeOK, RootKnown, CloseRoot
<1> QED BY <1>2, <1>3, <1>4, <1>5, <1>6, <1>7, <1>8, <1>9, <1>10, <1>11, <1>12, <1>13, <1>14, <1>15, <1>16, <1>17, <1>18 DEF Move


-----------------------------------------------------------------------------
(* Connections and PostgreSQL's locks *)

\* A call that holds a key holds it on a connection that is lent out.
LEMMA OwnerUses ==
  ASSUME PgAssumption, IInv, NEW d \in Calls, got[d] # {}
  PROVE  /\ Live(d) /\ root[d] \in Calls /\ Using(root[d])
         /\ Session(d) \in Conns \ free
         /\ pc[d] # "reserve" /\ (Nested(d) => pc[root[d]] \in {"run", "drain"})
<1>1. /\ RootKnown(d) /\ KeysKnown(d) /\ NoCall \notin Calls /\ root[d] \in Calls \cup {NoCall}
      /\ pc[d] \in {"idle", "reserve", "local", "poll", "probe", "run", "drain", "unlock"} \cup Over
  BY ParentFacts DEF IInv, CallInv, TypeOK
<1>2. pc[d] \notin {"reserve"} \cup {"idle"} \cup Over
  BY <1>1 DEF KeysKnown
<1>3. Live(d) /\ root[d] \in Calls
  BY <1>1, <1>2 DEF Live, RootKnown, Over
<1>4. CASE IsRoot(d)
  <2>1. pc[d] \in {"poll", "probe", "run", "drain", "unlock"}
    BY <1>1, <1>2, <1>4, <1>3 DEF RootKnown, Nested, Over
  <2>2. Using(root[d]) /\ ~Nested(d)
    BY <2>1, <1>4 DEF Using, IsRoot, Nested
  <2> QED BY <1>2, <1>3, <2>2 DEF Session, IInv, ConnKnown
<1>5. CASE ~IsRoot(d)
  <2>1. Nested(d)
    BY <1>1, <1>3, <1>5 DEF Nested
  <2>2. pc[root[d]] \in {"run", "drain"}
    BY <2>1, <1>3 DEF IInv, RootWaits
  <2>3. Using(root[d])
    BY <2>2, <1>1, <1>3 DEF Using, IsRoot, RootKnown
  <2> QED BY <1>2, <1>3, <2>2, <2>3 DEF Session, IInv, ConnKnown
<1> QED BY <1>4, <1>5

LEMMA ConnStep ==
  ASSUME PgAssumption, IInv, NEW c \in Calls, Move(c)
  PROVE  ConnKnown'
<1>1. /\ TypeOK /\ ConnKnown /\ RootKnown(c) /\ NoCall \notin Calls
  BY ParentFacts DEF IInv, CallInv
<1>2. \A x \in Calls : x # c => (Using(x)' <=> Using(x)) /\ conn'[x] = conn[x]
  BY Frame DEF Using, IsRoot
<1>3. CASE Reserve(c)
  <2>1. PICK s \in free : /\ conn' = [conn EXCEPT ![c] = s] /\ free' = free \ {s}
    BY <1>3 DEF Reserve
  <2>2. conn'[c] = s /\ s \in Conns
    BY <2>1, <1>1 DEF TypeOK
  <2>3. ~Using(c) /\ Using(c)'
    BY <1>3, <1>1 DEF Reserve, Using, RootKnown, IsRoot, TypeOK
  <2>4. \A x \in Calls : x # c /\ Using(x) => conn[x] # s
    BY <2>1, <1>1 DEF ConnKnown
  <2> QED BY <2>1, <2>2, <2>3, <2>4, <1>1, <1>2 DEF ConnKnown
<1>4. CASE CloseRoot(c)
  <2>1. free' = free \cup {conn[c]} /\ conn' = conn /\ Using(c) /\ ~Using(c)'
    BY <1>4, <1>1 DEF CloseRoot, Using, TypeOK
  <2> QED BY <2>1, <1>1, <1>2 DEF ConnKnown
<1>5. CASE conn' = conn /\ free' = free /\ (Using(c)' <=> Using(c))
  <2>1. \A x \in Calls : Using(x)' <=> Using(x)
    BY <1>5, <1>2
  <2> QED BY <2>1, <1>5, <1>1 DEF ConnKnown
<1>6. CASE LateCheckout(c)
  <2>1. conn' = conn /\ free' = free /\ (Using(c)' <=> Using(c))
    BY <1>6 DEF LateCheckout, AfterLate, Using, IsRoot
  <2> QED BY <2>1, <1>5
<1>7. CASE EntersRoot(c) \/ EntersInner(c) \/ EntersNested(c) \/ EntersProbing(c) \/ FindsBusy(c)
  <2>1. conn' = conn /\ free' = free /\ pc[c] = "idle"
    BY <1>7 DEF EntersRoot, EntersInner, EntersNested, EntersProbing, Enters, FindsBusy,
                BeginRoot, BeginInner, BeginNested
  <2>2. ~Using(c)
    BY <2>1 DEF Using
  <2>3. ~Using(c)'
    <3>1. CASE EntersRoot(c) \/ FindsBusy(c)
      BY <3>1, <1>1 DEF EntersRoot, FindsBusy, BeginRoot, Using, TypeOK
    <3>2. CASE EntersInner(c) \/ EntersNested(c) \/ EntersProbing(c)
      <4>1. root'[c] = root[Parent[c]] /\ root[root[Parent[c]]] = root[Parent[c]]
            /\ root[c] = NoCall /\ root[Parent[c]] \in Calls
        BY <3>2, <1>1 DEF EntersInner, EntersNested, EntersProbing, Enters, BeginInner,
                          BeginNested, IsRoot, RootKnown, TypeOK
      <4> QED BY <4>1, <1>1 DEF Using, IsRoot
    <3> QED BY <3>1, <3>2, <1>7
  <2> QED BY <2>1, <2>2, <2>3, <1>5
<1>8. CASE \/ ReserveTimeout(c)
           \/ \E k \in Keys : LocksLocally(c, k)
           \/ \E k \in Keys : LocksKey(c, k)
           \/ GivesUp(c) \/ Returns(c) \/ ReturnsInner(c) \/ Drain(c)
           \/ \E k \in Keys : UnlocksKey(c, k)
           \/ CloseNested(c)
  <2>1. conn' = conn /\ free' = free /\ root' = root
    BY <1>8 DEF ReserveTimeout, LocksLocally, LocksKey, LockKey, GivesUp, Returns, ReturnsInner,
                Leave, Drain, UnlocksKey, CloseNested
  <2>2. IsRoot(c) => \/ pc[c] = "reserve" /\ pc'[c] = "failed"
                     \/ {pc[c], pc'[c]} \subseteq {"poll", "probe", "run", "drain", "unlock"}
    BY <1>8, <1>1 DEF ReserveTimeout, LocksLocally, LocksKey, LockKey, GivesUp, Returns,
                ReturnsInner, Leave, Drain, UnlocksKey, CloseNested, RootKnown, Nested, TypeOK
  <2>3. Using(c)' <=> Using(c)
    BY <2>1, <2>2 DEF Using, IsRoot
  <2> QED BY <2>1, <2>3, <1>5
<1> QED BY <1>3, <1>4, <1>6, <1>7, <1>8 DEF Move

\* A key that can be locked is locked by nobody: localNestedLock has kept the
\* other calls of the connection away.
LEMMA LockableIsFree ==
  ASSUME PgAssumption, IInv, NEW c \in Calls, NEW k \in Keys, LocksKey(c, k), NEW d \in Calls
  PROVE  k \notin got[d]
<1>1. SUFFICES ASSUME k \in got[d] PROVE FALSE
  OBVIOUS
<1>2. /\ pc[c] \in {"poll", "probe"} /\ k \in want[c] /\ adv[k].by \in {NoConn, Session(c)}
  BY DEF LocksKey, LockKey, Lockable
<1>3. adv[k].by = Session(d)
  <2>1. KeyMatched(k)
    BY MatchedEach DEF IInv
  <2>2. adv[k] = [by |-> Session(d), n |-> 1]
    BY <2>1, <1>1 DEF KeyMatched
  <2> QED BY <2>2
<1>4. /\ Live(d) /\ root[d] \in Calls /\ Using(root[d]) /\ Session(d) \in Conns \ free
      /\ Nested(d) => pc[root[d]] \in {"run", "drain"}
  BY <1>1, OwnerUses
<1>5. Session(d) = Session(c)
  BY <1>2, <1>3, <1>4, NoConnIsNone
<1>6. /\ RootKnown(c) /\ KeysKnown(c) /\ RootKnown(d) /\ KeysKnown(d) /\ TypeOK
      /\ NoCall \notin Calls
  BY ParentFacts DEF IInv, CallInv
<1>7. root[c] \in Calls /\ Live(c) /\ (IsRoot(c) \/ Nested(c))
  BY <1>2, <1>6 DEF RootKnown, TypeOK, Live, Over, Nested
<1>8. Using(root[c])
  <2>1. CASE IsRoot(c)
    BY <2>1, <1>2 DEF Using, IsRoot
  <2>2. CASE Nested(c)
    <3>1. pc[root[c]] \in {"run", "drain"}
      BY <2>2, <1>7 DEF IInv, RootWaits
    <3> QED BY <3>1, <1>6, <1>7 DEF Using, IsRoot, RootKnown
  <2> QED BY <2>1, <2>2, <1>7
<1>9. root[c] = root[d]
  BY <1>4, <1>5, <1>7, <1>8 DEF Session, IInv, ConnKnown
<1>10. want[c] \cap got[c] = {}
  BY <1>2, <1>6, <1>7 DEF KeysKnown, RootKeys, NestedKeys
<1>11. IsRoot(d) \/ Nested(d)
  BY <1>4, <1>6 DEF Nested
<1>12. CASE d = c
  BY <1>12, <1>1, <1>2, <1>10
<1>13. CASE IsRoot(c) /\ d # c
  <2>1. Nested(d) /\ root[d] = c
    BY <1>9, <1>11, <1>13 DEF IsRoot
  <2> QED BY <2>1, <1>2, <1>4
<1>14. CASE Nested(c) /\ IsRoot(d)
  <2>1. got[d] \subseteq KeysOf(d) /\ root[c] = d
    BY <1>6, <1>9, <1>14 DEF KeysKnown, RootKeys, IsRoot
  <2>2. want[c] \cap KeysOf(root[c]) = {}
    BY <1>6, <1>14 DEF KeysKnown, NestedKeys
  <2> QED BY <2>1, <2>2, <1>1, <1>2
<1>15. CASE Nested(c) /\ Nested(d) /\ c # d
  <2>1. loc[c] \cap loc[d] = {}
    BY <1>4, <1>7, <1>9, <1>15 DEF IInv, Apart
  <2>2. k \in loc[c]
    BY <1>2, <1>6, <1>15 DEF KeysKnown, NestedKeys
  <2>3. k \in loc[d]
    BY <1>1, <1>6, <1>15 DEF KeysKnown, NestedKeys
  <2> QED BY <2>1, <2>2, <2>3
<1> QED BY <1>7, <1>11, <1>12, <1>13, <1>14, <1>15

LEMMA MatchedEachNext == (LocksMatchCalls <=> \A k \in Keys : KeyMatched(k))'
BY MatchedEach, PTL

LEMMA MatchedStep ==
  ASSUME PgAssumption, IInv, NEW c \in Calls, Move(c)
  PROVE  LocksMatchCalls'
<1>1. TypeOK /\ \A k \in Keys : KeyMatched(k)
  BY MatchedEach DEF IInv
<1>2. \A d \in Calls : got[d] # {} => Session(d)' = Session(d)
  <2>1. SUFFICES ASSUME NEW d \in Calls, got[d] # {} PROVE conn'[root'[d]] = conn[root[d]]
    BY DEF Session
  <2>2. /\ root[d] \in Calls /\ root[d] # NoCall /\ pc[d] # "reserve"
        /\ Nested(d) => pc[root[d]] \in {"run", "drain"}
        /\ Using(root[d])
    BY <2>1, OwnerUses, ParentFacts
  <2>3. root'[d] = root[d]
    BY <2>2, Frame
  <2>4. conn' = conn \/ pc[c] = "reserve"
    BY DEF Move, EntersRoot, EntersInner, EntersNested, EntersProbing, FindsBusy, BeginRoot,
           BeginInner, BeginNested, Reserve, ReserveTimeout, LateCheckout, LocksLocally,
           LocksKey, LockKey, GivesUp, Returns, ReturnsInner, Leave, Drain, UnlocksKey,
           CloseNested, CloseRoot
  <2>5. conn'[root[d]] = conn[root[d]]
    <3>1. CASE root[d] = c
      BY <3>1, <2>2, <2>4 DEF Using
    <3>2. CASE root[d] # c
      BY <3>2, <2>2, Frame
    <3> QED BY <3>1, <3>2
  <2> QED BY <2>3, <2>5
<1>3. CASE adv' = adv /\ got' = got
  <2>1. ASSUME NEW k \in Keys PROVE KeyMatched(k)'
    <3>1. KeyMatched(k)
      BY <1>1
    <3>2. \A d \in Calls : k \in got[d] => Session(d)' = Session(d)
      BY <1>2
    <3> QED BY <1>3, <3>1, <3>2 DEF KeyMatched, Unlocked
  <2> QED BY <2>1, MatchedEachNext
<1>4. CASE \E k \in Keys : LocksKey(c, k)
  <2>1. PICK k \in Keys : LocksKey(c, k)
    BY <1>4
  <2>2. /\ got' = [got EXCEPT ![c] = got[c] \cup {k}] /\ root' = root /\ conn' = conn
        /\ adv' = [adv EXCEPT ![k] = [by |-> Session(c), n |-> adv[k].n + 1]]
    BY <2>1 DEF LocksKey, LockKey
  <2>3. \A d \in Calls : k \notin got[d]
    BY <2>1, LockableIsFree
  <2>4. adv[k] = Unlocked /\ Unlocked.n = 0
    BY <2>3, <1>1 DEF KeyMatched, Unlocked
  <2>5. adv'[k] = [by |-> Session(c), n |-> 1]
    BY <2>2, <2>4, <1>1 DEF TypeOK
  <2>6. KeyMatched(k)'
    BY <2>2, <2>3, <2>5, <1>1 DEF KeyMatched, TypeOK, Session
  <2>7. ASSUME NEW x \in Keys, x # k PROVE KeyMatched(x)'
    <3>1. adv'[x] = adv[x] /\ \A d \in Calls : x \in got'[d] <=> x \in got[d]
      BY <2>2, <2>7, <1>1 DEF TypeOK
    <3> QED BY <3>1, <2>2, <1>1 DEF KeyMatched, Session, Unlocked
  <2> QED BY <2>6, <2>7, MatchedEachNext
<1>5. CASE \E k \in Keys : UnlocksKey(c, k)
  <2>1. PICK k \in Keys : UnlocksKey(c, k)
    BY <1>5
  <2>2. /\ k \in got[c] /\ got' = [got EXCEPT ![c] = got[c] \ {k}] /\ root' = root /\ conn' = conn
        /\ adv' = [adv EXCEPT ![k] = IF adv[k].n = 1 THEN Unlocked
                                     ELSE [by |-> adv[k].by, n |-> adv[k].n - 1]]
    BY <2>1 DEF UnlocksKey
  <2>3. adv[k] = [by |-> Session(c), n |-> 1] /\ \A d \in Calls : k \in got[d] => d = c
    BY <2>2, <1>1 DEF KeyMatched
  <2>4. adv[k].n = 1
    BY <2>3
  <2>5. adv'[k] = Unlocked
    BY <2>2, <2>4, <1>1 DEF TypeOK
  <2>6. KeyMatched(k)'
    BY <2>2, <2>3, <2>5, <1>1 DEF KeyMatched, TypeOK, Unlocked
  <2>7. ASSUME NEW x \in Keys, x # k PROVE KeyMatched(x)'
    <3>1. adv'[x] = adv[x] /\ \A d \in Calls : x \in got'[d] <=> x \in got[d]
      BY <2>2, <2>7, <1>1 DEF TypeOK
    <3> QED BY <3>1, <2>2, <1>1 DEF KeyMatched, Session, Unlocked
  <2> QED BY <2>6, <2>7, MatchedEachNext
<1> QED BY <1>3, <1>4, <1>5
  DEF Move, EntersRoot, EntersInner, EntersNested, EntersProbing, FindsBusy, BeginRoot,
      BeginInner, BeginNested, Reserve, ReserveTimeout, LateCheckout, LocksLocally,
      GivesUp, Returns, ReturnsInner, Leave, Drain, CloseNested, CloseRoot


-----------------------------------------------------------------------------
(* What a callback takes for granted *)

LEMMA AboveFacts ==
  ASSUME PgAssumption, NEW c \in Calls
  PROVE  /\ c \in Above[c]
         /\ Parent[c] \in Calls => Above[Parent[c]] \subseteq Above[c]
         /\ \A e \in Above[c] : e # c => Parent[c] \in Calls /\ e \in Above[Parent[c]]
<1>1. Above[c] = {c} \cup IF Parent[c] = NoCall THEN {} ELSE Above[Parent[c]]
  BY AboveEquation
<1> QED BY <1>1, ParentFacts

LEMMA AboveTransitive ==
  ASSUME PgAssumption, NEW x \in Calls, NEW w \in Calls, x \in Above[w]
  PROVE  Above[x] \subseteq Above[w]
<1> DEFINE S == {z \in Calls : x \in Above[z] /\ ~(Above[x] \subseteq Above[z])}
<1>1. SUFFICES ASSUME S # {} PROVE FALSE
  OBVIOUS
<1>2. PICK z \in S : Parent[z] \notin S
  <2>1. S \in SUBSET Calls
    OBVIOUS
  <2> HIDE DEF S
  <2> QED BY <1>1, <2>1 DEF PgAssumption
<1>3. z \in Calls /\ x \in Above[z] /\ ~(Above[x] \subseteq Above[z])
  BY <1>2
<1>4. Parent[z] \in Calls /\ x \in Above[Parent[z]]
  BY <1>3, AboveFacts
<1>5. Above[x] \subseteq Above[Parent[z]]
  BY <1>2, <1>4
<1> QED BY <1>3, <1>4, <1>5, AboveFacts

\* No call is made inside itself.
LEMMA AboveAntisymmetric ==
  ASSUME PgAssumption, NEW x \in Calls, NEW c \in Calls, x \in Above[c], c \in Above[x]
  PROVE  x = c
<1> DEFINE S == {z \in Calls : x \in Above[z] /\ c \in Above[z]}
<1>1. SUFFICES ASSUME x # c PROVE FALSE
  OBVIOUS
<1>2. c \in S
  BY AboveFacts
<1>3. PICK z \in S : Parent[z] \notin S
  <2>1. S \in SUBSET Calls /\ S # {}
    BY <1>2
  <2> HIDE DEF S
  <2> QED BY <2>1 DEF PgAssumption
<1>4. z \in Calls /\ x \in Above[z] /\ c \in Above[z]
  BY <1>3
<1>5. CASE z # x
  <2>1. Parent[z] \in Calls /\ x \in Above[Parent[z]]
    BY <1>4, <1>5, AboveFacts
  <2>2. c \in Above[Parent[z]]
    BY <2>1, AboveTransitive
  <2> QED BY <2>1, <2>2, <1>3
<1>6. CASE z # c
  <2>1. Parent[z] \in Calls /\ c \in Above[Parent[z]]
    BY <1>4, <1>6, AboveFacts
  <2>2. x \in Above[Parent[z]]
    BY <2>1, AboveTransitive
  <2> QED BY <2>1, <2>2, <1>3
<1> QED BY <1>1, <1>5, <1>6

LEMMA RootIsAbove ==
  ASSUME PgAssumption, IInv, NEW c \in Calls, Nested(c)
  PROVE  root[c] \in Above[c]
<1> DEFINE S == {z \in Calls : Nested(z) /\ root[z] \notin Above[z]}
<1>1. SUFFICES ASSUME S # {} PROVE FALSE
  OBVIOUS
<1>2. PICK z \in S : Parent[z] \notin S
  <2>1. S \in SUBSET Calls
    OBVIOUS
  <2> HIDE DEF S
  <2> QED BY <1>1, <2>1 DEF PgAssumption
<1>3. z \in Calls /\ Nested(z) /\ root[z] \notin Above[z]
  BY <1>2
<1>4. Parent[z] \in Calls /\ root[z] = root[Parent[z]] /\ root[z] # NoCall
  BY <1>3, ParentFacts DEF IInv, CallInv, RootKnown, Nested
<1>5. CASE Nested(Parent[z])
  <2>1. root[Parent[z]] \in Above[Parent[z]]
    BY <1>2, <1>4, <1>5
  <2> QED BY <2>1, <1>3, <1>4, AboveFacts
<1>6. CASE ~Nested(Parent[z])
  <2>1. root[z] = Parent[z]
    BY <1>4, <1>6 DEF Nested, IsRoot
  <2> QED BY <2>1, <1>3, <1>4, AboveFacts
<1> QED BY <1>5, <1>6

\* A nested callback that returns has no call left below it.
LEMMA NoneBelow ==
  ASSUME PgAssumption, BranchesCounted, IInv, NEW c \in Calls,
         pc[c] = "run", ChildrenOver(c), ~IsRoot(c),
         NEW y \in Calls, y # c, c \in Above[y], Live(y), root[y] = root[c]
  PROVE  FALSE
<1> DEFINE S == {x \in Calls : x # c /\ c \in Above[x] /\ Live(x) /\ root[x] = root[c]}
<1>1. S \in SUBSET Calls /\ S # {}
  OBVIOUS
<1>2. PICK x \in S : Parent[x] \notin S
  <2> HIDE DEF S
  <2> QED BY <1>1 DEF PgAssumption
<1>3. x \in Calls /\ x # c /\ c \in Above[x] /\ Live(x) /\ root[x] = root[c]
  BY <1>2
<1>4. Parent[x] \in Calls /\ c \in Above[Parent[x]] /\ Parent[x] # NoCall
  BY <1>3, AboveFacts, ParentFacts
<1>5. RootKnown(x) /\ RootKnown(c) /\ TypeOK /\ NoCall \notin Calls
  BY <1>3, ParentFacts DEF IInv, CallInv
<1>6. root[c] # NoCall
  BY <1>5 DEF RootKnown
<1>7. CASE x \in Detached
  <2>1. Parent[Parent[x]] = NoCall
    BY <1>4, <1>7 DEF BranchesCounted
  <2>2. c = Parent[x]
    BY <1>4, <2>1, <1>5, AboveFacts
  <2>3. ~Nested(c)
    BY <2>1, <2>2, <1>5 DEF RootKnown
  <2> QED BY <2>3, <1>6 DEF Nested
<1>8. CASE x \notin Detached
  <2>1. pc[Parent[x]] = "run"
    BY <1>3, <1>4, <1>8 DEF IInv, CallbackWaits
  <2>2. Parent[x] # c
    BY <1>3, <1>8 DEF ChildrenOver, Live
  <2>3. Live(Parent[x])
    BY <2>1 DEF Live, Over
  <2>4. root[Parent[x]] # root[c]
    BY <1>2, <1>4, <2>2, <2>3
  <2>5. ~Nested(x)
    BY <2>4, <1>3, <1>5 DEF RootKnown
  <2>6. root[c] = x
    BY <2>5, <1>3, <1>6 DEF Nested, IsRoot
  <2>7. Nested(c)
    BY <1>6 DEF Nested
  <2>8. x \in Above[c]
    BY <2>6, <2>7, RootIsAbove
  <2> QED BY <2>8, <1>3, AboveAntisymmetric
<1> QED BY <1>7, <1>8

LEMMA HeldIsLockedStep ==
  ASSUME PgAssumption, BranchesCounted, IInv, NEW c \in Calls, Move(c)
  PROVE  HeldIsLocked'
<1> DEFINE Locked(y, k, e) == /\ e \in Calls /\ k \in got[e] /\ root[e] = root[y]
                              /\ IsRoot(e) \/ pc[e] = "run"
<1>1. SUFFICES ASSUME NEW y \in Calls, pc'[y] = "run", NEW k \in held'[y]
               PROVE  \E e \in Above[y] : Locked(y, k, e)'
  BY DEF HeldIsLocked
<1>2. /\ TypeOK /\ NoCall \notin Calls /\ HeldIsLocked
      /\ \A x \in Calls : RootKnown(x) /\ HeldKnown(x) /\ KeysKnown(x)
  BY ParentFacts DEF IInv, CallInv
<1>3. \A x, e \in Calls : /\ e # c /\ root'[x] = root[x] /\ Locked(x, k, e)
                          => Locked(x, k, e)'
  <2>1. SUFFICES ASSUME NEW x \in Calls, NEW e \in Calls, e # c, root'[x] = root[x],
                        Locked(x, k, e)
                 PROVE  Locked(x, k, e)'
    OBVIOUS
  <2>2. got'[e] = got[e] /\ root'[e] = root[e] /\ pc'[e] = pc[e]
    BY <2>1, Frame
  <2> QED BY <2>1, <2>2 DEF IsRoot
<1>4. CASE pc[y] = "run"
  <2>1. root[y] # NoCall /\ held[y] # {}
    BY <1>2, <1>4 DEF RootKnown, HeldKnown
  <2>2. root'[y] = root[y] /\ held'[y] = held[y] /\ Live(y) /\ root[y] \in Calls
    BY <2>1, <1>2, <1>4, Frame DEF Live, Over, TypeOK
  <2>3. PICK e \in Above[y] : Locked(y, k, e)
    BY <2>2, <1>1, <1>2, <1>4 DEF HeldIsLocked
  <2>4. CASE e # c
    BY <2>2, <2>3, <2>4, <1>3
  <2>5. CASE e = c
    <3>1. c \in Above[y] /\ k \in got[c] /\ root[c] = root[y] /\ (IsRoot(c) \/ pc[c] = "run")
      BY <2>3, <2>5
    <3>2. root'[c] = root[c]
      BY <3>1, <2>1, Frame
    <3>3. pc[c] = "unlock" => FALSE
      <4>1. SUFFICES ASSUME pc[c] = "unlock" PROVE FALSE
        OBVIOUS
      <4>2. IsRoot(c) /\ y # c
        BY <4>1, <3>1, <1>4
      <4>3. Nested(y) /\ root[y] = c
        BY <4>2, <3>1, <2>1 DEF Nested, IsRoot
      <4> QED BY <4>1, <4>3, <2>2 DEF IInv, RootWaits
    <3>4. ~IsRoot(c) => ~Returns(c) /\ ~ReturnsInner(c)
      <4>1. SUFFICES ASSUME ~IsRoot(c), Returns(c) \/ ReturnsInner(c) PROVE FALSE
        OBVIOUS
      <4>2. pc[c] = "run" /\ ChildrenOver(c) /\ pc'[c] # "run"
        BY <4>1, <1>2 DEF Returns, ReturnsInner, Leave, TypeOK
      <4>3. y # c
        BY <4>2, <1>1
      <4> QED BY <4>1, <4>2, <4>3, <3>1, <2>2, NoneBelow
    <3>5. k \in got'[c]
      <4>1. got' = got \/ (pc[c] \in {"poll", "probe"} /\ \E x : got' = [got EXCEPT ![c] = got[c] \cup {x}])
        BY <3>3 DEF Move, EntersRoot, EntersInner, EntersNested, EntersProbing, FindsBusy,
             BeginRoot, BeginInner, BeginNested, Reserve, ReserveTimeout, LateCheckout,
             LocksLocally, LocksKey, LockKey, GivesUp, Returns, ReturnsInner, Leave, Drain,
             UnlocksKey, CloseNested, CloseRoot
      <4> QED BY <4>1, <3>1, <1>2 DEF TypeOK
    <3>6. ~IsRoot(c) => pc'[c] = "run"
      <4>1. SUFFICES ASSUME ~IsRoot(c), pc[c] = "run" PROVE pc'[c] = "run"
        BY <3>1
      <4> QED BY <4>1, <3>4, <1>2
          DEF Move, EntersRoot, EntersInner, EntersNested, EntersProbing, Enters, FindsBusy,
              Reserve, ReserveTimeout, LateCheckout, LocksLocally, LocksKey, GivesUp, Drain,
              UnlocksKey, CloseNested, CloseRoot, TypeOK
    <3> QED BY <3>1, <3>2, <3>5, <3>6, <2>2, <2>3, <2>5 DEF IsRoot
  <2> QED BY <2>4, <2>5
<1>5. CASE pc[y] # "run"
  <2>1. y = c
    BY <1>1, <1>5, Frame
  <2>2. EntersInner(c) \/ \E j \in Keys : LocksKey(c, j) /\ want[c] = {j}
    <3>1. pc'[c] = "run" /\ pc[c] # "run"
      BY <1>1, <1>5, <2>1
    <3>2. ASSUME \/ EntersRoot(c) \/ EntersNested(c) \/ EntersProbing(c) \/ FindsBusy(c)
                 \/ Reserve(c) \/ ReserveTimeout(c) \/ LateCheckout(c)
          PROVE  FALSE
      BY <3>1, <3>2, <1>2 DEF EntersRoot, EntersNested, EntersProbing, FindsBusy, BeginRoot,
         BeginNested, Reserve, ReserveTimeout, LateCheckout, TypeOK
    <3>3. ASSUME \/ \E j \in Keys : LocksLocally(c, j) \/ UnlocksKey(c, j)
                 \/ GivesUp(c) \/ Returns(c) \/ ReturnsInner(c) \/ Drain(c)
                 \/ CloseNested(c) \/ CloseRoot(c)
          PROVE  FALSE
      BY <3>1, <3>3, <1>2 DEF LocksLocally, UnlocksKey, GivesUp, Returns, ReturnsInner, Leave,
         Drain, CloseNested, CloseRoot, TypeOK
    <3>4. ASSUME NEW j \in Keys, LocksKey(c, j) PROVE want[c] = {j}
      BY <3>1, <3>4 DEF LocksKey, LockKey
    <3> QED BY <3>2, <3>3, <3>4 DEF Move
  <2>3. CASE EntersInner(c)
    <3>1. /\ pc[c] = "idle" /\ Parent[c] \in Calls /\ pc[Parent[c]] = "run"
          /\ held'[c] = held[Parent[c]] /\ root'[c] = root[Parent[c]]
      BY <2>3, <1>2 DEF EntersInner, Enters, BeginInner, TypeOK
    <3>2. PICK e \in Above[Parent[c]] : Locked(Parent[c], k, e)
      BY <3>1, <1>1, <1>2, <2>1 DEF HeldIsLocked
    <3>3. e # c
      BY <3>1, <3>2, <1>2 DEF KeysKnown
    <3>4. root'[Parent[c]] = root[Parent[c]]
      BY <3>1, Frame
    <3>5. Locked(Parent[c], k, e)'
      BY <3>1, <3>2, <3>3, <3>4, <1>3
    <3>6. e \in Above[c]
      BY <3>1, <3>2, AboveFacts
    <3> QED BY <3>1, <3>4, <3>5, <3>6, <2>1
  <2>4. CASE \E j \in Keys : LocksKey(c, j) /\ want[c] = {j}
    <3>1. PICK j \in Keys : LocksKey(c, j) /\ want[c] = {j}
      BY <2>4
    <3>2. /\ pc[c] \in {"poll", "probe"} /\ root' = root /\ pc'[c] = "run"
          /\ held'[c] = got'[c] \cup IF IsRoot(c) THEN {} ELSE held[Parent[c]]
          /\ got' = [got EXCEPT ![c] = got[c] \cup {j}]
      BY <3>1, <1>2 DEF LocksKey, LockKey, TypeOK
    <3>3. Live(c) /\ root[c] # NoCall
      BY <3>2, <1>2 DEF Live, Over, RootKnown
    <3>4. CASE k \in got'[c]
      <4>1. Locked(c, k, c)'
        BY <3>2, <3>4, <2>1
      <4> QED BY <4>1, <2>1, AboveFacts
    <3>5. CASE ~IsRoot(c) /\ k \in held[Parent[c]]
      <4>1. Nested(c) /\ Parent[c] \in Calls /\ Parent[c] # NoCall /\ root[Parent[c]] = root[c]
        BY <3>3, <3>5, <1>2, ParentFacts DEF Nested, RootKnown
      <4>2. \E e \in Above[Parent[c]] : e \in Calls /\ k \in got[e] /\ root[e] = root[c]
                                        /\ (IsRoot(e) \/ pc[e] = "run")
        <5>1. CASE c \notin Detached
          <6>1. pc[Parent[c]] = "run"
            BY <4>1, <3>3, <5>1 DEF IInv, CallbackWaits
          <6> QED BY <6>1, <4>1, <3>5, <1>2 DEF HeldIsLocked
        <5>2. CASE c \in Detached
          <6>1. Parent[Parent[c]] = NoCall
            BY <4>1, <5>2 DEF BranchesCounted
          <6>2. IsRoot(Parent[c]) /\ root[c] = Parent[c]
            BY <6>1, <4>1, <3>3, <1>2 DEF RootKnown, Nested, IsRoot
          <6>3. pc[Parent[c]] \in {"run", "drain"}
            BY <6>2, <4>1, <3>3 DEF IInv, RootWaits
          <6>4. held[Parent[c]] # {} /\ held[Parent[c]] \subseteq KeysOf(Parent[c])
            BY <6>2, <4>1, <3>5, <1>2 DEF HeldKnown
          <6>5. got[Parent[c]] = KeysOf(Parent[c])
            BY <6>2, <6>3, <6>4, <4>1, <1>2 DEF KeysKnown, RootKeys
          <6>6. k \in got[Parent[c]]
            BY <6>4, <6>5, <3>5
          <6>7. Parent[c] \in Above[Parent[c]]
            BY <4>1, AboveFacts
          <6> QED BY <6>2, <6>6, <6>7, <4>1
        <5> QED BY <5>1, <5>2
      <4>3. PICK e \in Above[Parent[c]] : e \in Calls /\ k \in got[e] /\ root[e] = root[c]
                                          /\ (IsRoot(e) \/ pc[e] = "run")
        BY <4>2
      <4>4. e \in Above[c]
        BY <4>1, <4>3, AboveFacts
      <4>5. k \in got'[e] /\ (IsRoot(e) \/ pc'[e] = "run")
        <5>1. CASE e = c
          BY <5>1, <4>3, <3>2, <1>2 DEF TypeOK
        <5>2. CASE e # c
          <6>1. got'[e] = got[e] /\ pc'[e] = pc[e]
            BY <5>2, <4>3, Frame
          <6> QED BY <6>1, <4>3
        <5> QED BY <5>1, <5>2
      <4> QED BY <4>3, <4>4, <4>5, <3>2, <2>1 DEF IsRoot
    <3> QED BY <3>2, <3>4, <3>5, <1>1, <2>1
  <2> QED BY <2>2, <2>3, <2>4
<1> QED BY <1>4, <1>5


-----------------------------------------------------------------------------
(* The invariant holds *)

LEMMA IInvInit ==
  ASSUME PgAssumption, Init
  PROVE  IInv
<1>1. NoCall \notin Calls /\ \A c \in Calls : Parent[c] \in Calls \cup {NoCall}
  BY ParentFacts DEF PgAssumption
<1>2. TypeOK
  BY DEF Init, TypeOK, Unlocked
<1>3. CallInv
  BY DEF Init, CallInv, RootKnown, HeldKnown, KeysKnown, Nested, IsRoot, Using, Over
<1>4. Apart /\ RootWaits /\ CallbackWaits /\ HeldIsLocked
  BY <1>1 DEF Init, Apart, RootWaits, CallbackWaits, HeldIsLocked, Nested, Live
<1>5. ConnKnown
  BY DEF Init, ConnKnown, Using
<1>6. \A k \in Keys : KeyMatched(k)
  BY DEF Init, KeyMatched
<1> QED BY <1>2, <1>3, <1>4, <1>5, <1>6, MatchedEach DEF IInv

LEMMA IInvStep ==
  ASSUME PgAssumption, BranchesCounted, IInv, [Next]_vars
  PROVE  IInv'
<1>1. CASE Next
  <2>1. PICK c \in Calls : Move(c)
    BY <1>1, StepIsMove
  <2>2. TypeOK' /\ Apart' /\ ConnKnown' /\ RootWaits' /\ CallbackWaits'
        /\ LocksMatchCalls' /\ HeldIsLocked'
    BY <2>1, TypeStep, ApartStep, ConnStep, RootWaitsStep, CallbackWaitsStep, MatchedStep,
       HeldIsLockedStep
  <2>3. CallInv'
    BY <2>1, RootStep, HeldStep, KeysStep DEF CallInv
  <2> QED BY <2>2, <2>3 DEF IInv
<1>2. CASE UNCHANGED vars
  <2>1. /\ pc' = pc /\ root' = root /\ held' = held /\ want' = want /\ got' = got
        /\ loc' = loc /\ conn' = conn /\ active' = active /\ drained' = drained
        /\ free' = free /\ late' = late /\ adv' = adv
    BY <1>2 DEF vars
  <2>2. TypeOK'
    BY <2>1 DEF IInv, TypeOK
  <2>3. CallInv'
    <3>1. SUFFICES ASSUME NEW c \in Calls
                   PROVE  RootKnown(c)' /\ HeldKnown(c)' /\ KeysKnown(c)'
      BY DEF CallInv
    <3>2. RootKnown(c) /\ HeldKnown(c) /\ KeysKnown(c)
      BY DEF IInv, CallInv
    <3>3. RootKnown(c)'
      BY <2>1, <3>2 DEF RootKnown, Nested, IsRoot, Using
    <3>4. HeldKnown(c)'
      BY <2>1, <3>2 DEF HeldKnown, IsRoot, KeysOf
    <3>5. RootKeys(c)' <=> RootKeys(c)
      BY <2>1 DEF RootKeys, KeysOf
    <3>6. NestedKeys(c)' <=> NestedKeys(c)
      <4>1. Missing(c)' = Missing(c) /\ KeysOf(c)' = KeysOf(c) /\ KeysOf(root[c])' = KeysOf(root[c])
        BY <2>1 DEF Missing, KeysOf
      <4> QED BY <2>1, <4>1 DEF NestedKeys
    <3>7. KeysKnown(c)'
      BY <2>1, <3>2, <3>5, <3>6 DEF KeysKnown, Nested, IsRoot
    <3> QED BY <3>3, <3>4, <3>7
  <2>4. Apart' /\ RootWaits' /\ CallbackWaits'
    BY <2>1 DEF IInv, Apart, RootWaits, CallbackWaits, Nested, IsRoot, Live
  <2>5. ConnKnown'
    BY <2>1 DEF IInv, ConnKnown, Using, IsRoot
  <2>6. HeldIsLocked'
    BY <2>1 DEF IInv, HeldIsLocked, IsRoot
  <2>7. LocksMatchCalls'
    <3>1. ASSUME NEW k \in Keys PROVE KeyMatched(k)'
      <4>1. KeyMatched(k)
        BY <3>1, MatchedEach DEF IInv
      <4> QED BY <2>1, <4>1 DEF KeyMatched, Session, Unlocked
    <3> QED BY <3>1, MatchedEachNext
  <2> QED BY <2>2, <2>3, <2>4, <2>5, <2>6, <2>7 DEF IInv
<1> QED BY <1>1, <1>2

LEMMA Invariance ==
  ASSUME BranchesCounted
  PROVE  Spec => []IInv
<1>1. Init => IInv
  BY PgAssumption, IInvInit
<1>2. IInv /\ [Next]_vars => IInv'
  BY PgAssumption, IInvStep
<1> QED BY <1>1, <1>2, PTL DEF Spec

-----------------------------------------------------------------------------
(* What follows from it *)

LEMMA Accounted ==
  ASSUME PgAssumption, IInv
  PROVE  ConnectionsAccounted
<1> DEFINE Users(s) == {c \in Calls : /\ IsRoot(c) /\ conn[c] = s
                                     /\ pc[c] \in {"poll", "probe", "run", "drain", "unlock"}}
<1>1. \A s \in Conns, c \in Calls : c \in Users(s) <=> Using(c) /\ conn[c] = s
  BY DEF Using
<1>2. ASSUME NEW s \in Conns, s \in free
      PROVE  /\ Users(s) = {}
             /\ \A k \in Keys : adv[k].by # s
             /\ \A r \in Calls : conn[r] = s => Inside(r) = {}
  <2>1. Users(s) = {}
    BY <1>1, <1>2 DEF IInv, ConnKnown
  <2>2. ASSUME NEW k \in Keys PROVE adv[k].by # s
    <3>1. KeyMatched(k)
      BY MatchedEach DEF IInv
    <3>2. CASE \A c \in Calls : k \notin got[c]
      <4>1. adv[k].by = NoConn
        BY <3>1, <3>2 DEF KeyMatched, Unlocked
      <4> QED BY <4>1, NoConnIsNone
    <3>3. CASE \E c \in Calls : k \in got[c]
      <4>1. PICK c \in Calls : k \in got[c]
        BY <3>3
      <4>2. adv[k] = [by |-> Session(c), n |-> 1]
        BY <3>1, <4>1 DEF KeyMatched
      <4>3. Session(c) \notin free
        BY <4>1, OwnerUses
      <4>4. adv[k].by = Session(c)
        BY <4>2
      <4> QED BY <1>2, <4>3, <4>4
    <3> QED BY <3>2, <3>3
  <2>3. ASSUME NEW r \in Calls, conn[r] = s, NEW x \in Inside(r) PROVE FALSE
    <3>1. x \in Calls /\ x # r /\ root[x] = r /\ pc[x] \notin Over
      BY <2>3 DEF Inside
    <3>2. RootKnown(x) /\ RootKnown(r) /\ NoCall \notin Calls
      BY <3>1, ParentFacts DEF IInv, CallInv
    <3>3. Nested(x) /\ Live(x)
      BY <3>1, <3>2 DEF Nested, IsRoot, Live, RootKnown
    <3>4. Using(r)
      BY <3>1, <3>2, <3>3 DEF IInv, RootWaits, Using, IsRoot, RootKnown
    <3> QED BY <3>4, <2>3, <1>2 DEF IInv, ConnKnown
  <2> QED BY <2>1, <2>2, <2>3
<1>3. ASSUME NEW s \in Conns, s \notin free PROVE Cardinality(Users(s)) = 1
  <2>1. PICK c \in Calls : Using(c) /\ conn[c] = s
    BY <1>3 DEF IInv, ConnKnown
  <2>2. Users(s) = {c}
    <3>1. c \in Users(s)
      BY <1>1, <2>1
    <3>2. ASSUME NEW d \in Users(s) PROVE d = c
      <4>1. d \in Calls /\ Using(d) /\ conn[d] = s
        BY <1>1
      <4> QED BY <4>1, <2>1 DEF IInv, ConnKnown
    <3> HIDE DEF Users
    <3> QED BY <3>1, <3>2
  <2> HIDE DEF Users
  <2> QED BY <2>2, FS_Singleton
<1> QED BY <1>2, <1>3 DEF ConnectionsAccounted

LEMMA Serial ==
  ASSUME PgAssumption, IInv
  PROVE  Serialized
<1>1. SUFFICES ASSUME NEW c \in Calls, NEW d \in Calls, pc[c] = "run", pc[d] = "run",
                      NEW k \in KeysOf(c) \cap KeysOf(d)
               PROVE  \E e \in Above[c] \cap Above[d] : k \in got[e]
  BY DEF Serialized
<1>2. k \in held[c] /\ k \in held[d]
  BY <1>1 DEF IInv, CallInv, HeldKnown
<1>3. PICK e \in Above[c] : e \in Calls /\ k \in got[e]
  BY <1>1, <1>2 DEF IInv, HeldIsLocked
<1>4. PICK f \in Above[d] : f \in Calls /\ k \in got[f]
  BY <1>1, <1>2 DEF IInv, HeldIsLocked
<1>5. k \in Keys
  BY <1>1, KeysFacts
<1>6. KeyMatched(k)
  BY <1>5, MatchedEach DEF IInv
<1>7. e = f
  BY <1>3, <1>4, <1>6 DEF KeyMatched
<1> QED BY <1>3, <1>4, <1>7

\* A key is locked in PostgreSQL exactly while one call believes it has it, and
\* a connection is in its pool or serves one outermost call (withLocks,
\* probeReserved, unlockEntries), whatever the calls, keys and pool sizes.
THEOREM Accounts ==
  ASSUME BranchesCounted
  PROVE  Spec => []LockInv
<1>1. IInv => LockInv
  BY PgAssumption, Accounted DEF IInv, LockInv
<1>2. Spec => []IInv
  BY Invariance
<1> QED BY <1>1, <1>2, PTL

\* Two functions that asked for one key run at the same time only under a lease
\* of it that both reuse (heldKeys), over all pods.
THEOREM Serialization ==
  ASSUME BranchesCounted
  PROVE  Spec => []Serialized
<1>1. IInv => Serialized
  BY PgAssumption, Serial
<1>2. Spec => []IInv
  BY Invariance
<1> QED BY <1>1, <1>2, PTL
=============================================================================
