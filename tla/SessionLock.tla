---------------------------- MODULE SessionLock ----------------------------
(***************************************************************************)
(* The in-process session lock (createInProcessSessionLock in              *)
(* lib/session-lock.ts). Each key has a tail, the promise of the call that *)
(* asked for it last; a new call waits for that promise and becomes the    *)
(* tail. An asynchronous context carries the leases its callers own, so    *)
(* that a nested call reuses a live one; a branch nobody awaits keeps the  *)
(* context after the lease has ended, and must then queue like anyone.     *)
(*                                                                         *)
(* A call is one withLock, withLocks or tryWithLock. withLock is withLocks *)
(* of one key; withLocks nests one acquisition per key. What runs between  *)
(* two awaits is one step.                                                 *)
(***************************************************************************)
EXTENDS Integers, Sequences, FiniteSets

CONSTANTS
  Calls,      \* invocations of the lock
  Keys,       \* lock keys, numbered in the order sort() puts them
  NoCall,
  List,       \* the keys of a call, in the order the caller lists them
  Parent,     \* the call in whose callback a call is made, or NoCall
  Detached,   \* the calls their parent's callback does not await
  Probes      \* the calls of tryWithLock

KeysOf(c) == {List[c][i] : i \in DOMAIN List[c]}

ASSUME CallsAssumption ==
  /\ NoCall \notin Calls
  /\ Keys \subseteq Nat
  /\ List \in [Calls -> Seq(Keys)]
  /\ Parent \in [Calls -> Calls \cup {NoCall}]
  /\ Detached \subseteq Calls
  /\ Probes \subseteq Calls
  /\ \A c \in Probes : Len(List[c]) = 1
  \* A call is made in the callback of an earlier one.
  /\ \A S \in SUBSET Calls : S # {} => \E c \in S : Parent[c] \notin S

VARIABLES
  pc,      \* progress of a call
  at,      \* the key a call asked for last
  pred,    \* previousTail of that acquisition: its call, or NoCall
  own,     \* the keys a call's own leases hold: owner.active
  left,    \* the keys it has released
  ctx,     \* lockContext inside a call's callback: the owner of each key
  tail,    \* locks: the call whose promise is a key's tail, or NoCall
  line     \* history: who waits for a key or holds it, in order of asking

vars == <<pc, at, pred, own, left, ctx, tail, line>>

NoContext == [k \in Keys |-> NoCall]
NoKey == -1

Init ==
  /\ pc = [c \in Calls |-> "idle"]
  /\ at = [c \in Calls |-> NoKey]
  /\ pred = [c \in Calls |-> NoCall]
  /\ own = [c \in Calls |-> {}]
  /\ left = [c \in Calls |-> {}]
  /\ ctx = [c \in Calls |-> NoContext]
  /\ tail = [k \in Keys |-> NoCall]
  /\ line = [k \in Keys |-> <<>>]

-----------------------------------------------------------------------------
\* Mutant: the keys in the order in which the caller lists them.
PrecedesAsListed(c, x, y) ==
  \E i, j \in DOMAIN List[c] : i < j /\ List[c][i] = x /\ List[c][j] = y

\* withLocks sorts the keys of a call.
Precedes(c, x, y) == x < y

\* Mutant: a lease once inherited is good for ever.
LiveEver(owners, k) == owners[k] # NoCall

\* parentOwners.get(k).active
Live(owners, k) == owners[k] # NoCall /\ k \in own[owners[k]]

\* The callback of a call goes on with the keys in rest: live ones are passed
\* over, and the call queues behind the tail of the first other one; with
\* none left the caller's function runs.
Advance(c, rest, owners) ==
  LET need == {k \in rest : ~Live(owners, k)}
  IN  \/ /\ need = {}
         /\ pc' = [pc EXCEPT ![c] = "run"]
         /\ UNCHANGED <<at, pred, tail, line>>
      \/ \E k \in need :
           /\ \A x \in need \ {k} : Precedes(c, k, x)
           /\ pc' = [pc EXCEPT ![c] = "wait"]
           /\ at' = [at EXCEPT ![c] = k]
           /\ pred' = [pred EXCEPT ![c] = tail[k]]
           /\ tail' = [tail EXCEPT ![k] = c]
           /\ line' = [line EXCEPT ![k] = Append(@, c)]

Inherited(c) == IF Parent[c] = NoCall THEN NoContext ELSE ctx[Parent[c]]

\* The parent's callback is running; an unawaited branch of it may go on later.
Reached(c) ==
  Parent[c] # NoCall =>
    pc[Parent[c]] \in {"run"} \cup IF c \in Detached THEN {"unwind", "done"} ELSE {}

WithLocks(c) ==
  /\ pc[c] = "idle" /\ c \notin Probes /\ Reached(c)
  /\ ctx' = [ctx EXCEPT ![c] = Inherited(c)]
  /\ Advance(c, KeysOf(c), Inherited(c))
  /\ UNCHANGED <<own, left>>

\* The caller owns the key, or nobody holds it or waits for it.
Available(c, k) == Live(Inherited(c), k) \/ tail[k] = NoCall

TryWithLock(c) ==
  /\ pc[c] = "idle" /\ c \in Probes /\ Reached(c)
  /\ ctx' = [ctx EXCEPT ![c] = Inherited(c)]
  /\ IF Available(c, List[c][1])
     THEN Advance(c, KeysOf(c), Inherited(c))
     ELSE /\ pc' = [pc EXCEPT ![c] = "busy"]
          /\ UNCHANGED <<at, pred, tail, line>>
  /\ UNCHANGED <<own, left>>

\* The predecessor's promise has resolved: the call owns the key.
Enter(c) ==
  LET k == at[c]
      owners == [ctx[c] EXCEPT ![k] = c]
  IN  /\ pc[c] = "wait"
      /\ pred[c] # NoCall => k \in left[pred[c]]
      /\ own' = [own EXCEPT ![c] = @ \cup {k}]
      /\ ctx' = [ctx EXCEPT ![c] = owners]
      /\ Advance(c, {x \in KeysOf(c) : Precedes(c, k, x)}, owners)
      /\ UNCHANGED left

\* The caller's function returns or throws, its awaited calls all over.
FnEnd(c) ==
  /\ pc[c] = "run"
  /\ \A d \in Calls : Parent[d] = c /\ d \notin Detached =>
       pc[d] \in {"idle", "busy", "done"}
  /\ pc' = [pc EXCEPT ![c] = IF own[c] = {} THEN "done" ELSE "unwind"]
  /\ UNCHANGED <<at, pred, own, left, ctx, tail, line>>

\* Mutants: the entry always dropped, and dropped only by a call that had
\* to wait for nobody.
TailAfterAlways(c, k) == NoCall
TailAfterFirst(c, k) ==
  IF tail[k] = c /\ pred[c] = NoCall THEN NoCall ELSE tail[k]

\* The entry of k is dropped unless someone queued behind c.
TailAfter(c, k) == IF tail[k] = c THEN NoCall ELSE tail[k]

\* finally: the innermost lease ends first.
Release(c) ==
  /\ pc[c] = "unwind"
  /\ \E k \in own[c] :
       /\ \A x \in own[c] \ {k} : Precedes(c, x, k)
       /\ own' = [own EXCEPT ![c] = @ \ {k}]
       /\ left' = [left EXCEPT ![c] = @ \cup {k}]
       /\ tail' = [tail EXCEPT ![k] = TailAfter(c, k)]
       /\ line' = [line EXCEPT ![k] = Tail(@)]
       /\ pc' = [pc EXCEPT ![c] = IF own[c] = {k} THEN "done" ELSE "unwind"]
       /\ UNCHANGED <<at, pred, ctx>>

-----------------------------------------------------------------------------
Step(c) == Enter(c) \/ FnEnd(c) \/ Release(c)

Next == \E c \in Calls : WithLocks(c) \/ TryWithLock(c) \/ Step(c)

Spec == Init /\ [][Next]_vars

\* A resolved promise runs its continuations, and the owner of a lease is in
\* this process and ends (a wait of 30 seconds is logged).
FairSpec == Spec /\ \A c \in Calls : WF_vars(Step(c))

-----------------------------------------------------------------------------
(* Properties *)

TypeOK ==
  /\ pc \in [Calls -> {"idle", "wait", "run", "unwind", "done", "busy"}]
  /\ at \in [Calls -> Keys \cup {NoKey}]
  /\ pred \in [Calls -> Calls \cup {NoCall}]
  /\ own \in [Calls -> SUBSET Keys]
  /\ left \in [Calls -> SUBSET Keys]
  /\ ctx \in [Calls -> [Keys -> Calls \cup {NoCall}]]
  /\ tail \in [Keys -> Calls \cup {NoCall}]
  /\ line \in [Keys -> Seq(Calls)]

\* What a call has done with its keys, by its progress.
Progress ==
  \A c \in Calls :
    /\ pc[c] \in {"idle", "busy", "done"} => own[c] = {}
    /\ pc[c] # "unwind" /\ pc[c] # "done" => left[c] = {}
    /\ own[c] \cap left[c] = {}
    /\ pc[c] = "wait" => at[c] \in Keys /\ \A x \in own[c] : x < at[c]

InLine(c, k) == k \in own[c] \/ (pc[c] = "wait" /\ at[c] = k)

\* The promise chain of a key is its queue: the map holds the last call, each
\* call waits for the one before it, and only the first may hold the key.
Chained ==
  \A k \in Keys :
    LET q == line[k] IN
    /\ \A c \in Calls : InLine(c, k) <=> \E i \in 1..Len(q) : q[i] = c
    /\ \A i, j \in 1..Len(q) : q[i] = q[j] => i = j
    /\ tail[k] = IF q = <<>> THEN NoCall ELSE q[Len(q)]
    /\ \A i \in 2..Len(q) : k \notin own[q[i]] /\ pred[q[i]] = q[i - 1]
    /\ q # <<>> /\ k \notin own[q[1]] /\ pred[q[1]] # NoCall =>
         k \in left[pred[q[1]]]

\* The promise chains are queues at every step of every nesting: nobody waits
\* for a call that is gone, and the first in line may always enter (withLock).
QueueInv == TypeOK /\ Progress /\ Chained

Holders == [k \in Keys |-> {c \in Calls : k \in own[c]}]

Lease == INSTANCE FifoLease WITH holders <- Holders

\* Each key is held by one call at a time and granted in the order of asking,
\* whatever nested calls, multi-key calls and probes do: the promise chains of
\* withLock, with entries dropped when a lease ends, implement a queue.
ImplementsLease == Lease!Spec

\* The map of tails holds an entry for a key only while someone holds the key
\* or waits for it: an idle session costs nothing and a probe never reports
\* a busy key that nobody owns (the last step of withLock's finally).
EntryIsLive ==
  \A k \in Keys : tail[k] # NoCall =>
    LET c == tail[k] IN k \in own[c] \/ (pc[c] = "wait" /\ at[c] = k)

Tied[c \in Calls] ==
  c \notin Detached /\ (Parent[c] = NoCall \/ Tied[Parent[c]])

\* A caller's function starts only under a lease on each of its keys, its own
\* or one it inherited that is still live, also in a branch that outlived the
\* caller which owned the lease (owner.active). A detached withLocks of several
\* keys is not covered: an inherited key may be released while it waits for
\* another.
StartsUnderLease ==
  [][\A c \in Calls :
       /\ pc[c] # "run" /\ pc'[c] = "run"
       /\ Tied[c] \/ Cardinality(KeysOf(c)) = 1
       => \A k \in KeysOf(c) : k \in own'[ctx'[c][k]]]_vars

\* Every call that asks for keys gets them and returns: multi-key calls take
\* their keys in one order, so no two wait for each other.
EveryCallReturns ==
  \A c \in Calls : pc[c] \in {"wait", "run", "unwind"} ~> pc[c] = "done"
=============================================================================
