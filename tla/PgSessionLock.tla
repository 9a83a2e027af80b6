--------------------------- MODULE PgSessionLock ---------------------------
(***************************************************************************)
(* The PostgreSQL session lock (createPgAdvisorySessionLock in             *)
(* lib/pg-session-lock.ts), shared by the pods of one database.            *)
(*                                                                         *)
(* An outermost call checks a connection out of its pod's pool and takes   *)
(* its keys on it as advisory locks. A call made inside its callback takes *)
(* further keys on the same connection. PostgreSQL lets a connection lock  *)
(* a key it holds again, so calls of one connection are kept apart by an   *)
(* in-process lock of their own (localNestedLock, see SessionLock).        *)
(*                                                                         *)
(* A call is one withLock, withLocks or tryWithLock. A query is one step.  *)
(* An outermost call stands for the PgLockState it creates.                *)
(***************************************************************************)
EXTENDS Integers, Sequences, FiniteSets

CONSTANTS
  Calls,      \* invocations of the lock
  Keys,       \* lock keys, numbered in the order sort() puts them
  NoCall,
  List,       \* the keys of a call, in the order the caller lists them
  Parent,     \* the call in whose callback a call is made, or NoCall
  Detached,   \* the calls their parent's callback does not await
  When,       \* the stages of the parent at which a call may be made
  Probes,     \* the calls of tryWithLock
  Pods,
  PodOf,      \* the pod of a call
  PoolSize    \* connections per pod

Conns == Pods \X (1..PoolSize)
NoConn == <<>>

KeysOf(c) == {List[c][i] : i \in DOMAIN List[c]}

ASSUME PgAssumption ==
  /\ NoCall \notin Calls
  /\ Keys \subseteq Nat
  /\ List \in [Calls -> Seq(Keys) \ {<<>>}]
  /\ Parent \in [Calls -> Calls \cup {NoCall}]
  /\ Detached \subseteq Calls
  /\ When \in [Calls -> SUBSET {"run", "drain", "unlock", "done"}]
  /\ \A c \in Calls \ Detached : When[c] = {"run"}
  /\ Probes \subseteq Calls /\ \A c \in Probes : Len(List[c]) = 1
  \* A call is made in the callback of an earlier one.
  /\ \A S \in SUBSET Calls : S # {} => \E c \in S : Parent[c] \notin S
  /\ PodOf \in [Calls -> Pods]
  /\ \A c \in Calls : Parent[c] # NoCall => PodOf[Parent[c]] = PodOf[c]
  /\ PoolSize \in Nat \ {0}

VARIABLES
  pc,       \* progress of a call
  root,     \* the outermost call whose state the callback's context holds
  held,     \* heldKeys of that context
  want,     \* keys still to be locked, in order
  got,      \* keys the call has locked
  loc,      \* keys the call holds in localNestedLock
  conn,     \* reserved: the connection of an outermost call
  active,   \* state.active
  drained,  \* the nestedIdle promise an ending callback waits for is resolved
  free,     \* connections in the pools
  late,     \* calls that gave up while their reserve() was still queued
  adv       \* advisory locks: holding connection and count, per key

vars == <<pc, root, held, want, got, loc, conn, active, drained, free, late, adv>>

Unlocked == [by |-> NoConn, n |-> 0]

Init ==
  /\ pc = [c \in Calls |-> "idle"]
  /\ root = [c \in Calls |-> NoCall]
  /\ held = [c \in Calls |-> {}]
  /\ want = [c \in Calls |-> {}]
  /\ got = [c \in Calls |-> {}]
  /\ loc = [c \in Calls |-> {}]
  /\ conn = [c \in Calls |-> NoConn]
  /\ active = [c \in Calls |-> FALSE]
  /\ drained = [c \in Calls |-> FALSE]
  /\ free = Conns
  /\ late = {}
  /\ adv = [k \in Keys |-> Unlocked]

-----------------------------------------------------------------------------
Over == {"done", "busy", "failed"}

IsRoot(c) == root[c] = c

\* nestedCount, as the set of calls between beginNested and endNested.
Inside(r) ==
  {c \in Calls \ {r} : root[c] = r /\ loc[c] \cup want[c] # {} /\ pc[c] \notin Over}

\* Mutant: the keys in the order in which the caller lists them.
PrecedesAsListed(c, x, y) ==
  \E i, j \in DOMAIN List[c] : i < j /\ List[c][i] = x /\ List[c][j] = y

Precedes(c, x, y) == x < y

First(c, keys) == CHOOSE k \in keys : \A x \in keys \ {k} : Precedes(c, k, x)
Last(c, keys) == CHOOSE k \in keys : \A x \in keys \ {k} : Precedes(c, x, k)

\* The parent's callback has begun, and a branch of it may make the call now.
Reached(c) ==
  Parent[c] # NoCall => pc[Parent[c]] \in When[c] /\ held[Parent[c]] # {}

\* Mutant: every call takes a connection of its own.
NeverInherited(c) == FALSE

\* parent?.state.active
Inherited(c) == IF Parent[c] = NoCall THEN FALSE ELSE active[root[Parent[c]]]

\* Reserving a connection, queued behind the pool.
BeginRoot(c) ==
  /\ pc' = [pc EXCEPT ![c] = "reserve"]
  /\ root' = [root EXCEPT ![c] = c]
  /\ want' = [want EXCEPT ![c] = KeysOf(c)]
  /\ UNCHANGED <<held, got, loc, conn, active, drained, free, late, adv>>

\* All keys are held by the context: the function runs at once.
BeginInner(c) ==
  /\ pc' = [pc EXCEPT ![c] = "run"]
  /\ root' = [root EXCEPT ![c] = root[Parent[c]]]
  /\ held' = [held EXCEPT ![c] = held[Parent[c]]]
  /\ UNCHANGED <<want, got, loc, conn, active, drained, free, late, adv>>

\* Mutant: a call that holds one of its keys is taken to hold them all.
MissingUnlessAny(c) == IF KeysOf(c) \cap held[Parent[c]] # {} THEN {} ELSE KeysOf(c)

\* newlyLocked
Missing(c) == KeysOf(c) \ held[Parent[c]]

BeginNested(c, step) ==
  /\ pc' = [pc EXCEPT ![c] = step]
  /\ root' = [root EXCEPT ![c] = root[Parent[c]]]
  /\ want' = [want EXCEPT ![c] = Missing(c)]
  /\ UNCHANGED <<held, got, conn, active, drained, free, late, adv>>

WithLocks(c) ==
  /\ pc[c] = "idle" /\ c \notin Probes /\ Reached(c)
  /\ \/ ~Inherited(c) /\ BeginRoot(c)
     \/ Inherited(c) /\ Missing(c) = {} /\ BeginInner(c)
     \/ Inherited(c) /\ Missing(c) # {} /\ BeginNested(c, "local") /\ UNCHANGED loc

\* localNestedLock of the root has an entry for k.
LocallyTaken(r, k) ==
  \E d \in Inside(r) : k \in loc[d] \/ (pc[d] = "local" /\ k = First(d, want[d] \ loc[d]))

TryWithLock(c) ==
  /\ pc[c] = "idle" /\ c \in Probes /\ Reached(c)
  /\ \/ ~Inherited(c) /\ BeginRoot(c)
     \/ Inherited(c) /\ Missing(c) = {} /\ BeginInner(c)
     \/ /\ Inherited(c) /\ Missing(c) # {}
        /\ IF LocallyTaken(root[Parent[c]], List[c][1])
           THEN pc' = [pc EXCEPT ![c] = "busy"]
                /\ UNCHANGED <<root, held, want, got, loc, conn, active, drained,
                               free, late, adv>>
           ELSE BeginNested(c, "probe") /\ loc' = [loc EXCEPT ![c] = KeysOf(c)]

-----------------------------------------------------------------------------
(* The connection *)

Reserve(c) ==
  /\ pc[c] = "reserve"
  /\ \E s \in free :
       /\ s[1] = PodOf[c]
       /\ conn' = [conn EXCEPT ![c] = s]
       /\ free' = free \ {s}
  /\ active' = [active EXCEPT ![c] = TRUE]
  /\ pc' = [pc EXCEPT ![c] = IF c \in Probes THEN "probe" ELSE "poll"]
  /\ UNCHANGED <<root, held, want, got, loc, drained, late, adv>>

\* The deadline passes first: the caller is told so, the checkout stays queued.
ReserveTimeout(c) ==
  /\ pc[c] = "reserve"
  /\ pc' = [pc EXCEPT ![c] = "failed"]
  /\ late' = late \cup {c}
  /\ UNCHANGED <<root, held, want, got, loc, conn, active, drained, free, adv>>

\* Mutant: a late checkout is forgotten.
AfterLateForgotten(s) == free \ {s}

\* A late checkout goes back to the pool at once.
AfterLate(s) == free

LateCheckout(c) ==
  /\ c \in late
  /\ \E s \in free : s[1] = PodOf[c] /\ free' = AfterLate(s)
  /\ late' = late \ {c}
  /\ UNCHANGED <<pc, root, held, want, got, loc, conn, active, drained, adv>>

-----------------------------------------------------------------------------
(* Keys *)

\* Mutant: nothing keeps the calls of one connection apart.
LocallyFreeAlways(c, k) == TRUE

LocallyFree(c, k) == \A d \in Inside(root[c]) \ {c} : k \notin loc[d]

\* localNestedLock.withLocks: all missing keys, one by one.
LocalLock(c) ==
  /\ pc[c] = "local"
  /\ LET k == First(c, want[c] \ loc[c]) IN
       /\ LocallyFree(c, k)
       /\ loc' = [loc EXCEPT ![c] = @ \cup {k}]
       /\ pc' = [pc EXCEPT ![c] = IF want[c] = loc[c] \cup {k} THEN "poll" ELSE "local"]
  /\ UNCHANGED <<root, held, want, got, conn, active, drained, free, late, adv>>

Session(c) == conn[root[c]]

\* pg_try_advisory_lock (PostgreSQL): free, or this connection's already.
Lockable(c, k) == adv[k].by \in {NoConn, Session(c)}

\* With the last key the callback starts, in a context that holds the keys.
LockKey(c, k) ==
  /\ Lockable(c, k)
  /\ adv' = [adv EXCEPT ![k] = [by |-> Session(c), n |-> @.n + 1]]
  /\ want' = [want EXCEPT ![c] = @ \ {k}]
  /\ got' = [got EXCEPT ![c] = @ \cup {k}]
  /\ IF want[c] = {k}
     THEN /\ pc' = [pc EXCEPT ![c] = "run"]
          /\ held' = [held EXCEPT ![c] = got'[c] \cup
                         IF IsRoot(c) THEN {} ELSE held[Parent[c]]]
     ELSE UNCHANGED <<pc, held>>
  /\ UNCHANGED <<root, loc, conn, active, drained, free, late>>

\* acquireWithTimeout: polls until the key is free.
Poll(c) == pc[c] = "poll" /\ LockKey(c, First(c, want[c]))

\* finally, for a callback that ran or never did.
Leave(c) ==
  /\ pc' = [pc EXCEPT ![c] = IF IsRoot(c) THEN "drain" ELSE "unlock"]
  /\ drained' = [drained EXCEPT ![c] = Inside(c) = {}]
  /\ UNCHANGED <<root, held, want, got, loc, conn, active, free, late, adv>>

PollTimeout(c) ==
  /\ pc[c] = "poll" /\ ~Lockable(c, First(c, want[c]))
  /\ Leave(c)

\* probeReserved: one attempt.
Probe(c) ==
  /\ pc[c] = "probe"
  /\ LET k == List[c][1] IN
       \/ LockKey(c, k)
       \/ ~Lockable(c, k) /\ Leave(c)

\* The caller's function returns or throws, its awaited calls all over.
FnEnd(c) ==
  /\ pc[c] = "run"
  /\ \A d \in Calls : Parent[d] = c /\ d \notin Detached => pc[d] \in {"idle"} \cup Over
  /\ IF IsRoot(c) \/ loc[c] # {}
     THEN Leave(c)
     ELSE /\ pc' = [pc EXCEPT ![c] = "done"]
          /\ UNCHANGED <<root, held, want, got, loc, conn, active, drained, free,
                         late, adv>>

\* Mutant: nested work is not waited for.
DrainedNever(c) == TRUE

\* await state.nestedIdle
Drained(c) == drained[c]

\* withLocks ends the state before it unlocks; a probe does so afterwards.
Drain(c) ==
  /\ pc[c] = "drain" /\ Drained(c)
  /\ active' = [active EXCEPT ![c] = c \in Probes]
  /\ pc' = [pc EXCEPT ![c] = "unlock"]
  /\ UNCHANGED <<root, held, want, got, loc, conn, drained, free, late, adv>>

\* pg_advisory_unlock (PostgreSQL), in the reverse order.
Unlock(c) ==
  /\ pc[c] = "unlock" /\ got[c] # {}
  /\ LET k == Last(c, got[c]) IN
       /\ got' = [got EXCEPT ![c] = @ \ {k}]
       /\ adv' = [adv EXCEPT ![k] = IF @.n = 1 THEN Unlocked
                                    ELSE [by |-> @.by, n |-> @.n - 1]]
  /\ UNCHANGED <<pc, root, held, want, loc, conn, active, drained, free, late>>

\* endNested; the last one resolves the promise the root may wait for.
CloseNested(c) ==
  /\ pc[c] = "unlock" /\ got[c] = {} /\ ~IsRoot(c)
  /\ pc' = [pc EXCEPT ![c] = "done"]
  /\ loc' = [loc EXCEPT ![c] = {}]
  /\ drained' = [drained EXCEPT ![root[c]] = @ \/ Inside(root[c]) = {c}]
  /\ UNCHANGED <<root, held, want, got, conn, active, free, late, adv>>

\* reserved.release()
CloseRoot(c) ==
  /\ pc[c] = "unlock" /\ got[c] = {} /\ IsRoot(c)
  /\ pc' = [pc EXCEPT ![c] = "done"]
  /\ active' = [active EXCEPT ![c] = FALSE]
  /\ free' = free \cup {conn[c]}
  /\ UNCHANGED <<root, held, want, got, loc, conn, drained, late, adv>>

-----------------------------------------------------------------------------
Step(c) ==
  \/ Reserve(c) \/ LateCheckout(c)
  \/ LocalLock(c) \/ Poll(c) \/ Probe(c)
  \/ FnEnd(c) \/ Drain(c) \/ Unlock(c) \/ CloseNested(c) \/ CloseRoot(c)

Next ==
  \E c \in Calls :
    \/ WithLocks(c) \/ TryWithLock(c)
    \/ ReserveTimeout(c) \/ PollTimeout(c)
    \/ Step(c)

Spec == Init /\ [][Next]_vars

\* Queries and callbacks end, a waiting checkout is served when the pool has a
\* connection, and polling goes on; no deadline is needed for progress.
FairSpec == Spec /\ \A c \in Calls : WF_vars(Step(c))

-----------------------------------------------------------------------------
(* Properties *)

TypeOK ==
  /\ pc \in [Calls -> {"idle", "reserve", "local", "poll", "probe", "run", "drain",
                       "unlock"} \cup Over]
  /\ root \in [Calls -> Calls \cup {NoCall}]
  /\ held \in [Calls -> SUBSET Keys] /\ want \in [Calls -> SUBSET Keys]
  /\ got \in [Calls -> SUBSET Keys] /\ loc \in [Calls -> SUBSET Keys]
  /\ conn \in [Calls -> Conns \cup {NoConn}]
  /\ active \in [Calls -> BOOLEAN] /\ drained \in [Calls -> BOOLEAN]
  /\ free \subseteq Conns /\ late \subseteq Calls
  /\ adv \in [Keys -> [by : Conns \cup {NoConn}, n : Nat]]

\* A key is locked in PostgreSQL exactly while one call believes it has it, on
\* the connection of that call and once: although PostgreSQL grants a key again
\* to the connection that holds it, no second call gets in (localNestedLock),
\* and no unlock is lost or made twice (unlockEntries).
LocksMatchCalls ==
  \A k \in Keys :
    LET owners == {c \in Calls : k \in got[c]}
    IN  \/ owners = {} /\ adv[k] = Unlocked
        \/ \E c \in owners : owners = {c} /\ adv[k] = [by |-> Session(c), n |-> 1]

\* A connection is in its pool, with no lock on it and no call using it, or it
\* is reserved by exactly one outermost call: it is neither leaked by a late
\* checkout nor handed on while nested work still uses it (withLocks' finally).
ConnectionsAccounted ==
  \A s \in Conns :
    LET users == {c \in Calls : /\ IsRoot(c) /\ conn[c] = s
                                /\ pc[c] \in {"poll", "probe", "run", "drain", "unlock"}}
    IN  IF s \in free
        THEN /\ users = {}
             /\ \A k \in Keys : adv[k].by # s
             /\ \A r \in Calls : conn[r] = s => Inside(r) = {}
        ELSE Cardinality(users) = 1

\* What is locked and what is lent out is what the calls believe.
LockInv == TypeOK /\ LocksMatchCalls /\ ConnectionsAccounted

\* The calls in whose callbacks a call is made, and the call itself.
Above[c \in Calls] == {c} \cup IF Parent[c] = NoCall THEN {} ELSE Above[Parent[c]]

\* "Same-session calls are strictly serialized" (session-lock.ts), over all pods:
\* two functions that asked for one key run at the same time only under a lease
\* of it that both of them reuse (heldKeys and state.active).
Serialized ==
  \A c, d \in Calls :
    c # d /\ pc[c] = "run" /\ pc[d] = "run" =>
      \A k \in KeysOf(c) \cap KeysOf(d) :
        \E e \in Above[c] \cap Above[d] : k \in got[e]

\* Every call returns, also when no deadline ever passes (no fairness makes
\* one pass): keys are taken in one order and nested calls need no second
\* connection (withLocks).
EveryCallReturns == \A c \in Calls : pc[c] # "idle" ~> pc[c] \in Over
=============================================================================
