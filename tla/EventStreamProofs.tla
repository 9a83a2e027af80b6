------------------------- MODULE EventStreamProofs -------------------------
(***************************************************************************)
(* For any number of pods, events and faults, any limits, and a transport  *)
(* that may reorder.  Replay: what a pod can replay is always an ordered   *)
(* window above its floor, and a session is pinned exactly while a stream  *)
(* of the pod is between its authorisation and the end of its cleanup.     *)
(* Stream: the state is well formed, no queue exceeds its cap, the client  *)
(* knows only what was committed, and the ids on its stream only grow.     *)
(* Sync: a client whose stream is quiet knows every committed change.      *)
(*                                                                         *)
(* The invariant of Replay says of every session that it is Kept, and      *)
(* which shape the stream has; every action changes at most one session,   *)
(* with one of the operators of the first section.  That of Stream says    *)
(* also where a stream is in the ids of its pod: StreamOrder relates what  *)
(* it has written, what it has still to replay and what it has heard       *)
(* meanwhile to the session, which only moves on (Grows).  Sync needs two  *)
(* more: BusOrder, that the frames between the pods follow their numbers,  *)
(* so an event that was sent is still ComesTo every pod that has not had   *)
(* it, or a later frame reveals the hole; and InformInv, that each change  *)
(* is Covered: the client has it, or some read, replay or reset to come    *)
(* will bring it.                                                          *)
(***************************************************************************)
EXTENDS EventStream, TLAPS, FiniteSetTheorems, SequenceTheorems, WellFoundedInduction

Items(S) == [seq : Nat, ev : S]
SessionOver(S) ==
  [tracked : BOOLEAN, gen : Nat, seq : Nat, tseq : Nat, buf : Seq(Items(S)),
   floor : Nat, pins : Nat]

\* A session whose window is in order, and without pins if untracked.
Kept(s) ==
  /\ \E S : s \in SessionOver(S)
  /\ Window(s)
  /\ s.tracked \/ s.pins = 0

ConnOver(A) ==
  [phase : A, pod : A, cursor : A, hit : A, todo : A, buf : A, sent : A,
   high : A, ordered : A, silent : A]
IsConn(c) == \E A : c \in ConnOver(A)

Pinned(c, p) == c.pod = p /\ c.phase # "watch"

IInv ==
  /\ sess = [p \in Pods |-> sess[p]]
  /\ \A p \in Pods : Kept(sess[p])
  /\ IsConn(conn)
  /\ (conn.phase = "none") <=> (conn.pod = NoPod)
  /\ conn.pod \in Pods \cup {NoPod}
  /\ PinsMatch

-----------------------------------------------------------------------------
(* The operators on a session.                                             *)

LEMMA RingMaxPositive == RingMax \in Nat /\ RingMax >= 1
BY BusConstants

LEMMA SetTracked ==
  ASSUME NEW S, NEW u \in SessionOver(S)
  PROVE  /\ [u EXCEPT !.tracked = TRUE] \in SessionOver(S)
         /\ [u EXCEPT !.tracked = TRUE].tracked
         /\ [u EXCEPT !.tracked = TRUE].gen = u.gen
         /\ [u EXCEPT !.tracked = TRUE].seq = u.seq
         /\ [u EXCEPT !.tracked = TRUE].floor = u.floor
         /\ [u EXCEPT !.tracked = TRUE].buf = u.buf
         /\ [u EXCEPT !.tracked = TRUE].pins = u.pins
BY DEF SessionOver

LEMMA UntrackedFacts ==
  ASSUME NEW gen \in Nat
  PROVE  /\ Untracked(gen) \in SessionOver({})
         /\ Untracked(gen).pins = 0 /\ Untracked(gen).gen = gen
         /\ Untracked(gen).seq = 0 /\ Untracked(gen).floor = 0
         /\ Untracked(gen).buf = <<>>
BY DEF Untracked, SessionOver

LEMMA EmptyWindow ==
  ASSUME NEW s, s.buf = <<>>, s.seq = 0, s.floor = 0
  PROVE  Window(s)
BY RingMaxPositive DEF Window

LEMMA UntrackedKept ==
  ASSUME NEW gen \in Nat
  PROVE  Kept(Untracked(gen)) /\ Untracked(gen).pins = 0
BY UntrackedFacts, EmptyWindow DEF Kept

LEMMA TouchKept ==
  ASSUME NEW s, Kept(s)
  PROVE  /\ Kept(Touch(s)) /\ Touch(s).pins = s.pins /\ Touch(s).tracked
         /\ Touch(s).gen \in Nat
<1>1. CASE s.tracked
  BY <1>1 DEF Touch, Kept, SessionOver
<1>2. CASE ~s.tracked
  <2>1. s.gen + 1 \in Nat /\ s.pins = 0
    BY <1>2 DEF Kept, SessionOver
  <2> DEFINE u == Untracked(s.gen + 1)
             t == [u EXCEPT !.tracked = TRUE]
  <2>2. /\ u \in SessionOver({}) /\ u.gen \in Nat /\ u.pins = 0
        /\ u.buf = <<>> /\ u.seq = 0 /\ u.floor = 0
    BY <2>1, UntrackedFacts
  <2> HIDE DEF u
  <2>3. /\ t \in SessionOver({}) /\ t.tracked /\ t.gen \in Nat /\ t.pins = 0
        /\ t.buf = <<>> /\ t.seq = 0 /\ t.floor = 0
    BY <2>2, SetTracked
  <2>4. Touch(s) = t
    BY <1>2 DEF Touch, u
  <2> HIDE DEF t
  <2>5. Kept(t)
    BY <2>3, EmptyWindow DEF Kept
  <2> QED BY <2>1, <2>3, <2>4, <2>5
<1>3. s.tracked \in BOOLEAN
  BY DEF Kept, SessionOver
<1> QED BY <1>1, <1>2, <1>3

LEMMA InvalidateKept ==
  ASSUME NEW s, Kept(s)
  PROVE  Kept(Invalidate(s)) /\ Invalidate(s).pins = s.pins
<1> DEFINE u == Untracked(Touch(s).gen + 1)
           t == [u EXCEPT !.tracked = TRUE, !.pins = s.pins]
<1>1. Touch(s).gen + 1 \in Nat /\ s.pins \in Nat
  BY TouchKept DEF Kept, SessionOver
<1>2. /\ u \in SessionOver({})
      /\ u.buf = <<>> /\ u.seq = 0 /\ u.floor = 0
  BY <1>1, UntrackedFacts
<1>3. Invalidate(s) = t
  BY DEF Invalidate
<1> HIDE DEF u
<1> DEFINE n == s.pins
<1>a. n \in Nat
  BY <1>1
<1> HIDE DEF n
<1>b. /\ [u EXCEPT !.tracked = TRUE, !.pins = n] \in SessionOver({})
      /\ [u EXCEPT !.tracked = TRUE, !.pins = n].tracked
      /\ [u EXCEPT !.tracked = TRUE, !.pins = n].pins = n
      /\ [u EXCEPT !.tracked = TRUE, !.pins = n].buf = u.buf
      /\ [u EXCEPT !.tracked = TRUE, !.pins = n].seq = u.seq
      /\ [u EXCEPT !.tracked = TRUE, !.pins = n].floor = u.floor
  BY <1>a, <1>2 DEF SessionOver
<1>4. /\ t \in SessionOver({}) /\ t.tracked /\ t.pins = s.pins
      /\ t.buf = <<>> /\ t.seq = 0 /\ t.floor = 0
  BY <1>2, <1>b DEF n
<1> HIDE DEF t
<1>5. Kept(t)
  BY <1>4, EmptyWindow DEF Kept
<1> QED BY <1>3, <1>4, <1>5

\* The ring, as a sequence of items with ids above lo and up to hi.
Ordered(q, lo, hi) ==
  \A i \in 1 .. Len(q) :
    /\ lo < q[i].seq /\ q[i].seq <= hi
    /\ \A j \in 1 .. Len(q) : i < j => q[i].seq < q[j].seq

LEMMA ItemsGrow ==
  ASSUME NEW S, NEW e, NEW n \in Nat
  PROVE  /\ \A q \in Seq(Items(S)) : q \in Seq(Items(S \cup {e}))
         /\ [seq |-> n, ev |-> e] \in Items(S \cup {e})
<1> DEFINE A == Items(S)
           B == Items(S \cup {e})
<1>1. A \subseteq B /\ [seq |-> n, ev |-> e] \in B
  BY DEF Items
<1> HIDE DEF A, B
<1>2. \A q \in Seq(A) : q \in Seq(B)
  BY <1>1
<1> QED BY <1>1, <1>2 DEF A, B

LEMMA AppendFacts ==
  ASSUME NEW T, NEW q \in Seq(T), NEW x \in T
  PROVE  /\ Append(q, x) \in Seq(T)
         /\ Len(q) \in Nat
         /\ Len(Append(q, x)) = Len(q) + 1
         /\ Append(q, x)[Len(q) + 1] = x
         /\ \A i \in 1 .. Len(q) : Append(q, x)[i] = q[i] /\ q[i] \in T
OBVIOUS

LEMMA TailFacts ==
  ASSUME NEW T, NEW q \in Seq(T), q # <<>>
  PROVE  /\ Tail(q) \in Seq(T)
         /\ Len(q) \in Nat \ {0}
         /\ Head(q) = q[1] /\ Head(q) \in T
         /\ Len(Tail(q)) = Len(q) - 1
         /\ \A i \in 1 .. Len(q) - 1 : Tail(q)[i] = q[i + 1]
OBVIOUS

LEMMA OrderedAppend ==
  ASSUME NEW S, NEW q \in Seq(Items(S)), NEW x \in Items(S),
         NEW lo \in Nat, NEW hi \in Nat, Ordered(q, lo, hi),
         lo < x.seq, hi < x.seq
  PROVE  Ordered(Append(q, x), lo, x.seq)
<1> DEFINE r == Append(q, x)
<1>1. /\ Len(q) \in Nat /\ Len(r) = Len(q) + 1 /\ r[Len(q) + 1] = x
      /\ \A i \in 1 .. Len(q) : r[i] = q[i] /\ q[i] \in Items(S)
  BY AppendFacts
<1>2. \A i \in 1 .. Len(q) : q[i].seq \in Nat
  BY <1>1 DEF Items
<1>3. x.seq \in Nat
  BY DEF Items
<1> HIDE DEF r
<1>4. ASSUME NEW i \in 1 .. Len(r)
      PROVE  lo < r[i].seq /\ r[i].seq <= x.seq
  <2>1. CASE i = Len(q) + 1
    BY <1>1, <1>3, <2>1
  <2>2. CASE i \in 1 .. Len(q)
    BY <1>1, <1>2, <1>3, <2>2 DEF Ordered
  <2> QED BY <1>1, <2>1, <2>2
<1>5. ASSUME NEW i \in 1 .. Len(r), NEW j \in 1 .. Len(r), i < j
      PROVE  r[i].seq < r[j].seq
  <2>1. i \in 1 .. Len(q)
    BY <1>1, <1>5
  <2>2. CASE j = Len(q) + 1
    BY <1>1, <1>2, <1>3, <2>1, <2>2 DEF Ordered
  <2>3. CASE j \in 1 .. Len(q)
    BY <1>1, <1>5, <2>1, <2>3 DEF Ordered
  <2> QED BY <1>1, <2>2, <2>3
<1> QED BY <1>4, <1>5 DEF Ordered, r

LEMMA OrderedTail ==
  ASSUME NEW S, NEW q \in Seq(Items(S)), NEW lo \in Nat, NEW hi \in Nat,
         Ordered(q, lo, hi), q # <<>>
  PROVE  /\ Ordered(Tail(q), Head(q).seq, hi)
         /\ Head(q).seq \in Nat /\ Head(q).seq <= hi
<1> DEFINE r == Tail(q)
<1>1. /\ Len(q) \in Nat \ {0} /\ Len(r) = Len(q) - 1
      /\ Head(q) = q[1] /\ Head(q) \in Items(S)
      /\ \A i \in 1 .. Len(q) - 1 : r[i] = q[i + 1]
  BY TailFacts
<1> HIDE DEF r
<1>2. Head(q).seq \in Nat /\ Head(q).seq <= hi
  BY <1>1 DEF Items, Ordered
<1>3. ASSUME NEW i \in 1 .. Len(r)
      PROVE  /\ Head(q).seq < r[i].seq /\ r[i].seq <= hi
             /\ \A j \in 1 .. Len(r) : i < j => r[i].seq < r[j].seq
  <2>1. /\ i + 1 \in 1 .. Len(q) /\ 1 \in 1 .. Len(q) /\ 1 < i + 1
        /\ r[i] = q[i + 1]
    BY <1>1
  <2>2. q[1].seq < q[i + 1].seq /\ q[i + 1].seq <= hi
    BY <2>1 DEF Ordered
  <2>3. ASSUME NEW j \in 1 .. Len(r), i < j
        PROVE  r[i].seq < r[j].seq
    <3>1. j + 1 \in 1 .. Len(q) /\ i + 1 < j + 1 /\ r[j] = q[j + 1]
      BY <1>1, <2>3
    <3> QED BY <2>1, <3>1 DEF Ordered
  <2> QED BY <1>1, <2>1, <2>2, <2>3
<1> QED BY <1>2, <1>3 DEF Ordered, r

LEMMA WindowIsOrdered ==
  ASSUME NEW S, NEW s \in SessionOver(S)
  PROVE  Window(s) <=> /\ Len(s.buf) <= RingMax /\ s.floor <= s.seq
                       /\ Ordered(s.buf, s.floor, s.seq)
<1>1. s.buf \in Seq(Items(S))
  BY DEF SessionOver
<1>2. DOMAIN s.buf = 1 .. Len(s.buf)
  BY <1>1
<1> QED BY <1>2 DEF Window, Ordered

\* An event takes the next id.
LEMMA RetainKept ==
  ASSUME NEW s, NEW e, Kept(s), s.tracked
  PROVE  LET t == Retain([s EXCEPT !.seq = s.seq + 1], e)
         IN  Kept(t) /\ t.pins = s.pins
<1>1. PICK S : s \in SessionOver(S)
  BY DEF Kept
<1> DEFINE n == s.seq + 1
           u == [s EXCEPT !.seq = n]
           t == Retain(u, e)
           item == [seq |-> n, ev |-> e]
           T == S \cup {e}
<1>2. /\ s.seq \in Nat /\ n \in Nat /\ s.floor \in Nat /\ s.buf \in Seq(Items(S))
      /\ s.seq < n
  BY <1>1 DEF SessionOver
<1>3. s.buf \in Seq(Items(T)) /\ item \in Items(T) /\ item.seq = n
  BY <1>2, ItemsGrow
<1> HIDE DEF T, item
<1>4. /\ Len(s.buf) <= RingMax /\ s.floor <= s.seq
      /\ Ordered(s.buf, s.floor, s.seq)
  BY <1>1, WindowIsOrdered DEF Kept
<1>5. u \in SessionOver(T) /\ u.buf = s.buf /\ u.seq = n /\ u.floor = s.floor
      /\ u.pins = s.pins /\ u.tracked
  BY <1>1, <1>2, <1>3 DEF SessionOver
<1> HIDE DEF u, n
<1>6. ASSUME e \in Trace
      PROVE  Kept(t) /\ t.pins = s.pins
  <2>1. t = u
    BY <1>6 DEF Retain
  <2>2. Ordered(u.buf, u.floor, u.seq)
    <3>1. \A i \in 1 .. Len(s.buf) : s.buf[i] \in Items(S)
      BY <1>2
    <3>2. \A i \in 1 .. Len(s.buf) : s.buf[i].seq \in Nat
      BY <3>1 DEF Items
    <3> QED BY <1>2, <1>4, <1>5, <3>2 DEF Ordered
  <2>3. Window(u)
    BY <1>2, <1>4, <1>5, <2>2, WindowIsOrdered
  <2> QED BY <1>5, <2>1, <2>3 DEF Kept
<1>7. ASSUME e \notin Trace /\ Len(s.buf) < RingMax
      PROVE  Kept(t) /\ t.pins = s.pins
  <2> DEFINE q == Append(s.buf, item)
             v == [u EXCEPT !.buf = q]
  <2>1. t = v
    BY <1>5, <1>7 DEF Retain, item
  <2>2. q \in Seq(Items(T)) /\ Len(q) = Len(s.buf) + 1 /\ Len(s.buf) \in Nat
    BY <1>3, AppendFacts
  <2>3. Ordered(q, s.floor, n)
    BY <1>2, <1>3, <1>4, OrderedAppend
  <2> HIDE DEF q
  <2>4. v \in SessionOver(T) /\ v.buf = q /\ v.seq = n /\ v.floor = s.floor
        /\ v.pins = s.pins /\ v.tracked
    BY <1>5, <2>2 DEF SessionOver
  <2> HIDE DEF v
  <2>5. Len(q) <= RingMax
    BY <1>7, <2>2, RingMaxPositive
  <2>6. Window(v)
    BY <1>2, <1>4, <2>3, <2>4, <2>5, WindowIsOrdered
  <2> QED BY <2>1, <2>4, <2>6 DEF Kept
<1>8. ASSUME e \notin Trace /\ ~(Len(s.buf) < RingMax)
      PROVE  Kept(t) /\ t.pins = s.pins
  <2> DEFINE q == Append(Tail(s.buf), item)
             lo == Head(s.buf).seq
             v == [u EXCEPT !.buf = q, !.floor = lo]
  <2>1. t = v
    BY <1>5, <1>8 DEF Retain, item
  <2>2. s.buf # <<>>
    BY <1>2, <1>8, RingMaxPositive
  <2>3. Tail(s.buf) \in Seq(Items(T)) /\ Len(Tail(s.buf)) = Len(s.buf) - 1
        /\ Len(s.buf) \in Nat
    BY <1>3, <2>2, TailFacts
  <2>4. Ordered(Tail(s.buf), lo, s.seq) /\ lo \in Nat /\ lo <= s.seq
    BY <1>2, <1>4, <2>2, OrderedTail
  <2> HIDE DEF lo
  <2>5. q \in Seq(Items(T)) /\ Len(q) = Len(s.buf)
    BY <1>3, <2>3, AppendFacts
  <2>a. lo < item.seq /\ s.seq < item.seq
    BY <1>2, <1>3, <2>4
  <2>6. Ordered(q, lo, n)
    BY <1>2, <1>3, <2>3, <2>4, <2>a, OrderedAppend
  <2> HIDE DEF q
  <2>7. v \in SessionOver(T) /\ v.buf = q /\ v.seq = n /\ v.floor = lo
        /\ v.pins = s.pins /\ v.tracked
    BY <1>5, <2>4, <2>5 DEF SessionOver
  <2> HIDE DEF v
  <2>8. Window(v)
    BY <1>2, <1>4, <2>4, <2>5, <2>6, <2>7, WindowIsOrdered
  <2> QED BY <2>1, <2>7, <2>8 DEF Kept
<1> QED BY <1>6, <1>7, <1>8 DEF u, n

LEMMA AnnounceKept ==
  ASSUME NEW s, NEW e, Kept(s)
  PROVE  Kept(Announce(s, e)) /\ Announce(s, e).pins = s.pins
<1> DEFINE t == Touch(s)
<1>1. Kept(t) /\ t.tracked /\ t.pins = s.pins
  BY TouchKept
<1> HIDE DEF t
<1>2. LET u == Retain([t EXCEPT !.seq = t.seq + 1], e)
      IN  Kept(u) /\ u.pins = t.pins
  BY <1>1, RetainKept
<1>3. Announce(s, e) = Retain([t EXCEPT !.seq = t.seq + 1], e)
  BY DEF Announce, t
<1> QED BY <1>1, <1>2, <1>3

LEMMA WindowSame ==
  ASSUME NEW s, NEW t, Window(s), t.buf = s.buf, t.seq = s.seq, t.floor = s.floor
  PROVE  Window(t)
BY DEF Window

LEMMA CountedKept ==
  ASSUME NEW s, Kept(s)
  PROVE  LET t == [s EXCEPT !.tseq = s.tseq + 1]
         IN  Kept(t) /\ t.pins = s.pins
<1> DEFINE t == [s EXCEPT !.tseq = s.tseq + 1]
<1>1. PICK S : s \in SessionOver(S)
  BY DEF Kept
<1>2. /\ t \in SessionOver(S) /\ t.buf = s.buf /\ t.seq = s.seq
      /\ t.floor = s.floor /\ t.tracked = s.tracked /\ t.pins = s.pins
  BY <1>1 DEF SessionOver
<1> HIDE DEF t
<1>3. Kept(t)
  BY <1>2, WindowSame DEF Kept
<1> QED BY <1>2, <1>3 DEF t

LEMMA PinsKept ==
  ASSUME NEW s, Kept(s), s.tracked, NEW n \in Nat
  PROVE  Kept([s EXCEPT !.pins = n]) /\ [s EXCEPT !.pins = n].pins = n
<1> DEFINE t == [s EXCEPT !.pins = n]
<1>1. PICK S : s \in SessionOver(S)
  BY DEF Kept
<1>2. /\ t \in SessionOver(S) /\ t.buf = s.buf /\ t.seq = s.seq
      /\ t.floor = s.floor /\ t.tracked = s.tracked /\ t.pins = n
  BY <1>1 DEF SessionOver
<1> HIDE DEF t
<1>3. Kept(t)
  BY <1>2, WindowSame DEF Kept
<1> QED BY <1>2, <1>3 DEF t

-----------------------------------------------------------------------------
(* A step of the bus keeps every session and its pins.                     *)

Sessions(f) == f = [p \in Pods |-> f[p]] /\ \A p \in Pods : Kept(f[p])
SamePins == \A p \in Pods : sess'[p].pins = sess[p].pins

LEMMA OneSession ==
  ASSUME Sessions(sess), NEW p \in Pods, NEW s, Kept(s),
         sess' = [sess EXCEPT ![p] = s]
  PROVE  /\ Sessions(sess)'
         /\ sess'[p] = s
         /\ \A q \in Pods : q # p => sess'[q] = sess[q]
BY DEF Sessions

LEMMA BusKeepsSessions ==
  ASSUME Sessions(sess), BusStep
  PROVE  Sessions(sess)' /\ SamePins
<1>1. ASSUME UNCHANGED sess PROVE Sessions(sess)' /\ SamePins
  BY <1>1 DEF Sessions, SamePins
<1>2. ASSUME NEW p \in Pods, NEW s, Kept(s), s.pins = sess[p].pins,
             sess' = [sess EXCEPT ![p] = s]
      PROVE  Sessions(sess)' /\ SamePins
  BY <1>2, OneSession DEF SamePins
<1>3. ASSUME NEW p \in Pods
      PROVE  Kept(sess[p]) /\ Kept(Invalidate(sess[p]))
             /\ Invalidate(sess[p]).pins = sess[p].pins
  BY InvalidateKept DEF Sessions
<1>4. ASSUME NEW p \in Pods, NEW e \in Events, Emit(p, e)
      PROVE  Sessions(sess)' /\ SamePins
  <2> DEFINE t == Announce(sess[p], e)
             s == [t EXCEPT !.tseq = t.tseq + 1]
  <2>1. Kept(t) /\ t.pins = sess[p].pins
    BY <1>3, AnnounceKept
  <2>2. sess' = [sess EXCEPT ![p] = s]
    BY <1>4 DEF Emit
  <2> HIDE DEF t
  <2>3. Kept(s) /\ s.pins = t.pins
    BY <2>1, CountedKept
  <2> HIDE DEF s
  <2> QED BY <1>2, <2>1, <2>2, <2>3
<1>5. ASSUME NEW p \in Pods, NEW e \in Events, EmitFails(p, e)
      PROVE  Sessions(sess)' /\ SamePins
  <2>1. sess' = [sess EXCEPT ![p] = Invalidate(sess[p])]
    BY <1>5 DEF EmitFails
  <2> QED BY <1>2, <1>3, <2>1
<1>6. ASSUME NEW p \in Pods, Reconnect(p)
      PROVE  Sessions(sess)' /\ SamePins
  <2>1. CASE sess[p].tracked
    <3>1. sess' = [sess EXCEPT ![p] = Invalidate(sess[p])]
      BY <1>6, <2>1 DEF Reconnect
    <3> QED BY <1>2, <1>3, <3>1
  <2>2. CASE ~sess[p].tracked
    <3>1. sess' = [sess EXCEPT ![p] = sess[p]]
      BY <1>6, <2>2 DEF Reconnect
    <3> QED BY <1>2, <1>3, <3>1
  <2> QED BY <2>1, <2>2
<1>7. ASSUME NEW p \in Pods, Evict(p)
      PROVE  Sessions(sess)' /\ SamePins
  <2>1. sess' = [sess EXCEPT ![p] = Untracked(sess[p].gen)] /\ sess[p].pins = 0
    BY <1>7 DEF Evict
  <2>2. sess[p].gen \in Nat
    BY <1>3 DEF Kept, SessionOver
  <2>3. Kept(Untracked(sess[p].gen)) /\ Untracked(sess[p].gen).pins = 0
    BY <2>2, UntrackedKept
  <2> QED BY <1>2, <2>1, <2>3
<1>8. ASSUME NEW p \in Pods, NEW o \in Pods, DeliverNext(p, o)
      PROVE  Sessions(sess)' /\ SamePins
  <2> DEFINE s == Announce(sess[p], Head(chain[p][o]).ev)
  <2>1. sess' = [sess EXCEPT ![p] = s]
    BY <1>8 DEF DeliverNext
  <2>2. Kept(s) /\ s.pins = sess[p].pins
    BY <1>3, AnnounceKept
  <2> QED BY <1>2, <2>1, <2>2
<1>9. ASSUME NEW p \in Pods, NEW o \in Pods, ResetNext(p, o)
      PROVE  Sessions(sess)' /\ SamePins
  <2>1. sess' = [sess EXCEPT ![p] = Invalidate(sess[p])]
    BY <1>9 DEF ResetNext
  <2> QED BY <1>2, <1>3, <2>1
<1>10. \A p \in Pods, e \in Events : SaveSettles(p, e) => sess' = sess
  BY DEF SaveSettles
<1>11. \A p \in Pods : Publish(p) \/ Disconnect(p) => sess' = sess
  BY SMTT(25) DEF Publish, Disconnect
<1>12. \A p \in Pods : \A i \in 1 .. Len(wire[p]) : Receive(p, i) => sess' = sess
  BY DEF Receive
<1>13. \A p, o \in Pods : FlushTimer(p, o) \/ SkipNext(p, o) \/ EvictReceive(p, o)
                            => sess' = sess
  BY DEF FlushTimer, SkipNext, EvictReceive
<1>14. CASE \E p \in Pods, e \in Events :
              \/ Emit(p, e) /\ HearEvent(p, e)
              \/ EmitFails(p, e) /\ HearReset(p)
              \/ SaveSettles(p, e) /\ HearNothing
  BY <1>1, <1>4, <1>5, <1>10, <1>14
<1>15. CASE \E p \in Pods :
              \/ Publish(p) /\ HearNothing
              \/ \E i \in 1 .. Len(wire[p]) : Receive(p, i) /\ HearNothing
              \/ Disconnect(p) /\ HearNothing
              \/ Reconnect(p) /\ HearReset(p)
              \/ Evict(p) /\ HearNothing
  BY <1>1, <1>6, <1>7, <1>11, <1>12, <1>15
<1>16. CASE \E p, o \in Pods :
              \/ FlushTimer(p, o) /\ HearNothing
              \/ DeliverNext(p, o) /\ HearEvent(p, Head(chain[p][o]).ev)
              \/ ResetNext(p, o) /\ HearReset(p)
              \/ SkipNext(p, o) /\ HearNothing
              \/ EvictReceive(p, o) /\ HearNothing
  BY <1>1, <1>8, <1>9, <1>13, <1>16
<1> QED BY <1>14, <1>15, <1>16 DEF BusStep

-----------------------------------------------------------------------------
(* What the stream hears neither opens nor releases it.                    *)

SameHold(c, d) ==
  /\ IsConn(d)
  /\ d.pod = c.pod
  /\ (d.phase = "watch") <=> (c.phase = "watch")
  /\ (d.phase = "none") <=> (c.phase = "none")

LEMMA HoldUpdates ==
  ASSUME NEW c, IsConn(c), NEW x
  PROVE  /\ SameHold(c, [c EXCEPT !.hit = x])
         /\ SameHold(c, [c EXCEPT !.buf = x])
<1>1. PICK A : c \in ConnOver(A)
  BY DEF IsConn
<1> DEFINE B == A \cup {x}
           d == [c EXCEPT !.hit = x]
           f == [c EXCEPT !.buf = x]
<1>2. d \in ConnOver(B) /\ d.pod = c.pod /\ d.phase = c.phase
  BY <1>1 DEF ConnOver
<1>3. f \in ConnOver(B) /\ f.pod = c.pod /\ f.phase = c.phase
  BY <1>1 DEF ConnOver
<1> HIDE DEF B, d, f
<1>4. SameHold(c, d) /\ SameHold(c, f)
  BY <1>2, <1>3 DEF SameHold, IsConn
<1> QED BY <1>4 DEF d, f

LEMMA ClosingHold ==
  ASSUME NEW c, IsConn(c)
  PROVE  /\ IsConn(Closing(c)) /\ Closing(c).phase = "closing"
         /\ Closing(c).pod = c.pod
<1>1. PICK A : c \in ConnOver(A)
  BY DEF IsConn
<1> DEFINE d == Closing(c)
           B == A \cup {"closing", <<>>, {}}
<1>2. d \in ConnOver(B) /\ d.pod = c.pod /\ d.phase = "closing"
  BY <1>1 DEF ConnOver, Closing
<1> HIDE DEF B, d
<1>3. IsConn(d)
  BY <1>2 DEF IsConn
<1> QED BY <1>2, <1>3 DEF d

LEMMA HearKeepsHold ==
  ASSUME IsConn(conn), NEW p, NEW e, HearEvent(p, e) \/ HearReset(p) \/ HearNothing
  PROVE  SameHold(conn, conn')
<1>1. ASSUME conn.phase \notin {"none", "watch"}
      PROVE  SameHold(conn, Closing(conn))
  BY <1>1, ClosingHold DEF SameHold
<1>2. SameHold(conn, conn)
  BY DEF SameHold
<1>3. ASSUME NEW q,
             \/ conn' = conn
             \/ conn' = [conn EXCEPT !.hit = TRUE]
             \/ conn' = [conn EXCEPT !.buf = q]
             \/ conn.phase \notin {"none", "watch"} /\ conn' = Closing(conn)
      PROVE  SameHold(conn, conn')
  <2>1. /\ SameHold(conn, [conn EXCEPT !.hit = TRUE])
        /\ SameHold(conn, [conn EXCEPT !.buf = q])
    BY HoldUpdates
  <2>2. CASE conn' = conn
    BY <1>2, <2>2
  <2>3. CASE conn' = [conn EXCEPT !.hit = TRUE]
    BY <2>1, <2>3
  <2>4. CASE conn' = [conn EXCEPT !.buf = q]
    BY <2>1, <2>4
  <2>5. CASE conn.phase \notin {"none", "watch"} /\ conn' = Closing(conn)
    BY <1>1, <2>5
  <2> QED BY <1>3, <2>2, <2>3, <2>4, <2>5
<1>4. CASE HearNothing
  BY <1>2, <1>4 DEF HearNothing
<1>5. CASE HearReset(p)
  <2> DEFINE q == <<Control("reset", NoCursor)>>
  <2>1. \/ conn' = conn
        \/ conn' = [conn EXCEPT !.hit = TRUE]
        \/ conn' = [conn EXCEPT !.buf = q]
        \/ conn.phase \notin {"none", "watch"} /\ conn' = Closing(conn)
    BY <1>5 DEF HearReset, Deaf
  <2> HIDE DEF q
  <2> QED BY <1>3, <2>1
<1>6. CASE HearEvent(p, e)
  <2> DEFINE q == Append(conn.buf, EventFrame(Cursor(p, sess'[p]), e))
  <2>1. \/ conn' = conn
        \/ conn' = [conn EXCEPT !.hit = TRUE]
        \/ conn' = [conn EXCEPT !.buf = q]
        \/ conn.phase \notin {"none", "watch"} /\ conn' = Closing(conn)
    BY <1>6 DEF HearEvent, Deaf
  <2> HIDE DEF q
  <2> QED BY <1>3, <2>1
<1> QED BY <1>4, <1>5, <1>6

LEMMA BusKeepsHold ==
  ASSUME IsConn(conn), BusStep
  PROVE  SameHold(conn, conn')
BY HearKeepsHold DEF BusStep

-----------------------------------------------------------------------------
(* The steps of the client and its stream.                                 *)

\* The stream stays open, or unauthorised, or away; the pins stay the same.
LEMMA HoldKeepsInv ==
  ASSUME IInv, Sessions(sess)', SamePins, SameHold(conn, conn')
  PROVE  IInv'
BY DEF IInv, Sessions, SamePins, SameHold, PinsMatch

LEMMA Here ==
  ASSUME IInv
  PROVE  /\ Sessions(sess) /\ IsConn(conn)
         /\ conn.phase # "none" => conn.pod \in Pods
BY DEF IInv, Sessions

\* An open stream writes: it stays open whatever the fields become.
LEMMA WritesKeepHold ==
  ASSUME IsConn(conn), conn.phase \notin {"none", "watch"}, NEW frame, NEW x, NEW y
  PROVE  /\ SameHold(conn, Settled([conn EXCEPT !.phase = "replay", !.todo = x]))
         /\ SameHold(conn, Settled([Wrote(frame) EXCEPT !.todo = x, !.sent = y]))
         /\ SameHold(conn, Settled([Wrote(frame) EXCEPT !.buf = x]))
         /\ SameHold(conn, [Wrote(frame) EXCEPT !.buf = x])
         /\ SameHold(conn, Settled([conn EXCEPT !.buf = x]))
<1> DEFINE Open(c) == IsConn(c) /\ c.pod = conn.pod /\ c.phase \notin {"none", "watch"}
<1>1. \A c : Open(c) => SameHold(conn, c)
  BY DEF SameHold
<1>2. ASSUME NEW c, Open(c) PROVE Open(Settled(c))
  <2>1. PICK A : c \in ConnOver(A)
    BY <1>2 DEF IsConn
  <2> DEFINE B == A \cup {"live", {}}
             d == [c EXCEPT !.phase = "live", !.sent = {}]
  <2>2. d \in ConnOver(B) /\ d.pod = c.pod /\ d.phase = "live"
    BY <2>1 DEF ConnOver
  <2>3. Settled(c) = c \/ Settled(c) = d
    BY DEF Settled
  <2> HIDE DEF B, d
  <2> QED BY <1>2, <2>2, <2>3 DEF IsConn
<1>3. ASSUME NEW c, Open(c), NEW u, NEW v
      PROVE  /\ Open([c EXCEPT !.phase = "replay", !.todo = u])
             /\ Open([c EXCEPT !.todo = u, !.sent = v])
             /\ Open([c EXCEPT !.buf = u])
             /\ Open([c EXCEPT !.high = u, !.ordered = v])
  <2>1. PICK A : c \in ConnOver(A)
    BY <1>3 DEF IsConn
  <2> DEFINE B == A \cup {"replay", u, v}
             d1 == [c EXCEPT !.phase = "replay", !.todo = u]
             d2 == [c EXCEPT !.todo = u, !.sent = v]
             d3 == [c EXCEPT !.buf = u]
             d4 == [c EXCEPT !.high = u, !.ordered = v]
  <2>2. d1 \in ConnOver(B) /\ d1.pod = c.pod /\ d1.phase = "replay"
    BY <2>1 DEF ConnOver
  <2>3. d2 \in ConnOver(B) /\ d2.pod = c.pod /\ d2.phase = c.phase
    BY <2>1 DEF ConnOver
  <2>4. d3 \in ConnOver(B) /\ d3.pod = c.pod /\ d3.phase = c.phase
    BY <2>1 DEF ConnOver
  <2>5. d4 \in ConnOver(B) /\ d4.pod = c.pod /\ d4.phase = c.phase
    BY <2>1 DEF ConnOver
  <2> HIDE DEF B, d1, d2, d3, d4
  <2>6. Open(d1) /\ Open(d2) /\ Open(d3) /\ Open(d4)
    BY <1>3, <2>2, <2>3, <2>4, <2>5 DEF IsConn
  <2> QED BY <2>6 DEF d1, d2, d3, d4
<1>4. Open(conn)
  OBVIOUS
<1>5. Open(Wrote(frame))
  <2> DEFINE v == conn.ordered /\ Later(frame.id, conn.high)
  <2>1. Wrote(frame) = conn \/ Wrote(frame) = [conn EXCEPT !.high = frame.id, !.ordered = v]
    BY SMTT(25) DEF Wrote
  <2> HIDE DEF v, Open
  <2>2. Open([conn EXCEPT !.high = frame.id, !.ordered = v])
    BY ZenonT(40), <1>3, <1>4
  <2> QED BY <1>4, <2>1, <2>2
<1> HIDE DEF Open
<1>6. SameHold(conn, Settled([conn EXCEPT !.phase = "replay", !.todo = x]))
  BY ZenonT(40), <1>1, <1>2, <1>3, <1>4
<1>7. SameHold(conn, Settled([Wrote(frame) EXCEPT !.todo = x, !.sent = y]))
  BY ZenonT(40), <1>1, <1>2, <1>3, <1>5
<1>8. /\ SameHold(conn, [Wrote(frame) EXCEPT !.buf = x])
      /\ SameHold(conn, Settled([Wrote(frame) EXCEPT !.buf = x]))
  BY ZenonT(40), <1>1, <1>2, <1>3, <1>5
<1>9. SameHold(conn, Settled([conn EXCEPT !.buf = x]))
  BY <1>1, <1>2, <1>3, <1>4
<1> QED BY <1>6, <1>7, <1>8, <1>9

LEMMA WritesKeepInv ==
  ASSUME IInv, WriteConnected \/ WriteReplay \/ WriteBuffered \/ WriteLive
  PROVE  IInv'
<1>1. IsConn(conn) /\ Sessions(sess)
  BY Here
<1>2. sess' = sess /\ conn.phase \notin {"none", "watch"}
  BY DEF WriteConnected, WriteReplay, WriteBuffered, WriteLive
<1>3. Sessions(sess)' /\ SamePins
  BY <1>1, <1>2 DEF Sessions, SamePins
<1>4. SameHold(conn, conn')
  <2>1. CASE WriteConnected
    BY <1>1, <1>2, <2>1, WritesKeepHold DEF WriteConnected
  <2>2. CASE WriteReplay
    BY <1>1, <1>2, <2>2, WritesKeepHold DEF WriteReplay
  <2>3. CASE WriteBuffered
    BY ZenonT(40), <1>1, <1>2, <2>3, WritesKeepHold DEF WriteBuffered
  <2>4. CASE WriteLive
    <3>1. SameHold(conn, Closing(conn))
      BY <1>1, <1>2, ClosingHold DEF SameHold
    <3> QED BY ZenonT(40), <1>1, <1>2, <2>4, <3>1, WritesKeepHold DEF WriteLive
  <2> QED BY <2>1, <2>2, <2>3, <2>4
<1> QED BY <1>3, <1>4, HoldKeepsInv

LEMMA QuietStepsKeepInv ==
  ASSUME IInv, ApplyView \/ Heartbeat \/ Recover \/ UNCHANGED vars
  PROVE  IInv'
<1>1. sess' = sess /\ conn' = conn
  BY DEF ApplyView, Heartbeat, Recover, NoBus, vars, busVars
<1> QED BY <1>1 DEF IInv, PinsMatch

LEMMA ReadViewKeepsInv ==
  ASSUME IInv, NEW p \in Pods, ReadView(p)
  PROVE  IInv'
<1>1. sess' = [sess EXCEPT ![p] = Touch(sess[p])] /\ conn' = conn
  BY DEF ReadView, Track
<1>2. Kept(Touch(sess[p])) /\ Touch(sess[p]).pins = sess[p].pins
  BY Here, TouchKept DEF Sessions
<1>3. Sessions(sess)' /\ SamePins
  BY <1>1, <1>2, Here, OneSession DEF SamePins
<1>4. SameHold(conn, conn')
  BY <1>1, Here DEF SameHold
<1> QED BY <1>3, <1>4, HoldKeepsInv

LEMMA ConnectKeepsInv ==
  ASSUME IInv, NEW p \in Pods, Connect(p)
  PROVE  IInv'
<1> DEFINE c == NoConn(conn.silent)
<1>1. sess' = sess /\ conn.phase = "none"
  BY DEF Connect
<1>2. PICK x : conn' = [c EXCEPT !.phase = "watch", !.pod = p, !.cursor = x]
  BY DEF Connect
<1> DEFINE A == {"none", "watch", NoPod, p, NoCursor, x, FALSE, TRUE, <<>>, {}, conn.silent}
<1>3. c \in ConnOver(A)
  BY DEF NoConn, ConnOver
<1>4. "watch" \in A /\ p \in A /\ x \in A
  OBVIOUS
<1> HIDE DEF A, c
<1>5. conn' \in ConnOver(A) /\ conn'.phase = "watch" /\ conn'.pod = p
  BY <1>2, <1>3, <1>4 DEF ConnOver
<1>6. IsConn(conn)'
  BY <1>5 DEF IsConn
<1>7. p # NoPod
  BY BusConstants
<1>8. \A q \in Pods : sess[q].pins = 0
  BY <1>1, BusConstants DEF IInv, PinsMatch
<1>9. PinsMatch'
  BY <1>1, <1>5, <1>8 DEF PinsMatch
<1> QED BY <1>1, <1>5, <1>6, <1>7, <1>9 DEF IInv

LEMMA PinStep ==
  ASSUME Sessions(sess), NEW p \in Pods, NEW n \in Nat, NEW s, Kept(s), s.tracked,
         sess' = [sess EXCEPT ![p] = [s EXCEPT !.pins = n]]
  PROVE  /\ Sessions(sess)' /\ sess'[p].pins = n
         /\ \A q \in Pods : q # p => sess'[q] = sess[q]
<1> DEFINE t == [s EXCEPT !.pins = n]
<1>1. Kept(t) /\ t.pins = n
  BY PinsKept
<1>2. sess' = [sess EXCEPT ![p] = t]
  OBVIOUS
<1> HIDE DEF t
<1> QED BY <1>1, <1>2, OneSession

LEMMA ActivateKeepsInv ==
  ASSUME IInv, Activate
  PROVE  IInv'
<1> DEFINE p == conn.pod
           s == Touch(sess[p])
<1>1. conn.phase = "watch" /\ p \in Pods /\ p # NoPod /\ sess[p].pins = 0
  BY BusConstants DEF Activate, IInv, PinsMatch
<1>2. Kept(s) /\ s.tracked /\ s.pins = 0
  BY <1>1, TouchKept DEF IInv
<1>3. sess' = [sess EXCEPT ![p] = [s EXCEPT !.pins = 1]]
  BY <1>2 DEF Activate, Pin
<1> HIDE DEF s
<1>4. /\ Sessions(sess)' /\ sess'[p].pins = 1
      /\ \A q \in Pods : q # p => sess'[q] = sess[q]
  BY <1>1, <1>2, <1>3, Here, PinStep
<1>5. IsConn(conn') /\ conn'.pod = p /\ conn'.phase \in {"closing", "opening"}
  <2>1. PICK A : conn \in ConnOver(A)
    BY DEF IInv, IsConn
  <2>2. CASE conn.hit
    <3>1. conn' = Closing(conn)
      BY <2>2 DEF Activate
    <3> QED BY <3>1, Here, ClosingHold
  <2>3. CASE ~conn.hit
    <3>1. PICK x, y : conn' = [conn EXCEPT !.phase = "opening", !.buf = x, !.todo = y]
      BY <2>3 DEF Activate
    <3>2. conn' \in ConnOver(A \cup {"opening", x, y})
      BY <2>1, <3>1 DEF ConnOver
    <3>3. conn'.pod = p /\ conn'.phase = "opening"
      BY <2>1, <3>1 DEF ConnOver
    <3> QED BY <3>2, <3>3 DEF IsConn
  <2> QED BY <2>2, <2>3
<1> QED BY <1>1, <1>4, <1>5 DEF IInv, Sessions, PinsMatch

\* The stream's cleanup, and a client that leaves.
LEMMA EndKeepsInv ==
  ASSUME IInv, EndStream \/ \E silent \in BOOLEAN : Leave(silent)
  PROVE  IInv'
<1> DEFINE p == conn.pod
<1>1. conn.phase # "none" /\ p \in Pods /\ p # NoPod
  BY BusConstants DEF EndStream, Leave, IInv
<1>2. PICK z : conn' = NoConn(z)
  BY DEF EndStream, Leave
<1>3. IsConn(conn') /\ conn'.phase = "none" /\ conn'.pod = NoPod
  <2> DEFINE A == {"none", NoPod, NoCursor, FALSE, TRUE, <<>>, {}, z}
  <2>1. conn' \in ConnOver(A)
    BY <1>2 DEF NoConn, ConnOver
  <2> HIDE DEF A
  <2> QED BY <1>2, <2>1 DEF IsConn, NoConn
<1>4. CASE conn.phase = "watch"
  <2>1. sess' = sess
    BY <1>4 DEF EndStream, Leave
  <2> QED BY <1>1, <1>3, <1>4, <2>1, BusConstants DEF IInv, PinsMatch
<1>5. CASE conn.phase # "watch"
  <2>1. Kept(sess[p]) /\ sess[p].pins = 1
    BY <1>1, <1>5 DEF IInv, PinsMatch
  <2>2. sess[p].tracked
    BY <2>1 DEF Kept
  <2>3. Unpin(p)
    BY <1>5 DEF EndStream, Leave
  <2>4. sess' = [sess EXCEPT ![p] = [sess[p] EXCEPT !.pins = sess[p].pins - 1]]
    BY <2>3 DEF Unpin
  <2>5. sess' = [sess EXCEPT ![p] = [sess[p] EXCEPT !.pins = 0]]
    BY <2>1, <2>4
  <2>6. /\ Sessions(sess)' /\ sess'[p].pins = 0
        /\ \A q \in Pods : q # p => sess'[q] = sess[q]
    BY <1>1, <2>1, <2>2, <2>5, Here, PinStep
  <2> QED BY <1>1, <1>3, <1>5, <2>6, BusConstants DEF IInv, Sessions, PinsMatch
<1> QED BY <1>4, <1>5

-----------------------------------------------------------------------------
LEMMA InitInv == Init => IInv
<1>1. ASSUME NEW p \in Pods
      PROVE  Kept(Untracked(0)) /\ Untracked(0).pins = 0
  BY UntrackedKept
<1> DEFINE A == {"none", "live", NoPod, NoCursor, FALSE, TRUE, <<>>, {}}
<1>2. NoConn(FALSE) \in ConnOver(A)
  BY DEF NoConn, ConnOver
<1>3. NoConn(FALSE).phase = "none" /\ NoConn(FALSE).pod = NoPod
  BY DEF NoConn
<1>4. CASE InitOpening
  <2>1. sess = [p \in Pods |-> Untracked(0)] /\ conn = NoConn(FALSE)
    BY <1>4 DEF InitOpening, BusInitWith
  <2>2. IsConn(conn)
    BY <1>2, <2>1 DEF IsConn
  <2> QED BY <1>1, <1>3, <2>1, <2>2, BusConstants DEF IInv, PinsMatch
<1>5. ASSUME NEW p \in Pods, InitLive(p) PROVE IInv
  <2> DEFINE here == [pod |-> p, gen |-> 1, seq |-> 0]
             t == Touch(Untracked(0))
             s == [t EXCEPT !.pins = 1]
             c == NoConn(FALSE)
  <2>1. Kept(t) /\ t.tracked
    BY UntrackedKept, TouchKept
  <2>2. sess = [q \in Pods |-> IF q = p THEN s ELSE Untracked(0)]
    BY <1>5 DEF InitLive, BusInitWith
  <2> HIDE DEF t
  <2>3. Kept(s) /\ s.pins = 1
    BY <2>1, PinsKept
  <2>4. conn = [c EXCEPT !.phase = "live", !.pod = p, !.cursor = here]
    BY <1>5 DEF InitLive
  <2> DEFINE B == A \cup {p, here}
  <2>5. c \in ConnOver(A) /\ "live" \in A
    BY <1>2
  <2> HIDE DEF c, here, s, A
  <2>6. conn \in ConnOver(B) /\ conn.phase = "live" /\ conn.pod = p
    BY <2>4, <2>5 DEF ConnOver
  <2>7. IsConn(conn) /\ p # NoPod
    BY <2>6, BusConstants DEF IsConn
  <2> QED BY <1>1, <2>2, <2>3, <2>6, <2>7 DEF IInv, PinsMatch
<1> QED BY <1>4, <1>5 DEF Init

LEMMA StepInv ==
  ASSUME IInv, [Next]_vars
  PROVE  IInv'
<1>1. CASE BusStep
  <2>1. Sessions(sess)' /\ SamePins
    BY <1>1, Here, BusKeepsSessions
  <2>2. SameHold(conn, conn')
    BY <1>1, Here, BusKeepsHold
  <2> QED BY <2>1, <2>2, HoldKeepsInv
<1>2. CASE ClientStep
  BY <1>2, ReadViewKeepsInv, ConnectKeepsInv, QuietStepsKeepInv, ActivateKeepsInv,
     WritesKeepInv, EndKeepsInv DEF ClientStep
<1>3. CASE UNCHANGED vars
  BY <1>3, QuietStepsKeepInv
<1> QED BY <1>1, <1>2, <1>3 DEF Next

\* The replay window of every pod stays in order and bounded, and a session is
\* pinned exactly while a stream holds it (retain, invalidateReplay,
\* getEventsAfter, pin, subscribe's cleanup).
THEOREM Replay == Spec => []ReplayInv
<1>1. IInv => ReplayInv
  BY DEF IInv, Kept, ReplayWindow, ReplayInv
<1> QED BY <1>1, InitInv, StepInv, PTL DEF Spec

-----------------------------------------------------------------------------
(* The operators on sequences.                                             *)

LEMMA LeastNumber ==
  ASSUME NEW I, I \subseteq Nat, I # {}
  PROVE  \E x \in I : \A y \in I : x <= y
<1>1. PICK x \in I : \A y \in I : ~(<<y, x>> \in OpToRel(<, Nat))
  BY NatLessThanWellFounded, WFMin
<1>2. \A y \in I : ~(y < x)
  BY <1>1 DEF OpToRel
<1> QED BY <1>2

Rising(s, n, I) ==
  /\ s \in [1 .. n -> I]
  /\ \A i, j \in 1 .. n : i < j => s[i] < s[j]

\* A rising list of a smaller set goes on below it with a lesser number.
LEMMA RisingFrom ==
  ASSUME NEW n \in Nat \ {0}, NEW I, I \subseteq Nat, NEW m \in I,
         \A y \in I : m <= y, NEW s, Rising(s, n - 1, I \ {m})
  PROVE  Rising([i \in 1 .. n |-> IF i = 1 THEN m ELSE s[i - 1]], n, I)
<1> DEFINE t == [i \in 1 .. n |-> IF i = 1 THEN m ELSE s[i - 1]]
<1>1. \A i \in 1 .. n - 1 : s[i] \in I /\ s[i] # m
  BY DEF Rising
<1>2. \A i \in 1 .. n - 1 : m < s[i]
  <2>1. TAKE i \in 1 .. n - 1
  <2>2. s[i] \in I /\ s[i] # m /\ m \in Nat /\ s[i] \in Nat /\ m <= s[i]
    BY <1>1
  <2> QED BY <2>2
<1>3. t \in [1 .. n -> I]
  BY <1>1
<1>4. ASSUME NEW i \in 1 .. n, NEW j \in 1 .. n, i < j
      PROVE  t[i] < t[j]
  <2>1. j - 1 \in 1 .. n - 1 /\ t[j] = s[j - 1]
    BY <1>4
  <2>2. CASE i = 1
    BY <1>2, <2>1, <2>2
  <2>3. CASE i # 1
    <3>1. i - 1 \in 1 .. n - 1 /\ i - 1 < j - 1 /\ t[i] = s[i - 1]
      BY <1>4, <2>3
    <3> QED BY <2>1, <3>1 DEF Rising
  <2> QED BY <2>2, <2>3
<1> HIDE DEF t
<1>5. Rising(t, n, I)
  BY <1>3, <1>4 DEF Rising
<1> QED BY <1>5 DEF t

LEMMA RisingExists ==
  ASSUME NEW I, I \subseteq Nat, IsFiniteSet(I)
  PROVE  \E s : Rising(s, Cardinality(I), I)
<1> DEFINE Bad(J) == J \subseteq Nat /\ IsFiniteSet(J)
                     /\ ~\E s : Rising(s, Cardinality(J), J)
           Sizes == {n \in Nat : \E J \in SUBSET Nat : Bad(J) /\ Cardinality(J) = n}
<1>1. SUFFICES ASSUME Bad(I) PROVE FALSE
  OBVIOUS
<1>2. Cardinality(I) \in Sizes
  BY <1>1, FS_CardinalityType
<1>3. PICK n \in Sizes : \A k \in Sizes : n <= k
  <2>1. Sizes \subseteq Nat /\ Sizes # {}
    BY <1>2
  <2> HIDE DEF Sizes
  <2> QED BY <2>1, LeastNumber
<1>4. PICK J \in SUBSET Nat : Bad(J) /\ Cardinality(J) = n
  BY <1>3
<1>5. n \in Nat
  BY <1>3
<1>6. CASE J = {}
  <2>1. n = 0
    BY <1>4, <1>6, FS_EmptySet
  <2>2. Rising(<<>>, 0, J)
    BY DEF Rising
  <2> QED BY <1>4, <2>1, <2>2
<1>7. CASE J # {}
  <2>1. PICK m \in J : \A y \in J : m <= y
    BY <1>4, <1>7, LeastNumber
  <2> DEFINE K == J \ {m}
  <2>2. IsFiniteSet(K) /\ Cardinality(K) = n - 1 /\ K \in SUBSET Nat
    BY <1>4, FS_RemoveElement
  <2>3. n - 1 \in Nat
    BY <2>2, FS_CardinalityType
  <2>4. n - 1 \notin Sizes
    <3>1. SUFFICES ASSUME n - 1 \in Sizes PROVE FALSE
      OBVIOUS
    <3>2. n <= n - 1
      BY <1>3, <3>1
    <3> QED BY <1>5, <3>2
  <2>5. ~Bad(K)
    BY <2>2, <2>3, <2>4
  <2>6. PICK s : Rising(s, n - 1, K)
    BY <2>2, <2>5
  <2>7. n \in Nat \ {0}
    BY <1>5, <2>3
  <2>8. \E t : Rising(t, n, J)
    BY <1>4, <2>1, <2>6, <2>7, RisingFrom
  <2> QED BY <1>4, <2>8
<1> QED BY <1>6, <1>7

\* Ascending lists every number of the set, in order.
LEMMA AscendingLists ==
  ASSUME NEW I, I \subseteq Nat, IsFiniteSet(I)
  PROVE  /\ Cardinality(I) \in Nat
         /\ Rising(Ascending(I), Cardinality(I), I)
         /\ \A x \in I : \E i \in 1 .. Cardinality(I) : Ascending(I)[i] = x
<1> DEFINE n == Cardinality(I)
           s == Ascending(I)
<1>1. n \in Nat
  BY FS_CardinalityType
<1>2. PICK t : Rising(t, n, I)
  BY RisingExists
<1>3. t \in [1 .. n -> I] /\ \A i, j \in DOMAIN t : i < j => t[i] < t[j]
  BY <1>2 DEF Rising
<1>4. s \in [1 .. n -> I] /\ \A i, j \in DOMAIN s : i < j => s[i] < s[j]
  BY <1>3 DEF Ascending
<1> HIDE DEF s
<1>5. Rising(s, n, I)
  BY <1>4 DEF Rising
<1>6. s \in Injection(1 .. n, I)
  <2>1. \A i, j \in 1 .. n : i # j => s[i] # s[j]
    <3>1. TAKE i, j \in 1 .. n
    <3>2. HAVE i # j
    <3>a. s[i] \in I /\ s[j] \in I
      BY <1>4
    <3>b. s[i] \in Nat /\ s[j] \in Nat
      BY <3>a
    <3>3. s[i] \in Nat /\ s[j] \in Nat /\ i \in Nat /\ j \in Nat
      BY <3>b
    <3>4. i < j \/ j < i
      BY <3>2, <3>3
    <3> QED BY <1>5, <3>3, <3>4 DEF Rising
  <2> QED BY <1>4, <2>1 DEF Injection, IsInjective
<1>7. IsFiniteSet(1 .. n) /\ Cardinality(1 .. n) = n
  BY <1>1, FS_Interval
<1>8. s \in Surjection(1 .. n, I)
  BY <1>6, <1>7, FS_Injection
<1>9. \A x \in I : \E i \in 1 .. n : s[i] = x
  BY <1>8 DEF Surjection
<1> QED BY <1>1, <1>5, <1>9 DEF s

Lists(r, q, I) ==
  /\ \A i \in 1 .. Len(r) : Ascending(I)[i] \in I /\ r[i] = q[Ascending(I)[i]]
  /\ \A i, j \in 1 .. Len(r) : i < j => Ascending(I)[i] < Ascending(I)[j]
  /\ \A x \in I : \E i \in 1 .. Len(r) : Ascending(I)[i] = x

\* The entries of a sequence at some of its places, in their order.
LEMMA EntriesFacts ==
  ASSUME NEW S, NEW q \in Seq(S), NEW I, I \subseteq 1 .. Len(q),
         NEW r, r = Entries(q, I)
  PROVE  /\ r \in Seq(S) /\ Len(r) \in Nat /\ Len(r) <= Len(q)
         /\ Lists(r, q, I)
<1> DEFINE n == Cardinality(I)
           s == Ascending(I)
<1>1. Len(q) \in Nat
  OBVIOUS
<1>2. IsFiniteSet(1 .. Len(q)) /\ Cardinality(1 .. Len(q)) = Len(q)
  <2> DEFINE k == Len(q)
  <2>1. k \in Nat
    BY <1>1
  <2> HIDE DEF k
  <2>2. IsFiniteSet(1 .. k) /\ Cardinality(1 .. k) = k
    BY <2>1, FS_Interval
  <2> QED BY <2>2 DEF k
<1>3. IsFiniteSet(I) /\ n <= Len(q)
  BY <1>2, FS_Subset
<1>4. I \subseteq Nat
  BY <1>1
<1>5. /\ n \in Nat /\ Rising(s, n, I)
      /\ \A x \in I : \E i \in 1 .. n : s[i] = x
  BY <1>3, <1>4, AscendingLists
<1>6. r = [i \in 1 .. n |-> q[s[i]]]
  BY DEF Entries
<1> HIDE DEF n, s
<1>7. \A i \in 1 .. n : s[i] \in I
  BY <1>5 DEF Rising
<1>8. \A i \in 1 .. n : q[s[i]] \in S
  <2>1. TAKE i \in 1 .. n
  <2>2. s[i] \in 1 .. Len(q)
    BY <1>7
  <2> QED BY <2>2
<1>9. r \in Seq(S) /\ Len(r) = n
  BY <1>5, <1>6, <1>8
<1>10. /\ s \in [1 .. n -> I]
       /\ \A i \in 1 .. n : r[i] = q[s[i]]
       /\ \A i, j \in 1 .. n : i < j => s[i] < s[j]
  BY <1>5, <1>6 DEF Rising
<1> QED BY <1>3, <1>5, <1>7, <1>9, <1>10 DEF s, Lists

-----------------------------------------------------------------------------
(* The replay ids.  Past(id, s): the session s has given out the id, or    *)
(* could not give it out any more.  InRing(id, s): a cursor below the id   *)
(* gets its event from s, or a gap.                                        *)

Ids == [pod : Pods \cup {NoPod}, gen : Nat, seq : Nat]

Past(id, s) == id.gen < s.gen \/ (id.gen = s.gen /\ (s.tracked => id.seq <= s.seq))

InRing(id, s) ==
  s.tracked /\ id.gen = s.gen =>
    id.seq <= s.floor \/ \E i \in 1 .. Len(s.buf) : s.buf[i].seq = id.seq

Grows(s, t) ==
  \A id \in Ids : Past(id, s) => Past(id, t) /\ (InRing(id, s) => InRing(id, t))

\* t announced e: its newest id is later than all that s has given out.
Announces(s, t, e) ==
  /\ Grows(s, t)
  /\ \A id \in Ids : id.gen = t.gen /\ id.seq = t.seq =>
       /\ \A old \in Ids : Past(old, s) => Later(id, old)
       /\ Past(id, t)
       /\ id.seq >= 1
       /\ e \notin Trace => InRing(id, t)

LEMMA KeptTypes ==
  ASSUME NEW s, Kept(s)
  PROVE  /\ s.tracked \in BOOLEAN /\ s.gen \in Nat /\ s.seq \in Nat /\ s.floor \in Nat
         /\ s.tseq \in Nat /\ s.pins \in Nat
         /\ Len(s.buf) \in Nat /\ \A i \in 1 .. Len(s.buf) : s.buf[i].seq \in Nat
         /\ \E S : s.buf \in Seq(Items(S))
<1>1. PICK S : s \in SessionOver(S)
  BY DEF Kept
<1>2. s.buf \in Seq(Items(S)) /\ s.gen \in Nat /\ s.seq \in Nat /\ s.floor \in Nat
      /\ s.tseq \in Nat /\ s.pins \in Nat /\ s.tracked \in BOOLEAN
  BY <1>1 DEF SessionOver
<1>3. Len(s.buf) \in Nat /\ \A i \in 1 .. Len(s.buf) : s.buf[i] \in Items(S)
  BY <1>2
<1>4. \A i \in 1 .. Len(s.buf) : s.buf[i].seq \in Nat
  BY <1>3 DEF Items
<1> QED BY <1>2, <1>3, <1>4

LEMMA GrowsSame ==
  ASSUME NEW s, NEW t, t.tracked = s.tracked, t.gen = s.gen, t.seq = s.seq,
         t.buf = s.buf, t.floor = s.floor
  PROVE  Grows(s, t)
BY DEF Grows, Past, InRing

LEMMA GrowsOn ==
  ASSUME NEW s, NEW t, NEW u, Grows(s, t), Grows(t, u)
  PROVE  Grows(s, u)
BY DEF Grows

LEMMA NewEpoch ==
  ASSUME NEW s, NEW t, s.gen \in Nat, t.gen \in Nat, s.gen < t.gen
  PROVE  Grows(s, t)
<1>1. SUFFICES ASSUME NEW id \in Ids, Past(id, s)
               PROVE  Past(id, t) /\ InRing(id, t)
  BY DEF Grows
<1>2. id.gen \in Nat /\ id.gen < t.gen
  BY <1>1 DEF Past, Ids
<1> QED BY <1>2 DEF Past, InRing

LEMMA TouchGrows ==
  ASSUME NEW s, Kept(s)
  PROVE  Grows(s, Touch(s))
<1>1. s.gen \in Nat /\ s.tracked \in BOOLEAN
  BY KeptTypes
<1>2. CASE s.tracked
  BY <1>2, GrowsSame DEF Touch
<1>3. CASE ~s.tracked
  <2> DEFINE u == Untracked(s.gen + 1)
  <2>1. u \in SessionOver({}) /\ u.gen = s.gen + 1
    BY <1>1, UntrackedFacts
  <2> HIDE DEF u
  <2>2. [u EXCEPT !.tracked = TRUE].gen = s.gen + 1
    BY <2>1, SetTracked
  <2>3. Touch(s).gen = s.gen + 1
    BY <1>3, <2>2 DEF Touch, u
  <2> QED BY <1>1, <2>3, NewEpoch
<1> QED BY <1>1, <1>2, <1>3

LEMMA TouchGen ==
  ASSUME NEW s, Kept(s)
  PROVE  Touch(s).gen \in Nat /\ s.gen <= Touch(s).gen
<1>1. s.gen \in Nat /\ s.tracked \in BOOLEAN
  BY KeptTypes
<1>2. CASE s.tracked
  BY <1>1, <1>2 DEF Touch
<1>3. CASE ~s.tracked
  <2> DEFINE u == Untracked(s.gen + 1)
  <2>1. u \in SessionOver({}) /\ u.gen = s.gen + 1
    BY <1>1, UntrackedFacts
  <2> HIDE DEF u
  <2>2. [u EXCEPT !.tracked = TRUE].gen = s.gen + 1
    BY <2>1, SetTracked
  <2>3. Touch(s).gen = s.gen + 1
    BY <1>3, <2>2 DEF Touch, u
  <2> QED BY <1>1, <2>3
<1> QED BY <1>1, <1>2, <1>3

LEMMA InvalidateGrows ==
  ASSUME NEW s, Kept(s)
  PROVE  Grows(s, Invalidate(s))
<1> DEFINE n == Touch(s).gen + 1
           u == Untracked(n)
           m == s.pins
<1>1. s.gen \in Nat /\ n \in Nat /\ s.gen < n
  BY KeptTypes, TouchGen
<1>2. u \in SessionOver({}) /\ u.gen = n
  BY <1>1, UntrackedFacts
<1>3. Invalidate(s) = [u EXCEPT !.tracked = TRUE, !.pins = m]
  BY DEF Invalidate
<1> HIDE DEF u, n, m
<1>4. Invalidate(s).gen = n
  BY <1>2, <1>3 DEF SessionOver
<1> QED BY <1>1, <1>4, NewEpoch

LEMMA EvictedGrows ==
  ASSUME NEW s, Kept(s)
  PROVE  Grows(s, Untracked(s.gen))
<1>1. s.gen \in Nat
  BY KeptTypes
<1>2. Untracked(s.gen).gen = s.gen /\ ~Untracked(s.gen).tracked
  BY DEF Untracked
<1>3. SUFFICES ASSUME NEW id \in Ids, Past(id, s)
               PROVE  Past(id, Untracked(s.gen)) /\ InRing(id, Untracked(s.gen))
  BY DEF Grows
<1> QED BY <1>2, <1>3 DEF Past, InRing

\* The ring that takes an event loses at most its first, to the floor.
LEMMA RetainAnnounces ==
  ASSUME NEW s, NEW e, Kept(s), s.tracked
  PROVE  Announces(s, Retain([s EXCEPT !.seq = s.seq + 1], e), e)
<1>1. PICK S : s \in SessionOver(S)
  BY DEF Kept
<1> DEFINE n == s.seq + 1
           u == [s EXCEPT !.seq = n]
           t == Retain(u, e)
           item == [seq |-> n, ev |-> e]
           T == S \cup {e}
<1> SUFFICES Announces(s, t, e)
  OBVIOUS
<1>2. /\ s.seq \in Nat /\ n \in Nat /\ s.floor \in Nat /\ s.gen \in Nat
      /\ s.buf \in Seq(Items(S)) /\ s.seq < n /\ n >= 1
  BY <1>1 DEF SessionOver
<1>3. s.buf \in Seq(Items(T)) /\ item \in Items(T) /\ item.seq = n
  BY <1>2, ItemsGrow
<1>4. /\ Len(s.buf) <= RingMax /\ s.floor <= s.seq
      /\ Ordered(s.buf, s.floor, s.seq)
  BY <1>1, WindowIsOrdered DEF Kept
<1>5. \A i \in 1 .. Len(s.buf) : s.buf[i].seq \in Nat
  BY KeptTypes
<1> HIDE DEF T, item
<1>6. u \in SessionOver(T) /\ u.buf = s.buf /\ u.seq = n /\ u.floor = s.floor
      /\ u.gen = s.gen /\ u.tracked
  BY <1>1, <1>2, <1>3 DEF SessionOver
<1> HIDE DEF u, n
\* The shape of the new session.
<1>7. ASSUME NEW q, NEW lo,
             t.tracked, t.gen = s.gen, t.seq = n, t.buf = q, t.floor = lo,
             lo \in Nat, s.floor <= lo,
             \A i \in 1 .. Len(s.buf) :
               s.buf[i].seq <= lo \/ \E j \in 1 .. Len(q) : q[j].seq = s.buf[i].seq,
             e \notin Trace => \E j \in 1 .. Len(q) : q[j].seq = n
      PROVE  Announces(s, t, e)
  <2> HIDE DEF t
  <2>1. ASSUME NEW id \in Ids, Past(id, s)
        PROVE  Past(id, t) /\ (InRing(id, s) => InRing(id, t))
    <3>1. id.gen \in Nat /\ id.seq \in Nat
      BY DEF Ids
    <3>2. Past(id, t)
      BY <1>2, <1>7, <2>1, <3>1 DEF Past
    <3>3. ASSUME InRing(id, s), id.gen = s.gen
          PROVE  id.seq <= t.floor \/ \E i \in 1 .. Len(t.buf) : t.buf[i].seq = id.seq
      <4>1. CASE id.seq <= s.floor
        BY <1>2, <1>7, <3>1, <4>1
      <4>2. CASE \E i \in 1 .. Len(s.buf) : s.buf[i].seq = id.seq
        BY <1>7, <4>2
      <4> QED BY <3>3, <4>1, <4>2 DEF InRing
    <3> QED BY <1>7, <3>2, <3>3 DEF InRing
  <2>2. ASSUME NEW id \in Ids, id.gen = t.gen, id.seq = t.seq
        PROVE  /\ \A old \in Ids : Past(old, s) => Later(id, old)
               /\ Past(id, t) /\ id.seq >= 1
               /\ e \notin Trace => InRing(id, t)
    <3>1. ASSUME NEW old \in Ids, Past(old, s) PROVE Later(id, old)
      <4>1. old.gen \in Nat /\ old.seq \in Nat
        BY DEF Ids
      <4> QED BY <1>2, <1>7, <2>2, <3>1, <4>1 DEF Past, Later
    <3>2. Past(id, t) /\ id.seq >= 1
      BY <1>2, <1>7, <2>2 DEF Past
    <3>3. e \notin Trace => InRing(id, t)
      BY <1>7, <2>2 DEF InRing
    <3> QED BY <3>1, <3>2, <3>3
  <2> QED BY <2>1, <2>2 DEF Announces, Grows
<1>8. CASE e \in Trace
  <2>1. t = u
    BY <1>8 DEF Retain
  <2> HIDE DEF t
  <2>2. \A i \in 1 .. Len(s.buf) : \E j \in 1 .. Len(s.buf) : s.buf[j].seq = s.buf[i].seq
    OBVIOUS
  <2>3. s.floor <= s.floor
    BY <1>2
  <2> QED BY <1>2, <1>6, <1>7, <1>8, <2>1, <2>2, <2>3
<1>9. CASE e \notin Trace /\ Len(s.buf) < RingMax
  <2> DEFINE q == Append(s.buf, item)
             v == [u EXCEPT !.buf = q]
  <2>1. t = v
    BY <1>6, <1>9 DEF Retain, item
  <2> HIDE DEF t
  <2>2. /\ q \in Seq(Items(T)) /\ Len(q) = Len(s.buf) + 1 /\ Len(s.buf) \in Nat
        /\ q[Len(s.buf) + 1] = item
        /\ \A i \in 1 .. Len(s.buf) : q[i] = s.buf[i]
    BY <1>3, AppendFacts
  <2> HIDE DEF q
  <2>3. v.tracked /\ v.gen = s.gen /\ v.seq = n /\ v.buf = q /\ v.floor = s.floor
    BY <1>6, <2>2 DEF SessionOver
  <2> HIDE DEF v
  <2>4. \A i \in 1 .. Len(s.buf) : i \in 1 .. Len(q) /\ q[i].seq = s.buf[i].seq
    BY <2>2
  <2>5. Len(s.buf) + 1 \in 1 .. Len(q) /\ q[Len(s.buf) + 1].seq = n
    BY <1>3, <2>2
  <2>6. s.floor <= s.floor
    BY <1>2
  <2> QED BY <1>2, <1>7, <2>1, <2>3, <2>4, <2>5, <2>6
<1>10. CASE e \notin Trace /\ ~(Len(s.buf) < RingMax)
  <2> DEFINE w == Tail(s.buf)
             q == Append(w, item)
             lo == Head(s.buf).seq
             v == [u EXCEPT !.buf = q, !.floor = lo]
  <2>1. t = v
    BY <1>6, <1>10 DEF Retain, item
  <2> HIDE DEF t
  <2>2. s.buf # <<>>
    BY <1>2, <1>10, RingMaxPositive
  <2>3. /\ w \in Seq(Items(T)) /\ Len(w) = Len(s.buf) - 1 /\ Len(s.buf) \in Nat \ {0}
        /\ Head(s.buf) = s.buf[1]
        /\ \A i \in 1 .. Len(s.buf) - 1 : w[i] = s.buf[i + 1]
    BY <1>3, <2>2, TailFacts
  <2>4. lo \in Nat /\ s.floor <= lo /\ s.buf[1].seq <= lo
    BY <1>2, <1>4, <1>5, <2>3 DEF Ordered
  <2> HIDE DEF lo, w
  <2>5. /\ q \in Seq(Items(T)) /\ Len(q) = Len(w) + 1 /\ q[Len(w) + 1] = item
        /\ \A i \in 1 .. Len(w) : q[i] = w[i]
    BY <1>3, <2>3, AppendFacts
  <2> HIDE DEF q
  <2>6. v.tracked /\ v.gen = s.gen /\ v.seq = n /\ v.buf = q /\ v.floor = lo
    BY <1>6, <2>4, <2>5 DEF SessionOver
  <2> HIDE DEF v
  <2>7. ASSUME NEW i \in 1 .. Len(s.buf)
        PROVE  s.buf[i].seq <= lo \/ \E j \in 1 .. Len(q) : q[j].seq = s.buf[i].seq
    <3>1. CASE i = 1
      BY <2>4, <3>1
    <3>2. CASE i # 1
      <4>1. i - 1 \in 1 .. Len(w) /\ i - 1 \in 1 .. Len(q) /\ (i - 1) + 1 = i
        BY <2>3, <2>5, <3>2
      <4>2. q[i - 1] = s.buf[i]
        BY <2>3, <2>5, <4>1
      <4> QED BY <4>1, <4>2
    <3> QED BY <3>1, <3>2
  <2>8. Len(w) + 1 \in 1 .. Len(q) /\ q[Len(w) + 1].seq = n
    BY <1>3, <2>3, <2>5
  <2> QED BY <1>7, <2>1, <2>4, <2>6, <2>7, <2>8
<1> QED BY <1>8, <1>9, <1>10

LEMMA AnnounceAnnounces ==
  ASSUME NEW s, NEW e, Kept(s)
  PROVE  Announces(s, Announce(s, e), e)
<1> DEFINE t == Touch(s)
           u == Announce(s, e)
<1>1. Kept(t) /\ t.tracked /\ Grows(s, t)
  BY TouchKept, TouchGrows
<1>2. u = Retain([t EXCEPT !.seq = t.seq + 1], e)
  BY DEF Announce
<1> HIDE DEF t, u
<1>3. Announces(t, u, e)
  BY <1>1, <1>2, RetainAnnounces
<1>4. Announces(s, u, e)
  <2>1. Grows(t, u)
    BY <1>3 DEF Announces
  <2>2. Grows(s, u)
    BY <1>1, <2>1, GrowsOn
  <2>3. \A old \in Ids : Past(old, s) => Past(old, t)
    BY <1>1 DEF Grows
  <2> QED BY <1>3, <2>2, <2>3 DEF Announces
<1> QED BY <1>4 DEF u

\* The number of a frame is no part of the replay state.
LEMMA CountedAnnounces ==
  ASSUME NEW s, NEW e, NEW u, Kept(u), Announces(s, u, e)
  PROVE  LET t == [u EXCEPT !.tseq = u.tseq + 1]
         IN  Announces(s, t, e)
<1> DEFINE t == [u EXCEPT !.tseq = u.tseq + 1]
<1>1. PICK S : u \in SessionOver(S)
  BY DEF Kept
<1>2. /\ t.tracked = u.tracked /\ t.gen = u.gen /\ t.seq = u.seq
      /\ t.buf = u.buf /\ t.floor = u.floor
  BY <1>1 DEF SessionOver
<1> HIDE DEF t
<1>3. Grows(u, t)
  BY <1>2, GrowsSame
<1>4. Grows(s, t)
  BY <1>3, GrowsOn DEF Announces
<1>5. \A id : (Past(id, u) <=> Past(id, t)) /\ (InRing(id, u) <=> InRing(id, t))
  BY <1>2 DEF Past, InRing
<1>6. Announces(s, t, e)
  BY <1>2, <1>4, <1>5 DEF Announces
<1> QED BY <1>6 DEF t

LEMMA PinsGrow ==
  ASSUME NEW s, Kept(s), NEW n
  PROVE  Grows(s, [s EXCEPT !.pins = n])
<1> DEFINE t == [s EXCEPT !.pins = n]
<1>1. PICK S : s \in SessionOver(S)
  BY DEF Kept
<1>2. /\ t.tracked = s.tracked /\ t.gen = s.gen /\ t.seq = s.seq
      /\ t.buf = s.buf /\ t.floor = s.floor
  BY <1>1 DEF SessionOver
<1> HIDE DEF t
<1>3. Grows(s, t)
  BY <1>2, GrowsSame
<1> QED BY <1>3 DEF t

-----------------------------------------------------------------------------
(* The order of the stream.                                                *)

StreamFrames(T) ==
  [do : {"connected", "reset"}, id : Ids, ev : {0}] \cup [do : {"event"}, id : Ids, ev : T]

Phases == {"none", "watch", "opening", "replay", "live", "closing"}

\* A stream whose frames carry events of T, and whose writes were in order.
Streams(T) ==
  [phase : Phases, pod : Pods \cup {NoPod}, cursor : Ids, hit : BOOLEAN,
   todo : Seq(StreamFrames(T)), buf : Seq(StreamFrames(T)), sent : SUBSET Ids,
   high : Ids, ordered : {TRUE}, silent : BOOLEAN]

IsEvent(f) == f.do = "event"
Ascends(q) == \A i, j \in 1 .. Len(q) : i < j => Later(q[j].id, q[i].id)
At(id, p, s) == id.pod = p /\ Past(id, s)

\* Before the answer: what was heard is after the client's cursor, and a
\* cursor that can be bridged is bridged with it.
Waiting(c, s) ==
  /\ c.high = NoCursor
  /\ \A i \in 1 .. Len(c.buf) :
       /\ c.cursor.pod = c.pod => Later(c.buf[i].id, c.cursor)
       /\ c.phase = "opening" => c.buf[i].ev \notin Trace
       /\ c.buf[i].ev \notin Trace => InRing(c.buf[i].id, s)

After(id, c) ==
  /\ Later(id, c.high)
  /\ \A k \in 1 .. Len(c.todo) : IsEvent(c.todo[k]) => Later(id, c.todo[k].id)

\* During the answer: an event heard meanwhile is in the answer or after it.
Replaying(c) ==
  /\ Ascends(c.todo)
  /\ \A k \in 1 .. Len(c.todo) : IsEvent(c.todo[k]) => Later(c.todo[k].id, c.high)
  /\ \A i \in 1 .. Len(c.buf) :
       \/ c.buf[i].id \in c.sent
       \/ \E k \in 1 .. Len(c.todo) : IsEvent(c.todo[k]) /\ c.todo[k].id = c.buf[i].id
       \/ After(c.buf[i].id, c)

StreamOrder(c, s) ==
  /\ Past(c.high, s)
  /\ \A k \in 1 .. Len(c.todo) : At(c.todo[k].id, c.pod, s)
  /\ \A i \in 1 .. Len(c.buf) : IsEvent(c.buf[i]) => At(c.buf[i].id, c.pod, s)
  /\ Ascends(c.buf)
  /\ \/ \A i \in 1 .. Len(c.buf) : IsEvent(c.buf[i])
     \/ c.phase = "live" /\ Len(c.buf) = 1 /\ c.buf[1].do = "reset"
  /\ c.phase \in {"watch", "opening"} => Waiting(c, s)
  /\ c.phase = "replay" => Replaying(c)
  /\ c.phase # "replay" =>
       \A i \in 1 .. Len(c.buf) : IsEvent(c.buf[i]) => Later(c.buf[i].id, c.high)

LEMMA FrameTypes ==
  ASSUME NEW T, NEW q \in Seq(StreamFrames(T))
  PROVE  /\ Len(q) \in Nat
         /\ \A i \in 1 .. Len(q) : q[i] \in StreamFrames(T) /\ q[i].id \in Ids
<1>1. \A f \in StreamFrames(T) : f.id \in Ids
  BY DEF StreamFrames
<1> HIDE DEF StreamFrames
<1>2. Len(q) \in Nat /\ \A i \in 1 .. Len(q) : q[i] \in StreamFrames(T)
  OBVIOUS
<1> QED BY <1>1, <1>2

LEMMA StreamTypes ==
  ASSUME NEW T, NEW c \in Streams(T)
  PROVE  /\ c.todo \in Seq(StreamFrames(T)) /\ c.buf \in Seq(StreamFrames(T))
         /\ c.high \in Ids /\ c.cursor \in Ids /\ c.sent \subseteq Ids
         /\ c.phase \in Phases /\ c.pod \in Pods \cup {NoPod} /\ c.ordered
         /\ Len(c.todo) \in Nat /\ Len(c.buf) \in Nat
         /\ \A i \in 1 .. Len(c.todo) : c.todo[i] \in StreamFrames(T) /\ c.todo[i].id \in Ids
         /\ \A i \in 1 .. Len(c.buf) : c.buf[i] \in StreamFrames(T) /\ c.buf[i].id \in Ids
<1>1. /\ c.todo \in Seq(StreamFrames(T)) /\ c.buf \in Seq(StreamFrames(T))
      /\ c.high \in Ids /\ c.cursor \in Ids /\ c.sent \subseteq Ids
      /\ c.phase \in Phases /\ c.pod \in Pods \cup {NoPod} /\ c.ordered = TRUE
  BY DEF Streams
<1>2. c.ordered
  BY <1>1
<1> QED BY <1>1, <1>2, FrameTypes

LEMMA OrderGrows ==
  ASSUME NEW T, NEW c \in Streams(T), NEW s, NEW t, StreamOrder(c, s), Grows(s, t)
  PROVE  StreamOrder(c, t)
<1>1. /\ c.high \in Ids
      /\ \A i \in 1 .. Len(c.todo) : c.todo[i].id \in Ids
      /\ \A i \in 1 .. Len(c.buf) : c.buf[i].id \in Ids
  BY StreamTypes
<1>2. /\ Past(c.high, t)
      /\ \A k \in 1 .. Len(c.todo) : At(c.todo[k].id, c.pod, t)
      /\ \A i \in 1 .. Len(c.buf) : IsEvent(c.buf[i]) => At(c.buf[i].id, c.pod, t)
  BY <1>1 DEF StreamOrder, At, Grows
<1>3. ASSUME Waiting(c, s), c.phase \in {"watch", "opening"}
      PROVE  Waiting(c, t)
  <2>1. \A i \in 1 .. Len(c.buf) : Past(c.buf[i].id, s)
    BY <1>3 DEF StreamOrder, At
  <2>2. \A i \in 1 .. Len(c.buf) : InRing(c.buf[i].id, s) => InRing(c.buf[i].id, t)
    BY <1>1, <2>1 DEF Grows
  <2> QED BY <1>3, <2>2 DEF Waiting
<1> QED BY <1>2, <1>3 DEF StreamOrder

\* The fields of a stream that hears.
LEMMA HeardTypes ==
  ASSUME NEW T, NEW c \in Streams(T), NEW q \in Seq(StreamFrames(T))
  PROVE  LET d == [c EXCEPT !.buf = q]
         IN  /\ d \in Streams(T) /\ d.buf = q
             /\ d.phase = c.phase /\ d.pod = c.pod /\ d.cursor = c.cursor
             /\ d.todo = c.todo /\ d.sent = c.sent /\ d.high = c.high
<1> HIDE DEF StreamFrames, Ids, Phases
<1> QED BY DEF Streams

LEMMA OrderHears ==
  ASSUME NEW T, NEW c \in Streams(T), NEW s, NEW t, NEW e \in T,
         StreamOrder(c, s), Announces(s, t, e), t.gen \in Nat, t.seq \in Nat,
         c.pod \in Pods,
         c.cursor.pod = c.pod => Past(c.cursor, s),
         c.phase = "watch" \/ e \notin Trace,
         ~ResetQueued(c)
  PROVE  LET q == Append(c.buf, EventFrame(Cursor(c.pod, t), e))
         IN  /\ q \in Seq(StreamFrames(T)) /\ Len(q) = Len(c.buf) + 1
             /\ StreamOrder([c EXCEPT !.buf = q], t)
<1> DEFINE id == Cursor(c.pod, t)
           f == EventFrame(id, e)
           q == Append(c.buf, f)
           d == [c EXCEPT !.buf = q]
           n == Len(c.buf)
<1>1. /\ id \in Ids /\ id.pod = c.pod /\ id.gen = t.gen /\ id.seq = t.seq
      /\ f \in StreamFrames(T) /\ f.id = id /\ f.ev = e /\ f.do = "event"
  BY DEF Cursor, Ids, EventFrame, StreamFrames
<1> HIDE DEF f
<1>2. /\ q \in Seq(StreamFrames(T)) /\ Len(q) = n + 1 /\ n \in Nat /\ q[n + 1] = f
      /\ \A i \in 1 .. n : q[i] = c.buf[i]
  BY <1>1, StreamTypes, AppendFacts
<1> HIDE DEF q, id
<1>3. /\ d \in Streams(T) /\ d.buf = q
      /\ d.phase = c.phase /\ d.pod = c.pod /\ d.cursor = c.cursor
      /\ d.todo = c.todo /\ d.sent = c.sent /\ d.high = c.high
  BY <1>2, HeardTypes
<1> HIDE DEF d
<1>4. /\ \A old \in Ids : Past(old, s) => Later(id, old)
      /\ Past(id, t)
      /\ e \notin Trace => InRing(id, t)
  BY <1>1 DEF Announces
<1>5. StreamOrder(c, t)
  BY OrderGrows DEF Announces
<1>6. \A i \in 1 .. n : IsEvent(c.buf[i])
  <2>1. CASE n = 1 /\ c.buf[1].do = "reset"
    <3>1. c.buf # <<>>
      BY <2>1
    <3> QED BY <2>1, <3>1 DEF ResetQueued
  <2> QED BY <2>1 DEF StreamOrder
<1>7. \A i \in 1 .. n : Later(id, c.buf[i].id)
  BY <1>4, <1>6, StreamTypes DEF StreamOrder, At
<1>8. /\ Later(id, c.high)
      /\ \A k \in 1 .. Len(c.todo) : Later(id, c.todo[k].id)
  BY <1>4, StreamTypes DEF StreamOrder, At
<1>9. \A i \in 1 .. Len(q) : i \in 1 .. n \/ i = n + 1
  BY <1>2
<1>10. Ascends(q)
  <2> SUFFICES ASSUME NEW i \in 1 .. Len(q), NEW j \in 1 .. Len(q), i < j
               PROVE  Later(q[j].id, q[i].id)
    BY DEF Ascends
  <2>1. i \in 1 .. n
    BY <1>2
  <2>2. CASE j = n + 1
    BY <1>1, <1>2, <1>7, <2>1, <2>2
  <2>3. CASE j \in 1 .. n
    BY <1>2, <2>1, <2>3 DEF StreamOrder, Ascends
  <2> QED BY <1>9, <2>2, <2>3
<1>11. \A i \in 1 .. Len(q) : IsEvent(q[i]) /\ At(q[i].id, c.pod, t)
  <2> TAKE i \in 1 .. Len(q)
  <2>1. CASE i = n + 1
    BY <1>1, <1>2, <1>4, <2>1 DEF IsEvent, At
  <2>2. CASE i \in 1 .. n
    BY <1>2, <1>5, <1>6, <2>2 DEF StreamOrder
  <2> QED BY <1>9, <2>1, <2>2
<1>12. ASSUME c.phase \in {"watch", "opening"} PROVE Waiting(d, t)
  <2>1. Waiting(c, t)
    BY <1>5, <1>12 DEF StreamOrder
  <2>2. c.cursor.pod = c.pod => Later(id, c.cursor)
    BY <1>4, StreamTypes
  <2>3. c.phase = "opening" => e \notin Trace
    OBVIOUS
  <2>4. ASSUME NEW i \in 1 .. Len(q)
        PROVE  /\ c.cursor.pod = c.pod => Later(q[i].id, c.cursor)
               /\ c.phase = "opening" => q[i].ev \notin Trace
               /\ q[i].ev \notin Trace => InRing(q[i].id, t)
    <3>1. CASE i = n + 1
      BY <1>1, <1>2, <1>4, <2>2, <2>3, <3>1
    <3>2. CASE i \in 1 .. n
      BY <1>2, <2>1, <3>2 DEF Waiting
    <3> QED BY <1>9, <3>1, <3>2
  <2> QED BY <1>3, <2>1, <2>4 DEF Waiting
<1>13. ASSUME c.phase = "replay" PROVE Replaying(d)
  <2>1. Replaying(c)
    BY <1>13 DEF StreamOrder
  <2>2. \A x : After(x, c) <=> After(x, d)
    BY <1>3 DEF After
  <2>3. After(id, d)
    BY <1>3, <1>8 DEF After
  <2>4. ASSUME NEW i \in 1 .. Len(q)
        PROVE  \/ q[i].id \in d.sent
               \/ \E k \in 1 .. Len(d.todo) : IsEvent(d.todo[k]) /\ d.todo[k].id = q[i].id
               \/ After(q[i].id, d)
    <3>1. CASE i = n + 1
      BY <1>1, <1>2, <2>3, <3>1
    <3>2. CASE i \in 1 .. n
      BY <1>2, <1>3, <2>1, <2>2, <3>2 DEF Replaying
    <3> QED BY <1>9, <3>1, <3>2
  <2> QED BY <1>3, <2>1, <2>4 DEF Replaying
<1>14. ASSUME c.phase # "replay", NEW i \in 1 .. Len(q)
       PROVE  Later(q[i].id, c.high)
  <2>1. CASE i = n + 1
    BY <1>1, <1>2, <1>8, <2>1
  <2>2. CASE i \in 1 .. n
    BY <1>2, <1>6, <1>14, <2>2 DEF StreamOrder
  <2> QED BY <1>9, <2>1, <2>2
<1>15. StreamOrder(d, t)
  <2>1. Past(d.high, t) /\ \A k \in 1 .. Len(d.todo) : At(d.todo[k].id, d.pod, t)
    BY <1>3, <1>5 DEF StreamOrder
  <2> QED BY <1>3, <1>10, <1>11, <1>12, <1>13, <1>14, <2>1 DEF StreamOrder
<1> QED BY <1>2, <1>15 DEF d, q, f, id

\* A live stream that hears a reset keeps nothing else.
LEMMA OrderResets ==
  ASSUME NEW T, NEW c \in Streams(T), NEW s, StreamOrder(c, s), c.phase = "live"
  PROVE  LET d == [c EXCEPT !.buf = <<Control("reset", NoCursor)>>]
         IN  d \in Streams(T) /\ StreamOrder(d, s) /\ Len(d.buf) = 1
             /\ d.phase = c.phase /\ d.pod = c.pod /\ d.cursor = c.cursor
<1> DEFINE f == Control("reset", NoCursor)
           q == <<f>>
           d == [c EXCEPT !.buf = q]
<1>1. f \in StreamFrames(T) /\ f.do = "reset"
  BY DEF Control, NoCursor, StreamFrames, Ids
<1> HIDE DEF f
<1>2. q \in Seq(StreamFrames(T)) /\ Len(q) = 1 /\ q[1] = f
  BY <1>1
<1> HIDE DEF q
<1>3. /\ d \in Streams(T) /\ d.buf = q
      /\ d.phase = c.phase /\ d.pod = c.pod /\ d.cursor = c.cursor
      /\ d.todo = c.todo /\ d.sent = c.sent /\ d.high = c.high
  BY <1>2, HeardTypes
<1> HIDE DEF d
<1>4. \A i \in 1 .. Len(d.buf) : i = 1 /\ ~IsEvent(d.buf[i])
  <2>1. ~IsEvent(q[1])
    BY <1>1, <1>2 DEF IsEvent
  <2>2. \A i \in 1 .. 1 : i = 1
    OBVIOUS
  <2> QED BY <1>2, <1>3, <2>1, <2>2
<1>5. Ascends(d.buf)
  BY <1>4 DEF Ascends
<1>6. StreamOrder(d, s)
  BY <1>1, <1>2, <1>3, <1>4, <1>5 DEF StreamOrder
<1> QED BY <1>2, <1>3, <1>6 DEF d, q, f

-----------------------------------------------------------------------------
(* What the stream hears keeps it sound.                                   *)

Placed(id, f) == id.pod \in Pods => Past(id, f[id.pod])

Sound(T, c, f) ==
  /\ c \in Streams(T) /\ Len(c.buf) <= QueueMax
  /\ c.phase # "none" => c.pod \in Pods
  /\ c.phase \notin {"none", "closing"} => StreamOrder(c, f[c.pod])
  /\ c.phase = "opening" => c.todo # <<>>
  /\ c.phase = "replay" => c.todo # <<>> \/ c.buf # <<>>
  /\ Placed(c.cursor, f)

LEMMA QueueMaxPositive == QueueMax \in Nat /\ QueueMax >= 1
BY StreamConstants

LEMMA PlacedGrows ==
  ASSUME NEW id \in Ids, NEW f, NEW g, Placed(id, f), \A p \in Pods : Grows(f[p], g[p])
  PROVE  Placed(id, g)
BY DEF Placed, Grows

LEMMA SoundGrows ==
  ASSUME NEW T, NEW c, NEW f, NEW g, Sound(T, c, f), \A p \in Pods : Grows(f[p], g[p])
  PROVE  Sound(T, c, g)
<1>1. c \in Streams(T) /\ c.cursor \in Ids
  BY StreamTypes DEF Sound
<1>2. c.phase \notin {"none", "closing"} => StreamOrder(c, g[c.pod])
  BY <1>1, OrderGrows DEF Sound
<1>3. Placed(c.cursor, g)
  BY <1>1, PlacedGrows DEF Sound
<1> QED BY <1>2, <1>3 DEF Sound

LEMMA StreamsGrow ==
  ASSUME NEW S, NEW T, S \subseteq T, NEW c \in Streams(S)
  PROVE  c \in Streams(T)
<1> DEFINE A == StreamFrames(S)
           B == StreamFrames(T)
<1>1. A \subseteq B
  BY DEF StreamFrames
<1>2. c.todo \in Seq(A) /\ c.buf \in Seq(A)
  BY DEF Streams
<1> HIDE DEF A, B
<1>3. c.todo \in Seq(B) /\ c.buf \in Seq(B)
  BY <1>1, <1>2
<1> USE DEF A, B
<1> HIDE DEF StreamFrames, Ids, Phases
<1> QED BY <1>3 DEF Streams

LEMMA SoundWider ==
  ASSUME NEW S, NEW T, S \subseteq T, NEW c, NEW f, Sound(S, c, f)
  PROVE  Sound(T, c, f)
BY StreamsGrow DEF Sound

LEMMA SoundClosing ==
  ASSUME NEW T, NEW c, NEW f, Sound(T, c, f), c.phase # "none"
  PROVE  Sound(T, Closing(c), f)
<1> DEFINE d == Closing(c)
<1>1. c \in Streams(T)
  BY DEF Sound
<1>2. <<>> \in Seq(StreamFrames(T)) /\ "closing" \in Phases
  BY DEF Phases
<1>3. /\ d \in Streams(T) /\ d.phase = "closing" /\ d.pod = c.pod
      /\ d.buf = <<>> /\ d.cursor = c.cursor
  <2> HIDE DEF StreamFrames, Ids, Phases
  <2> QED BY <1>1, <1>2 DEF Closing, Streams
<1> HIDE DEF d
<1>4. Len(d.buf) <= QueueMax
  BY <1>3, QueueMaxPositive
<1>5. Sound(T, d, f)
  BY <1>3, <1>4 DEF Sound
<1> QED BY <1>5 DEF d

LEMMA HitKept ==
  ASSUME NEW T, NEW c, NEW f, Sound(T, c, f)
  PROVE  Sound(T, [c EXCEPT !.hit = TRUE], f)
<1> DEFINE d == [c EXCEPT !.hit = TRUE]
<1>1. c \in Streams(T)
  BY DEF Sound
<1>2. /\ d \in Streams(T) /\ d.phase = c.phase /\ d.pod = c.pod /\ d.cursor = c.cursor
      /\ d.todo = c.todo /\ d.buf = c.buf /\ d.sent = c.sent /\ d.high = c.high
  <2> HIDE DEF StreamFrames, Ids, Phases
  <2> QED BY <1>1 DEF Streams
<1> HIDE DEF d
<1>3. \A s : StreamOrder(c, s) => StreamOrder(d, s)
  BY <1>2 DEF StreamOrder, Waiting, Replaying, After
<1>4. Sound(T, d, f)
  BY <1>2, <1>3 DEF Sound
<1> QED BY <1>4 DEF d

LEMMA HearEventSound ==
  ASSUME NEW T, Sound(T, conn, sess), NEW p \in Pods, NEW e \in T,
         \A q \in Pods : Grows(sess[q], sess'[q]),
         Announces(sess[p], sess'[p], e), sess'[p].gen \in Nat, sess'[p].seq \in Nat,
         HearEvent(p, e)
  PROVE  Sound(T, conn', sess')
<1> DEFINE t == sess'[p]
           f == EventFrame(Cursor(p, t), e)
           q == Append(conn.buf, f)
           d == [conn EXCEPT !.buf = q]
<1>1. Sound(T, conn, sess')
  BY SoundGrows
<1>2. conn \in Streams(T)
  BY DEF Sound
<1>3. CASE conn' = conn
  BY <1>1, <1>3
<1>4. CASE conn' = [conn EXCEPT !.hit = TRUE]
  BY <1>1, <1>4, HitKept
<1>5. CASE ~Deaf(p) /\ conn' = Closing(conn)
  BY <1>1, <1>5, SoundClosing DEF Deaf
<1>6. ASSUME ~Deaf(p), conn' = d, ~(Len(conn.buf) >= QueueMax),
             conn.phase = "watch" \/ (e \notin Trace /\ ~ResetQueued(conn))
      PROVE  Sound(T, conn', sess')
  <2>1. conn.pod = p /\ conn.phase \notin {"none", "closing"}
    BY <1>6 DEF Deaf
  <2>2. StreamOrder(conn, sess[p])
    BY <2>1 DEF Sound
  <2>3. conn.cursor.pod = conn.pod => Past(conn.cursor, sess[p])
    BY <2>1 DEF Sound, Placed
  <2>4. ~ResetQueued(conn)
    <3>1. CASE conn.phase = "watch"
      <4>1. \A i \in 1 .. Len(conn.buf) : IsEvent(conn.buf[i])
        BY <2>2, <3>1 DEF StreamOrder
      <4>2. conn.buf # <<>> => Len(conn.buf) \in 1 .. Len(conn.buf)
        BY <1>2, StreamTypes
      <4> QED BY <4>1, <4>2 DEF ResetQueued, IsEvent
    <3> QED BY <1>6, <3>1
  <2>5. /\ q \in Seq(StreamFrames(T)) /\ Len(q) = Len(conn.buf) + 1
        /\ StreamOrder(d, t)
    BY SMTT(25), <1>2, <1>6, <2>1, <2>2, <2>3, <2>4, OrderHears
  <2>6. Len(q) <= QueueMax
    BY <1>2, <1>6, <2>5, QueueMaxPositive, StreamTypes
  <2>7. q # <<>>
    BY SMTT(25), <1>2, <2>5, StreamTypes
  <2> HIDE DEF q, t
  <2>8. /\ d \in Streams(T) /\ d.buf = q
        /\ d.phase = conn.phase /\ d.pod = conn.pod /\ d.cursor = conn.cursor
        /\ d.todo = conn.todo
    BY <1>2, <2>5, HeardTypes
  <2> HIDE DEF d
  <2>9. Sound(T, d, sess')
    BY <1>1, <2>1, <2>5, <2>6, <2>7, <2>8 DEF Sound, t
  <2> QED BY <1>6, <2>9
<1>7. \/ conn' = conn
      \/ conn' = [conn EXCEPT !.hit = TRUE]
      \/ ~Deaf(p) /\ conn' = Closing(conn)
      \/ /\ ~Deaf(p) /\ conn' = d /\ ~(Len(conn.buf) >= QueueMax)
         /\ conn.phase = "watch" \/ (e \notin Trace /\ ~ResetQueued(conn))
  <2> HIDE DEF Deaf, ResetQueued
  <2> QED BY DEF HearEvent
<1> QED BY <1>3, <1>4, <1>5, <1>6, <1>7

LEMMA HearResetSound ==
  ASSUME NEW T, Sound(T, conn, sess), NEW p \in Pods,
         \A q \in Pods : Grows(sess[q], sess'[q]),
         HearReset(p)
  PROVE  Sound(T, conn', sess')
<1> DEFINE d == [conn EXCEPT !.buf = <<Control("reset", NoCursor)>>]
<1>1. Sound(T, conn, sess') /\ conn \in Streams(T)
  BY SoundGrows DEF Sound
<1>2. CASE conn' = conn
  BY <1>1, <1>2
<1>3. CASE conn' = [conn EXCEPT !.hit = TRUE]
  BY <1>1, <1>3, HitKept
<1>4. CASE ~Deaf(p) /\ conn' = Closing(conn)
  BY <1>1, <1>4, SoundClosing DEF Deaf
<1>5. CASE ~Deaf(p) /\ conn.phase = "live" /\ conn' = d
  <2>1. StreamOrder(conn, sess'[conn.pod])
    BY <1>1, <1>5 DEF Sound
  <2>2. /\ d \in Streams(T) /\ StreamOrder(d, sess'[conn.pod]) /\ Len(d.buf) = 1
        /\ d.phase = conn.phase /\ d.pod = conn.pod /\ d.cursor = conn.cursor
    <3>1. d.pod = conn.pod
      BY <1>1, HeardTypes DEF Streams
    <3> QED BY <1>1, <1>5, <2>1, <3>1, OrderResets
  <2> HIDE DEF d
  <2>3. Sound(T, d, sess')
    BY <1>1, <1>5, <2>2, QueueMaxPositive DEF Sound
  <2> QED BY <1>5, <2>3
<1>6. \/ conn' = conn
      \/ conn' = [conn EXCEPT !.hit = TRUE]
      \/ ~Deaf(p) /\ conn' = Closing(conn)
      \/ ~Deaf(p) /\ conn.phase = "live" /\ conn' = d
  <2> HIDE DEF Deaf, ResetQueued
  <2> QED BY DEF HearReset
<1> QED BY <1>2, <1>3, <1>4, <1>5, <1>6

LEMMA HearNothingSound ==
  ASSUME NEW T, Sound(T, conn, sess),
         \A q \in Pods : Grows(sess[q], sess'[q]),
         HearNothing
  PROVE  Sound(T, conn', sess')
BY SoundGrows DEF HearNothing

-----------------------------------------------------------------------------
(* What the stream writes keeps it sound.                                  *)

LEMMA SettledSound ==
  ASSUME NEW T, NEW c \in Streams(T), NEW f, Len(c.buf) <= QueueMax,
         c.pod \in Pods, c.phase = "replay", StreamOrder(c, f[c.pod]),
         Placed(c.cursor, f)
  PROVE  Sound(T, Settled(c), f)
<1>1. CASE ~(c.todo = <<>> /\ c.buf = <<>>)
  <2>1. Settled(c) = c
    BY <1>1 DEF Settled
  <2> QED BY <1>1, <2>1 DEF Sound
<1>2. CASE c.todo = <<>> /\ c.buf = <<>>
  <2> DEFINE d == [c EXCEPT !.phase = "live", !.sent = {}]
  <2>1. Settled(c) = d
    BY <1>2 DEF Settled
  <2>2. /\ d \in Streams(T) /\ d.phase = "live" /\ d.pod = c.pod /\ d.cursor = c.cursor
        /\ d.todo = c.todo /\ d.buf = c.buf /\ d.high = c.high
    <3>1. "live" \in Phases /\ {} \in SUBSET Ids
      BY DEF Phases
    <3> HIDE DEF StreamFrames, Ids, Phases
    <3> QED BY <3>1 DEF Streams
  <2> HIDE DEF d
  <2>3. Len(d.buf) = 0
    BY <1>2, <2>2
  <2>4. StreamOrder(d, f[d.pod])
    BY <2>2, <2>3 DEF StreamOrder, Ascends
  <2>5. Len(d.buf) <= QueueMax
    BY <2>2
  <2>6. Sound(T, d, f)
    BY <2>2, <2>4, <2>5 DEF Sound
  <2> QED BY <2>1, <2>6
<1> QED BY <1>1, <1>2

\* The retained events after a cursor, as frames.
LEMMA ReplayFacts ==
  ASSUME NEW T, NEW s \in SessionOver(T), Window(s), NEW seq \in Nat
  PROVE  LET r == ReplayAfter(s, seq)
         IN  /\ r \in Seq(Items(T)) /\ Len(r) \in Nat
             /\ \A k \in 1 .. Len(r) : /\ r[k] \in Items(T)
                                       /\ seq < r[k].seq /\ r[k].seq <= s.seq
             /\ \A k, m \in 1 .. Len(r) : k < m => r[k].seq < r[m].seq
             /\ \A i \in 1 .. Len(s.buf) :
                  s.buf[i].seq > seq => \E k \in 1 .. Len(r) : r[k].seq = s.buf[i].seq
<1> DEFINE q == s.buf
           I == {i \in DOMAIN q : q[i].seq > seq}
           r == ReplayAfter(s, seq)
<1>1. q \in Seq(Items(T)) /\ s.floor \in Nat /\ s.seq \in Nat
  BY DEF SessionOver
<1>2. Ordered(q, s.floor, s.seq)
  BY WindowIsOrdered
<1>3. r = Entries(q, I)
  BY DEF ReplayAfter
<1> HIDE DEF q, r
<1>4. DOMAIN q = 1 .. Len(q)
  BY <1>1
<1>5. I \subseteq 1 .. Len(q) /\ \A i \in 1 .. Len(q) : i \in I <=> q[i].seq > seq
  BY <1>4
<1> HIDE DEF I
<1> DEFINE z == Ascending(I)
<1>7. /\ r \in Seq(Items(T)) /\ Len(r) \in Nat
      /\ \A i \in 1 .. Len(r) : z[i] \in I /\ r[i] = q[z[i]]
      /\ \A i, j \in 1 .. Len(r) : i < j => z[i] < z[j]
      /\ \A y \in I : \E i \in 1 .. Len(r) : z[i] = y
  <2> HIDE DEF Items
  <2>1. r \in Seq(Items(T)) /\ Len(r) \in Nat /\ Lists(r, q, I)
    BY <1>1, <1>3, <1>5, EntriesFacts
  <2> QED BY <2>1 DEF Lists
<1> HIDE DEF z
<1>8. \A i \in 1 .. Len(q) : q[i] \in Items(T) /\ q[i].seq \in Nat
  <2>1. \A i \in 1 .. Len(q) : q[i] \in Items(T)
    BY <1>1
  <2> QED BY <2>1 DEF Items
<1>9. \A k \in 1 .. Len(r) : z[k] \in 1 .. Len(q) /\ q[z[k]].seq > seq
  BY <1>5, <1>7
<1>10. \A k \in 1 .. Len(r) : r[k] \in Items(T) /\ seq < r[k].seq /\ r[k].seq <= s.seq
  <2> TAKE k \in 1 .. Len(r)
  <2> DEFINE j == z[k]
  <2>1. j \in 1 .. Len(q) /\ q[j].seq > seq /\ r[k] = q[j]
    BY <1>7, <1>9
  <2> HIDE DEF j
  <2>2. q[j] \in Items(T) /\ q[j].seq \in Nat /\ q[j].seq <= s.seq
    BY <1>2, <1>8, <2>1 DEF Ordered
  <2> QED BY <2>1, <2>2
<1>11. \A k, m \in 1 .. Len(r) : k < m => r[k].seq < r[m].seq
  <2> TAKE k, m \in 1 .. Len(r)
  <2> HAVE k < m
  <2> DEFINE j == z[k]
             l == z[m]
  <2>1. j \in 1 .. Len(q) /\ l \in 1 .. Len(q) /\ j < l /\ r[k] = q[j] /\ r[m] = q[l]
    BY <1>7, <1>9
  <2> HIDE DEF j, l
  <2> QED BY <1>2, <2>1 DEF Ordered
<1>12. \A i \in 1 .. Len(q) :
         q[i].seq > seq => \E k \in 1 .. Len(r) : r[k].seq = q[i].seq
  <2> TAKE i \in 1 .. Len(q)
  <2> HAVE q[i].seq > seq
  <2>1. i \in I
    BY <1>5
  <2>2. PICK k \in 1 .. Len(r) : z[k] = i
    BY <1>7, <2>1
  <2>3. r[k] = q[i]
    BY <1>7, <2>2
  <2> QED BY <2>3
<1>13. DOMAIN q = 1 .. Len(q) /\ q = s.buf
  BY <1>4 DEF q
<1> QED BY <1>7, <1>10, <1>11, <1>12, <1>13 DEF r

\* What a cursor is answered with, and what was heard before the answer.
Bridges(a, c) ==
  \A i \in 1 .. Len(c.buf) :
    \/ \E k \in 1 .. Len(a) : IsEvent(a[k]) /\ a[k].id = c.buf[i].id
    \/ \A k \in 1 .. Len(a) : IsEvent(a[k]) => Later(c.buf[i].id, a[k].id)

LEMMA AnswerFacts ==
  ASSUME NEW T, Sound(T, conn, sess), conn.phase = "opening",
         NEW s \in SessionOver(T), s = sess[conn.pod], Window(s)
  PROVE  LET a == Answer(conn.pod, conn.cursor)
         IN  /\ a \in Seq(StreamFrames(T))
             /\ \A k \in 1 .. Len(a) : At(a[k].id, conn.pod, s)
             /\ Ascends(a)
             /\ \A k \in 1 .. Len(a) : IsEvent(a[k]) => Later(a[k].id, NoCursor)
             /\ Bridges(a, conn)
<1> DEFINE p == conn.pod
           cursor == conn.cursor
           a == Answer(p, cursor)
           head == HeadCursor(p)
<1>1. /\ conn \in Streams(T) /\ p \in Pods /\ cursor \in Ids
      /\ StreamOrder(conn, s)
  BY StreamTypes DEF Sound
<1>2. Waiting(conn, s)
  BY <1>1 DEF StreamOrder
<1>3. s.gen \in Nat /\ s.seq \in Nat /\ s.floor \in Nat /\ s.tracked \in BOOLEAN
  BY DEF SessionOver
<1>4. head = [pod |-> p, gen |-> s.gen, seq |-> s.seq]
  BY DEF HeadCursor, Cursor
<1> HIDE DEF p, cursor, head
<1>5. CASE cursor = NoCursor
  <2>1. a = <<>>
    BY <1>5 DEF Answer
  <2>2. a \in Seq(StreamFrames(T)) /\ Len(a) = 0
    BY <2>1
  <2> HIDE DEF a
  <2>3. Ascends(a) /\ Bridges(a, conn)
    BY <2>2 DEF Ascends, Bridges
  <2> QED BY <2>2, <2>3 DEF a, p, cursor
<1>6. CASE a = <<Control("reset", head)>>
  <2> DEFINE f == Control("reset", head)
  <2>1. f \in StreamFrames(T) /\ f.do = "reset" /\ f.id = head
    BY <1>1, <1>3, <1>4 DEF Control, StreamFrames, Ids
  <2>2. At(head, p, s)
    BY <1>3, <1>4 DEF At, Past
  <2> HIDE DEF f
  <2>3. a \in Seq(StreamFrames(T)) /\ Len(a) = 1 /\ a[1] = f
    BY <1>6, <2>1 DEF f
  <2> HIDE DEF a
  <2>4. \A k \in 1 .. Len(a) : k = 1 /\ a[k] = f
    <3>1. \A k \in 1 .. 1 : k = 1
      OBVIOUS
    <3> QED BY <2>3, <3>1
  <2>5. Ascends(a)
    BY <2>4 DEF Ascends
  <2>6. Bridges(a, conn)
    BY <2>1, <2>4 DEF Bridges, IsEvent
  <2>7. \A k \in 1 .. Len(a) : At(a[k].id, p, s) /\ ~IsEvent(a[k])
    BY <2>1, <2>2, <2>4 DEF IsEvent
  <2> QED BY <2>3, <2>5, <2>6, <2>7 DEF a, p, cursor
<1> DEFINE items == ReplayAfter(s, cursor.seq)
           frame(k) == EventFrame([head EXCEPT !.seq = items[k].seq], items[k].ev)
<1>7. CASE /\ cursor # NoCursor /\ a # <<Control("reset", head)>>
  <2>1. /\ cursor.pod = p /\ cursor.gen = s.gen /\ s.tracked
        /\ ~(cursor.seq > s.seq) /\ ~(cursor.seq < s.floor)
        /\ a = [k \in 1 .. Len(items) |-> frame(k)]
    <3>1. [pod |-> cursor.pod, gen |-> cursor.gen] = [pod |-> p, gen |-> s.gen]
          /\ ~ReplayGap(s, cursor.seq) /\ a = [k \in 1 .. Len(items) |-> frame(k)]
      <4>1. sess[p] = s
        BY DEF p
      <4>2. a = IF \/ [pod |-> cursor.pod, gen |-> cursor.gen] # [pod |-> p, gen |-> s.gen]
                   \/ ReplayGap(s, cursor.seq)
                THEN <<Control("reset", head)>>
                ELSE [k \in 1 .. Len(items) |-> frame(k)]
        BY <1>7, <4>1 DEF Answer, head
      <4> HIDE DEF a, items
      <4> QED BY <1>7, <4>2
    <3>2. cursor.pod = p /\ cursor.gen = s.gen
      BY <3>1
    <3> QED BY <3>1, <3>2 DEF ReplayGap
  <2>2. cursor.seq \in Nat
    BY <1>1 DEF Ids
  <2>3. /\ items \in Seq(Items(T)) /\ Len(items) \in Nat
        /\ \A k \in 1 .. Len(items) : /\ items[k] \in Items(T)
                                      /\ cursor.seq < items[k].seq /\ items[k].seq <= s.seq
        /\ \A k, m \in 1 .. Len(items) : k < m => items[k].seq < items[m].seq
        /\ \A i \in 1 .. Len(s.buf) :
             s.buf[i].seq > cursor.seq => \E k \in 1 .. Len(items) : items[k].seq = s.buf[i].seq
    BY <2>2, ReplayFacts
  <2> HIDE DEF items, a
  <2>4. \A k \in 1 .. Len(items) : items[k].seq \in Nat /\ items[k].ev \in T
    BY <2>3 DEF Items
  <2>5. ASSUME NEW k \in 1 .. Len(items)
        PROVE  /\ frame(k) \in StreamFrames(T) /\ frame(k).do = "event"
               /\ frame(k).id = [pod |-> p, gen |-> s.gen, seq |-> items[k].seq]
    BY <1>1, <1>3, <1>4, <2>4 DEF EventFrame, StreamFrames, Ids
  <2> HIDE DEF frame
  <2>6. /\ a \in Seq(StreamFrames(T)) /\ Len(a) = Len(items)
        /\ \A k \in 1 .. Len(items) : a[k] = frame(k)
    <3> DEFINE F == StreamFrames(T)
               m == Len(items)
    <3>1. \A k \in 1 .. m : frame(k) \in F
      BY <2>5
    <3>2. m \in Nat /\ a = [k \in 1 .. m |-> frame(k)]
      BY <2>1, <2>3
    <3> HIDE DEF F, m
    <3>3. a \in Seq(F) /\ Len(a) = m /\ \A k \in 1 .. m : a[k] = frame(k)
      BY <3>1, <3>2
    <3> QED BY <3>3 DEF F, m
  <2>7. \A k \in 1 .. Len(items) :
          /\ IsEvent(a[k]) /\ At(a[k].id, p, s) /\ Later(a[k].id, NoCursor)
          /\ a[k].id = [pod |-> p, gen |-> s.gen, seq |-> items[k].seq]
    <3> TAKE k \in 1 .. Len(items)
    <3>1. a[k].do = "event" /\ a[k].id = [pod |-> p, gen |-> s.gen, seq |-> items[k].seq]
      BY <2>5, <2>6
    <3>2. items[k].seq \in Nat /\ items[k].seq <= s.seq /\ items[k].seq >= 1
      BY <2>2, <2>3, <2>4
    <3>3. At(a[k].id, p, s)
      BY <3>1, <3>2 DEF At, Past
    <3>4. Later(a[k].id, NoCursor)
      BY <1>3, <3>1, <3>2 DEF Later, NoCursor
    <3> QED BY <3>1, <3>3, <3>4 DEF IsEvent
  <2>8. Ascends(a)
    <3> SUFFICES ASSUME NEW k \in 1 .. Len(a), NEW m \in 1 .. Len(a), k < m
                 PROVE  Later(a[m].id, a[k].id)
      BY DEF Ascends
    <3>1. items[k].seq < items[m].seq
      BY <2>3, <2>6
    <3>2. /\ a[k].id = [pod |-> p, gen |-> s.gen, seq |-> items[k].seq]
          /\ a[m].id = [pod |-> p, gen |-> s.gen, seq |-> items[m].seq]
      BY <2>6, <2>7
    <3>3. items[k].seq \in Nat /\ items[m].seq \in Nat
      BY <2>4, <2>6
    <3> QED BY <3>1, <3>2, <3>3 DEF Later
  <2>9. ASSUME NEW i \in 1 .. Len(conn.buf)
        PROVE  \E k \in 1 .. Len(a) : IsEvent(a[k]) /\ a[k].id = conn.buf[i].id
    <3> DEFINE id == conn.buf[i].id
    <3>1. id \in Ids /\ At(id, p, s) /\ Later(id, cursor) /\ InRing(id, s)
      <4>1. IsEvent(conn.buf[i])
        BY <1>1 DEF StreamOrder
      <4>2. cursor.pod = conn.pod
        BY <2>1 DEF p
      <4>3. conn.buf[i].ev \notin Trace
        BY <1>2 DEF Waiting
      <4> QED BY <1>1, <1>2, <4>1, <4>2, <4>3, StreamTypes DEF StreamOrder, Waiting, p, cursor
    <3> HIDE DEF id
    <3>2. id.gen \in Nat /\ id.seq \in Nat /\ id.pod = p
      BY <3>1 DEF Ids, At
    <3>3. id.gen = s.gen /\ id.seq > cursor.seq /\ id.seq > s.floor
      BY <1>3, <2>1, <2>2, <3>1, <3>2 DEF At, Past, Later
    <3>4. PICK j \in 1 .. Len(s.buf) : s.buf[j].seq = id.seq
      BY <1>3, <2>1, <3>1, <3>2, <3>3 DEF InRing
    <3>5. PICK k \in 1 .. Len(items) : items[k].seq = id.seq
      BY <2>3, <3>3, <3>4
    <3>6. id = [pod |-> p, gen |-> s.gen, seq |-> id.seq]
      BY <3>1, <3>2, <3>3 DEF Ids
    <3>7. IsEvent(a[k]) /\ a[k].id = id
      BY <2>7, <3>5, <3>6
    <3> QED BY <2>6, <3>5, <3>7 DEF id
  <2>10. Bridges(a, conn)
    BY <2>9 DEF Bridges
  <2> QED BY <2>6, <2>7, <2>8, <2>10 DEF a, p, cursor
<1> QED BY <1>5, <1>6, <1>7

LEMMA ConnectedSound ==
  ASSUME NEW T, Sound(T, conn, sess), conn.phase = "opening",
         sess[conn.pod] \in SessionOver(T), Window(sess[conn.pod])
  PROVE  Sound(T, Settled([conn EXCEPT !.phase = "replay",
                                       !.todo = Answer(conn.pod, conn.cursor)]), sess)
<1> DEFINE s == sess[conn.pod]
           a == Answer(conn.pod, conn.cursor)
           d == [conn EXCEPT !.phase = "replay", !.todo = a]
<1>1. conn \in Streams(T) /\ conn.pod \in Pods /\ StreamOrder(conn, s)
  BY DEF Sound
<1>2. /\ a \in Seq(StreamFrames(T))
      /\ \A k \in 1 .. Len(a) : At(a[k].id, conn.pod, s)
      /\ Ascends(a)
      /\ \A k \in 1 .. Len(a) : IsEvent(a[k]) => Later(a[k].id, NoCursor)
      /\ Bridges(a, conn)
  BY AnswerFacts
<1> HIDE DEF a, s
<1>3. /\ d \in Streams(T) /\ d.phase = "replay" /\ d.pod = conn.pod
      /\ d.cursor = conn.cursor /\ d.todo = a /\ d.buf = conn.buf
      /\ d.sent = conn.sent /\ d.high = conn.high
  <2>1. "replay" \in Phases
    BY DEF Phases
  <2> HIDE DEF StreamFrames, Ids, Phases
  <2> QED BY <1>1, <1>2, <2>1 DEF Streams
<1> HIDE DEF d
<1>4. conn.high = NoCursor
  BY <1>1 DEF StreamOrder, Waiting
<1>5. Replaying(d)
  <2>1. ASSUME NEW i \in 1 .. Len(conn.buf)
        PROVE  \/ \E k \in 1 .. Len(a) : IsEvent(a[k]) /\ a[k].id = conn.buf[i].id
               \/ After(conn.buf[i].id, d)
    <3>1. Later(conn.buf[i].id, conn.high)
      BY <1>1 DEF StreamOrder
    <3> QED BY <1>2, <1>3, <3>1 DEF Bridges, After
  <2> QED BY <1>2, <1>3, <1>4, <2>1 DEF Replaying
<1>6. StreamOrder(d, s)
  BY <1>1, <1>2, <1>3, <1>5 DEF StreamOrder
<1>7. Sound(T, Settled(d), sess)
  BY <1>1, <1>3, <1>6, SettledSound DEF Sound, s
<1> QED BY <1>7 DEF d, a

\* The fields of a stream that wrote a frame.
NewHigh(frame, c) == IF IsEvent(frame) THEN frame.id ELSE c.high

LEMMA WroteTypes ==
  ASSUME NEW T, conn \in Streams(T), NEW frame \in StreamFrames(T),
         IsEvent(frame) => Later(frame.id, conn.high)
  PROVE  LET c == Wrote(frame)
         IN  /\ c \in Streams(T) /\ c.high = NewHigh(frame, conn)
             /\ c.phase = conn.phase /\ c.pod = conn.pod /\ c.cursor = conn.cursor
             /\ c.todo = conn.todo /\ c.buf = conn.buf /\ c.sent = conn.sent
<1>1. CASE ~IsEvent(frame)
  BY <1>1 DEF Wrote, IsEvent, NewHigh
<1>2. CASE IsEvent(frame)
  <2> DEFINE x == frame.id
             v == conn.ordered /\ Later(frame.id, conn.high)
             d == [conn EXCEPT !.high = x, !.ordered = v]
  <2>1. Wrote(frame) = d
    BY <1>2 DEF Wrote, IsEvent
  <2>2. v \in {TRUE}
    <3>1. conn.ordered /\ Later(frame.id, conn.high)
      BY <1>2, StreamTypes
    <3> HIDE DEF Later
    <3> QED BY <3>1
  <2>3. x \in Ids
    BY DEF StreamFrames
  <2> HIDE DEF v, x
  <2>4. /\ d \in Streams(T) /\ d.high = x
        /\ d.phase = conn.phase /\ d.pod = conn.pod /\ d.cursor = conn.cursor
        /\ d.todo = conn.todo /\ d.buf = conn.buf /\ d.sent = conn.sent
    <3> HIDE DEF StreamFrames, Ids, Phases
    <3> QED BY <2>2, <2>3 DEF Streams
  <2> HIDE DEF d
  <2> QED BY <1>2, <2>1, <2>4 DEF NewHigh, x
<1> QED BY <1>1, <1>2

LEMMA TailKeeps ==
  ASSUME NEW T, NEW q \in Seq(StreamFrames(T)), q # <<>>
  PROVE  /\ Tail(q) \in Seq(StreamFrames(T)) /\ Len(Tail(q)) <= Len(q)
         /\ Head(q) = q[1] /\ 1 \in 1 .. Len(q) /\ q[1] \in StreamFrames(T)
         /\ Head(q).id \in Ids
         /\ \A i \in 1 .. Len(Tail(q)) :
              i + 1 \in 1 .. Len(q) /\ 1 < i + 1 /\ Tail(q)[i] = q[i + 1]
         /\ Ascends(q) => /\ Ascends(Tail(q))
                          /\ \A i \in 1 .. Len(Tail(q)) : Later(Tail(q)[i].id, q[1].id)
         /\ \A i \in 1 .. Len(q) : i = 1 \/ (i - 1 \in 1 .. Len(Tail(q)) /\ Tail(q)[i - 1] = q[i])
<1> DEFINE r == Tail(q)
<1>1. /\ r \in Seq(StreamFrames(T)) /\ Len(q) \in Nat \ {0}
      /\ Head(q) = q[1] /\ Head(q) \in StreamFrames(T) /\ Len(r) = Len(q) - 1
      /\ \A i \in 1 .. Len(q) - 1 : r[i] = q[i + 1]
  <2> HIDE DEF StreamFrames
  <2> QED BY TailFacts
<1>2. Head(q).id \in Ids
  BY <1>1 DEF StreamFrames
<1> HIDE DEF r
<1>3. 1 \in 1 .. Len(q) /\ Len(r) <= Len(q)
  BY <1>1
<1>4. \A i \in 1 .. Len(r) : i + 1 \in 1 .. Len(q) /\ 1 < i + 1 /\ r[i] = q[i + 1]
  BY <1>1
<1>5. \A i \in 1 .. Len(q) : i = 1 \/ (i - 1 \in 1 .. Len(r) /\ r[i - 1] = q[i])
  BY <1>1
<1>6. ASSUME Ascends(q) PROVE /\ Ascends(r)
                              /\ \A i \in 1 .. Len(r) : Later(r[i].id, q[1].id)
  <2>1. \A i \in 1 .. Len(r) : Later(r[i].id, q[1].id)
    BY <1>3, <1>4, <1>6 DEF Ascends
  <2>2. ASSUME NEW i \in 1 .. Len(r), NEW j \in 1 .. Len(r), i < j
        PROVE  Later(r[j].id, r[i].id)
    <3>1. i + 1 < j + 1
      BY <2>2
    <3> QED BY <1>4, <1>6, <3>1 DEF Ascends
  <2> QED BY <2>1, <2>2 DEF Ascends
<1> QED BY <1>1, <1>2, <1>3, <1>4, <1>5, <1>6 DEF r

LEMMA WriteReplaySound ==
  ASSUME NEW T, Sound(T, conn, sess), WriteReplay
  PROVE  Sound(T, conn', sess)
<1> DEFINE h == Head(conn.todo)
           s == sess[conn.pod]
           q == Tail(conn.todo)
           z == conn.sent \cup SentId(h)
           w == Wrote(h)
           d == [w EXCEPT !.todo = q, !.sent = z]
<1>1. /\ conn \in Streams(T) /\ conn.pod \in Pods /\ StreamOrder(conn, s)
      /\ conn.phase = "replay" /\ conn.todo # <<>> /\ Len(conn.buf) <= QueueMax
      /\ Placed(conn.cursor, sess)
  BY DEF Sound, WriteReplay
<1>2. Replaying(conn)
  BY <1>1 DEF StreamOrder
<1>3. conn.todo \in Seq(StreamFrames(T)) /\ conn.sent \subseteq Ids
  BY <1>1, StreamTypes
<1>4. /\ q \in Seq(StreamFrames(T)) /\ h = conn.todo[1] /\ 1 \in 1 .. Len(conn.todo)
      /\ h \in StreamFrames(T) /\ h.id \in Ids
      /\ \A i \in 1 .. Len(q) :
           i + 1 \in 1 .. Len(conn.todo) /\ 1 < i + 1 /\ q[i] = conn.todo[i + 1]
      /\ Ascends(q) /\ \A i \in 1 .. Len(q) : Later(q[i].id, h.id)
      /\ \A i \in 1 .. Len(conn.todo) :
           i = 1 \/ (i - 1 \in 1 .. Len(q) /\ q[i - 1] = conn.todo[i])
  BY <1>1, <1>2, <1>3, TailKeeps DEF Replaying
<1> HIDE DEF q, h
<1>5. IsEvent(h) => Later(h.id, conn.high)
  BY <1>2, <1>4 DEF Replaying
<1>6. /\ w \in Streams(T) /\ w.high = NewHigh(h, conn)
      /\ w.phase = conn.phase /\ w.pod = conn.pod /\ w.cursor = conn.cursor
      /\ w.todo = conn.todo /\ w.buf = conn.buf /\ w.sent = conn.sent
  BY <1>1, <1>4, <1>5, WroteTypes
<1>7. z \in SUBSET Ids /\ conn.sent \subseteq z /\ (IsEvent(h) => h.id \in z)
  BY <1>3, <1>4 DEF SentId, IsEvent
<1>8. conn' = Settled(d)
  BY <1>6 DEF WriteReplay, h, q
<1> HIDE DEF w, z
<1>9. /\ d \in Streams(T) /\ d.todo = q /\ d.sent = z
      /\ d.phase = conn.phase /\ d.pod = conn.pod /\ d.cursor = conn.cursor
      /\ d.buf = conn.buf /\ d.high = NewHigh(h, conn)
  <2>1. w \in Streams(T) /\ q \in Seq(StreamFrames(T)) /\ z \in SUBSET Ids
    BY <1>4, <1>6, <1>7
  <2>2. /\ d \in Streams(T) /\ d.todo = q /\ d.sent = z
        /\ d.phase = w.phase /\ d.pod = w.pod /\ d.cursor = w.cursor
        /\ d.buf = w.buf /\ d.high = w.high
    <3> HIDE DEF StreamFrames, Ids, Phases
    <3> QED BY <2>1 DEF Streams
  <2> QED BY <1>6, <2>2
<1> HIDE DEF d
<1>10. \A k \in 1 .. Len(q) : IsEvent(q[k]) => Later(q[k].id, d.high)
  BY <1>2, <1>4, <1>9 DEF NewHigh, Replaying
<1>11. ASSUME NEW i \in 1 .. Len(conn.buf)
       PROVE  \/ conn.buf[i].id \in z
              \/ \E k \in 1 .. Len(q) : IsEvent(q[k]) /\ q[k].id = conn.buf[i].id
              \/ After(conn.buf[i].id, d)
  <2>1. CASE conn.buf[i].id \in conn.sent
    BY <1>7, <2>1
  <2>2. CASE \E k \in 1 .. Len(conn.todo) :
               IsEvent(conn.todo[k]) /\ conn.todo[k].id = conn.buf[i].id
    <3>1. PICK k \in 1 .. Len(conn.todo) :
                 IsEvent(conn.todo[k]) /\ conn.todo[k].id = conn.buf[i].id
      BY <2>2
    <3>2. CASE k = 1
      BY <1>4, <1>7, <3>1, <3>2
    <3>3. CASE k # 1
      BY ZenonT(40), <1>4, <3>1, <3>3
    <3> QED BY <3>2, <3>3
  <2>3. CASE After(conn.buf[i].id, conn)
    <3>1. Later(conn.buf[i].id, d.high)
      BY <1>4, <1>9, <2>3 DEF After, NewHigh
    <3>2. \A k \in 1 .. Len(q) : IsEvent(q[k]) => Later(conn.buf[i].id, q[k].id)
      BY <1>4, <2>3 DEF After
    <3> QED BY <1>9, <3>1, <3>2 DEF After
  <2> QED BY <1>2, <2>1, <2>2, <2>3 DEF Replaying
<1>12. Replaying(d)
  BY <1>4, <1>9, <1>10, <1>11 DEF Replaying
<1>13. Past(d.high, s) /\ \A k \in 1 .. Len(q) : At(q[k].id, conn.pod, s)
  BY ZenonT(40), <1>1, <1>4, <1>9 DEF NewHigh, StreamOrder, At
<1>14. StreamOrder(d, s)
  BY <1>1, <1>9, <1>12, <1>13 DEF StreamOrder
<1> QED BY <1>1, <1>8, <1>9, <1>14, SettledSound

\* The stream after it wrote or skipped the first of what it heard.
LEMMA ShiftedOrder ==
  ASSUME NEW T, NEW c \in Streams(T), NEW d \in Streams(T), NEW s, StreamOrder(c, s),
         c.phase \in {"replay", "live"}, c.phase = "replay" => c.todo = <<>>,
         \A i \in 1 .. Len(c.buf) : IsEvent(c.buf[i]),
         c.buf # <<>>,
         d.phase = c.phase, d.pod = c.pod, d.cursor = c.cursor, d.todo = c.todo,
         d.sent = c.sent, d.buf = Tail(c.buf),
         d.high \in {c.high, c.buf[1].id}
  PROVE  StreamOrder(d, s)
<1> DEFINE q == Tail(c.buf)
<1>1. c.buf \in Seq(StreamFrames(T))
  BY StreamTypes
<1>2. /\ 1 \in 1 .. Len(c.buf)
      /\ \A i \in 1 .. Len(q) :
           i + 1 \in 1 .. Len(c.buf) /\ 1 < i + 1 /\ q[i] = c.buf[i + 1]
      /\ Ascends(q) /\ \A i \in 1 .. Len(q) : Later(q[i].id, c.buf[1].id)
  BY <1>1, TailKeeps DEF StreamOrder
<1> HIDE DEF q
<1>3. d.buf = q
  BY DEF q
<1>4. Past(d.high, s)
  BY <1>2 DEF StreamOrder, At
<1>5. \A i \in 1 .. Len(q) : IsEvent(q[i]) /\ At(q[i].id, c.pod, s)
  BY <1>2 DEF StreamOrder
<1>6. ASSUME c.phase = "replay" PROVE Replaying(d)
  <2>1. Replaying(c) /\ Len(c.todo) = 0
    BY <1>6 DEF StreamOrder
  <2>2. ASSUME NEW i \in 1 .. Len(q) PROVE q[i].id \in d.sent \/ After(q[i].id, d)
    <3>1. c.buf[i + 1].id \in c.sent \/ After(c.buf[i + 1].id, c)
      BY <1>2, <2>1 DEF Replaying
    <3> QED BY <1>2, <2>1, <3>1 DEF After
  <2>3. Ascends(d.todo) /\ \A k \in 1 .. Len(d.todo) : FALSE
    BY <2>1 DEF Ascends
  <2> QED BY <1>3, <2>2, <2>3 DEF Replaying
<1>7. ASSUME c.phase # "replay", NEW i \in 1 .. Len(q) PROVE Later(q[i].id, d.high)
  BY <1>2, <1>7 DEF StreamOrder
<1> QED BY <1>2, <1>3, <1>4, <1>5, <1>6, <1>7 DEF StreamOrder

LEMMA WriteBufferedSound ==
  ASSUME NEW T, Sound(T, conn, sess), WriteBuffered
  PROVE  Sound(T, conn', sess)
<1> DEFINE h == Head(conn.buf)
           s == sess[conn.pod]
           q == Tail(conn.buf)
           w == Wrote(h)
<1>1. /\ conn \in Streams(T) /\ conn.pod \in Pods /\ StreamOrder(conn, s)
      /\ conn.phase = "replay" /\ conn.todo = <<>> /\ conn.buf # <<>>
      /\ Len(conn.buf) <= QueueMax /\ Placed(conn.cursor, sess)
  BY DEF Sound, WriteBuffered
<1>2. conn.buf \in Seq(StreamFrames(T)) /\ Len(conn.buf) \in Nat
  BY <1>1, StreamTypes
<1>3. /\ q \in Seq(StreamFrames(T)) /\ Len(q) <= Len(conn.buf) /\ Len(q) \in Nat
      /\ h = conn.buf[1] /\ 1 \in 1 .. Len(conn.buf) /\ h \in StreamFrames(T)
  <2>1. /\ q \in Seq(StreamFrames(T)) /\ Len(q) <= Len(conn.buf)
        /\ h = conn.buf[1] /\ 1 \in 1 .. Len(conn.buf) /\ h \in StreamFrames(T)
    BY <1>1, <1>2, TailKeeps
  <2> QED BY <2>1, FrameTypes
<1>4. \A i \in 1 .. Len(conn.buf) : IsEvent(conn.buf[i])
  BY <1>1 DEF StreamOrder
<1>5. ASSUME NEW c \in Streams(T), NEW d, d = [c EXCEPT !.buf = q], conn' = Settled(d),
             c.phase = conn.phase, c.pod = conn.pod, c.cursor = conn.cursor,
             c.todo = conn.todo, c.sent = conn.sent, c.high \in {conn.high, h.id}
      PROVE  Sound(T, conn', sess)
  <2> HIDE DEF q
  <2>1. /\ d \in Streams(T) /\ d.buf = q
        /\ d.phase = conn.phase /\ d.pod = conn.pod /\ d.cursor = conn.cursor
        /\ d.todo = conn.todo /\ d.sent = conn.sent /\ d.high = c.high
    BY <1>3, <1>5, HeardTypes
  <2>2. d.high \in {conn.high, conn.buf[1].id} /\ d.buf = Tail(conn.buf)
    BY <1>3, <1>5, <2>1 DEF q
  <2> HIDE DEF h
  <2>3. StreamOrder(d, s)
    BY <1>1, <1>4, <2>1, <2>2, ShiftedOrder
  <2>4. Len(d.buf) <= QueueMax
    BY <1>1, <1>2, <1>3, <2>1, QueueMaxPositive
  <2> QED BY <1>1, <1>5, <2>1, <2>3, <2>4, SettledSound
<1>6. CASE conn' = Settled([conn EXCEPT !.buf = q])
  BY <1>1, <1>5, <1>6
<1>7. CASE h.id \notin conn.sent /\ conn' = Settled([w EXCEPT !.buf = q])
  <2>1. Later(h.id, conn.high)
    <3>1. Replaying(conn) /\ Len(conn.todo) = 0
      BY <1>1 DEF StreamOrder
    <3>2. After(conn.buf[1].id, conn)
      BY <1>3, <1>7, <3>1 DEF Replaying
    <3> QED BY <1>3, <3>2 DEF After
  <2> HIDE DEF h
  <2>2. /\ w \in Streams(T) /\ w.high = NewHigh(h, conn)
        /\ w.phase = conn.phase /\ w.pod = conn.pod /\ w.cursor = conn.cursor
        /\ w.todo = conn.todo /\ w.buf = conn.buf /\ w.sent = conn.sent
    BY <1>1, <1>3, <2>1, WroteTypes
  <2>3. w.high \in {conn.high, h.id}
    BY <2>2 DEF NewHigh
  <2> HIDE DEF w, q
  <2> QED BY <1>5, <1>7, <2>2, <2>3
<1>8. \/ conn' = Settled([conn EXCEPT !.buf = q])
      \/ h.id \notin conn.sent /\ conn' = Settled([w EXCEPT !.buf = q])
  <2>1. w.buf = conn.buf
    BY <1>1 DEF Wrote, Streams
  <2> QED BY <2>1 DEF WriteBuffered
<1> QED BY <1>6, <1>7, <1>8

LEMMA WriteLiveSound ==
  ASSUME NEW T, Sound(T, conn, sess), WriteLive
  PROVE  Sound(T, conn', sess)
<1> DEFINE h == Head(conn.buf)
           s == sess[conn.pod]
           q == Tail(conn.buf)
           w == Wrote(h)
           d == [w EXCEPT !.buf = q]
<1>1. /\ conn \in Streams(T) /\ conn.pod \in Pods /\ StreamOrder(conn, s)
      /\ conn.phase = "live" /\ conn.buf # <<>>
      /\ Len(conn.buf) <= QueueMax /\ Placed(conn.cursor, sess)
  BY DEF Sound, WriteLive
<1>2. CASE ResetQueued(conn)
  <2>1. conn' = Closing(conn)
    BY <1>2 DEF WriteLive
  <2> QED BY <1>1, <2>1, SoundClosing
<1>3. CASE ~ResetQueued(conn)
  <2>1. conn' = d
    <3>1. w.buf = conn.buf
      BY <1>1 DEF Wrote, Streams
    <3> QED BY <1>3, <3>1 DEF WriteLive
  <2>2. conn.buf \in Seq(StreamFrames(T)) /\ Len(conn.buf) \in Nat
    BY <1>1, StreamTypes
  <2>3. /\ q \in Seq(StreamFrames(T)) /\ Len(q) <= Len(conn.buf) /\ Len(q) \in Nat
        /\ h = conn.buf[1] /\ 1 \in 1 .. Len(conn.buf) /\ h \in StreamFrames(T)
    <3>1. /\ q \in Seq(StreamFrames(T)) /\ Len(q) <= Len(conn.buf)
          /\ h = conn.buf[1] /\ 1 \in 1 .. Len(conn.buf) /\ h \in StreamFrames(T)
      BY <1>1, <2>2, TailKeeps
    <3> QED BY <3>1, FrameTypes
  <2>4. \A i \in 1 .. Len(conn.buf) : IsEvent(conn.buf[i])
    BY <1>1, <1>3 DEF StreamOrder, ResetQueued
  <2>5. Later(h.id, conn.high)
    BY <1>1, <2>3, <2>4 DEF StreamOrder
  <2> HIDE DEF h
  <2>6. /\ w \in Streams(T) /\ w.high = NewHigh(h, conn)
        /\ w.phase = conn.phase /\ w.pod = conn.pod /\ w.cursor = conn.cursor
        /\ w.todo = conn.todo /\ w.buf = conn.buf /\ w.sent = conn.sent
    BY <1>1, <2>3, <2>5, WroteTypes
  <2>7. w.high \in {conn.high, conn.buf[1].id}
    BY <2>3, <2>6 DEF NewHigh
  <2> HIDE DEF w, q
  <2>8. /\ d \in Streams(T) /\ d.buf = q
        /\ d.phase = conn.phase /\ d.pod = conn.pod /\ d.cursor = conn.cursor
        /\ d.todo = conn.todo /\ d.sent = conn.sent /\ d.high = w.high
    BY <2>3, <2>6, HeardTypes
  <2> HIDE DEF d
  <2>9. StreamOrder(d, s)
    <3>1. d.buf = Tail(conn.buf)
      BY <2>8 DEF q
    <3> QED BY <1>1, <2>4, <2>7, <2>8, <3>1, ShiftedOrder
  <2>10. Len(d.buf) <= QueueMax
    BY <1>1, <2>2, <2>3, <2>8, QueueMaxPositive
  <2>11. Sound(T, d, sess)
    BY <1>1, <2>8, <2>9, <2>10 DEF Sound
  <2> QED BY <2>1, <2>11
<1> QED BY <1>2, <1>3

-----------------------------------------------------------------------------
(* What travels between the pods carries events of T.                      *)

Frames(T) == [pod : Pods, gen : Nat, seq : Nat, ev : T, ref : BOOLEAN]
Tasks(T) == [do : {"deliver"}, ev : T, ref : BOOLEAN] \cup {Reset}

IsRecv(r, T) ==
  /\ \E A : r \in [stream : A, expected : A, parked : SUBSET Frames(T)]
  /\ IsFiniteSet(r.parked)

NewsItems == [st : {"none", "queued", "saving", "sent", "lost", "unpublished"},
              pod : Pods \cup {NoPod}, gen : Nat, tseq : Nat]

Links(T) ==
  /\ outbox \in [Pods -> Seq(Frames(T))]
  /\ wire \in [Pods -> Seq(Frames(T))]
  /\ listening \in [Pods -> BOOLEAN]
  /\ recv = [p \in Pods |-> [o \in Pods |-> recv[p][o]]]
  /\ \A p, o \in Pods : IsRecv(recv[p][o], T)
  /\ chain \in [Pods -> [Pods -> Seq(Tasks(T))]]
  /\ news \in [Events -> NewsItems]
  /\ faults \in 0 .. MaxFaults

LEMMA RemoveAtType ==
  ASSUME NEW S, NEW q \in Seq(S), NEW i \in 1 .. Len(q)
  PROVE  RemoveAt(q, i) \in Seq(S)
<1>1. Len(q) \in Nat
  OBVIOUS
<1>2. SubSeq(q, 1, i - 1) \in Seq(S) /\ SubSeq(q, i + 1, Len(q)) \in Seq(S)
  <2>1. \A k \in 1 .. i - 1 : q[k] \in S
    BY <1>1
  <2>2. \A k \in i + 1 .. Len(q) : q[k] \in S
    BY <1>1
  <2>3. 1 \in Int /\ i - 1 \in Int /\ i + 1 \in Int /\ Len(q) \in Int
    BY <1>1
  <2> QED BY <2>1, <2>2, <2>3, SubSeqProperties
<1> QED BY <1>2, ConcatProperties DEF RemoveAt

LEMMA JoinType ==
  ASSUME NEW S, NEW q \in Seq(S), NEW r \in Seq(S)
  PROVE  q \o r \in Seq(S)
BY ConcatProperties

LEMMA DeliverType ==
  ASSUME NEW T, NEW f \in Frames(T)
  PROVE  Deliver(f) \in Tasks(T) /\ f.seq \in Nat
BY DEF Frames, Tasks, Deliver

LEMMA DeliveriesType ==
  ASSUME NEW T, NEW F, F \subseteq Frames(T), IsFiniteSet(F)
  PROVE  Deliveries(F) \in Seq(Tasks(T))
<1> DEFINE I == {f.seq : f \in F}
           z == Ascending(I)
           n == Cardinality(I)
           d == Deliveries(F)
           pick(i) == CHOOSE f \in F : f.seq = z[i]
<1>1. IsFiniteSet(I)
  <2> DEFINE h == [f \in F |-> f.seq]
  <2>1. h \in Surjection(F, I)
    BY DEF Surjection
  <2> QED BY <2>1, FS_Surjection
<1>2. I \subseteq Nat
  BY DeliverType
<1>3. n \in Nat /\ Rising(z, n, I)
  BY <1>1, <1>2, AscendingLists
<1>4. d = [i \in 1 .. n |-> Deliver(pick(i))]
  BY DEF Deliveries
<1>5. \A x \in I : \E f \in F : f.seq = x
  OBVIOUS
<1> HIDE DEF I, z, n, d
<1>6. \A i \in 1 .. n : pick(i) \in F
  <2> TAKE i \in 1 .. n
  <2>1. z[i] \in I
    BY <1>3 DEF Rising
  <2> QED BY <1>5, <2>1
<1> HIDE DEF pick
<1>7. \A i \in 1 .. n : Deliver(pick(i)) \in Tasks(T)
  BY <1>6, DeliverType
<1> DEFINE S == Tasks(T)
           g(i) == Deliver(pick(i))
<1>8. \A i \in 1 .. n : g(i) \in S
  BY <1>7
<1>9. d = [i \in 1 .. n |-> g(i)]
  BY <1>4
<1> HIDE DEF S, g
<1>10. d \in Seq(S)
  BY <1>3, <1>8, <1>9
<1> QED BY <1>10 DEF S, d

LEMMA FlushTypes ==
  ASSUME NEW T, NEW r, IsRecv(r, T)
  PROVE  FlushTasks(r) \in Seq(Tasks(T)) /\ IsRecv(Flushed(r), T)
<1>1. PICK A : r \in [stream : A, expected : A, parked : SUBSET Frames(T)]
  BY DEF IsRecv
<1>2. CASE r.parked = {}
  <2>1. FlushTasks(r) = <<>> /\ Flushed(r) = r
    BY <1>2 DEF FlushTasks, Flushed
  <2> QED BY <2>1
<1>3. CASE r.parked # {}
  <2>1. FlushTasks(r) = <<Reset>> \o Deliveries(r.parked)
    BY <1>3 DEF FlushTasks
  <2>2. Deliveries(r.parked) \in Seq(Tasks(T))
    <3>1. r.parked \subseteq Frames(T)
      BY <1>1
    <3> QED BY <3>1, DeliveriesType DEF IsRecv
  <2>3. <<Reset>> \in Seq(Tasks(T))
    <3>1. Reset \in Tasks(T)
      BY DEF Tasks
    <3> HIDE DEF Tasks, Reset
    <3> QED BY <3>1
  <2>4. FlushTasks(r) \in Seq(Tasks(T))
    BY <2>1, <2>2, <2>3, JoinType
  <2> DEFINE x == 1 + CHOOSE n \in {f.seq : f \in r.parked} : \A f \in r.parked : f.seq <= n
             d == [r EXCEPT !.parked = {}, !.expected = x]
  <2>5. Flushed(r) = d
    BY <1>3 DEF Flushed
  <2> HIDE DEF x
  <2>6. d \in [stream : A \cup {x}, expected : A \cup {x}, parked : SUBSET Frames(T)]
        /\ d.parked = {}
    BY <1>1
  <2> HIDE DEF d
  <2>7. IsRecv(d, T)
    BY <2>6, FS_EmptySet DEF IsRecv
  <2> QED BY <2>4, <2>5, <2>7
<1> QED BY <1>2, <1>3

LEMMA ReceptionTypes ==
  ASSUME NEW T, NEW r, IsRecv(r, T), NEW frame \in Frames(T)
  PROVE  LET x == Reception(r, frame)
         IN  IsRecv(x.r, T) /\ x.tasks \in Seq(Tasks(T))
<1> DEFINE freed == Consecutive(r, frame.seq)
           more == r.parked \cup {frame}
           less == r.parked \ freed
           parked == [r EXCEPT !.parked = more]
           n == frame.seq + 1 + Cardinality(freed)
           opened == [r EXCEPT !.expected = n, !.parked = less]
           x == Reception(r, frame)
<1>1. PICK A : r \in [stream : A, expected : A, parked : SUBSET Frames(T)]
  BY DEF IsRecv
<1>2. r.parked \subseteq Frames(T) /\ IsFiniteSet(r.parked)
  BY <1>1 DEF IsRecv
<1>3. freed \subseteq r.parked
  BY DEF Consecutive
<1>4. more \subseteq Frames(T) /\ IsFiniteSet(more)
  BY <1>2, FS_AddElement
<1>5. less \subseteq Frames(T) /\ IsFiniteSet(less)
  <2>1. less \in SUBSET r.parked
    OBVIOUS
  <2> QED BY <1>2, <2>1, FS_Subset
<1>6. {frame} \cup freed \subseteq Frames(T) /\ IsFiniteSet({frame} \cup freed)
  <2>1. IsFiniteSet(freed)
    BY <1>2, <1>3, FS_Subset
  <2>2. {frame} \cup freed = freed \cup {frame}
    OBVIOUS
  <2> QED BY <1>2, <1>3, <2>1, <2>2, FS_AddElement
<1>7. x \in {[r |-> r, tasks |-> <<>>],
             [r |-> opened, tasks |-> Deliveries({frame} \cup freed)],
             [r |-> parked, tasks |-> <<>>],
             [r |-> Flushed(parked), tasks |-> FlushTasks(parked)]}
  BY DEF Reception
<1> HIDE DEF freed, more, less, n, x
<1>8. IsRecv(parked, T)
  <2>1. parked \in [stream : A, expected : A, parked : SUBSET Frames(T)] /\ parked.parked = more
    BY <1>1, <1>4
  <2> HIDE DEF parked
  <2> QED BY <1>4, <2>1 DEF IsRecv
<1>9. IsRecv(opened, T)
  <2>1. opened \in [stream : A \cup {n}, expected : A \cup {n}, parked : SUBSET Frames(T)]
        /\ opened.parked = less
    BY <1>1, <1>5
  <2> HIDE DEF opened
  <2> QED BY <1>5, <2>1 DEF IsRecv
<1> HIDE DEF parked, opened
<1>10. Deliveries({frame} \cup freed) \in Seq(Tasks(T))
  BY <1>6, DeliveriesType
<1>11. IsRecv(Flushed(parked), T) /\ FlushTasks(parked) \in Seq(Tasks(T))
  BY <1>8, FlushTypes
<1>12. <<>> \in Seq(Tasks(T))
  OBVIOUS
<1>13. IsRecv(x.r, T) /\ x.tasks \in Seq(Tasks(T))
  <2> DEFINE ds == Deliveries({frame} \cup freed)
             fl == Flushed(parked)
             ft == FlushTasks(parked)
             S == Tasks(T)
  <2>1. /\ ds \in Seq(S) /\ ft \in Seq(S) /\ <<>> \in Seq(S)
        /\ IsRecv(fl, T)
    BY <1>10, <1>11, <1>12
  <2>2. x \in {[r |-> r, tasks |-> <<>>], [r |-> opened, tasks |-> ds],
               [r |-> parked, tasks |-> <<>>], [r |-> fl, tasks |-> ft]}
    BY <1>7
  <2> HIDE DEF ds, fl, ft, S
  <2>3. \/ x.r = r /\ x.tasks = <<>>
        \/ x.r = opened /\ x.tasks = ds
        \/ x.r = parked /\ x.tasks = <<>>
        \/ x.r = fl /\ x.tasks = ft
    BY <2>2
  <2>4. IsRecv(x.r, T) /\ x.tasks \in Seq(S)
    BY <1>8, <1>9, <2>1, <2>3
  <2> QED BY <2>4 DEF S
<1> QED BY <1>13 DEF x

-----------------------------------------------------------------------------
(* The steps of the bus.                                                   *)

LEMMA SessionOps ==
  ASSUME NEW T, NEW s \in SessionOver(T), NEW n \in Nat
  PROVE  /\ Untracked(n) \in SessionOver(T)
         /\ Touch(s) \in SessionOver(T)
         /\ Invalidate(s) \in SessionOver(T)
         /\ [s EXCEPT !.pins = n] \in SessionOver(T)
         /\ [s EXCEPT !.seq = n] \in SessionOver(T)
         /\ [s EXCEPT !.tseq = n] \in SessionOver(T)
<1>1. \A m \in Nat : Untracked(m) \in SessionOver(T)
  BY DEF Untracked, SessionOver
<1>2. \A u \in SessionOver(T) : [u EXCEPT !.tracked = TRUE] \in SessionOver(T)
  BY DEF SessionOver
<1>3. s.gen \in Nat /\ s.pins \in Nat
  BY DEF SessionOver
<1>4. Touch(s) \in SessionOver(T)
  BY <1>1, <1>2, <1>3 DEF Touch
<1>5. \A m \in Nat, k \in Nat :
        [Untracked(m) EXCEPT !.tracked = TRUE, !.pins = k] \in SessionOver(T)
  <2> TAKE m \in Nat, k \in Nat
  <2> DEFINE u == Untracked(m)
  <2>1. u \in SessionOver(T)
    BY <1>1
  <2> HIDE DEF u
  <2>2. [u EXCEPT !.tracked = TRUE, !.pins = k] \in SessionOver(T)
    BY <2>1 DEF SessionOver
  <2> QED BY <2>2 DEF u
<1>6. Touch(s).gen + 1 \in Nat
  <2> DEFINE t == Touch(s)
  <2>1. t \in SessionOver(T)
    BY <1>4
  <2> HIDE DEF t
  <2>2. t.gen + 1 \in Nat
    BY <2>1 DEF SessionOver
  <2> QED BY <2>2 DEF t
<1>7. Invalidate(s) \in SessionOver(T)
  BY <1>3, <1>5, <1>6 DEF Invalidate
<1>8. /\ [s EXCEPT !.pins = n] \in SessionOver(T)
      /\ [s EXCEPT !.seq = n] \in SessionOver(T)
      /\ [s EXCEPT !.tseq = n] \in SessionOver(T)
  BY DEF SessionOver
<1> QED BY <1>1, <1>4, <1>7, <1>8

LEMMA RetainType ==
  ASSUME NEW T, NEW s \in SessionOver(T), NEW e \in T
  PROVE  Retain(s, e) \in SessionOver(T)
<1> DEFINE item == [seq |-> s.seq, ev |-> e]
<1>1. s.seq \in Nat /\ s.buf \in Seq(Items(T))
  BY DEF SessionOver
<1>2. item \in Items(T)
  BY <1>1 DEF Items
<1> HIDE DEF item
<1>3. CASE e \in Trace
  BY <1>3 DEF Retain
<1>4. CASE e \notin Trace /\ Len(s.buf) < RingMax
  <2> DEFINE q == Append(s.buf, item)
  <2>1. q \in Seq(Items(T))
    BY <1>1, <1>2, AppendFacts
  <2>2. Retain(s, e) = [s EXCEPT !.buf = q]
    BY <1>4 DEF Retain, item
  <2> HIDE DEF q
  <2> QED BY <2>1, <2>2 DEF SessionOver
<1>5. CASE e \notin Trace /\ ~(Len(s.buf) < RingMax)
  <2> DEFINE b == s.buf
             w == Tail(b)
             q == Append(w, item)
             lo == Head(b).seq
  <2>1. b \in Seq(Items(T)) /\ b # <<>>
    BY <1>1, <1>5, RingMaxPositive
  <2>2. Retain(s, e) = [s EXCEPT !.buf = q, !.floor = lo]
    BY <1>5 DEF Retain, item
  <2> HIDE DEF b
  <2>3. w \in Seq(Items(T)) /\ Head(b) \in Items(T)
    BY <2>1, TailFacts
  <2>4. lo \in Nat
    BY <2>3 DEF Items
  <2> HIDE DEF w, lo
  <2>5. q \in Seq(Items(T))
    BY <1>2, <2>3, AppendFacts
  <2> HIDE DEF q
  <2> QED BY <2>2, <2>4, <2>5 DEF SessionOver
<1> QED BY <1>3, <1>4, <1>5

LEMMA AnnounceType ==
  ASSUME NEW T, NEW s \in SessionOver(T), NEW e \in T
  PROVE  Announce(s, e) \in SessionOver(T)
<1> DEFINE t == Touch(s)
           n == t.seq + 1
<1>1. t \in SessionOver(T)
  BY SessionOps
<1>2. Announce(s, e) = Retain([t EXCEPT !.seq = n], e)
  BY DEF Announce
<1> HIDE DEF t
<1>3. n \in Nat
  BY <1>1 DEF SessionOver
<1> HIDE DEF n
<1>4. [t EXCEPT !.seq = n] \in SessionOver(T)
  BY <1>1, <1>3, SessionOps
<1> QED BY <1>2, <1>4, RetainType

\* One session moves.
Moves(T) ==
  /\ sess' \in [Pods -> SessionOver(T)]
  /\ \A q \in Pods : Grows(sess[q], sess'[q])

LEMMA SessionMoves ==
  ASSUME NEW T, sess \in [Pods -> SessionOver(T)], NEW p \in Pods,
         NEW s \in SessionOver(T), Grows(sess[p], s), sess' = [sess EXCEPT ![p] = s]
  PROVE  Moves(T) /\ sess'[p] = s
<1>1. \A q \in Pods : Grows(sess[q], sess[q])
  BY GrowsSame
<1>2. sess' \in [Pods -> SessionOver(T)]
  <2> HIDE DEF SessionOver
  <2> QED OBVIOUS
<1>3. sess'[p] = s /\ \A q \in Pods : q # p => sess'[q] = sess[q]
  OBVIOUS
<1> QED BY <1>1, <1>2, <1>3 DEF Moves

LEMMA NoSessionMoves ==
  ASSUME NEW T, sess \in [Pods -> SessionOver(T)], sess' = sess
  PROVE  Moves(T)
BY GrowsSame DEF Moves

LEMMA AnnounceMoves ==
  ASSUME NEW T, sess \in [Pods -> SessionOver(T)], Sessions(sess),
         NEW p \in Pods, NEW e \in T,
         \/ sess' = [sess EXCEPT ![p] = Announce(sess[p], e)]
         \/ sess' = [sess EXCEPT ![p] =
              [Announce(sess[p], e) EXCEPT !.tseq = Announce(sess[p], e).tseq + 1]]
  PROVE  /\ Moves(T) /\ Announces(sess[p], sess'[p], e)
         /\ sess'[p].gen \in Nat /\ sess'[p].seq \in Nat /\ sess'[p].tseq \in Nat
<1> DEFINE u == Announce(sess[p], e)
           t == [u EXCEPT !.tseq = u.tseq + 1]
<1>1. u \in SessionOver(T) /\ Kept(u) /\ Announces(sess[p], u, e)
  BY AnnounceType, AnnounceKept, AnnounceAnnounces DEF Sessions
<1> HIDE DEF u
<1>2. u.tseq + 1 \in Nat
  BY <1>1 DEF SessionOver
<1>3. t \in SessionOver(T) /\ Announces(sess[p], t, e)
  BY <1>1, <1>2, SessionOps, CountedAnnounces
<1> HIDE DEF t
<1>4. ASSUME NEW s \in SessionOver(T), Announces(sess[p], s, e),
             sess' = [sess EXCEPT ![p] = s]
      PROVE  /\ Moves(T) /\ Announces(sess[p], sess'[p], e)
             /\ sess'[p].gen \in Nat /\ sess'[p].seq \in Nat /\ sess'[p].tseq \in Nat
  <2>1. Moves(T) /\ sess'[p] = s
    BY <1>4, SessionMoves DEF Announces
  <2>2. s.gen \in Nat /\ s.seq \in Nat /\ s.tseq \in Nat
    BY DEF SessionOver
  <2> QED BY <1>4, <2>1, <2>2
<1> QED BY <1>1, <1>3, <1>4 DEF u, t

LEMMA ResetMoves ==
  ASSUME NEW T, sess \in [Pods -> SessionOver(T)], Sessions(sess), NEW p \in Pods,
         sess' = [sess EXCEPT ![p] = Invalidate(sess[p])]
  PROVE  Moves(T)
<1>1. Invalidate(sess[p]) \in SessionOver(T) /\ Grows(sess[p], Invalidate(sess[p]))
  <2>1. sess[p] \in SessionOver(T)
    OBVIOUS
  <2> QED BY <2>1, SessionOps, InvalidateGrows DEF Sessions
<1> QED BY <1>1, SessionMoves

-----------------------------------------------------------------------------
LEMMA EmitFlows ==
  ASSUME NEW T, NEW p \in Pods, NEW e \in Events, e \in T, Emit(p, e), Links(T),
         sess'[p].gen \in Nat, sess'[p].tseq \in Nat,
         sess \in [Pods -> SessionOver(T)]
  PROVE  Links(T)'
<1> DEFINE t == Announce(sess[p], e)
           s == [t EXCEPT !.tseq = t.tseq + 1]
           b == e \in Oversize
           g == s.gen
           n == s.tseq
           frame == [pod |-> p, gen |-> g, seq |-> n, ev |-> e, ref |-> b]
<1>1. sess' = [sess EXCEPT ![p] = s]
  BY DEF Emit
<1> HIDE DEF t
<1>2. g \in Nat /\ n \in Nat
  <2>1. sess'[p] = s
    BY <1>1
  <2> QED BY <2>1
<1>3. b \in BOOLEAN
  OBVIOUS
<1>4. PICK st \in {"lost", "saving", "queued"} :
        /\ outbox' = outbox \/ outbox' = [outbox EXCEPT ![p] = Append(@, frame)]
        /\ news' = [news EXCEPT ![e] = [st |-> st, pod |-> p, gen |-> g, tseq |-> n]]
  <2> DEFINE st == CASE ~(Len(outbox[p]) < OutboxMax) -> "lost"
              [] Len(outbox[p]) < OutboxMax /\ e \in Oversize \ Trace -> "saving"
              [] OTHER -> "queued"
  <2>1. st \in {"lost", "saving", "queued"}
    OBVIOUS
  <2>2. /\ outbox' = outbox \/ outbox' = [outbox EXCEPT ![p] = Append(@, frame)]
        /\ news' = [news EXCEPT ![e] = [st |-> st, pod |-> p, gen |-> g, tseq |-> n]]
    BY DEF Emit, t
  <2> QED BY <2>1, <2>2
<1> HIDE DEF b, g, n
<1>5. frame \in Frames(T)
  BY <1>2, <1>3 DEF Frames
<1> HIDE DEF frame
<1>6. outbox' \in [Pods -> Seq(Frames(T))]
  <2> DEFINE F == Frames(T)
  <2>1. outbox \in [Pods -> Seq(F)] /\ frame \in F
    BY <1>5 DEF Links
  <2> HIDE DEF F
  <2>2. Append(outbox[p], frame) \in Seq(F)
    BY <2>1, AppendFacts
  <2>3. outbox' \in [Pods -> Seq(F)]
    BY <1>4, <2>1, <2>2
  <2> QED BY <2>3 DEF F
<1>7. news' \in [Events -> NewsItems]
  BY <1>2, <1>4 DEF Links, NewsItems
<1>8. UNCHANGED <<wire, listening, recv, chain, faults>>
  BY DEF Emit
<1> QED BY <1>6, <1>7, <1>8 DEF Links

LEMMA FateType ==
  ASSUME NEW e, NEW st \in {"queued", "sent", "lost", "unpublished"}, Fate(e, st),
         news \in [Events -> NewsItems]
  PROVE  news' \in [Events -> NewsItems]
BY DEF Fate, NewsItems

LEMMA FaultType ==
  ASSUME NEW kind, faults \in 0 .. MaxFaults, Fault(kind)
  PROVE  faults' \in 0 .. MaxFaults
BY BusConstants DEF Fault

LEMMA SettleFlows ==
  ASSUME NEW T, Links(T), NEW p \in Pods, NEW e \in Events,
         EmitFails(p, e) \/ SaveSettles(p, e)
  PROVE  Links(T)'
<1>1. faults \in 0 .. MaxFaults /\ news \in [Events -> NewsItems]
  BY DEF Links
<1>2. news' \in [Events -> NewsItems]
  <2>1. CASE EmitFails(p, e)
    <3>1. news' = [news EXCEPT ![e].st = "unpublished", ![e].pod = p]
      BY <2>1 DEF EmitFails
    <3> QED BY ZenonT(40), <1>1, <3>1 DEF NewsItems
  <2>2. CASE SaveSettles(p, e)
    BY <1>1, <2>2, FateType DEF SaveSettles
  <2> QED BY <2>1, <2>2
<1>3. faults' \in 0 .. MaxFaults
  BY <1>1, FaultType DEF EmitFails, SaveSettles
<1>4. UNCHANGED <<outbox, wire, listening, recv, chain>>
  BY DEF EmitFails, SaveSettles
<1> QED BY <1>2, <1>3, <1>4 DEF Links

LEMMA PublishFlows ==
  ASSUME NEW T, Links(T), NEW p \in Pods, Publish(p)
  PROVE  Links(T)'
<1> DEFINE F == Frames(T)
           frame == Head(outbox[p])
<1>1. outbox \in [Pods -> Seq(F)] /\ wire \in [Pods -> Seq(F)]
      /\ faults \in 0 .. MaxFaults /\ news \in [Events -> NewsItems]
  BY DEF Links
<1> HIDE DEF F
<1>2. outbox[p] # <<>> /\ outbox' = [outbox EXCEPT ![p] = Tail(@)]
  BY DEF Publish
<1>3. frame \in F /\ Tail(outbox[p]) \in Seq(F)
  BY <1>1, <1>2, TailFacts
<1>4. outbox' \in [Pods -> Seq(F)]
  BY <1>1, <1>2, <1>3
<1>5. \A q \in Pods : Append(wire[q], frame) \in Seq(F)
  BY <1>1, <1>3, AppendFacts
<1>6. \/ /\ wire' = [q \in Pods |-> IF listening[q] /\ q # p
                                    THEN Append(wire[q], frame) ELSE wire[q]]
         /\ Fate(frame.ev, "sent") /\ UNCHANGED faults
      \/ Fault("publish") /\ Fate(frame.ev, "lost") /\ UNCHANGED wire
      \/ UNCHANGED <<wire, news, faults>>
  BY DEF Publish
<1> HIDE DEF frame
<1>7. wire' \in [Pods -> Seq(F)]
  BY <1>1, <1>5, <1>6
<1>8. news' \in [Events -> NewsItems] /\ faults' \in 0 .. MaxFaults
  BY <1>1, <1>6, FateType, FaultType
<1>9. UNCHANGED <<listening, recv, chain>>
  BY DEF Publish
<1> QED BY <1>4, <1>7, <1>8, <1>9 DEF Links, F

\* A receive state and its chain change together.
LEMMA OrderingFlows ==
  ASSUME NEW T, Links(T), NEW p \in Pods, NEW o \in Pods, NEW r, NEW x,
         recv' = recv \/ (IsRecv(r, T) /\ recv' = [recv EXCEPT ![p][o] = r]),
         x \in Seq(Tasks(T)), chain' = [chain EXCEPT ![p][o] = x],
         wire' \in [Pods -> Seq(Frames(T))], faults' \in 0 .. MaxFaults,
         UNCHANGED <<outbox, listening, news>>
  PROVE  Links(T)'
<1>1. /\ recv' = [q \in Pods |-> [z \in Pods |-> recv'[q][z]]]
      /\ \A q, z \in Pods : IsRecv(recv'[q][z], T)
  <2> HIDE DEF IsRecv
  <2>1. CASE recv' = recv
    BY <2>1 DEF Links
  <2>2. CASE IsRecv(r, T) /\ recv' = [recv EXCEPT ![p][o] = r]
    <3> DEFINE f == recv[p]
               g == [f EXCEPT ![o] = r]
    <3>1. recv = [q \in Pods |-> recv[q]] /\ f = [z \in Pods |-> f[z]]
      BY DEF Links
    <3>2. recv' = [recv EXCEPT ![p] = g]
      BY <2>2
    <3>3. recv'[p] = g /\ \A q \in Pods : q # p => recv'[q] = recv[q]
      BY <3>1, <3>2
    <3>4. g = [z \in Pods |-> g[z]] /\ \A z \in Pods : g[z] = IF z = o THEN r ELSE f[z]
      BY <3>1
    <3>5. \A q, z \in Pods : IsRecv(recv'[q][z], T)
      BY <2>2, <3>3, <3>4 DEF Links
    <3> HIDE DEF g
    <3>6. recv' = [q \in Pods |-> recv'[q]]
      BY <3>1, <3>2
    <3>7. \A q \in Pods : recv'[q] = [z \in Pods |-> recv'[q][z]]
      <4> TAKE q \in Pods
      <4>1. CASE q = p
        BY <3>3, <3>4, <4>1
      <4>2. CASE q # p
        <5>1. recv[q] = [z \in Pods |-> recv[q][z]]
          BY DEF Links
        <5> QED BY <3>3, <4>2, <5>1
      <4> QED BY <4>1, <4>2
    <3> QED BY <3>5, <3>6, <3>7
  <2> QED BY <2>1, <2>2
<1>2. chain' \in [Pods -> [Pods -> Seq(Tasks(T))]]
  <2> DEFINE S == Seq(Tasks(T))
  <2>1. chain \in [Pods -> [Pods -> S]] /\ x \in S
    BY DEF Links
  <2> HIDE DEF S
  <2>2. chain' \in [Pods -> [Pods -> S]]
    BY <2>1
  <2> QED BY <2>2 DEF S
<1> QED BY <1>1, <1>2 DEF Links

LEMMA ReceiveFlows ==
  ASSUME NEW T, Links(T), NEW p \in Pods, NEW i \in 1 .. Len(wire[p]), Receive(p, i)
  PROVE  Links(T)'
<1> DEFINE F == Frames(T)
           frame == wire[p][i]
           o == frame.pod
           stream == [pod |-> o, gen |-> frame.gen]
           known == recv[p][o].stream = stream
           old == IF known THEN <<>> ELSE FlushTasks(recv[p][o])
           from == IF known THEN recv[p][o] ELSE Opened(stream)
           next == Reception(from, frame)
<1>1. wire \in [Pods -> Seq(F)] /\ wire[p] \in Seq(F) /\ frame \in F
  <2>1. wire \in [Pods -> Seq(F)]
    BY DEF Links
  <2> HIDE DEF F
  <2> QED BY <2>1
<1>2. o \in Pods
  BY <1>1 DEF Frames
<1>3. RemoveAt(wire[p], i) \in Seq(F)
  BY SMTT(25), <1>1, RemoveAtType
<1>4. /\ wire' = [wire EXCEPT ![p] = RemoveAt(wire[p], i)]
      /\ recv' = [recv EXCEPT ![p][o] = next.r]
      /\ chain' = [chain EXCEPT ![p][o] = (chain[p][o] \o old) \o next.tasks]
      /\ UNCHANGED <<sess, outbox, listening, news, faults>>
  BY DEF Receive
<1>5. IsRecv(Opened(stream), T)
  <2> HIDE DEF stream
  <2>1. Opened(stream) \in [stream : {stream, 1}, expected : {stream, 1},
                            parked : SUBSET Frames(T)]
        /\ Opened(stream).parked = {}
    BY DEF Opened
  <2> QED BY <2>1, FS_EmptySet DEF IsRecv
<1>6. IsRecv(recv[p][o], T) /\ chain[p][o] \in Seq(Tasks(T))
  <2> HIDE DEF frame
  <2>1. chain \in [Pods -> [Pods -> Seq(Tasks(T))]]
    BY DEF Links
  <2>2. chain[p][o] \in Seq(Tasks(T))
    <3> DEFINE S == Seq(Tasks(T))
    <3>1. chain \in [Pods -> [Pods -> S]]
      BY <2>1
    <3> HIDE DEF S, o
    <3>2. chain[p][o] \in S
      BY <1>2, <3>1
    <3> QED BY <3>2 DEF S
  <2> QED BY <1>2, <2>2 DEF Links
<1>7. IsRecv(from, T)
  BY <1>5, <1>6
<1>8. old \in Seq(Tasks(T))
  BY <1>6, FlushTypes
<1> HIDE DEF frame, from, old
<1>9. IsRecv(next.r, T) /\ next.tasks \in Seq(Tasks(T))
  BY <1>1, <1>7, ReceptionTypes
<1> HIDE DEF next, o
<1>10. (chain[p][o] \o old) \o next.tasks \in Seq(Tasks(T))
  BY <1>6, <1>8, <1>9, JoinType
<1>11. wire' \in [Pods -> Seq(F)]
  <2> HIDE DEF F
  <2> QED BY <1>1, <1>3, <1>4
<1>12. faults' \in 0 .. MaxFaults
  BY <1>4 DEF Links
<1> QED BY <1>2, <1>4, <1>9, <1>10, <1>11, <1>12, OrderingFlows

LEMMA ChainFlows ==
  ASSUME NEW T, Links(T), NEW p \in Pods, NEW o \in Pods,
         \/ FlushTimer(p, o) \/ DeliverNext(p, o) \/ ResetNext(p, o)
         \/ SkipNext(p, o) \/ EvictReceive(p, o)
  PROVE  Links(T)'
<1>1. IsRecv(recv[p][o], T) /\ chain[p][o] \in Seq(Tasks(T))
  <2> DEFINE S == Seq(Tasks(T))
  <2>1. chain \in [Pods -> [Pods -> S]]
    BY DEF Links
  <2> HIDE DEF S
  <2>2. chain[p][o] \in S
    BY <2>1
  <2> QED BY <2>2 DEF Links, S
<1>2. FlushTasks(recv[p][o]) \in Seq(Tasks(T)) /\ IsRecv(Flushed(recv[p][o]), T)
  BY <1>1, FlushTypes
<1>3. wire \in [Pods -> Seq(Frames(T))] /\ faults \in 0 .. MaxFaults
  BY DEF Links
<1>4. CASE FlushTimer(p, o)
  <2>1. chain[p][o] \o FlushTasks(recv[p][o]) \in Seq(Tasks(T))
    BY <1>1, <1>2, JoinType
  <2>2. /\ recv' = [recv EXCEPT ![p][o] = Flushed(recv[p][o])]
        /\ chain' = [chain EXCEPT ![p][o] = chain[p][o] \o FlushTasks(recv[p][o])]
        /\ UNCHANGED <<outbox, wire, listening, news, faults>>
    BY <1>4 DEF FlushTimer
  <2> QED BY <1>2, <1>3, <2>1, <2>2, OrderingFlows
<1>5. CASE DeliverNext(p, o) \/ ResetNext(p, o) \/ SkipNext(p, o)
  <2>1. /\ chain[p][o] # <<>> /\ chain' = [chain EXCEPT ![p][o] = Tail(chain[p][o])]
        /\ UNCHANGED <<outbox, wire, listening, recv, news>>
    BY <1>5 DEF DeliverNext, ResetNext, SkipNext
  <2>2. Tail(chain[p][o]) \in Seq(Tasks(T))
    BY <1>1, <2>1, TailFacts
  <2>3. faults' \in 0 .. MaxFaults
    BY <1>3, <1>5, FaultType DEF DeliverNext, ResetNext, SkipNext
  <2> QED BY <1>3, <2>1, <2>2, <2>3, OrderingFlows
<1>6. CASE EvictReceive(p, o)
  <2>1. /\ recv' = [recv EXCEPT ![p][o] = NoRecv]
        /\ chain' = [chain EXCEPT ![p][o] = FlushTasks(recv[p][o])]
        /\ UNCHANGED <<outbox, wire, listening, news>>
    BY <1>6 DEF EvictReceive
  <2>2. IsRecv(NoRecv, T)
    <3> DEFINE x == NoStream
    <3> HIDE DEF x
    <3>1. Opened(x) \in [stream : {x, 1}, expected : {x, 1}, parked : SUBSET Frames(T)]
          /\ Opened(x).parked = {}
      BY DEF Opened
    <3>2. IsRecv(Opened(x), T)
      BY <3>1, FS_EmptySet DEF IsRecv
    <3> QED BY <3>2 DEF NoRecv, x
  <2>3. faults' \in 0 .. MaxFaults
    BY <1>3, <1>6, FaultType DEF EvictReceive
  <2> QED BY <1>2, <1>3, <2>1, <2>2, <2>3, OrderingFlows
<1> QED BY <1>4, <1>5, <1>6

LEMMA LinkFlows ==
  ASSUME NEW T, Links(T), NEW p \in Pods,
         Disconnect(p) \/ Reconnect(p) \/ Evict(p)
  PROVE  Links(T)'
<1>1. wire \in [Pods -> Seq(Frames(T))] /\ listening \in [Pods -> BOOLEAN]
      /\ faults \in 0 .. MaxFaults
  BY DEF Links
<1>2. wire' \in [Pods -> Seq(Frames(T))]
  <2> DEFINE S == Seq(Frames(T))
  <2>1. wire \in [Pods -> S] /\ <<>> \in S
    BY <1>1
  <2> HIDE DEF S
  <2>2. wire' \in [Pods -> S]
    BY <2>1 DEF Disconnect, Reconnect, Evict
  <2> QED BY <2>2 DEF S
<1>3. listening' \in [Pods -> BOOLEAN]
  BY <1>1 DEF Disconnect, Reconnect, Evict
<1>4. faults' \in 0 .. MaxFaults
  BY <1>1, FaultType DEF Disconnect, Reconnect, Evict
<1>5. UNCHANGED <<outbox, recv, chain, news>>
  BY DEF Disconnect, Reconnect, Evict
<1> QED BY <1>2, <1>3, <1>4, <1>5 DEF Links

-----------------------------------------------------------------------------
(* The client.                                                             *)

ClientOver(A, T) ==
  [last : Ids, view : A, viewCursor : Ids, viewKnown : SUBSET T, viewChecked : A,
   noCursor : A, head : A, connected : A, skipReset : A, recovering : A,
   known : SUBSET T]

\* What the client knows was told of T, and its cursors were given out.
Informed(T, c, f) ==
  /\ \E A : c \in ClientOver(A, T)
  /\ Placed(c.last, f) /\ Placed(c.viewCursor, f)

LEMMA InformedTypes ==
  ASSUME NEW T, NEW c, NEW f, Informed(T, c, f)
  PROVE  /\ c.last \in Ids /\ c.viewCursor \in Ids
         /\ c.known \subseteq T /\ c.viewKnown \subseteq T
BY DEF Informed, ClientOver

LEMMA InformedGrows ==
  ASSUME NEW T, NEW c, NEW f, NEW g, Informed(T, c, f),
         \A p \in Pods : Grows(f[p], g[p])
  PROVE  Informed(T, c, g)
BY InformedTypes, PlacedGrows DEF Informed

LEMMA InformedWider ==
  ASSUME NEW S, NEW T, S \subseteq T, NEW c, NEW f, Informed(S, c, f)
  PROVE  Informed(T, c, f)
<1>1. PICK A : c \in ClientOver(A, S)
  BY DEF Informed
<1>2. c \in ClientOver(A, T)
  <2> HIDE DEF Ids
  <2> QED BY <1>1 DEF ClientOver
<1> QED BY <1>2 DEF Informed

LEMMA InformedUpdates ==
  ASSUME NEW T, NEW c, NEW f, Informed(T, c, f), NEW i \in Ids, Placed(i, f),
         NEW K, K \subseteq T, NEW u, NEW v, NEW w
  PROVE  /\ Informed(T, [c EXCEPT !.last = i, !.viewChecked = u, !.noCursor = v], f)
         /\ Informed(T, [c EXCEPT !.last = i, !.head = u, !.noCursor = v], f)
         /\ Informed(T, [c EXCEPT !.last = i, !.skipReset = u, !.recovering = v], f)
         /\ Informed(T, [c EXCEPT !.last = i, !.skipReset = u, !.known = K], f)
         /\ Informed(T, [c EXCEPT !.view = u, !.viewCursor = i, !.viewKnown = K], f)
         /\ Informed(T, [c EXCEPT !.view = u, !.known = K], f)
         /\ Informed(T, [c EXCEPT !.viewChecked = u, !.recovering = v], f)
         /\ Informed(T, [c EXCEPT !.connected = u, !.recovering = v, !.skipReset = w], f)
         /\ Informed(T, [c EXCEPT !.skipReset = u], f)
         /\ Informed(T, [c EXCEPT !.connected = u], f)
         /\ Informed(T, [c EXCEPT !.recovering = u, !.known = K], f)
<1>1. PICK A : c \in ClientOver(A, T)
  BY DEF Informed
<1> DEFINE B == A \cup {u, v, w}
           Keeps(d) == /\ d \in ClientOver(B, T) /\ d.last \in {c.last, i}
                       /\ d.viewCursor \in {c.viewCursor, i}
<1>2. ASSUME NEW d, Keeps(d) PROVE Informed(T, d, f)
  BY <1>2 DEF Informed
<1> HIDE DEF Ids
<1>3. c \in ClientOver(B, T) /\ u \in B /\ v \in B /\ w \in B
  BY <1>1 DEF ClientOver
<1> HIDE DEF B
<1>4. Keeps([c EXCEPT !.last = i, !.viewChecked = u, !.noCursor = v])
  BY <1>3 DEF ClientOver
<1>5. Keeps([c EXCEPT !.last = i, !.head = u, !.noCursor = v])
  BY <1>3 DEF ClientOver
<1>6. Keeps([c EXCEPT !.last = i, !.skipReset = u, !.recovering = v])
  BY <1>3 DEF ClientOver
<1>7. Keeps([c EXCEPT !.last = i, !.skipReset = u, !.known = K])
  BY <1>3 DEF ClientOver
<1>8. Keeps([c EXCEPT !.view = u, !.viewCursor = i, !.viewKnown = K])
  BY <1>3 DEF ClientOver
<1>9. Keeps([c EXCEPT !.view = u, !.known = K])
  BY <1>3 DEF ClientOver
<1>10. Keeps([c EXCEPT !.viewChecked = u, !.recovering = v])
  BY <1>3 DEF ClientOver
<1>11. Keeps([c EXCEPT !.connected = u, !.recovering = v, !.skipReset = w])
  BY <1>3 DEF ClientOver
<1>12. Keeps([c EXCEPT !.skipReset = u])
  BY <1>3 DEF ClientOver
<1>13. Keeps([c EXCEPT !.connected = u])
  BY <1>3 DEF ClientOver
<1>14. Keeps([c EXCEPT !.recovering = u, !.known = K])
  BY <1>3 DEF ClientOver
<1> HIDE DEF Keeps
<1> QED BY <1>2, <1>4, <1>5, <1>6, <1>7, <1>8, <1>9, <1>10, <1>11, <1>12, <1>13, <1>14

LEMMA PlacedNone ==
  ASSUME NEW f
  PROVE  Placed(NoCursor, f) /\ NoCursor \in Ids
BY BusConstants DEF Placed, NoCursor, Ids

LEMMA CheckedInformed ==
  ASSUME NEW T, NEW c, NEW f, Informed(T, c, f)
  PROVE  Informed(T, Checked(c), f)
<1> DEFINE v == \/ c.recovering
                \/ c.viewCursor.pod # c.head.pod
                \/ c.viewCursor.gen # c.head.gen
                \/ c.head.seq > c.viewCursor.seq
           d == [c EXCEPT !.viewChecked = TRUE, !.recovering = v]
<1>1. Checked(c) = c \/ Checked(c) = d
  BY DEF Checked
<1> HIDE DEF v
<1>2. Informed(T, d, f)
  BY PlacedNone, InformedUpdates
<1> HIDE DEF d
<1> QED BY <1>1, <1>2

LEMMA ReceivedInformed ==
  ASSUME NEW T, NEW f, Informed(T, client, f), NEW frame \in StreamFrames(T),
         Placed(frame.id, f)
  PROVE  Informed(T, Received(frame), f)
<1>1. frame.id \in Ids /\ frame.do \in {"connected", "reset", "event"}
  BY DEF StreamFrames
<1>2. CASE frame.do = "connected"
  <2> DEFINE i == IF client.last = NoCursor THEN frame.id ELSE client.last
             u == IF client.noCursor /\ client.head = NoCursor THEN frame.id ELSE client.head
             d == [client EXCEPT !.last = i, !.head = u, !.noCursor = FALSE]
  <2>1. Received(frame) = Checked(d)
    BY <1>2 DEF Received
  <2>2. i \in Ids /\ Placed(i, f)
    BY <1>1, InformedTypes DEF Informed
  <2> HIDE DEF i, u
  <2>3. Informed(T, d, f)
    BY <2>2, InformedUpdates
  <2> HIDE DEF d
  <2> QED BY <2>1, <2>3, CheckedInformed
<1>3. CASE frame.do = "reset"
  <2> DEFINE i == frame.id
             v == client.recovering \/ ~client.skipReset
             d == [client EXCEPT !.last = i, !.skipReset = FALSE, !.recovering = v]
  <2>1. Received(frame) = d
    BY SMTT(25), <1>3 DEF Received
  <2> HIDE DEF i, v
  <2>2. Informed(T, d, f)
    BY <1>1, InformedUpdates DEF i
  <2> QED BY <2>1, <2>2
<1>4. CASE frame.do = "event"
  <2> DEFINE i == frame.id
             K == client.known \cup {frame.ev}
             d == [client EXCEPT !.last = i, !.skipReset = FALSE, !.known = K]
  <2>1. Received(frame) = d
    BY <1>4 DEF Received
  <2>2. frame.ev \in T
    BY <1>4 DEF StreamFrames
  <2>3. K \subseteq T
    BY SMTT(25), <2>2, InformedTypes
  <2> HIDE DEF i, K
  <2>4. Informed(T, d, f)
    BY <1>1, <2>3, InformedUpdates DEF i
  <2> QED BY <2>1, <2>4
<1> QED BY <1>1, <1>2, <1>3, <1>4

-----------------------------------------------------------------------------
(* The stream opens and ends.                                              *)

LEMMA PastNone ==
  ASSUME NEW s, Kept(s)
  PROVE  Past(NoCursor, s)
BY KeptTypes DEF Past, NoCursor

LEMMA PastHead ==
  ASSUME NEW s, s.gen \in Nat, s.seq \in Nat, NEW p \in Pods
  PROVE  Cursor(p, s) \in Ids /\ Cursor(p, s).pod = p /\ Past(Cursor(p, s), s)
BY DEF Past, Cursor, Ids

LEMMA NoConnSound ==
  ASSUME NEW T, NEW f, NEW z \in BOOLEAN
  PROVE  Sound(T, NoConn(z), f)
<1> DEFINE c == NoConn(z)
<1>1. <<>> \in Seq(StreamFrames(T)) /\ NoCursor \in Ids /\ "none" \in Phases
  BY PlacedNone DEF Phases
<1>2. c \in Streams(T) /\ c.phase = "none" /\ c.buf = <<>> /\ c.cursor = NoCursor
  <2> HIDE DEF StreamFrames, Ids, Phases, NoCursor
  <2> QED BY <1>1 DEF NoConn, Streams
<1> HIDE DEF c
<1>3. Len(c.buf) <= QueueMax
  BY <1>2, QueueMaxPositive
<1>4. Sound(T, c, f)
  BY <1>2, <1>3, PlacedNone DEF Sound
<1> QED BY <1>4 DEF c

\* A stream that heard nothing yet.
LEMMA OpenedSound ==
  ASSUME NEW T, NEW f, NEW z \in BOOLEAN, NEW p \in Pods, NEW id \in Ids,
         NEW phase \in {"watch", "live"}, Placed(id, f), Kept(f[p])
  PROVE  Sound(T, [NoConn(z) EXCEPT !.phase = phase, !.pod = p, !.cursor = id], f)
<1> DEFINE c == NoConn(z)
           d == [c EXCEPT !.phase = phase, !.pod = p, !.cursor = id]
<1>1. <<>> \in Seq(StreamFrames(T)) /\ NoCursor \in Ids /\ Phases = Phases \cup {phase, "none"}
  BY PlacedNone DEF Phases
<1>2. /\ d \in Streams(T) /\ d.phase = phase /\ d.buf = <<>> /\ d.todo = <<>>
      /\ d.pod = p /\ d.cursor = id /\ d.high = NoCursor
  <2>1. /\ c \in Streams(T) /\ c.buf = <<>> /\ c.todo = <<>> /\ c.high = NoCursor
    <3>1. "none" \in Phases
      BY DEF Phases
    <3> HIDE DEF StreamFrames, Ids, Phases, NoCursor
    <3> QED BY <1>1, <3>1 DEF NoConn, Streams
  <2>2. phase \in Phases
    BY DEF Phases
  <2> HIDE DEF c, StreamFrames, Ids, Phases
  <2> QED BY <2>1, <2>2 DEF Streams
<1> HIDE DEF d
<1>3. Len(d.buf) = 0 /\ Len(d.todo) = 0
  BY <1>2
<1>4. StreamOrder(d, f[p])
  BY <1>2, <1>3, PastNone DEF StreamOrder, Waiting, Ascends
<1>5. Sound(T, d, f)
  BY <1>2, <1>3, <1>4, QueueMaxPositive DEF Sound
<1> QED BY <1>5 DEF d

\* The watch ends: what it heard is kept, but for the traces.
LEMMA ActivatedSound ==
  ASSUME NEW T, NEW f, Sound(T, conn, f), conn.phase = "watch",
         f[conn.pod].gen \in Nat, f[conn.pod].seq \in Nat
  PROVE  Sound(T, [conn EXCEPT
                     !.phase = "opening",
                     !.buf = Entries(conn.buf, {i \in DOMAIN conn.buf : conn.buf[i].ev \notin Trace}),
                     !.todo = <<Control("connected", Cursor(conn.pod, f[conn.pod]))>>], f)
<1> DEFINE b == conn.buf
           s == f[conn.pod]
           I == {i \in DOMAIN b : b[i].ev \notin Trace}
           q == Entries(b, I)
           z == Ascending(I)
           h == Control("connected", Cursor(conn.pod, s))
           todo == <<h>>
           d == [conn EXCEPT !.phase = "opening", !.buf = q, !.todo = todo]
<1>1. /\ conn \in Streams(T) /\ conn.pod \in Pods /\ StreamOrder(conn, s)
      /\ Len(b) <= QueueMax /\ b \in Seq(StreamFrames(T)) /\ Len(b) \in Nat
  BY StreamTypes DEF Sound
<1>2. Waiting(conn, s) /\ \A i \in 1 .. Len(b) : IsEvent(b[i])
  BY <1>1 DEF StreamOrder
<1>3. /\ h \in StreamFrames(T) /\ h.id.pod = conn.pod /\ Past(h.id, s)
  BY <1>1, PastHead DEF Control, StreamFrames
<1> HIDE DEF h, q
<1>4. todo \in Seq(StreamFrames(T)) /\ Len(todo) = 1 /\ todo[1] = h /\ todo # <<>>
  <2> HIDE DEF StreamFrames
  <2> QED BY <1>3
<1> HIDE DEF todo, b
<1>5. DOMAIN b = 1 .. Len(b)
  BY <1>1
<1>6. I \subseteq 1 .. Len(b) /\ \A i \in I : b[i].ev \notin Trace
  BY <1>5
<1> HIDE DEF I
<1>7. /\ q \in Seq(StreamFrames(T)) /\ Len(q) \in Nat /\ Len(q) <= Len(b)
      /\ Lists(q, b, I)
  <2> HIDE DEF StreamFrames
  <2> QED BY <1>1, <1>6, EntriesFacts DEF q
<1>8. /\ \A i \in 1 .. Len(q) : z[i] \in I /\ q[i] = b[z[i]]
      /\ \A i, j \in 1 .. Len(q) : i < j => z[i] < z[j]
  BY <1>7 DEF Lists
<1> HIDE DEF z
<1>9. \A i \in 1 .. Len(q) : z[i] \in 1 .. Len(b) /\ q[i] = b[z[i]] /\ q[i].ev \notin Trace
  BY <1>6, <1>8
<1>10. /\ d \in Streams(T) /\ d.phase = "opening" /\ d.pod = conn.pod
       /\ d.cursor = conn.cursor /\ d.todo = todo /\ d.buf = q
       /\ d.sent = conn.sent /\ d.high = conn.high
  <2>1. "opening" \in Phases
    BY DEF Phases
  <2> HIDE DEF StreamFrames, Ids, Phases
  <2> QED BY <1>1, <1>4, <1>7, <2>1 DEF Streams
<1> HIDE DEF d
<1>11. \A i \in 1 .. Len(q) :
         /\ IsEvent(q[i]) /\ At(q[i].id, conn.pod, s) /\ Later(q[i].id, conn.high)
         /\ conn.cursor.pod = conn.pod => Later(q[i].id, conn.cursor)
         /\ InRing(q[i].id, s)
  <2> TAKE i \in 1 .. Len(q)
  <2> DEFINE k == z[i]
  <2>1. k \in 1 .. Len(b) /\ q[i] = b[k] /\ b[k].ev \notin Trace
    BY <1>9
  <2> HIDE DEF k
  <2>2. IsEvent(b[k]) /\ At(b[k].id, conn.pod, s) /\ Later(b[k].id, conn.high)
    BY <1>1, <1>2, <2>1 DEF StreamOrder, b
  <2>3. /\ conn.cursor.pod = conn.pod => Later(b[k].id, conn.cursor)
        /\ InRing(b[k].id, s)
    BY <1>2, <2>1 DEF Waiting, b
  <2> QED BY <2>1, <2>2, <2>3
<1>12. Ascends(q)
  <2> SUFFICES ASSUME NEW i \in 1 .. Len(q), NEW j \in 1 .. Len(q), i < j
               PROVE  Later(q[j].id, q[i].id)
    BY DEF Ascends
  <2> DEFINE k == z[i]
             m == z[j]
  <2>1. /\ k \in 1 .. Len(b) /\ q[i] = b[k] /\ m \in 1 .. Len(b) /\ q[j] = b[m]
        /\ k < m
    BY <1>8, <1>9
  <2> HIDE DEF k, m
  <2>2. Ascends(b)
    BY <1>1 DEF StreamOrder, b
  <2> QED BY <2>1, <2>2 DEF Ascends
<1>13. Waiting(d, s)
  BY <1>2, <1>9, <1>10, <1>11 DEF Waiting
<1>14. \A k \in 1 .. Len(todo) : At(todo[k].id, conn.pod, s)
  <2>1. \A k \in 1 .. 1 : k = 1
    OBVIOUS
  <2> QED BY <1>3, <1>4, <2>1 DEF At
<1>15. Past(d.high, s)
  BY <1>1, <1>10 DEF StreamOrder
<1>16. StreamOrder(d, s)
  BY <1>10, <1>11, <1>12, <1>13, <1>14, <1>15 DEF StreamOrder
<1>17. Len(q) <= QueueMax
  BY <1>1, <1>7, QueueMaxPositive
<1>18. Sound(T, d, f)
  <2>1. conn.cursor = d.cursor /\ Placed(conn.cursor, f)
    BY <1>10 DEF Sound
  <2> QED BY <1>1, <1>4, <1>10, <1>16, <1>17, <2>1 DEF Sound
<1> QED BY <1>18 DEF d, q, todo, h, b, I

-----------------------------------------------------------------------------
(* The state over a set of events, and its growth.                         *)

\* Everything that is kept, travels or is known is of the events of T.
Carried(T) ==
  /\ sess \in [Pods -> SessionOver(T)]
  /\ Links(T)
  /\ Sound(T, conn, sess)
  /\ Informed(T, client, sess)

LEMMA SessionsWider ==
  ASSUME NEW S, NEW T, S \subseteq T, NEW f \in [Pods -> SessionOver(S)]
  PROVE  f \in [Pods -> SessionOver(T)]
<1>1. SessionOver(S) \subseteq SessionOver(T)
  <2>1. Items(S) \subseteq Items(T)
    BY DEF Items
  <2> DEFINE A == Items(S)
             B == Items(T)
  <2> HIDE DEF A, B
  <2>2. Seq(A) \subseteq Seq(B)
    BY <2>1 DEF A, B
  <2> QED BY <2>2 DEF A, B, SessionOver
<1> DEFINE A == SessionOver(S)
           B == SessionOver(T)
<1> HIDE DEF A, B
<1>2. f \in [Pods -> A] /\ A \subseteq B
  BY <1>1 DEF A, B
<1> QED BY <1>2 DEF A, B

LEMMA LinksWider ==
  ASSUME NEW S, NEW T, S \subseteq T, Links(S)
  PROVE  Links(T)
<1>1. Frames(S) \subseteq Frames(T) /\ Tasks(S) \subseteq Tasks(T)
  BY DEF Frames, Tasks
<1> DEFINE A == Frames(S)
           B == Frames(T)
           C == Tasks(S)
           D == Tasks(T)
<1>2. outbox \in [Pods -> Seq(A)] /\ wire \in [Pods -> Seq(A)]
      /\ chain \in [Pods -> [Pods -> Seq(C)]]
  BY DEF Links
<1>3. ASSUME NEW r, IsRecv(r, S) PROVE IsRecv(r, T)
  <2>1. PICK E : r \in [stream : E, expected : E, parked : SUBSET A]
    BY <1>3 DEF IsRecv
  <2>2. A \subseteq B
    BY <1>1
  <2> HIDE DEF A, B
  <2>3. r \in [stream : E, expected : E, parked : SUBSET B]
    BY <2>1, <2>2
  <2> QED BY <1>3, <2>3 DEF IsRecv, B
<1>4. A \subseteq B /\ C \subseteq D
  BY <1>1
<1> HIDE DEF A, B, C, D
<1>5. Seq(A) \subseteq Seq(B) /\ Seq(C) \subseteq Seq(D)
  BY <1>4
<1>6. outbox \in [Pods -> Seq(B)] /\ wire \in [Pods -> Seq(B)]
      /\ chain \in [Pods -> [Pods -> Seq(D)]]
  BY <1>2, <1>5
<1>7. \A p, o \in Pods : IsRecv(recv[p][o], T)
  BY <1>3 DEF Links
<1> QED BY <1>6, <1>7 DEF Links, B, D

LEMMA CarriedWider ==
  ASSUME NEW S, NEW T, S \subseteq T, Carried(S)
  PROVE  Carried(T)
BY SessionsWider, LinksWider, SoundWider, InformedWider DEF Carried

\* What is committed stays committed, and only what is committed is emitted.
LEMMA FateKeeps ==
  ASSUME NEW e, NEW st, st # "none", Fate(e, st), news \in [Events -> NewsItems]
  PROVE  Committed \subseteq Committed'
<1> DEFINE n == [news[e] EXCEPT !.st = st]
<1>1. news' = [news EXCEPT ![e] = n]
  BY DEF Fate
<1>2. CASE e \in Events
  <2>1. n.st = st
    BY <1>2 DEF NewsItems
  <2> HIDE DEF n
  <2> QED BY <1>1, <1>2, <2>1 DEF Committed
<1>3. CASE e \notin Events
  <2>1. news' = news
    BY <1>1, <1>3
  <2> QED BY <2>1 DEF Committed
<1> QED BY <1>2, <1>3

LEMMA CommittedGrows ==
  ASSUME news \in [Events -> NewsItems], [Next]_vars
  PROVE  /\ Committed \subseteq Committed' /\ Committed' \subseteq Events
         /\ \A p \in Pods, e \in Events : Emit(p, e) => e \in Committed'
<1>1. Committed' \subseteq Events
  BY DEF Committed
<1>2. ASSUME NEW p \in Pods, NEW e \in Events, Emit(p, e)
      PROVE  Committed \subseteq Committed' /\ e \in Committed'
  <2> DEFINE t == Announce(sess[p], e)
             s == [t EXCEPT !.tseq = t.tseq + 1]
             room == Len(outbox[p]) < OutboxMax
             x == CASE ~room -> "lost"
                    [] room /\ e \in Oversize \ Trace -> "saving"
                    [] OTHER -> "queued"
             n == [st |-> x, pod |-> p, gen |-> s.gen, tseq |-> s.tseq]
  <2>1. x # "none"
    OBVIOUS
  <2>2. n.st # "none" /\ news' = [news EXCEPT ![e] = n]
    BY <1>2, <2>1 DEF Emit
  <2> HIDE DEF n
  <2> QED BY <2>2 DEF Committed
<1>3. ASSUME NEW p \in Pods, NEW e \in Events, EmitFails(p, e)
      PROVE  Committed \subseteq Committed'
  <2> DEFINE n == [[news[e] EXCEPT !.st = "unpublished"] EXCEPT !.pod = p]
  <2>1. news' = [news EXCEPT ![e] = n]
    BY <1>3 DEF EmitFails
  <2>2. n.st = "unpublished"
    BY DEF NewsItems
  <2> HIDE DEF n
  <2> QED BY <2>1, <2>2 DEF Committed
<1>4. ASSUME NEW p \in Pods, NEW e \in Events, SaveSettles(p, e)
      PROVE  Committed \subseteq Committed'
  BY <1>4, FateKeeps DEF SaveSettles
<1>5. ASSUME NEW p \in Pods, Publish(p)
      PROVE  Committed \subseteq Committed'
  <2>1. CASE news' = news
    BY <2>1 DEF Committed
  <2>2. CASE \E st \in {"sent", "lost"} : Fate(Head(outbox[p]).ev, st)
    BY <2>2, FateKeeps
  <2> QED BY <1>5, <2>1, <2>2 DEF Publish
<1>6. ASSUME news' = news PROVE Committed \subseteq Committed'
  BY <1>6 DEF Committed
<1>7. CASE BusStep
  <2>1. \/ \E p \in Pods, e \in Events : Emit(p, e) \/ EmitFails(p, e) \/ SaveSettles(p, e)
        \/ \E p \in Pods : Publish(p)
        \/ news' = news
    BY ZenonT(40), <1>7 DEF BusStep, Receive, Disconnect, Reconnect, Evict, FlushTimer, DeliverNext,
       ResetNext, SkipNext, EvictReceive
  <2> QED BY SMTT(25), <1>1, <1>2, <1>3, <1>4, <1>5, <1>6, <2>1
<1>8. CASE ClientStep
  <2>1. news' = news
    BY <1>8 DEF ClientStep, ReadView, Connect, ApplyView, Activate, WriteConnected,
       WriteReplay, WriteBuffered, WriteLive, Heartbeat, EndStream, Recover, Leave, NoBus
  <2> QED BY <1>1, <1>2, <1>6, <2>1
<1>9. CASE UNCHANGED vars
  BY <1>1, <1>2, <1>6, <1>9 DEF vars, busVars
<1> QED BY <1>7, <1>8, <1>9 DEF Next

-----------------------------------------------------------------------------
(* A step of the bus, and what the stream hears of it.                     *)

LEMMA MovesCarry ==
  ASSUME NEW T, Carried(T), Moves(T), Links(T)', Sound(T, conn', sess'), client' = client
  PROVE  Carried(T)'
<1>1. Informed(T, client', sess')
  BY InformedGrows DEF Carried, Moves
<1> QED BY <1>1 DEF Carried, Moves

LEMMA QuietMovesCarry ==
  ASSUME NEW T, Carried(T), Moves(T), Links(T)', HearNothing, client' = client
  PROVE  Carried(T)'
<1>1. Sound(T, conn', sess')
  BY HearNothingSound DEF Carried, Moves
<1> QED BY <1>1, MovesCarry

LEMMA EmitCarries ==
  ASSUME NEW T, Carried(T), Sessions(sess), NEW p \in Pods, NEW e \in Events, e \in T,
         Emit(p, e), HearEvent(p, e), client' = client
  PROVE  Carried(T)'
<1>1. sess' = [sess EXCEPT ![p] =
                 [Announce(sess[p], e) EXCEPT !.tseq = Announce(sess[p], e).tseq + 1]]
  BY DEF Emit
<1>2. /\ Moves(T) /\ Announces(sess[p], sess'[p], e)
      /\ sess'[p].gen \in Nat /\ sess'[p].seq \in Nat /\ sess'[p].tseq \in Nat
  BY <1>1, AnnounceMoves DEF Carried
<1>3. Links(T)'
  BY <1>2, EmitFlows DEF Carried
<1>4. Sound(T, conn', sess')
  BY <1>2, HearEventSound DEF Carried, Moves
<1> QED BY <1>2, <1>3, <1>4, MovesCarry

LEMMA DeliverCarries ==
  ASSUME NEW T, Carried(T), Sessions(sess), NEW p \in Pods, NEW o \in Pods,
         DeliverNext(p, o), HearEvent(p, Head(chain[p][o]).ev), client' = client
  PROVE  Carried(T)'
<1> DEFINE task == Head(chain[p][o])
           e == task.ev
<1>1. e \in T
  <2>1. chain[p][o] \in Seq(Tasks(T)) /\ chain[p][o] # <<>> /\ task.do = "deliver"
    BY DEF Carried, Links, DeliverNext
  <2>2. task \in Tasks(T)
    BY <2>1, TailFacts
  <2> HIDE DEF task
  <2> QED BY <2>1, <2>2 DEF Tasks, Reset
<1>2. sess' = [sess EXCEPT ![p] = Announce(sess[p], e)]
  BY DEF DeliverNext
<1>3. HearEvent(p, e)
  OBVIOUS
<1>4. Links(T)'
  BY ChainFlows DEF Carried
<1> HIDE DEF e
<1>5. /\ Moves(T) /\ Announces(sess[p], sess'[p], e)
      /\ sess'[p].gen \in Nat /\ sess'[p].seq \in Nat
  BY <1>1, <1>2, AnnounceMoves DEF Carried
<1>6. Sound(T, conn', sess')
  BY <1>1, <1>3, <1>5, HearEventSound DEF Carried, Moves
<1> QED BY <1>4, <1>5, <1>6, MovesCarry

\* A new epoch, or the end of one.
LEMMA ResetCarries ==
  ASSUME NEW T, Carried(T), Sessions(sess), NEW p \in Pods,
         \/ sess' = sess \/ sess' = [sess EXCEPT ![p] = Invalidate(sess[p])]
         \/ sess' = [sess EXCEPT ![p] = Untracked(sess[p].gen)],
         Links(T)', HearReset(p) \/ HearNothing, client' = client
  PROVE  Carried(T)'
<1>1. CASE sess' = sess
  BY <1>1, NoSessionMoves, HearResetSound, HearNothingSound, MovesCarry DEF Carried, Moves
<1>2. CASE sess' = [sess EXCEPT ![p] = Invalidate(sess[p])]
  BY <1>2, ResetMoves, HearResetSound, HearNothingSound, MovesCarry DEF Carried, Moves
<1>3. CASE sess' = [sess EXCEPT ![p] = Untracked(sess[p].gen)]
  <2>1. Kept(sess[p]) /\ sess[p] \in SessionOver(T)
    BY DEF Sessions, Carried
  <2>2. sess[p].gen \in Nat
    BY <2>1, KeptTypes
  <2> DEFINE u == Untracked(sess[p].gen)
  <2>a. u \in SessionOver(T) /\ Grows(sess[p], u)
    BY <2>1, <2>2, SessionOps, EvictedGrows
  <2>b. sess' = [sess EXCEPT ![p] = u]
    BY <1>3
  <2> HIDE DEF u
  <2>3. Moves(T)
    BY <2>a, <2>b, SessionMoves DEF Carried
  <2> QED BY <2>3, HearResetSound, HearNothingSound, MovesCarry DEF Carried, Moves
<1> QED BY <1>1, <1>2, <1>3

LEMMA BusCarries ==
  ASSUME NEW T, Carried(T), Sessions(sess), BusStep,
         \A p \in Pods, e \in Events : Emit(p, e) => e \in T
  PROVE  Carried(T)'
<1>1. Links(T) /\ client' = client
  BY DEF Carried, BusStep
<1>2. ASSUME NEW p \in Pods, NEW e \in Events, Emit(p, e), HearEvent(p, e)
      PROVE  Carried(T)'
  BY <1>1, <1>2, EmitCarries
<1>3. ASSUME NEW p \in Pods, NEW e \in Events,
             \/ EmitFails(p, e) /\ HearReset(p)
             \/ SaveSettles(p, e) /\ HearNothing
      PROVE  Carried(T)'
  <2>1. Links(T)'
    BY <1>1, <1>3, SettleFlows
  <2>2. sess' = sess \/ sess' = [sess EXCEPT ![p] = Invalidate(sess[p])]
    BY <1>3 DEF EmitFails, SaveSettles
  <2> QED BY <1>1, <1>3, <2>1, <2>2, ResetCarries
<1>4. ASSUME NEW p \in Pods, Publish(p), HearNothing
      PROVE  Carried(T)'
  <2>1. Links(T)' /\ sess' = sess
    BY <1>1, <1>4, PublishFlows DEF Publish
  <2> QED BY SMTT(25), <1>1, <1>4, <2>1, ResetCarries
<1>5. ASSUME NEW p \in Pods, NEW i \in 1 .. Len(wire[p]), Receive(p, i), HearNothing
      PROVE  Carried(T)'
  <2>1. Links(T)' /\ sess' = sess
    BY <1>1, <1>5, ReceiveFlows DEF Receive
  <2> QED BY <1>1, <1>5, <2>1, ResetCarries
<1>6. ASSUME NEW p \in Pods,
             \/ Disconnect(p) /\ HearNothing
             \/ Reconnect(p) /\ HearReset(p)
             \/ Evict(p) /\ HearNothing
      PROVE  Carried(T)'
  <2>1. Links(T)'
    BY <1>1, <1>6, LinkFlows
  <2>2. \/ sess' = sess \/ sess' = [sess EXCEPT ![p] = Invalidate(sess[p])]
        \/ sess' = [sess EXCEPT ![p] = Untracked(sess[p].gen)]
    <3>1. CASE Disconnect(p)
      BY <3>1 DEF Disconnect
    <3>2. CASE Reconnect(p)
      <4>1. sess' = [sess EXCEPT ![p] = IF sess[p].tracked THEN Invalidate(sess[p])
                                        ELSE sess[p]]
        BY <3>2 DEF Reconnect
      <4>2. CASE sess[p].tracked
        BY <4>1, <4>2
      <4>3. CASE ~sess[p].tracked
        BY <4>1, <4>3 DEF Sessions
      <4> QED BY <4>2, <4>3
    <3>3. CASE Evict(p)
      BY <3>3 DEF Evict
    <3> QED BY <1>6, <3>1, <3>2, <3>3
  <2> QED BY <1>1, <1>6, <2>1, <2>2, ResetCarries
<1>7. ASSUME NEW p \in Pods, NEW o \in Pods, DeliverNext(p, o),
             HearEvent(p, Head(chain[p][o]).ev)
      PROVE  Carried(T)'
  BY <1>1, <1>7, DeliverCarries
<1>8. ASSUME NEW p \in Pods, NEW o \in Pods,
             \/ FlushTimer(p, o) /\ HearNothing
             \/ ResetNext(p, o) /\ HearReset(p)
             \/ SkipNext(p, o) /\ HearNothing
             \/ EvictReceive(p, o) /\ HearNothing
      PROVE  Carried(T)'
  <2>1. Links(T)'
    BY <1>1, <1>8, ChainFlows
  <2>2. sess' = sess \/ sess' = [sess EXCEPT ![p] = Invalidate(sess[p])]
    BY <1>8 DEF FlushTimer, ResetNext, SkipNext, EvictReceive
  <2> QED BY <1>1, <1>8, <2>1, <2>2, ResetCarries
<1>9. CASE \E p \in Pods, e \in Events :
             \/ Emit(p, e) /\ HearEvent(p, e)
             \/ EmitFails(p, e) /\ HearReset(p)
             \/ SaveSettles(p, e) /\ HearNothing
  BY <1>2, <1>3, <1>9
<1>10. CASE \E p \in Pods :
              \/ Publish(p) /\ HearNothing
              \/ \E i \in 1 .. Len(wire[p]) : Receive(p, i) /\ HearNothing
              \/ Disconnect(p) /\ HearNothing
              \/ Reconnect(p) /\ HearReset(p)
              \/ Evict(p) /\ HearNothing
  BY <1>4, <1>5, <1>6, <1>10
<1>11. CASE \E p, o \in Pods :
              \/ FlushTimer(p, o) /\ HearNothing
              \/ DeliverNext(p, o) /\ HearEvent(p, Head(chain[p][o]).ev)
              \/ ResetNext(p, o) /\ HearReset(p)
              \/ SkipNext(p, o) /\ HearNothing
              \/ EvictReceive(p, o) /\ HearNothing
  BY <1>7, <1>8, <1>11
<1> QED BY <1>9, <1>10, <1>11 DEF BusStep

-----------------------------------------------------------------------------
(* The steps of the client and its stream.                                 *)

\* A step of the client leaves what travels alone.
LEMMA ClientCarries ==
  ASSUME NEW T, Carried(T), Moves(T), NoBus, faults' \in 0 .. MaxFaults,
         Sound(T, conn', sess'), Informed(T, client', sess')
  PROVE  Carried(T)'
BY DEF Carried, Moves, Links, NoBus

\* One that leaves the sessions alone, too.
LEMMA ReadsCarry ==
  ASSUME NEW T, Carried(T), NoBus, UNCHANGED <<sess, faults>>,
         Sound(T, conn', sess), Informed(T, client', sess)
  PROVE  Carried(T)'
BY NoSessionMoves, ClientCarries DEF Carried, Links

LEMMA ReadViewCarries ==
  ASSUME NEW T, Carried(T), Sessions(sess), NEW p \in Pods, ReadView(p), Committed \subseteq T
  PROVE  Carried(T)'
<1> DEFINE s == Touch(sess[p])
           id == Cursor(p, sess'[p])
<1>1. Kept(sess[p]) /\ sess[p] \in SessionOver(T)
  BY DEF Sessions, Carried
<1>2. s \in SessionOver(T) /\ Grows(sess[p], s)
  BY <1>1, SessionOps, TouchGrows
<1>3. sess' = [sess EXCEPT ![p] = s]
  BY DEF ReadView, Track
<1>4. client' = [client EXCEPT !.view = "read", !.viewCursor = id, !.viewKnown = Committed]
  BY DEF ReadView
<1> HIDE DEF s
<1>5. Moves(T) /\ sess'[p] = s
  BY <1>2, <1>3, SessionMoves DEF Carried
<1>6. s.gen \in Nat /\ s.seq \in Nat
  BY <1>2 DEF SessionOver
<1>7. id \in Ids /\ id.pod = p /\ Past(id, sess'[p])
  BY <1>5, <1>6, PastHead
<1> HIDE DEF id
<1>8. Placed(id, sess')
  BY <1>7 DEF Placed
<1>9. Informed(T, client, sess')
  BY SMTT(25), <1>5, InformedGrows DEF Carried, Moves
<1>10. Informed(T, client', sess')
  BY <1>4, <1>7, <1>8, <1>9, InformedUpdates
<1>11. Sound(T, conn', sess')
  BY <1>5, SoundGrows DEF ReadView, Carried, Moves
<1> QED BY <1>5, <1>10, <1>11, ClientCarries DEF ReadView, Carried, Links

LEMMA ApplyViewCarries ==
  ASSUME NEW T, Carried(T), ApplyView
  PROVE  Carried(T)'
<1> DEFINE K == client.known \cup client.viewKnown
           c == [client EXCEPT !.view = "applied", !.known = K]
<1>1. K \subseteq T
  BY InformedTypes DEF Carried
<1>2. client' = Checked(c)
  BY SMTT(25) DEF ApplyView
<1> HIDE DEF K
<1>3. Informed(T, c, sess)
  BY <1>1, PlacedNone, InformedUpdates DEF Carried
<1> HIDE DEF c
<1>4. Informed(T, client', sess)
  BY <1>2, <1>3, CheckedInformed
<1> QED BY <1>4, ReadsCarry DEF ApplyView, Carried

LEMMA ConnectCarries ==
  ASSUME NEW T, Carried(T), Sessions(sess), NEW p \in Pods, Connect(p)
  PROVE  Carried(T)'
<1> DEFINE align == /\ client.last = NoCursor /\ client.view = "applied"
                    /\ ~client.viewChecked
           last == IF align THEN client.viewCursor ELSE client.last
           u == client.viewChecked \/ align
           v == last = NoCursor
<1>1. client' = [client EXCEPT !.last = last, !.viewChecked = u, !.noCursor = v]
  BY DEF Connect
<1>2. conn' = [NoConn(conn.silent) EXCEPT !.phase = "watch", !.pod = p, !.cursor = last]
  BY DEF Connect
<1>3. last \in Ids /\ Placed(last, sess)
  BY InformedTypes DEF Carried, Informed
<1> HIDE DEF last, u, v, align
<1>4. Informed(T, client', sess)
  BY <1>1, <1>3, InformedUpdates DEF Carried
<1>5. conn.silent \in BOOLEAN /\ Kept(sess[p])
  BY DEF Carried, Sound, Streams, Sessions
<1>6. Sound(T, conn', sess)
  BY <1>2, <1>3, <1>5, OpenedSound
<1> QED BY <1>4, <1>6, ReadsCarry DEF Connect

LEMMA ActivateCarries ==
  ASSUME NEW T, Carried(T), Sessions(sess), Activate
  PROVE  Carried(T)'
<1> DEFINE p == conn.pod
           t == Touch(sess[p])
           n == t.pins + 1
           s == [t EXCEPT !.pins = n]
<1>1. conn.phase = "watch" /\ p \in Pods
  BY DEF Activate, Carried, Sound
<1>2. Kept(sess[p]) /\ sess[p] \in SessionOver(T)
  BY <1>1 DEF Sessions, Carried
<1>3. t \in SessionOver(T) /\ Kept(t) /\ Grows(sess[p], t)
  BY <1>2, SessionOps, TouchGrows, TouchKept
<1>4. sess' = [sess EXCEPT ![p] = s]
  BY DEF Activate, Pin
<1> HIDE DEF t
<1>5. n \in Nat
  BY <1>3 DEF SessionOver
<1> HIDE DEF n
<1>6. s \in SessionOver(T) /\ Grows(t, s)
  BY <1>3, <1>5, SessionOps, PinsGrow
<1> HIDE DEF s
<1>7. Moves(T) /\ sess'[p] = s
  BY <1>1, <1>3, <1>4, <1>6, GrowsOn, SessionMoves DEF Carried
<1>8. Sound(T, conn, sess') /\ Informed(T, client, sess')
  BY <1>7, SoundGrows, InformedGrows DEF Carried, Moves
<1>9. Sound(T, conn', sess')
  <2>1. CASE conn.hit
    BY <1>1, <1>8, <2>1, SoundClosing DEF Activate
  <2>2. CASE ~conn.hit
    <3>1. sess'[p].gen \in Nat /\ sess'[p].seq \in Nat
      BY <1>6, <1>7 DEF SessionOver
    <3>2. conn' = [conn EXCEPT
                     !.phase = "opening",
                     !.buf = Entries(conn.buf, {i \in DOMAIN conn.buf : conn.buf[i].ev \notin Trace}),
                     !.todo = <<Control("connected", Cursor(conn.pod, sess'[conn.pod]))>>]
      BY <2>2 DEF Activate
    <3> QED BY <1>1, <1>8, <3>1, <3>2, ActivatedSound
  <2> QED BY <2>1, <2>2
<1>10. Informed(T, client', sess')
  <2> DEFINE v == client.recovering \/ client.connected
             w == client.connected
  <2>1. \/ client' = client
        \/ client' = [client EXCEPT !.connected = TRUE, !.recovering = v, !.skipReset = w]
    BY SMTT(25) DEF Activate
  <2> HIDE DEF v, w
  <2>2. Informed(T, [client EXCEPT !.connected = TRUE, !.recovering = v, !.skipReset = w], sess')
    BY <1>8, PlacedNone, {} \subseteq T, InformedUpdates
  <2> QED BY <1>8, <2>1, <2>2
<1> QED BY <1>7, <1>9, <1>10, ClientCarries DEF Activate, Carried, Links

\* A frame of an open stream is of the pod the stream is on.
LEMMA FramePlaced ==
  ASSUME NEW T, Carried(T), conn.phase \in {"opening", "replay", "live"}
  PROVE  /\ conn.todo # <<>> => /\ Head(conn.todo) \in StreamFrames(T)
                                /\ Placed(Head(conn.todo).id, sess)
         /\ conn.buf # <<>> /\ IsEvent(Head(conn.buf)) =>
              /\ Head(conn.buf) \in StreamFrames(T)
              /\ Placed(Head(conn.buf).id, sess)
<1>1. conn \in Streams(T) /\ StreamOrder(conn, sess[conn.pod])
  BY DEF Carried, Sound
<1>2. conn.todo \in Seq(StreamFrames(T)) /\ conn.buf \in Seq(StreamFrames(T))
  BY <1>1, StreamTypes
<1>3. ASSUME conn.todo # <<>>
      PROVE  Head(conn.todo) \in StreamFrames(T) /\ Placed(Head(conn.todo).id, sess)
  <2>1. /\ Head(conn.todo) = conn.todo[1] /\ 1 \in 1 .. Len(conn.todo)
        /\ conn.todo[1] \in StreamFrames(T)
    BY <1>2, <1>3, TailKeeps
  <2>2. At(conn.todo[1].id, conn.pod, sess[conn.pod])
    BY <1>1, <2>1 DEF StreamOrder
  <2> QED BY <2>1, <2>2 DEF At, Placed
<1>4. ASSUME conn.buf # <<>>, IsEvent(Head(conn.buf))
      PROVE  Head(conn.buf) \in StreamFrames(T) /\ Placed(Head(conn.buf).id, sess)
  <2>1. /\ Head(conn.buf) = conn.buf[1] /\ 1 \in 1 .. Len(conn.buf)
        /\ conn.buf[1] \in StreamFrames(T)
    BY <1>2, <1>4, TailKeeps
  <2>2. At(conn.buf[1].id, conn.pod, sess[conn.pod])
    BY <1>1, <1>4, <2>1 DEF StreamOrder
  <2> QED BY <2>1, <2>2 DEF At, Placed
<1> QED BY <1>3, <1>4

\* A stream with something to write has an event first, or a reset alone.
LEMMA FirstHeard ==
  ASSUME NEW T, Carried(T), conn.phase \in {"replay", "live"}, conn.buf # <<>>,
         ~(conn.phase = "live" /\ ResetQueued(conn))
  PROVE  IsEvent(Head(conn.buf))
<1>1. conn \in Streams(T) /\ StreamOrder(conn, sess[conn.pod])
  BY DEF Carried, Sound
<1>2. conn.buf \in Seq(StreamFrames(T))
  BY <1>1, StreamTypes
<1>3. Head(conn.buf) = conn.buf[1] /\ 1 \in 1 .. Len(conn.buf)
  BY <1>2, TailKeeps
<1>4. CASE \A i \in 1 .. Len(conn.buf) : IsEvent(conn.buf[i])
  BY <1>3, <1>4
<1>5. CASE conn.phase = "live" /\ Len(conn.buf) = 1 /\ conn.buf[1].do = "reset"
  BY <1>5 DEF ResetQueued
<1> QED BY <1>1, <1>4, <1>5 DEF StreamOrder

LEMMA WritesCarry ==
  ASSUME NEW T, Carried(T), Sessions(sess),
         WriteConnected \/ WriteReplay \/ WriteBuffered \/ WriteLive
  PROVE  Carried(T)'
<1>1. /\ Sound(T, conn, sess) /\ Informed(T, client, sess)
      /\ NoBus /\ UNCHANGED <<sess, faults>>
  BY DEF Carried, WriteConnected, WriteReplay, WriteBuffered, WriteLive
<1>2. CASE WriteConnected
  <2>1. conn.phase = "opening" /\ conn.todo # <<>> /\ conn.pod \in Pods
    BY <1>1, <1>2 DEF WriteConnected, Sound
  <2>2. sess[conn.pod] \in SessionOver(T) /\ Window(sess[conn.pod])
    BY <2>1 DEF Carried, Sessions, Kept
  <2>3. Sound(T, conn', sess)
    BY <1>1, <1>2, <2>1, <2>2, ConnectedSound DEF WriteConnected
  <2>4. Informed(T, client', sess)
    BY <1>1, <1>2, <2>1, FramePlaced, ReceivedInformed DEF WriteConnected
  <2> QED BY <1>1, <2>3, <2>4, ReadsCarry
<1>3. CASE WriteReplay
  <2>1. Sound(T, conn', sess)
    BY <1>1, <1>3, WriteReplaySound
  <2>2. Informed(T, client', sess)
    BY <1>1, <1>3, FramePlaced, ReceivedInformed DEF WriteReplay
  <2> QED BY <1>1, <2>1, <2>2, ReadsCarry
<1>4. CASE WriteBuffered
  <2>1. Sound(T, conn', sess)
    BY <1>1, <1>4, WriteBufferedSound
  <2>2. conn.phase = "replay" /\ conn.buf # <<>>
    BY <1>1, <1>4 DEF WriteBuffered, Sound
  <2>3. Head(conn.buf) \in StreamFrames(T) /\ Placed(Head(conn.buf).id, sess)
    BY <2>2, FirstHeard, FramePlaced
  <2>4. Informed(T, client', sess)
    BY <1>1, <1>4, <2>3, ReceivedInformed DEF WriteBuffered
  <2> QED BY <1>1, <2>1, <2>4, ReadsCarry
<1>5. CASE WriteLive
  <2>1. Sound(T, conn', sess)
    BY <1>1, <1>5, WriteLiveSound
  <2>2. conn.phase = "live" /\ conn.buf # <<>> /\ conn.pod \in Pods
    BY <1>1, <1>5 DEF WriteLive, Sound
  <2>3. CASE ResetQueued(conn)
    <3> DEFINE id == HeadCursor(conn.pod)
               frame == Control("reset", id)
    <3>1. Kept(sess[conn.pod])
      BY <2>2 DEF Sessions
    <3>2. id \in Ids /\ Placed(id, sess)
      BY <2>2, <3>1, KeptTypes, PastHead DEF HeadCursor, Placed
    <3> HIDE DEF id
    <3>3. frame \in StreamFrames(T) /\ frame.id = id
      BY <3>2 DEF Control, StreamFrames
    <3>4. client' = Received(frame)
      BY <1>5, <2>3 DEF WriteLive, id
    <3> HIDE DEF frame
    <3>5. Informed(T, client', sess)
      BY <1>1, <3>2, <3>3, <3>4, ReceivedInformed
    <3> QED BY <1>1, <2>1, <3>5, ReadsCarry
  <2>4. CASE ~ResetQueued(conn)
    <3>1. Head(conn.buf) \in StreamFrames(T) /\ Placed(Head(conn.buf).id, sess)
      BY <2>2, <2>4, FirstHeard, FramePlaced
    <3>2. Informed(T, client', sess)
      BY <1>1, <1>5, <2>4, <3>1, ReceivedInformed DEF WriteLive
    <3> QED BY <1>1, <2>1, <3>2, ReadsCarry
  <2> QED BY <2>3, <2>4
<1> QED BY <1>2, <1>3, <1>4, <1>5

LEMMA RecoverCarries ==
  ASSUME NEW T, Carried(T), Heartbeat \/ Recover, Committed \subseteq T
  PROVE  Carried(T)'
<1> DEFINE K == client.known \cup Committed
<1>1. K \subseteq T
  BY InformedTypes DEF Carried
<1>2. \/ client' = [client EXCEPT !.skipReset = FALSE]
      \/ client' = [client EXCEPT !.recovering = FALSE, !.known = K]
  BY DEF Heartbeat, Recover
<1> HIDE DEF K
<1>a. Informed(T, client, sess)
  BY SMTT(25) DEF Carried
<1>b. /\ Informed(T, [client EXCEPT !.skipReset = FALSE], sess)
      /\ Informed(T, [client EXCEPT !.recovering = FALSE, !.known = K], sess)
  BY <1>1, <1>a, PlacedNone, InformedUpdates
<1>3. Informed(T, client', sess)
  BY <1>2, <1>b
<1> QED BY <1>3, ReadsCarry DEF Heartbeat, Recover, Carried

LEMMA EndCarries ==
  ASSUME NEW T, Carried(T), IInv, EndStream \/ \E silent \in BOOLEAN : Leave(silent)
  PROVE  Carried(T)'
<1> DEFINE p == conn.pod
           s == [sess[p] EXCEPT !.pins = 0]
<1>1. p \in Pods
  BY DEF EndStream, Leave, Carried, Sound
<1>2. Kept(sess[p]) /\ sess[p] \in SessionOver(T)
  BY <1>1 DEF IInv, Carried
<1>3. Moves(T)
  <2>1. CASE conn.phase = "watch"
    <3>1. sess' = sess
      BY <2>1 DEF EndStream, Leave
    <3> QED BY <3>1, NoSessionMoves DEF Carried
  <2>2. CASE conn.phase # "watch"
    <3>1. sess[p].pins = 1 /\ Unpin(p)
      BY <1>1, <2>2 DEF IInv, PinsMatch, EndStream, Leave
    <3>2. sess' = [sess EXCEPT ![p] = [sess[p] EXCEPT !.pins = sess[p].pins - 1]]
      BY <3>1 DEF Unpin
    <3>3. sess' = [sess EXCEPT ![p] = s]
      BY <3>1, <3>2
    <3>4. s \in SessionOver(T) /\ Grows(sess[p], s)
      BY <1>2, SessionOps, PinsGrow
    <3> HIDE DEF s
    <3> QED BY <1>1, <3>3, <3>4, SessionMoves DEF Carried
  <2> QED BY <2>1, <2>2
<1>4. PICK z \in BOOLEAN : conn' = NoConn(z)
  BY DEF EndStream, Leave
<1>5. Sound(T, conn', sess')
  BY <1>4, NoConnSound
<1>6. client' = client \/ client' = [client EXCEPT !.connected = TRUE]
  BY DEF EndStream, Leave
<1>7. Informed(T, client, sess')
  BY <1>3, InformedGrows DEF Carried, Moves
<1>a. Informed(T, [client EXCEPT !.connected = TRUE], sess')
  BY <1>7, PlacedNone, {} \subseteq T, InformedUpdates
<1>8. Informed(T, client', sess')
  BY <1>6, <1>7, <1>a
<1>9. NoBus /\ faults' \in 0 .. MaxFaults
  BY FaultType DEF EndStream, Leave, Carried, Links
<1> QED BY <1>3, <1>5, <1>8, <1>9, ClientCarries

LEMMA CommittedCarries ==
  ASSUME IInv, Carried(Committed), [Next]_vars
  PROVE  Carried(Committed)'
<1> DEFINE T == Committed'
<1>1. /\ Committed \subseteq T
      /\ \A p \in Pods, e \in Events : Emit(p, e) => e \in T
  BY CommittedGrows DEF Carried, Links
<1>2. Sessions(sess)
  BY Here
<1>3. ASSUME NEW S, Committed \subseteq S,
             \A p \in Pods, e \in Events : Emit(p, e) => e \in S
      PROVE  Carried(S)'
  <2>1. Carried(S)
    BY <1>3, CarriedWider
  <2>2. CASE BusStep
    BY <1>2, <1>3, <2>1, <2>2, BusCarries
  <2>3. CASE ClientStep
    BY <1>2, <1>3, <2>1, <2>3, ReadViewCarries, ConnectCarries, ApplyViewCarries,
       ActivateCarries, WritesCarry, RecoverCarries, EndCarries DEF ClientStep
  <2>4. CASE UNCHANGED vars
    BY <2>1, <2>4, ReadsCarry DEF vars, busVars, NoBus, Carried
  <2> QED BY <2>2, <2>3, <2>4 DEF Next
<1>4. /\ sess' \in [Pods -> SessionOver(T)]
      /\ Sound(T, conn', sess') /\ Informed(T, client', sess')
      /\ outbox' \in [Pods -> Seq(Frames(T))]
      /\ wire' \in [Pods -> Seq(Frames(T))]
      /\ listening' \in [Pods -> BOOLEAN]
      /\ recv' = [p \in Pods |-> [o \in Pods |-> recv'[p][o]]]
      /\ \A p, o \in Pods : IsRecv(recv'[p][o], T)
      /\ chain' \in [Pods -> [Pods -> Seq(Tasks(T))]]
      /\ news' \in [Events -> NewsItems]
      /\ faults' \in 0 .. MaxFaults
  <2> HIDE DEF T
  <2> QED BY <1>1, <1>3 DEF Carried, Links
<1> QED BY <1>4 DEF Carried, Links

LEMMA InitLinks ==
  ASSUME NEW T, NEW s, NEW n \in 0 .. MaxFaults, BusInitWith(s, n)
  PROVE  Links(T)
<1>1. IsRecv(NoRecv, T)
  <2> DEFINE A == {NoStream, 1}
  <2>1. NoRecv \in [stream : A, expected : A, parked : SUBSET Frames(T)]
    BY DEF NoRecv, Opened
  <2>2. IsFiniteSet(NoRecv.parked)
    BY FS_EmptySet DEF NoRecv, Opened
  <2> HIDE DEF A
  <2> QED BY <2>1, <2>2 DEF IsRecv
<1>2. \A p, o \in Pods : recv[p][o] = NoRecv
  BY DEF BusInitWith
<1>3. /\ outbox \in [Pods -> Seq(Frames(T))]
      /\ wire \in [Pods -> Seq(Frames(T))]
      /\ chain \in [Pods -> [Pods -> Seq(Tasks(T))]]
  <2> DEFINE A == Frames(T)
             B == Tasks(T)
  <2> HIDE DEF A, B
  <2>1. <<>> \in Seq(A) /\ <<>> \in Seq(B)
    OBVIOUS
  <2>2. /\ outbox \in [Pods -> Seq(A)]
        /\ wire \in [Pods -> Seq(A)]
        /\ chain \in [Pods -> [Pods -> Seq(B)]]
    BY <2>1 DEF BusInitWith
  <2> QED BY <2>2 DEF A, B
<1>4. news \in [Events -> NewsItems]
  BY DEF BusInitWith, NewsItems
<1>5. recv = [p \in Pods |-> [o \in Pods |-> recv[p][o]]]
  BY DEF BusInitWith
<1>6. listening \in [Pods -> BOOLEAN] /\ faults \in 0 .. MaxFaults
  BY DEF BusInitWith
<1> QED BY <1>1, <1>2, <1>3, <1>4, <1>5, <1>6 DEF Links

LEMMA InitCarried == Init => Carried(Committed)
<1> DEFINE T == Committed
           A == {"none", "applied", FALSE, TRUE, NoCursor}
           k == Untracked(0)
<1>1. NoCursor \in Ids /\ \A f : Placed(NoCursor, f)
  BY PlacedNone
<1>2. NewClient \in ClientOver(A, T)
  BY <1>1 DEF NewClient, ClientOver
<1>3. k \in SessionOver(T) /\ Kept(k)
  <2>1. k \in SessionOver({})
    BY UntrackedFacts DEF SessionOver
  <2> HIDE DEF k, T
  <2>3. k \in SessionOver(T)
    <3>1. Items({}) \subseteq Items(T)
      BY DEF Items
    <3> DEFINE X == Items({})
               Y == Items(T)
    <3> HIDE DEF X, Y
    <3>2. Seq(X) \subseteq Seq(Y)
      BY <3>1 DEF X, Y
    <3> QED BY <2>1, <3>2 DEF SessionOver, X, Y
  <2> QED BY <2>3, UntrackedKept DEF k
<1> HIDE DEF T, A, k
<1>4. CASE InitOpening
  <2>1. sess = [p \in Pods |-> k] /\ conn = NoConn(FALSE) /\ client = NewClient
        /\ BusInitWith(sess, OpeningFaults)
    BY <1>4 DEF InitOpening, BusInitWith, k
  <2>2. sess \in [Pods -> SessionOver(T)]
    BY <1>3, <2>1
  <2>3. Links(T)
    BY <2>1, InitLinks, StreamConstants
  <2>4. Sound(T, conn, sess)
    BY <2>1, NoConnSound
  <2>5. Informed(T, client, sess)
    BY <1>1, <1>2, <2>1 DEF Informed, NewClient
  <2> QED BY <2>2, <2>3, <2>4, <2>5 DEF Carried, T
<1>5. ASSUME NEW p \in Pods, InitLive(p) PROVE Carried(Committed)
  <2> DEFINE here == [pod |-> p, gen |-> 1, seq |-> 0]
             t == Touch(k)
             s == [t EXCEPT !.pins = 1]
  <2>1. sess = [q \in Pods |-> IF q = p THEN s ELSE k] /\ BusInitWith(sess, 0)
    BY <1>5 DEF InitLive, BusInitWith, k
  <2>2. conn = [NoConn(FALSE) EXCEPT !.phase = "live", !.pod = p, !.cursor = here]
    BY <1>5 DEF InitLive
  <2>3. client = [NewClient EXCEPT !.last = here, !.view = "applied", !.viewCursor = here,
                                   !.viewChecked = TRUE, !.connected = TRUE]
    BY <1>5 DEF InitLive
  <2>4. t \in SessionOver(T) /\ Kept(t) /\ t.tracked
    BY <1>3, SessionOps, TouchKept
  <2>5. t.gen = 1 /\ t.seq = 0
    BY DEF Touch, k, Untracked
  <2> HIDE DEF t
  <2>6. s \in SessionOver(T) /\ Kept(s) /\ s.tracked /\ s.gen = 1 /\ s.seq = 0
    <3>1. s \in SessionOver(T) /\ Kept(s)
      BY <2>4, SessionOps, PinsKept
    <3>2. s.tracked /\ s.gen = 1 /\ s.seq = 0
      BY <2>4, <2>5 DEF SessionOver
    <3> QED BY <3>1, <3>2
  <2>7. here \in Ids /\ here.pod = p /\ here.gen = 1 /\ here.seq = 0
    BY DEF Ids
  <2> HIDE DEF s, here
  <2>8. Placed(here, sess) /\ Kept(sess[p])
    BY <2>1, <2>6, <2>7 DEF Placed, Past
  <2>9. sess \in [Pods -> SessionOver(T)]
    BY <1>3, <2>1, <2>6
  <2>10. Links(T)
    BY <2>1, InitLinks, BusConstants
  <2>11. Sound(T, conn, sess)
    BY <2>2, <2>7, <2>8, OpenedSound
  <2>12. Informed(T, client, sess)
    <3>1. client \in ClientOver(A, T)
      <4>1. "applied" \in A /\ TRUE \in A
        BY DEF A
      <4> QED BY <1>2, <2>3, <2>7, <4>1 DEF ClientOver
    <3>2. client.last = here /\ client.viewCursor = here
      BY <1>2, <2>3 DEF ClientOver
    <3> QED BY <2>8, <3>1, <3>2 DEF Informed
  <2> QED BY <2>9, <2>10, <2>11, <2>12 DEF Carried, T
<1> QED BY <1>4, <1>5 DEF Init

\* What the stream writes is in the order of its replay ids, and the client
\* knows only what was committed (getEventsAfter, flushBuffered, writeEvent).
THEOREM Stream == Spec => []StreamInv
<1>1. ASSUME Carried(Committed) PROVE StreamInv
  <2> DEFINE T == Committed
  <2>1. T \subseteq Events
    BY DEF Committed
  <2>2. sess \in [Pods -> SessionOver(Events)]
    BY <1>1, <2>1, SessionsWider DEF Carried
  <2>3. BusTypeOK
    <3>1. sess \in [Pods -> [tracked : BOOLEAN, gen : Nat, seq : Nat, tseq : Nat,
                             buf : Seq([seq : Nat, ev : Events]), floor : Nat,
                             pins : Nat]]
      BY <2>2 DEF SessionOver, Items
    <3>2. Links(T)
      BY <1>1 DEF Carried
    <3>3. DOMAIN recv = Pods
      BY <3>2 DEF Links
    <3> QED BY <3>1, <3>2, <3>3 DEF BusTypeOK, Links, NewsItems
  <2>4. Sound(T, conn, sess) /\ Informed(T, client, sess)
    BY <1>1 DEF Carried
  <2>5. client.known \subseteq T
    BY <2>4, InformedTypes
  <2>6. conn \in Streams(T) /\ Len(conn.buf) <= QueueMax
    BY <2>4 DEF Sound
  <2> HIDE DEF T
  <2>7. conn.ordered = TRUE /\ conn.phase \in Phases /\ conn.pod \in Pods \cup {NoPod}
    BY <2>6 DEF Streams
  <2> QED BY <2>3, <2>5, <2>6, <2>7 DEF StreamInv, TypeOK, InOrder, Phases, T
<1>2. Init => IInv /\ Carried(Committed)
  BY InitInv, InitCarried
<1>3. IInv /\ Carried(Committed) /\ [Next]_vars => IInv' /\ Carried(Committed)'
  BY StepInv, CommittedCarries
<1> QED BY <1>1, <1>2, <1>3, PTL DEF Spec

-----------------------------------------------------------------------------
(* Nothing is missed.  Ahead(e, id, s): the cursor id, asked of s, gets e   *)
(* or a gap.  Keeps(id, e, s): a cursor below id gets from s the event e    *)
(* that has it, or a gap.  Counted: the session has given out the number n  *)
(* of its epoch g, or could not give it out any more.                       *)

Ahead(e, id, s) ==
  s.tracked /\ id.gen = s.gen =>
    id.seq < s.floor \/ \E i \in 1 .. Len(s.buf) : s.buf[i].ev = e /\ s.buf[i].seq > id.seq

Keeps(id, e, s) ==
  s.tracked /\ id.gen = s.gen =>
    id.seq <= s.floor \/ \E i \in 1 .. Len(s.buf) : s.buf[i].ev = e /\ s.buf[i].seq = id.seq

Counted(g, n, s) == g < s.gen \/ (g = s.gen /\ (s.tracked => n <= s.tseq))

\* What s has given out is not taken back by t; the events of Renews(s, t) are
\* ahead of all of it, and so is the event that is brought.
Reaches(s, t) ==
  /\ \A g, n \in Nat : Counted(g, n, s) => Counted(g, n, t)
  /\ \A id \in Ids : Past(id, s) =>
       \A e : (Ahead(e, id, s) => Ahead(e, id, t)) /\ (Keeps(id, e, s) => Keeps(id, e, t))

Renews(s, t) == \A id \in Ids : Past(id, s) => \A e : Ahead(e, id, t)

Brings(s, t, e) ==
  /\ \A id \in Ids : Past(id, s) => Ahead(e, id, t)
  /\ \A id \in Ids : id.gen = t.gen /\ id.seq = t.seq => Keeps(id, e, t)

LEMMA ReachesSame ==
  ASSUME NEW s, NEW t, t.tracked = s.tracked, t.gen = s.gen, t.buf = s.buf,
         t.floor = s.floor, t.tseq = s.tseq
  PROVE  Reaches(s, t)
BY DEF Reaches, Counted, Ahead, Keeps

LEMMA ReachesOn ==
  ASSUME NEW s, NEW t, NEW u, Reaches(s, t), Grows(s, t), Reaches(t, u)
  PROVE  Reaches(s, u)
BY DEF Reaches, Grows

LEMMA EpochReaches ==
  ASSUME NEW s, NEW t, s.gen \in Nat, t.gen \in Nat, s.gen < t.gen
  PROVE  Reaches(s, t) /\ Renews(s, t)
<1>1. ASSUME NEW id \in Ids, Past(id, s)
      PROVE  \A e : Ahead(e, id, t) /\ Keeps(id, e, t)
  <2>1. id.gen \in Nat /\ id.gen < t.gen
    BY <1>1 DEF Past, Ids
  <2> QED BY <2>1 DEF Ahead, Keeps
<1>2. ASSUME NEW g \in Nat, NEW n \in Nat, Counted(g, n, s)
      PROVE  Counted(g, n, t)
  BY <1>2 DEF Counted
<1> QED BY <1>1, <1>2 DEF Reaches, Renews

LEMMA TouchReaches ==
  ASSUME NEW s, Kept(s)
  PROVE  Reaches(s, Touch(s))
<1>1. s.gen \in Nat /\ s.tracked \in BOOLEAN
  BY KeptTypes
<1>2. CASE s.tracked
  BY <1>2, ReachesSame DEF Touch
<1>3. CASE ~s.tracked
  <2> DEFINE u == Untracked(s.gen + 1)
  <2>1. u \in SessionOver({}) /\ u.gen = s.gen + 1
    BY <1>1, UntrackedFacts
  <2> HIDE DEF u
  <2>2. [u EXCEPT !.tracked = TRUE].gen = s.gen + 1
    BY <2>1, SetTracked
  <2>3. Touch(s).gen = s.gen + 1
    BY <1>3, <2>2 DEF Touch, u
  <2> QED BY <1>1, <2>3, EpochReaches
<1> QED BY <1>1, <1>2, <1>3

LEMMA InvalidateReaches ==
  ASSUME NEW s, Kept(s)
  PROVE  Reaches(s, Invalidate(s)) /\ Renews(s, Invalidate(s))
<1> DEFINE n == Touch(s).gen + 1
           u == Untracked(n)
           m == s.pins
<1>1. s.gen \in Nat /\ n \in Nat /\ s.gen < n
  BY KeptTypes, TouchGen
<1>2. u \in SessionOver({}) /\ u.gen = n
  BY <1>1, UntrackedFacts
<1>3. Invalidate(s) = [u EXCEPT !.tracked = TRUE, !.pins = m]
  BY DEF Invalidate
<1> HIDE DEF u, n, m
<1>4. Invalidate(s).gen = n
  BY <1>2, <1>3 DEF SessionOver
<1> QED BY <1>1, <1>4, EpochReaches

LEMMA EvictedReaches ==
  ASSUME NEW s, Kept(s), NEW t, ~t.tracked, t.gen = s.gen
  PROVE  Reaches(s, t) /\ Renews(s, t)
BY DEF Reaches, Renews, Counted, Ahead, Keeps

LEMMA PinsReach ==
  ASSUME NEW s, Kept(s), NEW n
  PROVE  Reaches(s, [s EXCEPT !.pins = n])
<1> DEFINE t == [s EXCEPT !.pins = n]
<1>1. PICK S : s \in SessionOver(S)
  BY DEF Kept
<1>2. /\ t.tracked = s.tracked /\ t.gen = s.gen /\ t.tseq = s.tseq
      /\ t.buf = s.buf /\ t.floor = s.floor
  BY <1>1 DEF SessionOver
<1> HIDE DEF t
<1>3. Reaches(s, t)
  BY <1>2, ReachesSame
<1> QED BY <1>3 DEF t

\* The ring that takes an event loses at most its first item, to the floor.
Takes(s, t, e) ==
  /\ t.tracked /\ t.gen = s.gen /\ t.tseq = s.tseq /\ t.seq = s.seq + 1
  /\ t.floor \in Nat /\ s.floor <= t.floor
  /\ \A i \in 1 .. Len(s.buf) :
       s.buf[i].seq <= t.floor \/ \E j \in 1 .. Len(t.buf) : t.buf[j] = s.buf[i]
  /\ e \notin Trace =>
       \E j \in 1 .. Len(t.buf) : t.buf[j].ev = e /\ t.buf[j].seq = s.seq + 1

LEMMA RetainTakes ==
  ASSUME NEW s, NEW e, Kept(s), s.tracked
  PROVE  Takes(s, Retain([s EXCEPT !.seq = s.seq + 1], e), e)
<1>1. PICK S : s \in SessionOver(S)
  BY DEF Kept
<1> DEFINE n == s.seq + 1
           u == [s EXCEPT !.seq = n]
           t == Retain(u, e)
           item == [seq |-> n, ev |-> e]
           T == S \cup {e}
<1> SUFFICES Takes(s, t, e)
  OBVIOUS
<1>2. /\ s.seq \in Nat /\ n \in Nat /\ s.floor \in Nat /\ s.floor <= s.floor
      /\ s.buf \in Seq(Items(S)) /\ n = s.seq + 1
  BY <1>1 DEF SessionOver
<1>3. s.buf \in Seq(Items(T)) /\ item \in Items(T)
  BY <1>2, ItemsGrow
<1>4. item.seq = n /\ item.ev = e
  OBVIOUS
<1>5. Len(s.buf) \in Nat /\ \A i \in 1 .. Len(s.buf) : s.buf[i].seq \in Nat
  BY KeptTypes
<1>o. Ordered(s.buf, s.floor, s.seq)
  BY <1>1, WindowIsOrdered DEF Kept
<1> HIDE DEF T, item
<1>6. u \in SessionOver(T) /\ u.buf = s.buf /\ u.seq = n /\ u.floor = s.floor
      /\ u.gen = s.gen /\ u.tracked /\ u.tseq = s.tseq
  BY <1>1, <1>2, <1>3 DEF SessionOver
<1> HIDE DEF u, n
<1>8. CASE e \in Trace
  <2>1. t = u
    BY <1>8 DEF Retain
  <2> HIDE DEF t
  <2> QED BY <1>2, <1>6, <1>8, <2>1 DEF Takes
<1>9. CASE e \notin Trace /\ Len(s.buf) < RingMax
  <2> DEFINE q == Append(s.buf, item)
             v == [u EXCEPT !.buf = q]
  <2>1. t = v
    BY <1>6, <1>9 DEF Retain, item
  <2> HIDE DEF t
  <2>2. /\ q \in Seq(Items(T)) /\ Len(q) = Len(s.buf) + 1
        /\ q[Len(s.buf) + 1] = item
        /\ \A i \in 1 .. Len(s.buf) : q[i] = s.buf[i]
    BY <1>3, AppendFacts
  <2> HIDE DEF q
  <2>3. v.tracked /\ v.gen = s.gen /\ v.seq = n /\ v.buf = q /\ v.floor = s.floor
        /\ v.tseq = s.tseq
    BY <1>6, <2>2 DEF SessionOver
  <2> HIDE DEF v
  <2>4. \A i \in 1 .. Len(s.buf) : i \in 1 .. Len(q) /\ q[i] = s.buf[i]
    BY <1>5, <2>2
  <2>5. Len(s.buf) + 1 \in 1 .. Len(q)
    BY <1>5, <2>2
  <2> QED BY <1>2, <1>4, <2>1, <2>2, <2>3, <2>4, <2>5 DEF Takes
<1>10. CASE e \notin Trace /\ ~(Len(s.buf) < RingMax)
  <2> DEFINE w == Tail(s.buf)
             q == Append(w, item)
             lo == Head(s.buf).seq
             v == [u EXCEPT !.buf = q, !.floor = lo]
  <2>1. t = v
    BY <1>6, <1>10 DEF Retain, item
  <2> HIDE DEF t
  <2>2. s.buf # <<>>
    BY <1>2, <1>10, RingMaxPositive
  <2>3. /\ w \in Seq(Items(T)) /\ Len(w) = Len(s.buf) - 1 /\ Len(s.buf) \in Nat \ {0}
        /\ Head(s.buf) = s.buf[1]
        /\ \A i \in 1 .. Len(s.buf) - 1 : w[i] = s.buf[i + 1]
    BY <1>3, <2>2, TailFacts
  <2>4. lo \in Nat /\ s.floor <= lo /\ s.buf[1].seq <= lo
    BY <1>2, <1>o, <1>5, <2>3 DEF Ordered
  <2> HIDE DEF lo, w
  <2>5. /\ q \in Seq(Items(T)) /\ Len(q) = Len(w) + 1 /\ q[Len(w) + 1] = item
        /\ \A i \in 1 .. Len(w) : q[i] = w[i]
    BY <1>3, <2>3, AppendFacts
  <2> HIDE DEF q
  <2>6. v.tracked /\ v.gen = s.gen /\ v.seq = n /\ v.buf = q /\ v.floor = lo
        /\ v.tseq = s.tseq
    BY <1>6, <2>4, <2>5 DEF SessionOver
  <2> HIDE DEF v
  <2>7. ASSUME NEW i \in 1 .. Len(s.buf)
        PROVE  s.buf[i].seq <= lo \/ \E j \in 1 .. Len(q) : q[j] = s.buf[i]
    <3>1. CASE i = 1
      BY <2>4, <3>1
    <3>2. CASE i # 1
      <4>1. i - 1 \in 1 .. Len(w) /\ i - 1 \in 1 .. Len(q) /\ (i - 1) + 1 = i
        BY <2>3, <2>5, <3>2
      <4>2. q[i - 1] = s.buf[i]
        BY <2>3, <2>5, <4>1
      <4> QED BY <4>1, <4>2
    <3> QED BY <3>1, <3>2
  <2>8. Len(w) + 1 \in 1 .. Len(q)
    BY <1>3, <2>3, <2>5
  <2> QED BY <1>2, <1>4, <2>1, <2>4, <2>5, <2>6, <2>7, <2>8 DEF Takes
<1> QED BY <1>8, <1>9, <1>10

LEMMA TakesReaches ==
  ASSUME NEW s, NEW t, NEW e, Kept(s), s.tracked, Takes(s, t, e)
  PROVE  Reaches(s, t) /\ (e \notin Trace => Brings(s, t, e))
<1>1. /\ s.gen \in Nat /\ s.seq \in Nat /\ s.floor \in Nat /\ t.floor \in Nat
      /\ \A i \in 1 .. Len(s.buf) : s.buf[i].seq \in Nat
      /\ t.gen = s.gen /\ t.tracked /\ s.floor <= t.floor /\ t.seq = s.seq + 1
  BY KeptTypes DEF Takes
<1>2. ASSUME NEW id \in Ids, NEW x, Ahead(x, id, s)
      PROVE  Ahead(x, id, t)
  <2>1. SUFFICES ASSUME id.gen = s.gen
                 PROVE  \/ id.seq < t.floor
                        \/ \E i \in 1 .. Len(t.buf) : t.buf[i].ev = x /\ t.buf[i].seq > id.seq
    BY <1>1 DEF Ahead
  <2>2. id.seq \in Nat
    BY DEF Ids
  <2>3. CASE id.seq < s.floor
    BY <1>1, <2>2, <2>3
  <2>4. ASSUME NEW i \in 1 .. Len(s.buf), s.buf[i].ev = x, s.buf[i].seq > id.seq
        PROVE  \/ id.seq < t.floor
               \/ \E j \in 1 .. Len(t.buf) : t.buf[j].ev = x /\ t.buf[j].seq > id.seq
    <3>1. CASE s.buf[i].seq <= t.floor
      BY <1>1, <2>2, <2>4, <3>1
    <3>2. CASE \E j \in 1 .. Len(t.buf) : t.buf[j] = s.buf[i]
      BY <2>4, <3>2
    <3> QED BY <3>1, <3>2 DEF Takes
  <2> QED BY <1>2, <2>1, <2>3, <2>4 DEF Ahead
<1>3. ASSUME NEW id \in Ids, NEW x, Keeps(id, x, s)
      PROVE  Keeps(id, x, t)
  <2>1. SUFFICES ASSUME id.gen = s.gen
                 PROVE  \/ id.seq <= t.floor
                        \/ \E i \in 1 .. Len(t.buf) : t.buf[i].ev = x /\ t.buf[i].seq = id.seq
    BY <1>1 DEF Keeps
  <2>2. id.seq \in Nat
    BY DEF Ids
  <2>3. CASE id.seq <= s.floor
    BY <1>1, <2>2, <2>3
  <2>4. ASSUME NEW i \in 1 .. Len(s.buf), s.buf[i].ev = x, s.buf[i].seq = id.seq
        PROVE  \/ id.seq <= t.floor
               \/ \E j \in 1 .. Len(t.buf) : t.buf[j].ev = x /\ t.buf[j].seq = id.seq
    <3>1. CASE s.buf[i].seq <= t.floor
      BY <2>4, <3>1
    <3>2. CASE \E j \in 1 .. Len(t.buf) : t.buf[j] = s.buf[i]
      BY <2>4, <3>2
    <3> QED BY <3>1, <3>2 DEF Takes
  <2> QED BY <1>3, <2>1, <2>3, <2>4 DEF Keeps
<1>4. Reaches(s, t)
  BY <1>2, <1>3 DEF Reaches, Counted, Takes
<1>5. ASSUME e \notin Trace PROVE Brings(s, t, e)
  <2>1. PICK j \in 1 .. Len(t.buf) : t.buf[j].ev = e /\ t.buf[j].seq = s.seq + 1
    BY <1>5 DEF Takes
  <2>2. ASSUME NEW id \in Ids, Past(id, s) PROVE Ahead(e, id, t)
    <3>1. id.seq \in Nat /\ (id.gen = s.gen => id.seq <= s.seq)
      BY <1>1, <2>2 DEF Past, Ids
    <3>2. id.gen = s.gen => t.buf[j].seq > id.seq
      BY <1>1, <2>1, <3>1
    <3> QED BY <1>1, <2>1, <3>2 DEF Ahead
  <2>3. ASSUME NEW id \in Ids, id.gen = t.gen, id.seq = t.seq PROVE Keeps(id, e, t)
    BY <1>1, <2>1, <2>3 DEF Keeps
  <2> QED BY <2>2, <2>3 DEF Brings
<1> QED BY <1>4, <1>5

LEMMA AnnounceReaches ==
  ASSUME NEW s, NEW e, Kept(s)
  PROVE  /\ Reaches(s, Announce(s, e))
         /\ e \notin Trace => Brings(s, Announce(s, e), e)
         /\ Announce(s, e).tracked /\ Announce(s, e).gen = Touch(s).gen
         /\ Announce(s, e).tseq = Touch(s).tseq
<1> DEFINE t == Touch(s)
           u == Announce(s, e)
<1>1. Kept(t) /\ t.tracked /\ Grows(s, t) /\ Reaches(s, t)
  BY TouchKept, TouchGrows, TouchReaches
<1>2. u = Retain([t EXCEPT !.seq = t.seq + 1], e)
  BY DEF Announce
<1> HIDE DEF t, u
<1>3. Takes(t, u, e)
  BY <1>1, <1>2, RetainTakes
<1>4. Reaches(t, u) /\ (e \notin Trace => Brings(t, u, e))
  BY <1>1, <1>3, TakesReaches
<1>5. Reaches(s, u)
  BY <1>1, <1>4, ReachesOn
<1>6. e \notin Trace => Brings(s, u, e)
  BY <1>1, <1>4 DEF Brings, Grows
<1>7. u.tracked /\ u.gen = t.gen /\ u.tseq = t.tseq
  BY <1>3 DEF Takes
<1> QED BY <1>5, <1>6, <1>7 DEF t, u

\* The number that a frame of the session takes is new.
LEMMA CountedReaches ==
  ASSUME NEW s, NEW e, Kept(s), Kept(Announce(s, e))
  PROVE  LET u == Announce(s, e)
             t == [u EXCEPT !.tseq = u.tseq + 1]
         IN  /\ Reaches(s, t) /\ (e \notin Trace => Brings(s, t, e))
             /\ t.gen \in Nat /\ t.tseq \in Nat /\ t.tseq >= 1
             /\ Counted(t.gen, t.tseq, t)
             /\ \A g, n \in Nat : Counted(g, n, s) /\ g = t.gen => n < t.tseq
<1> DEFINE u == Announce(s, e)
           t == [u EXCEPT !.tseq = u.tseq + 1]
<1>1. /\ Reaches(s, u) /\ (e \notin Trace => Brings(s, u, e))
      /\ u.tracked /\ u.gen = Touch(s).gen /\ u.tseq = Touch(s).tseq
  BY AnnounceReaches
<1>2. Kept(u) /\ Grows(s, u)
  BY AnnounceAnnounces DEF Announces
<1> HIDE DEF u
<1>3. PICK S : u \in SessionOver(S)
  BY <1>2 DEF Kept
<1>4. /\ t.tracked = u.tracked /\ t.gen = u.gen /\ t.seq = u.seq /\ t.buf = u.buf
      /\ t.floor = u.floor /\ t.tseq = u.tseq + 1 /\ u.tseq \in Nat /\ u.gen \in Nat
  BY <1>3 DEF SessionOver
<1> HIDE DEF t
<1>5. Reaches(u, t)
  BY <1>4 DEF Reaches, Counted, Ahead, Keeps
<1>6. Reaches(s, t)
  BY <1>1, <1>2, <1>5, ReachesOn
<1>7. e \notin Trace => Brings(s, t, e)
  BY <1>1, <1>4 DEF Brings, Ahead, Keeps
<1>8. ASSUME NEW g \in Nat, NEW n \in Nat, Counted(g, n, s), g = t.gen
      PROVE  n < t.tseq
  <2>1. s.gen \in Nat /\ s.tseq \in Nat /\ s.tracked \in BOOLEAN
    BY KeptTypes
  <2>2. CASE s.tracked
    <3>1. Touch(s) = s
      BY <2>2 DEF Touch
    <3> QED BY <1>1, <1>4, <1>8, <2>1, <2>2, <3>1 DEF Counted
  <2>3. CASE ~s.tracked
    <3>1. Touch(s).gen = s.gen + 1
      BY <2>3 DEF Touch, Untracked
    <3> QED BY <1>1, <1>4, <1>8, <2>1, <3>1 DEF Counted
  <2> QED BY <2>1, <2>2, <2>3
<1>9. Counted(t.gen, t.tseq, t)
  BY <1>1, <1>4 DEF Counted
<1> QED BY <1>4, <1>6, <1>7, <1>8, <1>9 DEF t, u

-----------------------------------------------------------------------------
(* The numbers of the frames.  Numbered(e): e went out as a frame, or       *)
(* should have.                                                             *)

Numbered(e, w) == w[e].st \in {"queued", "saving", "sent", "lost"}
StreamOf(e, w) == [pod |-> w[e].pod, gen |-> w[e].gen]
FrameStream(f) == [pod |-> f.pod, gen |-> f.gen]

Numbers(w, s) ==
  \A e \in Events : Numbered(e, w) =>
    /\ w[e].pod \in Pods /\ w[e].tseq >= 1
    /\ Counted(w[e].gen, w[e].tseq, s[w[e].pod])
    /\ \A x \in Events :
         Numbered(x, w) /\ StreamOf(x, w) = StreamOf(e, w) /\ w[x].tseq = w[e].tseq => x = e

IsFrame(f, w) ==
  /\ f.ev \in Events /\ f.pod = w[f.ev].pod /\ f.gen = w[f.ev].gen
  /\ f.seq = w[f.ev].tseq /\ f.ref = (f.ev \in Oversize)

SentFrame(f, w) == IsFrame(f, w) /\ w[f.ev].st = "sent"

\* What waits in an outbox follows, in the order of its numbers, what was sent.
Waits(f, w) == IsFrame(f, w) /\ w[f.ev].st \in {"queued", "saving", "lost"}
SentBelow(stream, n, w) ==
  \A e \in Events : w[e].st = "sent" /\ StreamOf(e, w) = stream => w[e].tseq < n

Outgoing(q, p, w) ==
  \A i \in 1 .. Len(q) :
    /\ q[i].pod = p /\ Waits(q[i], w) /\ SentBelow(FrameStream(q[i]), q[i].seq, w)
    /\ \A j \in 1 .. Len(q) : i < j /\ q[j].gen = q[i].gen => q[i].seq < q[j].seq

\* A receiver has passed a number only when it, or a later one, was sent.
Orderly(r, o, w) ==
  /\ r.expected \in Nat /\ r.expected >= 1
  /\ r.expected = 1 \/ \E e \in Events : /\ w[e].st = "sent" /\ StreamOf(e, w) = r.stream
                                         /\ w[e].tseq + 1 = r.expected
  /\ \A f \in r.parked : /\ SentFrame(f, w) /\ FrameStream(f) = r.stream
                         /\ f.pod = o /\ f.seq > r.expected

-----------------------------------------------------------------------------
(* Sequences as sets of entries.                                           *)

LEMMA EntriesOf ==
  ASSUME NEW S, NEW q \in Seq(S)
  PROVE  /\ ToSet(q) = {q[i] : i \in 1 .. Len(q)} /\ ToSet(q) \subseteq S
         /\ \A i \in 1 .. Len(q) : q[i] \in ToSet(q)
         /\ \A x \in ToSet(q) : \E i \in 1 .. Len(q) : q[i] = x
BY DEF ToSet

LEMMA EntriesAppend ==
  ASSUME NEW S, NEW q \in Seq(S), NEW x \in S
  PROVE  ToSet(Append(q, x)) = ToSet(q) \cup {x}
<1> DEFINE r == Append(q, x)
<1>1. /\ r \in Seq(S) /\ Len(q) \in Nat /\ Len(r) = Len(q) + 1 /\ r[Len(q) + 1] = x
      /\ \A i \in 1 .. Len(q) : r[i] = q[i]
  BY AppendFacts
<1> HIDE DEF r
<1>2. ToSet(r) = {r[i] : i \in 1 .. Len(r)} /\ ToSet(q) = {q[i] : i \in 1 .. Len(q)}
  BY <1>1, EntriesOf
<1>3. \A i \in 1 .. Len(r) : i \in 1 .. Len(q) \/ i = Len(q) + 1
  BY <1>1
<1>4. \A i \in 1 .. Len(q) : i \in 1 .. Len(r)
  BY <1>1
<1>5. Len(q) + 1 \in 1 .. Len(r)
  BY <1>1
<1> QED BY <1>1, <1>2, <1>3, <1>4, <1>5 DEF r

LEMMA EntriesJoin ==
  ASSUME NEW S, NEW q \in Seq(S), NEW r \in Seq(S)
  PROVE  ToSet(q \o r) = ToSet(q) \cup ToSet(r)
<1> DEFINE z == q \o r
<1>1. /\ z \in Seq(S) /\ Len(q) \in Nat /\ Len(r) \in Nat /\ Len(z) = Len(q) + Len(r)
      /\ \A i \in 1 .. Len(z) : z[i] = IF i <= Len(q) THEN q[i] ELSE r[i - Len(q)]
  BY ConcatProperties
<1> HIDE DEF z
<1>2. /\ ToSet(z) = {z[i] : i \in 1 .. Len(z)} /\ ToSet(q) = {q[i] : i \in 1 .. Len(q)}
      /\ ToSet(r) = {r[i] : i \in 1 .. Len(r)}
  BY <1>1, EntriesOf
<1>3. \A i \in 1 .. Len(z) : \/ i \in 1 .. Len(q) /\ z[i] = q[i]
                             \/ i - Len(q) \in 1 .. Len(r) /\ z[i] = r[i - Len(q)]
  BY <1>1
<1>4. \A i \in 1 .. Len(q) : i \in 1 .. Len(z) /\ z[i] = q[i]
  BY <1>1
<1>5. \A i \in 1 .. Len(r) : i + Len(q) \in 1 .. Len(z) /\ z[i + Len(q)] = r[i]
  <2> TAKE i \in 1 .. Len(r)
  <2>1. i + Len(q) \in 1 .. Len(z) /\ ~(i + Len(q) <= Len(q)) /\ (i + Len(q)) - Len(q) = i
    BY <1>1
  <2> QED BY <1>1, <2>1
<1>6. ToSet(z) \subseteq ToSet(q) \cup ToSet(r)
  BY <1>2, <1>3
<1>7. ToSet(q) \subseteq ToSet(z)
  BY <1>2, <1>4
<1>8. ToSet(r) \subseteq ToSet(z)
  BY <1>2, <1>5
<1> QED BY <1>6, <1>7, <1>8 DEF z

LEMMA EntriesTail ==
  ASSUME NEW S, NEW q \in Seq(S), q # <<>>
  PROVE  /\ ToSet(q) = ToSet(Tail(q)) \cup {Head(q)}
         /\ Head(q) = q[1] /\ Len(q) \in Nat /\ Len(q) >= 1 /\ Len(Tail(q)) = Len(q) - 1
         /\ \A i \in 1 .. Len(Tail(q)) : i + 1 \in 1 .. Len(q) /\ Tail(q)[i] = q[i + 1]
<1> DEFINE r == Tail(q)
<1>1. /\ r \in Seq(S) /\ Len(q) \in Nat \ {0} /\ Head(q) = q[1] /\ Len(r) = Len(q) - 1
      /\ \A i \in 1 .. Len(q) - 1 : r[i] = q[i + 1]
  BY TailFacts
<1> HIDE DEF r
<1>2. ToSet(r) = {r[i] : i \in 1 .. Len(r)} /\ ToSet(q) = {q[i] : i \in 1 .. Len(q)}
  BY <1>1, EntriesOf
<1>3. \A i \in 1 .. Len(r) : i + 1 \in 1 .. Len(q) /\ r[i] = q[i + 1]
  BY <1>1
<1>4. \A i \in 1 .. Len(q) : i = 1 \/ (i - 1 \in 1 .. Len(r) /\ r[i - 1] = q[i])
  BY <1>1
<1>5. 1 \in 1 .. Len(q) /\ Len(q) >= 1
  BY <1>1
<1>6. ToSet(q) \subseteq ToSet(r) \cup {Head(q)}
  BY <1>1, <1>2, <1>4
<1>7. ToSet(r) \cup {Head(q)} \subseteq ToSet(q)
  BY <1>1, <1>2, <1>3, <1>5
<1> QED BY <1>1, <1>3, <1>5, <1>6, <1>7 DEF r

LEMMA EntriesRemove ==
  ASSUME NEW S, NEW q \in Seq(S), NEW i \in 1 .. Len(q)
  PROVE  ToSet(q) = ToSet(RemoveAt(q, i)) \cup {q[i]}
<1>1. Len(q) \in Nat
  OBVIOUS
<1> DEFINE a == SubSeq(q, 1, i - 1)
           b == SubSeq(q, i + 1, Len(q))
<1>a. 1 \in Int /\ i - 1 \in Int /\ i + 1 \in Int /\ Len(q) \in Int
  BY <1>1
<1>b. \A k \in 1 .. i - 1 : q[k] \in S
  BY <1>1
<1>c. \A k \in i + 1 .. Len(q) : q[k] \in S
  BY <1>1
<1>2. /\ a \in Seq(S) /\ Len(a) = i - 1
      /\ \A k \in 1 .. i - 1 : a[k] = q[k]
  <2>1. a \in Seq(S) /\ Len(a) = (IF 1 <= i - 1 THEN (i - 1) - 1 + 1 ELSE 0)
        /\ \A k \in 1 .. (i - 1) - 1 + 1 : a[k] = q[1 + k - 1]
    BY <1>a, <1>b, SubSeqProperties
  <2> HIDE DEF a
  <2>2. \A k \in 1 .. i - 1 : k \in 1 .. (i - 1) - 1 + 1 /\ 1 + k - 1 = k
    BY <1>1
  <2> QED BY <1>1, <2>1, <2>2
<1>3. /\ b \in Seq(S) /\ Len(b) = Len(q) - i
      /\ \A k \in 1 .. Len(q) - i : b[k] = q[i + k]
  <2>1. b \in Seq(S) /\ Len(b) = (IF i + 1 <= Len(q) THEN Len(q) - (i + 1) + 1 ELSE 0)
        /\ \A k \in 1 .. Len(q) - (i + 1) + 1 : b[k] = q[i + 1 + k - 1]
    BY <1>a, <1>c, SubSeqProperties
  <2> HIDE DEF b
  <2>2. \A k \in 1 .. Len(q) - i : k \in 1 .. Len(q) - (i + 1) + 1 /\ i + 1 + k - 1 = i + k
    BY <1>1
  <2> QED BY <1>1, <2>1, <2>2
<1>4. RemoveAt(q, i) = a \o b
  BY DEF RemoveAt
<1> HIDE DEF a, b
<1>5. ToSet(RemoveAt(q, i)) = ToSet(a) \cup ToSet(b)
  BY <1>2, <1>3, <1>4, EntriesJoin
<1>6. /\ ToSet(a) = {a[k] : k \in 1 .. Len(a)} /\ ToSet(b) = {b[k] : k \in 1 .. Len(b)}
      /\ ToSet(q) = {q[k] : k \in 1 .. Len(q)}
  BY <1>2, <1>3, EntriesOf
<1>7. \A k \in 1 .. Len(q) : \/ k = i
                             \/ k \in 1 .. Len(a) /\ a[k] = q[k]
                             \/ k - i \in 1 .. Len(b) /\ b[k - i] = q[k]
  <2> TAKE k \in 1 .. Len(q)
  <2>1. CASE k < i
    BY <1>1, <1>2, <2>1
  <2>2. CASE k > i
    <3>1. k - i \in 1 .. Len(q) - i /\ i + (k - i) = k
      BY <1>1, <2>2
    <3> QED BY <1>3, <3>1
  <2> QED BY <2>1, <2>2
<1>8. \A k \in 1 .. Len(a) : k \in 1 .. Len(q) /\ a[k] = q[k]
  BY <1>1, <1>2
<1>9. \A k \in 1 .. Len(b) : i + k \in 1 .. Len(q) /\ b[k] = q[i + k]
  BY <1>1, <1>3
<1>10. ToSet(q) \subseteq ToSet(a) \cup ToSet(b) \cup {q[i]}
  BY <1>6, <1>7
<1>11. ToSet(a) \subseteq ToSet(q)
  BY <1>6, <1>8
<1>12. ToSet(b) \subseteq ToSet(q)
  BY <1>6, <1>9
<1>13. q[i] \in ToSet(q)
  BY <1>6
<1> QED BY <1>5, <1>10, <1>11, <1>12, <1>13

-----------------------------------------------------------------------------
(* The operators of a receiver.                                            *)

LEMMA GreatestNumber ==
  ASSUME NEW I, I \subseteq Nat, IsFiniteSet(I), I # {}
  PROVE  \E m \in I : \A x \in I : x <= m
<1> DEFINE n == Cardinality(I)
           z == Ascending(I)
<1>1. /\ n \in Nat /\ Rising(z, n, I)
      /\ \A x \in I : \E i \in 1 .. n : z[i] = x
  BY AscendingLists
<1> HIDE DEF z, n
<1>2. n \in 1 .. n
  <2>1. PICK i \in 1 .. n : TRUE
    BY <1>1
  <2> QED BY <1>1, <2>1
<1>3. z[n] \in I
  BY <1>1, <1>2 DEF Rising
<1>4. ASSUME NEW x \in I PROVE x <= z[n]
  <2>1. PICK i \in 1 .. n : z[i] = x
    BY <1>1
  <2>2. CASE i = n
    <3>1. x \in Nat /\ x = z[n]
      BY <2>1, <2>2
    <3> QED BY <3>1
  <2>3. CASE i # n
    <3>1. i < n
      BY <1>1, <2>3
    <3>2. z[i] < z[n] /\ z[i] \in Nat /\ z[n] \in Nat
      <4>1. z[i] < z[n] /\ z[i] \in I
        BY <1>1, <1>2, <3>1 DEF Rising
      <4>2. z[n] \in I
        BY <1>3
      <4> QED BY <4>1, <4>2
    <3> QED BY <2>1, <3>2
  <2> QED BY <2>2, <2>3
<1> QED BY <1>3, <1>4

LEMMA FrameNumbers ==
  ASSUME NEW T, NEW F, F \subseteq Frames(T), IsFiniteSet(F)
  PROVE  LET I == {f.seq : f \in F}
         IN  /\ I \subseteq Nat /\ IsFiniteSet(I)
             /\ (\A f, g \in F : f.seq = g.seq => f = g) => Cardinality(I) = Cardinality(F)
<1> DEFINE I == {f.seq : f \in F}
           h == [f \in F |-> f.seq]
<1>1. h \in Surjection(F, I)
  BY DEF Surjection
<1>2. IsFiniteSet(I) /\ (Cardinality(I) = Cardinality(F) <=> h \in Injection(F, I))
  BY <1>1, FS_Surjection
<1>3. (\A f, g \in F : f.seq = g.seq => f = g) => h \in Injection(F, I)
  BY DEF Injection, IsInjective
<1>4. I \subseteq Nat
  BY DeliverType
<1> QED BY <1>2, <1>3, <1>4

\* A frame with a number of its own among the frames is delivered.
LEMMA DeliveriesTell ==
  ASSUME NEW T, NEW F, F \subseteq Frames(T), IsFiniteSet(F), NEW f \in F,
         \A g \in F : g.seq = f.seq => g = f
  PROVE  Deliver(f) \in ToSet(Deliveries(F))
<1> DEFINE I == {g.seq : g \in F}
           n == Cardinality(I)
           z == Ascending(I)
           d == Deliveries(F)
<1>1. I \subseteq Nat /\ IsFiniteSet(I)
  BY FrameNumbers
<1>2. n \in Nat /\ \A x \in I : \E i \in 1 .. n : z[i] = x
  BY <1>1, AscendingLists
<1>3. PICK i \in 1 .. n : z[i] = f.seq
  BY <1>2
<1>4. d[i] = Deliver(CHOOSE g \in F : g.seq = z[i]) /\ DOMAIN d = 1 .. n
  BY <1>3 DEF Deliveries
<1>5. (CHOOSE g \in F : g.seq = z[i]) = f
  <2>1. \E g \in F : g.seq = z[i]
    BY <1>3
  <2>2. (CHOOSE g \in F : g.seq = z[i]).seq = z[i] /\ (CHOOSE g \in F : g.seq = z[i]) \in F
    BY <2>1
  <2> QED BY <1>3, <2>2
<1>6. d[i] = Deliver(f) /\ i \in DOMAIN d
  BY <1>3, <1>4, <1>5
<1> QED BY <1>6 DEF ToSet

LEMMA ConsecutiveFacts ==
  ASSUME NEW T, NEW r, r.parked \subseteq Frames(T), IsFiniteSet(r.parked), NEW n \in Nat,
         \A f \in r.parked : f.seq > n,
         \A f, g \in r.parked : f.seq = g.seq => f = g
  PROVE  LET freed == Consecutive(r, n)
             k == Cardinality(freed)
         IN  /\ freed \subseteq r.parked /\ IsFiniteSet(freed) /\ k \in Nat
             /\ \A f \in freed : f.seq <= n + k
             /\ \A m \in n + 1 .. n + k : \E f \in freed : f.seq = m
             /\ \A f \in r.parked \ freed : f.seq > n + 1 + k
<1> DEFINE P == r.parked
           freed == Consecutive(r, n)
           k == Cardinality(freed)
           N == {f.seq : f \in freed}
<1>1. freed \in SUBSET P
  BY DEF Consecutive
<1>2. IsFiniteSet(freed) /\ k \in Nat /\ freed \subseteq Frames(T)
  BY <1>1, FS_Subset, FS_CardinalityType
<1>3. N \subseteq Nat /\ IsFiniteSet(N) /\ Cardinality(N) = k
  BY <1>1, <1>2, FrameNumbers
<1>4. \A f \in P : f.seq \in Nat
  BY DeliverType
<1>5. \A f \in P : f \in freed <=> \A m \in n + 1 .. f.seq : \E g \in P : g.seq = m
  BY DEF Consecutive
<1> HIDE DEF freed, k
\* What is below a number of the freed is one of theirs.
<1>6. ASSUME NEW f \in freed, NEW m \in n + 1 .. f.seq
      PROVE  \E g \in freed : g.seq = m
  <2>1. PICK g \in P : g.seq = m
    BY <1>1, <1>5, <1>6
  <2>2. \A x \in n + 1 .. g.seq : x \in n + 1 .. f.seq
    BY <1>1, <1>4, <1>6, <2>1
  <2>3. g \in freed
    BY <1>1, <1>5, <1>6, <2>2
  <2> QED BY <2>1, <2>3
\* They are the numbers from n + 1 to n + k.
<1>7. N = n + 1 .. n + k
  <2>1. CASE freed = {}
    <3>1. N = {} /\ k = 0
      BY <1>2, <2>1, FS_EmptySet DEF k
    <3> QED BY <3>1
  <2>2. CASE freed # {}
    <3>1. PICK m \in N : \A x \in N : x <= m
      BY <1>3, <2>2, GreatestNumber
    <3>2. PICK f \in freed : f.seq = m
      BY <3>1
    <3>3. m \in Nat /\ m > n
      BY <1>1, <1>3, <3>1, <3>2
    <3>4. \A x \in n + 1 .. m : x \in N
      BY <1>6, <3>2
    <3>5. \A x \in N : x \in n + 1 .. m
      BY <1>1, <1>3, <3>1, <3>3
    <3>6. N = n + 1 .. m
      BY <3>4, <3>5
    <3>7. Cardinality(n + 1 .. m) = m - n
      <4>1. n + 1 \in Int /\ m \in Int /\ ~(n + 1 > m)
        BY <3>3
      <4>2. Cardinality(n + 1 .. m) = m - (n + 1) + 1
        BY <4>1, FS_Interval
      <4> QED BY <3>3, <4>2
    <3>8. k = m - n
      BY <1>3, <3>6, <3>7
    <3>9. m = n + k
      BY <3>3, <3>8
    <3> QED BY <3>6, <3>9
  <2> QED BY <2>1, <2>2
<1>8. \A f \in freed : f.seq <= n + k
  <2> TAKE f \in freed
  <2>1. f.seq \in n + 1 .. n + k
    BY <1>7
  <2> QED BY <1>2, <2>1
<1>9. \A m \in n + 1 .. n + k : \E f \in freed : f.seq = m
  <2> TAKE m \in n + 1 .. n + k
  <2>1. m \in N
    BY <1>7
  <2> QED BY <2>1
<1>10. ASSUME NEW f \in P \ freed PROVE f.seq > n + 1 + k
  <2>1. f.seq \in Nat /\ f.seq > n
    BY <1>4
  <2>2. ASSUME f.seq <= n + k PROVE FALSE
    <3>1. f.seq \in n + 1 .. n + k
      BY <1>2, <2>1, <2>2
    <3>2. PICK g \in freed : g.seq = f.seq
      BY <1>9, <3>1
    <3>3. g = f
      BY <1>1, <1>10, <3>2
    <3> QED BY <1>10, <3>2, <3>3
  <2>3. ASSUME f.seq = n + 1 + k PROVE FALSE
    <3>1. \A m \in n + 1 .. f.seq : m \in n + 1 .. n + k \/ m = f.seq
      BY <1>2, <2>3
    <3>2. \A m \in n + 1 .. f.seq : \E g \in P : g.seq = m
      BY <1>1, <1>9, <1>10, <3>1
    <3> QED BY <1>5, <1>10, <3>2
  <2> QED BY <1>2, <2>1, <2>2, <2>3
<1> QED BY <1>1, <1>2, <1>8, <1>9, <1>10 DEF freed, k

\* Two sent frames of one number are one frame.
LEMMA SentOnce ==
  ASSUME NEW T, NEW f \in Frames(T), NEW g \in Frames(T), NEW w, NEW s, Numbers(w, s),
         SentFrame(f, w), SentFrame(g, w), FrameStream(f) = FrameStream(g), f.seq = g.seq
  PROVE  f = g
<1>1. f.ev = g.ev
  BY DEF SentFrame, IsFrame, Numbers, Numbered, FrameStream, StreamOf
<1>2. f.pod = g.pod /\ f.gen = g.gen /\ f.ref = g.ref
  <2>1. f.pod = g.pod /\ f.gen = g.gen
    BY DEF FrameStream
  <2> QED BY <1>1, <2>1 DEF SentFrame, IsFrame
<1> QED BY <1>1, <1>2 DEF Frames

\* A frame at, or after, the number of e in its stream.
FrameAfter(f, e, w) == FrameStream(f) = StreamOf(e, w) /\ f.seq >= w[e].tseq

TellsOf(task, e) == task.do = "reset" \/ task.ev = e

LEMMA RecvFields ==
  ASSUME NEW T, NEW r, IsRecv(r, T), NEW m, NEW P
  PROVE  /\ r.parked \subseteq Frames(T) /\ IsFiniteSet(r.parked)
         /\ [r EXCEPT !.parked = P].parked = P
         /\ [r EXCEPT !.parked = P].stream = r.stream
         /\ [r EXCEPT !.parked = P].expected = r.expected
         /\ [r EXCEPT !.expected = m, !.parked = P].parked = P
         /\ [r EXCEPT !.expected = m, !.parked = P].stream = r.stream
         /\ [r EXCEPT !.expected = m, !.parked = P].expected = m
         /\ [r EXCEPT !.parked = P, !.expected = m] = [r EXCEPT !.expected = m, !.parked = P]
<1>1. PICK A : r \in [stream : A, expected : A, parked : SUBSET Frames(T)]
  BY DEF IsRecv
<1>2. r.parked \subseteq Frames(T) /\ IsFiniteSet(r.parked)
  BY <1>1 DEF IsRecv
<1> DEFINE B == SUBSET Frames(T)
<1> HIDE DEF B
<1>3. r \in [stream : A, expected : A, parked : B]
  BY <1>1 DEF B
<1> QED BY <1>2, <1>3

\* What is parked ends in a reset, and after the last number of it.
LEMMA FlushedFacts ==
  ASSUME NEW T, NEW r, IsRecv(r, T), NEW o, NEW w, Orderly(r, o, w), r.parked # {}
  PROVE  /\ Orderly(Flushed(r), o, w) /\ Flushed(r).stream = r.stream /\ Flushed(r).parked = {}
         /\ Reset \in ToSet(FlushTasks(r))
<1> DEFINE I == {f.seq : f \in r.parked}
           m == CHOOSE n \in I : \A f \in r.parked : f.seq <= n
           x == 1 + m
<1>1. r.parked \subseteq Frames(T) /\ IsFiniteSet(r.parked)
  BY RecvFields
<1>2. I \subseteq Nat /\ IsFiniteSet(I) /\ I # {}
  BY <1>1, FrameNumbers
<1>3. m \in I /\ m \in Nat
  <2>1. PICK n \in I : \A y \in I : y <= n
    BY <1>2, GreatestNumber
  <2>2. \A f \in r.parked : f.seq <= n
    BY <2>1
  <2>3. m \in I
    BY <2>2
  <2> QED BY <1>2, <2>3
<1>4. Flushed(r) = [r EXCEPT !.parked = {}, !.expected = x]
  BY DEF Flushed
<1> HIDE DEF m
<1>5. PICK f \in r.parked : f.seq = m
  BY <1>3
<1>6. SentFrame(f, w) /\ FrameStream(f) = r.stream
  BY DEF Orderly
<1>7. /\ f.ev \in Events /\ w[f.ev].st = "sent" /\ StreamOf(f.ev, w) = r.stream
      /\ w[f.ev].tseq + 1 = x
  <2>1. StreamOf(f.ev, w) = FrameStream(f)
    BY <1>6 DEF SentFrame, IsFrame, StreamOf, FrameStream
  <2>2. w[f.ev].tseq + 1 = x
    BY <1>3, <1>5, <1>6 DEF SentFrame, IsFrame
  <2> QED BY <1>6, <2>1, <2>2 DEF SentFrame, IsFrame
<1>8. x \in Nat /\ x >= 1
  BY <1>3
<1> HIDE DEF x
<1>9. Flushed(r).parked = {} /\ Flushed(r).stream = r.stream /\ Flushed(r).expected = x
  <2> DEFINE u == [r EXCEPT !.expected = x, !.parked = {}]
  <2>a. PICK A : r \in [stream : A, expected : A, parked : SUBSET Frames(T)]
    BY DEF IsRecv
  <2> DEFINE B == SUBSET Frames(T)
  <2>b. r \in [stream : A, expected : A, parked : B]
    BY <2>a
  <2> HIDE DEF B
  <2>1. u.parked = {} /\ u.stream = r.stream /\ u.expected = x
        /\ [r EXCEPT !.parked = {}, !.expected = x] = u
    BY <2>b
  <2> HIDE DEF u
  <2> QED BY <1>4, <2>1
<1>10. Orderly(Flushed(r), o, w)
  BY <1>7, <1>8, <1>9 DEF Orderly
<1>11. Reset \in ToSet(FlushTasks(r))
  <2>1. FlushTasks(r) = <<Reset>> \o Deliveries(r.parked)
    BY DEF FlushTasks
  <2>2. Deliveries(r.parked) \in Seq(Tasks(T)) /\ Reset \in Tasks(T)
    BY <1>1, DeliveriesType DEF Tasks
  <2> DEFINE S == Tasks(T)
             z == Reset
             d == Deliveries(r.parked)
  <2>3. d \in Seq(S) /\ z \in S
    BY <2>2
  <2> HIDE DEF S, z, d
  <2>4. <<z>> \in Seq(S) /\ <<z>>[1] = z /\ 1 \in 1 .. Len(<<z>>)
    BY <2>3
  <2>5. ToSet(<<z>> \o d) = ToSet(<<z>>) \cup ToSet(d)
    BY ZenonT(40), <2>3, <2>4, EntriesJoin
  <2>6. z \in ToSet(<<z>>)
    <3> DEFINE v == <<z>>
    <3>1. v \in Seq(S) /\ v[1] = z /\ 1 \in 1 .. Len(v)
      BY <2>4
    <3> HIDE DEF v
    <3>2. v[1] \in ToSet(v)
      BY <3>1, EntriesOf
    <3> QED BY <3>1, <3>2 DEF v
  <2> QED BY <2>1, <2>5, <2>6 DEF z, d
<1> QED BY <1>9, <1>10, <1>11

\* A number at or after the expected one is delivered, or covered by a reset,
\* or still to come with the frames that are at it or after it.
LEMMA ReceptionFacts ==
  ASSUME NEW T, NEW r, IsRecv(r, T), NEW frame \in Frames(T), NEW o,
         NEW w \in [Events -> NewsItems], NEW s, Numbers(w, s), Orderly(r, o, w),
         SentFrame(frame, w), FrameStream(frame) = r.stream, frame.pod = o
  PROVE  LET x == Reception(r, frame)
         IN  /\ Orderly(x.r, o, w) /\ x.r.stream = r.stream
             /\ \A e \in Events :
                  Numbered(e, w) /\ StreamOf(e, w) = r.stream /\ r.expected <= w[e].tseq =>
                    \/ \E t \in ToSet(x.tasks) : TellsOf(t, e)
                    \/ /\ x.r.expected <= w[e].tseq
                       /\ \A f \in r.parked \cup {frame} : FrameAfter(f, e, w) => f \in x.r.parked
<1> DEFINE n == frame.seq
           freed == Consecutive(r, n)
           k == Cardinality(freed)
           more == r.parked \cup {frame}
           less == r.parked \ freed
           parked == [r EXCEPT !.parked = more]
           m == n + 1 + k
           opened == [r EXCEPT !.expected = m, !.parked = less]
           x == Reception(r, frame)
<1>1. r.parked \subseteq Frames(T) /\ IsFiniteSet(r.parked)
  BY RecvFields
<1>2. n \in Nat /\ r.expected \in Nat
  BY DeliverType DEF Orderly
<1>3. \A e \in Events : w[e].tseq \in Nat
  BY DEF NewsItems
<1>4. \A f, g \in more : f.seq = g.seq => f = g
  <2>1. \A f \in more : f \in Frames(T) /\ SentFrame(f, w) /\ FrameStream(f) = r.stream
    BY <1>1 DEF Orderly
  <2> HIDE DEF more
  <2> QED BY <2>1, SentOnce
<1>5. ASSUME n < r.expected PROVE x.r = r /\ x.tasks = <<>>
  <2>1. x = [r |-> r, tasks |-> <<>>]
    BY <1>2, <1>5 DEF Reception
  <2> HIDE DEF x
  <2> QED BY <2>1
<1>6. ASSUME n = r.expected PROVE x.r = opened /\ x.tasks = Deliveries({frame} \cup freed)
  <2>1. ~(n < r.expected)
    BY <1>2, <1>6
  <2>2. x = [r |-> opened, tasks |-> Deliveries({frame} \cup freed)]
    BY <1>6, <2>1 DEF Reception
  <2> QED BY <2>2
<1>7. ASSUME n > r.expected PROVE \/ x.r = parked /\ x.tasks = <<>>
                                  \/ x.r = Flushed(parked) /\ x.tasks = FlushTasks(parked)
  <2>1. ~(n < r.expected) /\ n # r.expected
    BY <1>2, <1>7
  <2> QED BY <1>7, <2>1 DEF Reception
<1> HIDE DEF x
<1> SUFFICES
      /\ Orderly(x.r, o, w) /\ x.r.stream = r.stream
      /\ \A e \in Events :
           Numbered(e, w) /\ StreamOf(e, w) = r.stream /\ r.expected <= w[e].tseq =>
             \/ \E t \in ToSet(x.tasks) : TellsOf(t, e)
             \/ /\ x.r.expected <= w[e].tseq
                /\ \A f \in more : FrameAfter(f, e, w) => f \in x.r.parked
  BY DEF x
\* An old number.
<1>8. CASE n < r.expected
  <2>1. \A e \in Events : r.expected <= w[e].tseq => ~FrameAfter(frame, e, w)
    BY <1>2, <1>3, <1>8 DEF FrameAfter
  <2> QED BY <1>5, <1>8, <2>1
\* The expected one, with those it frees.
<1>9. CASE n = r.expected
  <2>1. /\ freed \subseteq r.parked /\ IsFiniteSet(freed) /\ k \in Nat
        /\ \A f \in freed : f.seq <= n + k
        /\ \A y \in n + 1 .. n + k : \E f \in freed : f.seq = y
        /\ \A f \in less : f.seq > n + 1 + k
    <3>1. \A f \in r.parked : f.seq > n
      BY <1>9 DEF Orderly
    <3>2. \A f, g \in r.parked : f.seq = g.seq => f = g
      BY <1>4
    <3> QED BY <1>1, <1>2, <3>1, <3>2, ConsecutiveFacts
  <2> HIDE DEF freed, k
  <2>2. m \in Nat /\ m >= 1 /\ m > n
    BY <1>2, <2>1
  <2>3. \A f \in less : f \in r.parked /\ f.seq > m
    BY <2>1
  <2>4. \E f \in more : f.seq + 1 = m /\ f.seq \in Nat
    <3>1. CASE k = 0
      BY <1>2, <3>1
    <3>2. CASE k # 0
      <4>1. n + k \in n + 1 .. n + k /\ n + k \in Nat
        BY <1>2, <2>1, <3>2
      <4>2. PICK f \in freed : f.seq = n + k
        BY <2>1, <4>1
      <4>3. f.seq + 1 = m
        BY <1>2, <2>1, <4>2
      <4> QED BY <2>1, <4>1, <4>2, <4>3
    <3> QED BY <3>1, <3>2
  <2>5. x.r.stream = r.stream /\ x.r.expected = m /\ x.r.parked = less
    <3>1. x.r = opened
      BY <1>6, <1>9
    <3> HIDE DEF m, less
    <3>a. PICK A : r \in [stream : A, expected : A, parked : SUBSET Frames(T)]
      BY DEF IsRecv
    <3> DEFINE B == SUBSET Frames(T)
    <3>b. r \in [stream : A, expected : A, parked : B]
      BY <3>a
    <3> HIDE DEF B
    <3>2. opened.stream = r.stream /\ opened.expected = m /\ opened.parked = less
      BY <3>b
    <3> QED BY <3>1, <3>2
  <2>6. Orderly(x.r, o, w)
    <3>1. PICK f \in more : f.seq + 1 = m
      BY <2>4
    <3>2. SentFrame(f, w) /\ FrameStream(f) = r.stream
      BY DEF Orderly
    <3>3. w[f.ev].st = "sent" /\ f.ev \in Events /\ StreamOf(f.ev, w) = r.stream
          /\ w[f.ev].tseq + 1 = m
      BY <3>1, <3>2 DEF SentFrame, IsFrame, StreamOf, FrameStream
    <3> HIDE DEF m, less
    <3> QED BY <2>2, <2>3, <2>5, <3>3 DEF Orderly
  <2>7. ASSUME NEW e \in Events, Numbered(e, w), StreamOf(e, w) = r.stream, r.expected <= w[e].tseq
        PROVE  \/ \E t \in ToSet(x.tasks) : TellsOf(t, e)
               \/ /\ x.r.expected <= w[e].tseq
                  /\ \A f \in more : FrameAfter(f, e, w) => f \in x.r.parked
    <3>1. CASE m <= w[e].tseq
      <4>1. ASSUME NEW f \in more, FrameAfter(f, e, w) PROVE f \in less
        <5>1. f.seq >= w[e].tseq /\ f.seq \in Nat
          <6>1. f \in Frames(T)
            BY <1>1
          <6> QED BY <4>1, <6>1, DeliverType DEF FrameAfter
        <5>2. f # frame
          BY <1>2, <1>3, <2>2, <3>1, <5>1
        <5>3. f \notin freed
          <6>1. f.seq >= n + 1 + k
            BY <1>2, <1>3, <2>1, <3>1, <5>1
          <6> QED BY <1>2, <2>1, <5>1, <6>1
        <5> QED BY <5>2, <5>3
      <4> QED BY <2>5, <3>1, <4>1
    <3>2. CASE ~(m <= w[e].tseq)
      <4>1. PICK f \in {frame} \cup freed : f.seq = w[e].tseq
        <5>1. CASE w[e].tseq = n
          BY <5>1
        <5>2. CASE w[e].tseq # n
          <6>1. w[e].tseq \in n + 1 .. n + k
            BY <1>2, <1>3, <1>9, <2>1, <2>7, <3>2, <5>2
          <6> QED BY <2>1, <6>1
        <5> QED BY <5>1, <5>2
      <4>2. SentFrame(f, w) /\ FrameStream(f) = r.stream
        BY <2>1 DEF Orderly
      <4>3. f.ev = e
        BY ZenonT(40), <2>7, <4>1, <4>2 DEF SentFrame, IsFrame, FrameStream, StreamOf, Numbers, Numbered
      <4>4. {frame} \cup freed \subseteq Frames(T) /\ IsFiniteSet({frame} \cup freed)
        <5>1. IsFiniteSet(freed \cup {frame})
          BY <2>1, FS_AddElement
        <5>2. freed \cup {frame} = {frame} \cup freed
          OBVIOUS
        <5> QED BY <1>1, <2>1, <5>1, <5>2
      <4>5. \A g \in {frame} \cup freed : g.seq = f.seq => g = f
        BY <1>4, <2>1
      <4>6. Deliver(f) \in ToSet(Deliveries({frame} \cup freed))
        BY <4>4, <4>5, DeliveriesTell
      <4>7. TellsOf(Deliver(f), e)
        BY <4>3 DEF TellsOf, Deliver
      <4> QED BY <1>6, <1>9, <4>6, <4>7
    <3> QED BY <3>1, <3>2
  <2> QED BY <2>5, <2>6, <2>7
\* A later one, parked or one too many.
<1>10. CASE n > r.expected
  <2>1. parked.parked = more /\ parked.stream = r.stream /\ parked.expected = r.expected
    <3> HIDE DEF more
    <3>a. PICK A : r \in [stream : A, expected : A, parked : SUBSET Frames(T)]
      BY DEF IsRecv
    <3> DEFINE B == SUBSET Frames(T)
    <3>b. r \in [stream : A, expected : A, parked : B]
      BY <3>a
    <3> HIDE DEF B
    <3> QED BY <3>b
  <2>2. IsRecv(parked, T)
    <3>1. PICK A : r \in [stream : A, expected : A, parked : SUBSET Frames(T)]
      BY DEF IsRecv
    <3>2. more \in SUBSET Frames(T) /\ IsFiniteSet(more)
      BY <1>1, FS_AddElement
    <3>3. parked \in [stream : A, expected : A, parked : SUBSET Frames(T)]
      <4> HIDE DEF more
      <4> DEFINE B == SUBSET Frames(T)
      <4>1. r \in [stream : A, expected : A, parked : B] /\ more \in B
        BY <3>1, <3>2
      <4> HIDE DEF B
      <4>2. parked \in [stream : A, expected : A, parked : B]
        BY <4>1
      <4> QED BY <4>2 DEF B
    <3> QED BY <2>1, <3>2, <3>3 DEF IsRecv
  <2>3. Orderly(parked, o, w)
    <3>1. \A f \in more : /\ SentFrame(f, w) /\ FrameStream(f) = r.stream
                          /\ f.pod = o /\ f.seq > r.expected
      BY <1>10 DEF Orderly
    <3> HIDE DEF parked, more
    <3> QED BY <2>1, <3>1 DEF Orderly
  <2>4. more # {}
    OBVIOUS
  <2> HIDE DEF parked, more
  <2>5. CASE x.r = parked
    BY <2>1, <2>3, <2>5
  <2>6. CASE x.r = Flushed(parked) /\ x.tasks = FlushTasks(parked)
    <3>1. Orderly(x.r, o, w) /\ x.r.stream = r.stream /\ Reset \in ToSet(x.tasks)
      BY <2>1, <2>2, <2>3, <2>4, <2>6, FlushedFacts
    <3>2. \A e : TellsOf(Reset, e)
      BY DEF TellsOf, Reset
    <3> QED BY <3>1, <3>2
  <2> QED BY <1>7, <1>10, <2>5, <2>6
<1> QED BY <1>2, <1>8, <1>9, <1>10

-----------------------------------------------------------------------------
(* Every session moves on in every step.                                   *)

Moved(s, t) == Grows(s, t) /\ Reaches(s, t)

LEMMA MovedOps ==
  ASSUME NEW s, Kept(s)
  PROVE  /\ Moved(s, s) /\ Moved(s, Touch(s)) /\ Moved(s, Invalidate(s))
         /\ Moved(s, Untracked(s.gen))
         /\ \A n : Moved(s, [s EXCEPT !.pins = n]) /\ Moved(s, [Touch(s) EXCEPT !.pins = n])
         /\ \A e : /\ Moved(s, Announce(s, e))
                   /\ Moved(s, [Announce(s, e) EXCEPT !.tseq = Announce(s, e).tseq + 1])
<1>1. Moved(s, s)
  BY GrowsSame, ReachesSame DEF Moved
<1>2. Kept(Touch(s)) /\ Moved(s, Touch(s))
  BY TouchKept, TouchGrows, TouchReaches DEF Moved
<1>3. Moved(s, Invalidate(s))
  BY InvalidateGrows, InvalidateReaches DEF Moved
<1>4. Moved(s, Untracked(s.gen))
  <2>1. Untracked(s.gen).gen = s.gen /\ ~Untracked(s.gen).tracked
    BY DEF Untracked
  <2> QED BY <2>1, EvictedGrows, EvictedReaches DEF Moved
<1>5. ASSUME NEW n
      PROVE  Moved(s, [s EXCEPT !.pins = n]) /\ Moved(s, [Touch(s) EXCEPT !.pins = n])
  <2>1. \A t : Kept(t) => Grows(t, [t EXCEPT !.pins = n]) /\ Reaches(t, [t EXCEPT !.pins = n])
    BY PinsGrow, PinsReach
  <2> DEFINE t == Touch(s)
             u == [t EXCEPT !.pins = n]
  <2>2. Kept(t) /\ Grows(s, t) /\ Reaches(s, t) /\ Grows(t, u) /\ Reaches(t, u)
    BY <1>2, <2>1 DEF Moved
  <2> HIDE DEF t, u
  <2>3. Moved(s, u)
    BY <2>2, GrowsOn, ReachesOn DEF Moved
  <2> QED BY <2>1, <2>3 DEF Moved, t, u
<1>6. ASSUME NEW e
      PROVE  /\ Moved(s, Announce(s, e))
             /\ Moved(s, [Announce(s, e) EXCEPT !.tseq = Announce(s, e).tseq + 1])
  <2> DEFINE u == Announce(s, e)
             t == [u EXCEPT !.tseq = u.tseq + 1]
  <2>1. Kept(u) /\ Announces(s, u, e) /\ Reaches(s, u)
    BY AnnounceKept, AnnounceAnnounces, AnnounceReaches
  <2>2. Reaches(s, t)
    BY <2>1, CountedReaches
  <2> HIDE DEF u
  <2>3. Announces(s, t, e)
    BY <2>1, CountedAnnounces
  <2> HIDE DEF t
  <2>4. Moved(s, u) /\ Moved(s, t)
    BY <2>1, <2>2, <2>3 DEF Moved, Announces
  <2> QED BY <2>4 DEF u, t
<1> QED BY <1>1, <1>2, <1>3, <1>4, <1>5, <1>6

LEMMA OneMoves ==
  ASSUME Sessions(sess), NEW p \in Pods, NEW t, Moved(sess[p], t),
         sess' = [sess EXCEPT ![p] = t]
  PROVE  \A q \in Pods : Moved(sess[q], sess'[q])
<1>1. \A q \in Pods : Moved(sess[q], sess[q])
  BY MovedOps DEF Sessions
<1>2. sess'[p] = t /\ \A q \in Pods : q # p => sess'[q] = sess[q]
  BY DEF Sessions
<1> QED BY <1>1, <1>2

LEMMA SessionsMove ==
  ASSUME IInv, [Next]_vars
  PROVE  \A q \in Pods : Moved(sess[q], sess'[q])
<1>1. Sessions(sess) /\ \A p \in Pods : Kept(sess[p])
  BY Here DEF Sessions
<1>2. ASSUME sess' = sess PROVE \A q \in Pods : Moved(sess[q], sess'[q])
  BY <1>1, <1>2, MovedOps
<1>3. ASSUME NEW p \in Pods, NEW e,
             \/ sess' = [sess EXCEPT ![p] = Announce(sess[p], e)]
             \/ sess' = [sess EXCEPT ![p] =
                  [Announce(sess[p], e) EXCEPT !.tseq = Announce(sess[p], e).tseq + 1]]
      PROVE  \A q \in Pods : Moved(sess[q], sess'[q])
  BY ZenonT(40), <1>1, <1>3, MovedOps, OneMoves
<1>4. ASSUME NEW p \in Pods, NEW n,
             \/ sess' = [sess EXCEPT ![p] = [sess[p] EXCEPT !.pins = n]]
             \/ sess' = [sess EXCEPT ![p] = [Touch(sess[p]) EXCEPT !.pins = n]]
      PROVE  \A q \in Pods : Moved(sess[q], sess'[q])
  BY <1>1, <1>4, MovedOps, OneMoves
<1>5. ASSUME NEW p \in Pods,
             \/ sess' = [sess EXCEPT ![p] = Touch(sess[p])]
             \/ sess' = [sess EXCEPT ![p] = Invalidate(sess[p])]
             \/ sess' = [sess EXCEPT ![p] = Untracked(sess[p].gen)]
      PROVE  \A q \in Pods : Moved(sess[q], sess'[q])
  BY <1>1, <1>5, MovedOps, OneMoves
<1>6. CASE BusStep
  <2>1. ASSUME NEW p \in Pods, NEW e \in Events, Emit(p, e)
        PROVE  \A q \in Pods : Moved(sess[q], sess'[q])
    BY <1>3, <2>1 DEF Emit
  <2>2. ASSUME NEW p \in Pods, NEW o \in Pods, DeliverNext(p, o)
        PROVE  \A q \in Pods : Moved(sess[q], sess'[q])
    BY <1>3, <2>2 DEF DeliverNext
  <2>3. ASSUME NEW p \in Pods,
               Reconnect(p) \/ Evict(p) \/ (\E e \in Events : EmitFails(p, e))
                 \/ (\E o \in Pods : ResetNext(p, o))
        PROVE  \A q \in Pods : Moved(sess[q], sess'[q])
    <3>1. CASE Reconnect(p)
      <4>1. CASE sess[p].tracked
        BY <1>5, <3>1, <4>1 DEF Reconnect
      <4>2. CASE ~sess[p].tracked
        <5>1. sess' = sess
          BY <1>1, <3>1, <4>2 DEF Reconnect, Sessions
        <5> QED BY <1>2, <5>1
      <4> QED BY <4>1, <4>2
    <3>2. CASE ~Reconnect(p)
      BY <1>5, <2>3, <3>2 DEF Evict, EmitFails, ResetNext
    <3> QED BY <3>1, <3>2
  <2>4. \/ \E p \in Pods, e \in Events : Emit(p, e)
        \/ \E p, o \in Pods : DeliverNext(p, o)
        \/ \E p \in Pods : \/ Reconnect(p) \/ Evict(p) \/ \E e \in Events : EmitFails(p, e)
                           \/ \E o \in Pods : ResetNext(p, o)
        \/ sess' = sess
    BY ZenonT(40), <1>6 DEF BusStep, SaveSettles, Publish, Receive, Disconnect, FlushTimer, SkipNext,
       EvictReceive
  <2> QED BY <1>2, <2>1, <2>2, <2>3, <2>4
<1>7. CASE ClientStep
  <2>1. ASSUME NEW p \in Pods, Track(p) PROVE \A q \in Pods : Moved(sess[q], sess'[q])
    BY <1>5, <2>1 DEF Track
  <2>2. ASSUME conn.pod \in Pods, Pin(conn.pod) \/ Unpin(conn.pod)
        PROVE  \A q \in Pods : Moved(sess[q], sess'[q])
    <3>1. CASE Pin(conn.pod)
      BY <1>4, <2>2, <3>1 DEF Pin
    <3>2. CASE Unpin(conn.pod)
      <4>1. sess' = [sess EXCEPT ![conn.pod] = [sess[conn.pod] EXCEPT !.pins = sess[conn.pod].pins - 1]]
        BY <3>2 DEF Unpin
      <4> QED BY <1>4, <2>2, <4>1
    <3> QED BY <2>2, <3>1, <3>2
  <2>3. conn.phase # "none" => conn.pod \in Pods
    BY Here
  <2>4. \/ \E p \in Pods : Track(p)
        \/ conn.phase # "none" /\ (Pin(conn.pod) \/ Unpin(conn.pod))
        \/ sess' = sess
    BY <1>7 DEF ClientStep, ReadView, Connect, ApplyView, Activate, WriteConnected,
       WriteReplay, WriteBuffered, WriteLive, Heartbeat, EndStream, Recover, Leave
  <2> QED BY <1>2, <2>1, <2>2, <2>3, <2>4
<1>8. CASE UNCHANGED vars
  BY <1>2, <1>8 DEF vars, busVars
<1> QED BY <1>6, <1>7, <1>8 DEF Next

-----------------------------------------------------------------------------
(* What became of the events, from v to w.                                 *)

Onward(v, w) ==
  \A e \in Events :
    /\ Numbered(e, v) => /\ Numbered(e, w) /\ w[e].pod = v[e].pod
                         /\ w[e].gen = v[e].gen /\ w[e].tseq = v[e].tseq
    /\ v[e].st \in {"sent", "lost", "unpublished"} => w[e] = v[e]

LEMMA SentOnward ==
  ASSUME NEW v, NEW w, Onward(v, w), NEW f, SentFrame(f, v)
  PROVE  SentFrame(f, w)
BY DEF Onward, SentFrame, IsFrame

LEMMA OrderlyOnward ==
  ASSUME NEW v, NEW w, Onward(v, w), NEW r, NEW o, Orderly(r, o, v)
  PROVE  Orderly(r, o, w)
<1>1. \A f : SentFrame(f, v) => SentFrame(f, w)
  BY SentOnward
<1>2. \A e \in Events : v[e].st = "sent" => w[e] = v[e]
  BY DEF Onward
<1>3. \A e \in Events : v[e].st = "sent" => w[e].st = "sent" /\ StreamOf(e, w) = StreamOf(e, v)
                                            /\ w[e].tseq = v[e].tseq
  BY <1>2 DEF StreamOf
<1> QED BY <1>1, <1>3 DEF Orderly

\* Nothing is numbered anew, and nothing is sent.
Unsent(v, w) == \A e \in Events : w[e].st = "sent" => v[e].st = "sent"

LEMMA NumbersOnward ==
  ASSUME NEW v \in [Events -> NewsItems], NEW w, Onward(v, w), NEW s, NEW t, Numbers(v, s),
         \A e \in Events : Numbered(e, w) => Numbered(e, v),
         \A p \in Pods : Reaches(s[p], t[p])
  PROVE  Numbers(w, t)
<1>1. ASSUME NEW e \in Events, Numbered(e, w)
      PROVE  /\ Numbered(e, v) /\ w[e].pod = v[e].pod /\ w[e].gen = v[e].gen
             /\ w[e].tseq = v[e].tseq /\ w[e].gen \in Nat /\ w[e].tseq \in Nat
  BY <1>1 DEF Onward, NewsItems
<1>2. ASSUME NEW e \in Events, Numbered(e, w)
      PROVE  /\ w[e].pod \in Pods /\ w[e].tseq >= 1
             /\ Counted(w[e].gen, w[e].tseq, t[w[e].pod])
  <2>1. v[e].pod \in Pods /\ v[e].tseq >= 1 /\ Counted(v[e].gen, v[e].tseq, s[v[e].pod])
    BY <1>1, <1>2 DEF Numbers
  <2> QED BY <1>1, <1>2, <2>1 DEF Reaches
<1>3. ASSUME NEW e \in Events, NEW x \in Events, Numbered(e, w), Numbered(x, w),
             StreamOf(x, w) = StreamOf(e, w), w[x].tseq = w[e].tseq
      PROVE  x = e
  BY <1>1, <1>3 DEF Numbers, StreamOf
<1> QED BY <1>2, <1>3 DEF Numbers

LEMMA OutgoingOnward ==
  ASSUME NEW v, NEW w, Onward(v, w), Unsent(v, w), NEW q, NEW p, Outgoing(q, p, v)
  PROVE  Outgoing(q, p, w)
<1>1. ASSUME NEW f, Waits(f, v) PROVE Waits(f, w)
  <2>1. f.ev \in Events /\ Numbered(f.ev, v) /\ v[f.ev].st # "sent"
    BY <1>1 DEF Waits, IsFrame, Numbered
  <2>2. IsFrame(f, w) /\ Numbered(f.ev, w) /\ w[f.ev].st # "sent"
    BY <1>1, <2>1 DEF Onward, Unsent, Waits, IsFrame
  <2> QED BY <2>2 DEF Waits, Numbered
<1>2. ASSUME NEW stream, NEW n, SentBelow(stream, n, v) PROVE SentBelow(stream, n, w)
  <2>1. \A e \in Events : w[e].st = "sent" => v[e].st = "sent" /\ w[e] = v[e]
    BY DEF Onward, Unsent
  <2> QED BY <1>2, <2>1 DEF SentBelow, StreamOf
<1> QED BY <1>1, <1>2 DEF Outgoing

-----------------------------------------------------------------------------
(* An event is emitted, and takes the next number.                         *)

WithNumber(v, e, p, g, n, st) == [v EXCEPT ![e] = [st |-> st, pod |-> p, gen |-> g, tseq |-> n]]
Wire(p, g, n, e) == [pod |-> p, gen |-> g, seq |-> n, ev |-> e, ref |-> e \in Oversize]

EmittedAs(p, e, g, n, st) ==
  /\ news[e].st = "none"
  /\ news' = WithNumber(news, e, p, g, n, st)
  /\ \/ st = "lost" /\ outbox' = outbox
     \/ /\ st \in {"queued", "saving"}
        /\ outbox' = [outbox EXCEPT ![p] = Append(outbox[p], Wire(p, g, n, e))]
  /\ n >= 1 /\ Counted(g, n, sess'[p])
  /\ \A h, m \in Nat : Counted(h, m, sess[p]) /\ h = g => m < n
  /\ e \notin Trace => Brings(sess[p], sess'[p], e)

LEMMA EmitFacts ==
  ASSUME Sessions(sess), NEW p \in Pods, NEW e \in Events, Emit(p, e)
  PROVE  \E g, n \in Nat : \E st \in {"queued", "saving", "lost"} : EmittedAs(p, e, g, n, st)
<1> DEFINE u == Announce(sess[p], e)
           s == [u EXCEPT !.tseq = u.tseq + 1]
           b == e \in Oversize
           g == s.gen
           n == s.tseq
           frame == [pod |-> p, gen |-> g, seq |-> n, ev |-> e, ref |-> b]
           room == Len(outbox[p]) < OutboxMax
           st == CASE ~room -> "lost"
                   [] room /\ e \in Oversize \ Trace -> "saving"
                   [] OTHER -> "queued"
<1>1. Kept(sess[p]) /\ Kept(u)
  BY AnnounceKept DEF Sessions
<1>2. /\ e \notin Trace => Brings(sess[p], s, e)
      /\ g \in Nat /\ n \in Nat /\ n >= 1 /\ Counted(g, n, s)
      /\ \A h, m \in Nat : Counted(h, m, sess[p]) /\ h = g => m < n
  BY <1>1, CountedReaches
<1>3. /\ news[e].st = "none" /\ sess' = [sess EXCEPT ![p] = s]
      /\ outbox' = IF room THEN [outbox EXCEPT ![p] = Append(outbox[p], frame)] ELSE outbox
      /\ news' = [news EXCEPT ![e] = [st |-> st, pod |-> p, gen |-> g, tseq |-> n]]
  BY DEF Emit, CommitNext
<1>4. sess'[p] = s
  BY <1>3 DEF Sessions
<1>5. CASE ~room
  <2>1. st = "lost"
    BY <1>5
  <2>2. EmittedAs(p, e, g, n, "lost")
    <3> HIDE DEF room, st, g, n, s, u
    <3> QED BY <1>2, <1>3, <1>4, <1>5, <2>1 DEF EmittedAs, WithNumber
  <2> QED BY <1>2, <2>2
<1>6. CASE room
  <2>1. st \in {"queued", "saving"}
    BY <1>6
  <2>2. EmittedAs(p, e, g, n, st)
    <3> HIDE DEF room, st, g, n, s, u
    <3> QED BY <1>2, <1>3, <1>4, <1>6, <2>1 DEF EmittedAs, Wire, WithNumber
  <2> QED BY <1>2, <2>1, <2>2
<1> QED BY <1>5, <1>6

\* The order of an outbox and of what was sent, when e takes a number.
Enters(v, w, s, t, p, e, g, n, st) ==
  /\ v \in [Events -> NewsItems] /\ p \in Pods /\ e \in Events
  /\ g \in Nat /\ n \in Nat /\ n >= 1 /\ st \in {"queued", "saving", "lost"}
  /\ v[e].st = "none" /\ w = WithNumber(v, e, p, g, n, st)
  /\ Numbers(v, s) /\ \A q \in Pods : Reaches(s[q], t[q])
  /\ Counted(g, n, t[p]) /\ \A h, m \in Nat : Counted(h, m, s[p]) /\ h = g => m < n

Entered(v, w, t, p, e, g, n, st) ==
  /\ Onward(v, w) /\ Unsent(v, w) /\ Numbers(w, t)
  /\ SentBelow([pod |-> p, gen |-> g], n, w)
  /\ \A x \in Events : Numbered(x, v) /\ v[x].pod = p /\ v[x].gen = g => v[x].tseq < n
  /\ w[e].st = st /\ w[e].pod = p /\ w[e].gen = g /\ w[e].tseq = n
  /\ \A x \in Events : x # e => w[x] = v[x]

LEMMA EmitOrders ==
  ASSUME NEW v, NEW w, NEW s, NEW t, NEW p, NEW e, NEW g, NEW n, NEW st,
         Enters(v, w, s, t, p, e, g, n, st)
  PROVE  Entered(v, w, t, p, e, g, n, st)
<1>e. /\ v \in [Events -> NewsItems] /\ p \in Pods /\ e \in Events
      /\ g \in Nat /\ n \in Nat /\ n >= 1 /\ st \in {"queued", "saving", "lost"}
      /\ v[e].st = "none" /\ w = WithNumber(v, e, p, g, n, st)
      /\ Numbers(v, s) /\ \A q \in Pods : Reaches(s[q], t[q])
      /\ Counted(g, n, t[p]) /\ \A h, m \in Nat : Counted(h, m, s[p]) /\ h = g => m < n
  BY DEF Enters
<1>1. /\ w[e].st = st /\ w[e].pod = p /\ w[e].gen = g /\ w[e].tseq = n
      /\ \A x \in Events : x # e => w[x] = v[x]
  BY <1>e DEF WithNumber
<1>2. \A x \in Events : v[x].gen \in Nat /\ v[x].tseq \in Nat
  BY <1>e DEF NewsItems
<1>3. ~Numbered(e, v)
  BY <1>e DEF Numbered
<1>4. Onward(v, w) /\ Unsent(v, w)
  BY <1>e, <1>1, <1>3 DEF Onward, Unsent, Numbered
<1>5. \A x \in Events : Numbered(x, v) /\ v[x].pod = p /\ v[x].gen = g => v[x].tseq < n
  BY <1>e, <1>2 DEF Numbers
<1>6. SentBelow([pod |-> p, gen |-> g], n, w)
  <2>1. ASSUME NEW x \in Events, w[x].st = "sent", StreamOf(x, w) = [pod |-> p, gen |-> g]
        PROVE  w[x].tseq < n
    <3>1. x # e
      BY <1>e, <1>1, <2>1
    <3>2. w[x] = v[x] /\ Numbered(x, v)
      BY <1>e, <1>1, <2>1, <3>1 DEF Numbered
    <3>3. v[x].pod = p /\ v[x].gen = g
      BY <1>e, <2>1, <3>2 DEF StreamOf
    <3> QED BY <1>e, <1>5, <3>2, <3>3
  <2> QED BY <1>e, <2>1 DEF SentBelow
<1>7. Numbers(w, t)
  <2>1. ASSUME NEW x \in Events, Numbered(x, w)
        PROVE  w[x].pod \in Pods /\ w[x].tseq >= 1 /\ Counted(w[x].gen, w[x].tseq, t[w[x].pod])
    <3>1. CASE x = e
      BY <1>e, <1>1, <3>1
    <3>2. CASE x # e
      <4>1. w[x] = v[x] /\ Numbered(x, v)
        BY <1>e, <1>1, <2>1, <3>2 DEF Numbered
      <4> QED BY <1>e, <1>2, <4>1 DEF Numbers, Reaches
    <3> QED BY <1>e, <3>1, <3>2
  <2>2. ASSUME NEW x \in Events, Numbered(x, w), x # e, StreamOf(x, w) = StreamOf(e, w)
        PROVE  w[x].tseq # w[e].tseq
    <3>1. w[x] = v[x] /\ Numbered(x, v)
      BY <1>e, <1>1, <2>2 DEF Numbered
    <3>2. v[x].pod = p /\ v[x].gen = g
      BY <1>e, <1>1, <2>2, <3>1 DEF StreamOf
    <3>3. v[x].tseq < n /\ v[x].tseq \in Nat
      BY <1>e, <1>2, <1>5, <3>1, <3>2
    <3> QED BY <1>e, <1>1, <3>1, <3>3
  <2>3. ASSUME NEW x \in Events, NEW y \in Events, Numbered(x, w), Numbered(y, w),
               StreamOf(y, w) = StreamOf(x, w), w[y].tseq = w[x].tseq
        PROVE  y = x
    <3>1. CASE x = e \/ y = e
      BY <1>e, <2>2, <2>3, <3>1
    <3>2. CASE x # e /\ y # e
      <4>1. w[x] = v[x] /\ Numbered(x, v) /\ w[y] = v[y] /\ Numbered(y, v)
        BY <1>e, <1>1, <2>3, <3>2 DEF Numbered
      <4> QED BY <1>e, <2>3, <4>1 DEF Numbers, StreamOf
    <3> QED BY <1>e, <3>1, <3>2
  <2> QED BY <1>e, <2>1, <2>3 DEF Numbers
<1> QED BY <1>e, <1>1, <1>4, <1>5, <1>6, <1>7 DEF Entered

\* An event that waited is settled.
Fated(v, x, st) == [v EXCEPT ![x].st = st]

LEMMA FateFacts ==
  ASSUME NEW v \in [Events -> NewsItems], NEW x \in Events, v[x].st \in {"queued", "saving"},
         NEW st \in {"queued", "sent", "lost"}, NEW w, w = Fated(v, x, st)
  PROVE  /\ Onward(v, w) /\ \A e \in Events : Numbered(e, w) => Numbered(e, v)
         /\ w[x].st = st /\ Numbered(x, v)
         /\ w[x].pod = v[x].pod /\ w[x].gen = v[x].gen /\ w[x].tseq = v[x].tseq
         /\ \A e \in Events : e # x => w[e] = v[e]
         /\ st # "sent" => Unsent(v, w)
<1>1. /\ w[x].st = st
      /\ w[x].pod = v[x].pod /\ w[x].gen = v[x].gen /\ w[x].tseq = v[x].tseq
      /\ \A e \in Events : e # x => w[e] = v[e]
  BY DEF NewsItems, Fated
<1>2. Numbered(x, v) /\ Numbered(x, w)
  BY <1>1 DEF Numbered
<1> QED BY <1>1, <1>2 DEF Onward, Numbered, Unsent

LEMMA OutgoingTail ==
  ASSUME NEW T, NEW q \in Seq(Frames(T)), q # <<>>, NEW p, NEW v, Outgoing(q, p, v)
  PROVE  Outgoing(Tail(q), p, v)
<1> DEFINE r == Tail(q)
           F == Frames(T)
<1>1. q \in Seq(F)
  OBVIOUS
<1> HIDE DEF F
<1>2. Len(r) \in Nat /\ \A i \in 1 .. Len(r) : i + 1 \in 1 .. Len(q) /\ r[i] = q[i + 1]
  BY <1>1, EntriesTail
<1> HIDE DEF r
<1>3. \A i, j \in 1 .. Len(r) : i < j => i + 1 < j + 1
  BY <1>2
<1>4. Outgoing(r, p, v)
  BY <1>2, <1>3 DEF Outgoing
<1> QED BY <1>4 DEF r

\* The head of an outbox is sent.
SendsHead(v, w, q, p, x) ==
  /\ x \in Events /\ Onward(v, w)
  /\ \A e \in Events : Numbered(e, w) => Numbered(e, v)
  /\ SentFrame(Head(q), w) /\ Outgoing(Tail(q), p, w)
  /\ \A o, r : o # p /\ Outgoing(r, o, v) => Outgoing(r, o, w)
  /\ IsFrame(Head(q), v) /\ Head(q).pod = p
  /\ SentBelow(FrameStream(Head(q)), Head(q).seq, v)
  /\ \A e \in Events : e # x => w[e] = v[e]

LEMMA OutgoingSends ==
  ASSUME NEW T, NEW q \in Seq(Frames(T)), q # <<>>, NEW p, NEW v \in [Events -> NewsItems],
         Outgoing(q, p, v), NEW x, x = Head(q).ev, v[x].st = "queued",
         NEW w, w = Fated(v, x, "sent")
  PROVE  SendsHead(v, w, q, p, x)
<1> DEFINE h == Head(q)
           F == Frames(T)
           r == Tail(q)
<1>1. q \in Seq(F)
  OBVIOUS
<1> HIDE DEF F
<1>2. /\ h = q[1] /\ 1 \in 1 .. Len(q) /\ Len(r) \in Nat
      /\ \A i \in 1 .. Len(r) : i + 1 \in 1 .. Len(q) /\ 1 < i + 1 /\ r[i] = q[i + 1]
  <2>1. h = q[1] /\ Len(q) \in Nat /\ Len(q) >= 1 /\ Len(r) = Len(q) - 1
        /\ \A i \in 1 .. Len(r) : i + 1 \in 1 .. Len(q) /\ r[i] = q[i + 1]
    BY <1>1, EntriesTail
  <2> HIDE DEF h, r
  <2> QED BY <2>1
<1>3. Outgoing(r, p, v)
  BY OutgoingTail
<1> HIDE DEF h, r
<1>x. x = h.ev
  BY DEF h
<1>4. IsFrame(h, v) /\ x \in Events /\ h.pod = p /\ SentBelow(FrameStream(h), h.seq, v)
  BY <1>2, <1>x DEF Outgoing, Waits, IsFrame
<1>5. /\ Onward(v, w) /\ \A e \in Events : Numbered(e, w) => Numbered(e, v)
      /\ w[x].st = "sent" /\ w[x].pod = v[x].pod /\ w[x].gen = v[x].gen
      /\ w[x].tseq = v[x].tseq /\ \A e \in Events : e # x => w[e] = v[e]
  <2>1. w = Fated(v, x, "sent") /\ v[x].st = "queued"
    OBVIOUS
  <2>2. v[x].st \in {"queued", "saving"} /\ x \in Events
    BY <1>4, <2>1
  <2>3. "sent" \in {"queued", "sent", "lost"}
    OBVIOUS
  <2>4. /\ Onward(v, w)
        /\ \A e \in Events : Numbered(e, w) => Numbered(e, v)
        /\ w[x].st = "sent"
        /\ w[x].pod = v[x].pod /\ w[x].gen = v[x].gen
        /\ w[x].tseq = v[x].tseq
        /\ \A e \in Events : e # x => w[e] = v[e]
    BY <2>1, <2>2, <2>3, FateFacts
  <2> QED BY <2>4
<1>6. SentFrame(h, w)
  BY ZenonT(40), <1>4, <1>5, <1>x DEF SentFrame, IsFrame
\* What was ordered stays so, beyond the number that is sent.
<1>7. ASSUME NEW f, Waits(f, v), f.ev # x PROVE Waits(f, w)
  BY <1>5, <1>7 DEF Waits, IsFrame
<1>8. ASSUME NEW stream, NEW n, SentBelow(stream, n, v),
             stream = FrameStream(h) => h.seq < n
      PROVE  SentBelow(stream, n, w)
  <2>1. ASSUME NEW e \in Events, w[e].st = "sent", StreamOf(e, w) = stream
        PROVE  w[e].tseq < n
    <3>1. CASE e = x
      <4>1. stream = FrameStream(h) /\ w[e].tseq = h.seq
        BY ZenonT(40), <1>4, <1>5, <1>x, <2>1, <3>1 DEF StreamOf, FrameStream, IsFrame
      <4> QED BY <1>8, <4>1
    <3>2. CASE e # x
      BY <1>5, <1>8, <2>1, <3>2 DEF SentBelow, StreamOf
    <3> QED BY <3>1, <3>2
  <2> QED BY <2>1 DEF SentBelow
<1>9. Outgoing(r, p, w)
  <2>1. ASSUME NEW i \in 1 .. Len(r)
        PROVE  r[i].gen = h.gen => h.seq < r[i].seq
    BY <1>2 DEF Outgoing
  <2>2. ASSUME NEW i \in 1 .. Len(r)
        PROVE  Waits(r[i], w) /\ SentBelow(FrameStream(r[i]), r[i].seq, w)
    <3>1. Waits(r[i], v) /\ SentBelow(FrameStream(r[i]), r[i].seq, v)
      BY <1>3 DEF Outgoing
    <3>2. r[i].ev # x
      <4>1. CASE r[i].ev = x
        <5>1. r[i].gen = h.gen /\ r[i].seq = h.seq /\ h.seq \in Nat
          BY <1>4, <1>x, <3>1, <4>1 DEF Waits, IsFrame, NewsItems
        <5> QED BY <2>1, <5>1
      <4> QED BY <4>1
    <3>3. FrameStream(r[i]) = FrameStream(h) => h.seq < r[i].seq
      BY <2>1 DEF FrameStream
    <3> QED BY <1>7, <1>8, <3>1, <3>2, <3>3
  <2> QED BY <1>3, <2>2 DEF Outgoing
<1>10. ASSUME NEW o, NEW z, o # p, Outgoing(z, o, v) PROVE Outgoing(z, o, w)
  <2>1. ASSUME NEW i \in 1 .. Len(z)
        PROVE  Waits(z[i], w) /\ SentBelow(FrameStream(z[i]), z[i].seq, w)
    <3>1. z[i].pod = o /\ Waits(z[i], v) /\ SentBelow(FrameStream(z[i]), z[i].seq, v)
      BY <1>10 DEF Outgoing
    <3>2. z[i].ev # x
      BY <1>4, <1>10, <1>x, <3>1 DEF Waits, IsFrame
    <3>3. FrameStream(z[i]) # FrameStream(h)
      BY <1>4, <1>10, <3>1 DEF FrameStream
    <3> QED BY <1>7, <1>8, <3>1, <3>2, <3>3
  <2> QED BY <1>10, <2>1 DEF Outgoing
<1> QED BY <1>4, <1>5, <1>6, <1>9, <1>10 DEF h, r, SendsHead

\* A frame with the next number is appended.
LEMMA OutgoingAppends ==
  ASSUME NEW q \in Seq(Frames(Events)), NEW p \in Pods, NEW v, NEW w, Onward(v, w), Unsent(v, w),
         Outgoing(q, p, v), NEW e \in Events, NEW g \in Nat, NEW n \in Nat,
         SentBelow([pod |-> p, gen |-> g], n, w),
         \A x \in Events : Numbered(x, v) /\ v[x].pod = p /\ v[x].gen = g => v[x].tseq < n,
         w[e].st \in {"queued", "saving"}, w[e].pod = p, w[e].gen = g, w[e].tseq = n
  PROVE  Outgoing(Append(q, Wire(p, g, n, e)), p, w)
<1> DEFINE f == Wire(p, g, n, e)
           r == Append(q, f)
           F == Frames(Events)
<1>1. f \in Frames(Events)
  <2> DEFINE b == e \in Oversize
  <2>1. b \in BOOLEAN
    OBVIOUS
  <2> HIDE DEF b
  <2>2. [pod |-> p, gen |-> g, seq |-> n, ev |-> e, ref |-> b] \in Frames(Events)
    BY <2>1 DEF Frames
  <2> QED BY <2>2 DEF Wire, b
<1>2. /\ f.pod = p /\ FrameStream(f) = [pod |-> p, gen |-> g] /\ f.seq = n /\ f.gen = g
      /\ Waits(f, w)
  BY DEF Wire, FrameStream, Waits, IsFrame
<1>f. f \in F /\ q \in Seq(F)
  BY <1>1
<1> HIDE DEF f, F
<1>3. /\ Len(q) \in Nat /\ Len(r) = Len(q) + 1 /\ r[Len(q) + 1] = f
      /\ \A i \in 1 .. Len(q) : r[i] = q[i]
  BY <1>f, AppendFacts
<1> HIDE DEF r
<1>4. Outgoing(q, p, w)
  BY OutgoingOnward
<1>5. \A i \in 1 .. Len(r) : i \in 1 .. Len(q) \/ i = Len(q) + 1
  BY <1>3
<1>6. \A i \in 1 .. Len(q) : q[i].gen = g => q[i].seq < n
  <2> TAKE i \in 1 .. Len(q)
  <2>1. Waits(q[i], v) /\ q[i].pod = p
    BY DEF Outgoing
  <2>2. Numbered(q[i].ev, v) /\ q[i].ev \in Events /\ v[q[i].ev].pod = p
        /\ v[q[i].ev].gen = q[i].gen /\ v[q[i].ev].tseq = q[i].seq
    BY <2>1 DEF Waits, IsFrame, Numbered
  <2> QED BY <2>2
<1>7. ASSUME NEW i \in 1 .. Len(r)
      PROVE  /\ r[i].pod = p /\ Waits(r[i], w) /\ SentBelow(FrameStream(r[i]), r[i].seq, w)
             /\ \A j \in 1 .. Len(r) : i < j /\ r[j].gen = r[i].gen => r[i].seq < r[j].seq
  <2>1. CASE i = Len(q) + 1
    <3>1. \A j \in 1 .. Len(r) : ~(i < j)
      BY <1>3, <2>1
    <3> QED BY <1>2, <1>3, <2>1, <3>1
  <2>2. CASE i \in 1 .. Len(q)
    <3>1. r[i] = q[i] /\ r[i].pod = p /\ Waits(r[i], w)
          /\ SentBelow(FrameStream(r[i]), r[i].seq, w)
      BY <1>3, <1>4, <2>2 DEF Outgoing
    <3>2. ASSUME NEW j \in 1 .. Len(r), i < j, r[j].gen = r[i].gen
          PROVE  r[i].seq < r[j].seq
      <4>1. CASE j = Len(q) + 1
        BY <1>2, <1>3, <1>6, <2>2, <3>1, <3>2, <4>1
      <4>2. CASE j \in 1 .. Len(q)
        BY <1>3, <1>4, <2>2, <3>1, <3>2, <4>2 DEF Outgoing
      <4> QED BY <1>5, <4>1, <4>2
    <3> QED BY <3>1, <3>2
  <2> QED BY <1>5, <2>1, <2>2
<1>8. Outgoing(r, p, w)
  BY <1>7 DEF Outgoing
<1> QED BY <1>8 DEF r, f

\* What is settled, or was never numbered, as one step from v to w.
Settling(v, w) ==
  /\ Onward(v, w) /\ Unsent(v, w) /\ \A e \in Events : Numbered(e, w) => Numbered(e, v)

LEMMA SettlingSame ==
  ASSUME NEW v
  PROVE  Settling(v, v)
BY DEF Settling, Onward, Unsent

LEMMA SettlingFate ==
  ASSUME NEW v \in [Events -> NewsItems], NEW x \in Events, v[x].st \in {"queued", "saving"},
         NEW st \in {"queued", "lost"}, NEW w, w = Fated(v, x, st)
  PROVE  Settling(v, w)
<1>1. st \in {"queued", "sent", "lost"} /\ st # "sent"
  OBVIOUS
<1> QED BY <1>1, FateFacts DEF Settling

Failed(v, x, p) == [v EXCEPT ![x].st = "unpublished", ![x].pod = p]

LEMMA FailedFacts ==
  ASSUME NEW v \in [Events -> NewsItems], NEW x \in Events, v[x].st = "none", NEW p \in Pods,
         NEW w, w = Failed(v, x, p)
  PROVE  /\ Settling(v, w) /\ w[x].st = "unpublished" /\ w[x].pod = p
         /\ \A e \in Events : e # x => w[e] = v[e]
<1>1. /\ w[x].st = "unpublished" /\ w[x].pod = p
      /\ \A e \in Events : e # x => w[e] = v[e]
  BY DEF NewsItems, Failed
<1>2. ~Numbered(x, v) /\ ~Numbered(x, w) /\ w[x].st # "sent"
  BY <1>1 DEF Numbered
<1>3. v[x].st \notin {"sent", "lost", "unpublished"}
  OBVIOUS
<1>4. \A e \in Events : Numbered(e, w) => Numbered(e, v)
  BY <1>1, <1>2 DEF Numbered
<1>5. Onward(v, w)
  BY <1>1, <1>2, <1>3 DEF Onward, Numbered
<1>6. Unsent(v, w)
  BY <1>1, <1>2 DEF Unsent
<1> QED BY <1>1, <1>4, <1>5, <1>6 DEF Settling

-----------------------------------------------------------------------------
\* The frames between the pods are in the order of their numbers.
BusOrder ==
  /\ Numbers(news, sess)
  /\ \A p \in Pods : Outgoing(outbox[p], p, news)
  /\ \A q \in Pods : \A f \in ToSet(wire[q]) : SentFrame(f, news)
  /\ \A q, o \in Pods : Orderly(recv[q][o], o, news)

LEMMA FromOnward ==
  ASSUME BusOrder, Onward(news, news')
  PROVE  /\ \A q \in Pods : \A f \in ToSet(wire[q]) : SentFrame(f, news')
         /\ \A q, o \in Pods : Orderly(recv[q][o], o, news')
<1>1. \A f : SentFrame(f, news) => SentFrame(f, news')
  BY SentOnward
<1>2. \A r, o : Orderly(r, o, news) => Orderly(r, o, news')
  BY OrderlyOnward
<1> QED BY <1>1, <1>2 DEF BusOrder

LEMMA NewsHere ==
  ASSUME Links(Events)
  PROVE  /\ news \in [Events -> NewsItems]
         /\ \A p \in Pods : /\ outbox[p] \in Seq(Frames(Events))
                            /\ wire[p] \in Seq(Frames(Events))
         /\ \A p, o \in Pods : /\ IsRecv(recv[p][o], Events)
                               /\ chain[p][o] \in Seq(Tasks(Events))
<1> DEFINE F == Frames(Events)
           S == Seq(Tasks(Events))
<1>1. outbox \in [Pods -> Seq(F)] /\ wire \in [Pods -> Seq(F)]
      /\ chain \in [Pods -> [Pods -> S]] /\ news \in [Events -> NewsItems]
      /\ \A p, o \in Pods : IsRecv(recv[p][o], Events)
  BY DEF Links
<1> HIDE DEF F, S
<1>2. \A p \in Pods : outbox[p] \in Seq(F) /\ wire[p] \in Seq(F)
  BY <1>1
<1>3. \A p, o \in Pods : chain[p][o] \in S
  BY <1>1
<1> QED BY <1>1, <1>2, <1>3 DEF F, S

LEMMA EmitOrdered ==
  ASSUME IInv, Links(Events), BusOrder, \A q \in Pods : Moved(sess[q], sess'[q]),
         NEW p \in Pods, NEW e \in Events, Emit(p, e)
  PROVE  BusOrder'
<1>1. Sessions(sess)
  BY Here
<1>2. PICK g \in Nat, n \in Nat, st \in {"queued", "saving", "lost"} : EmittedAs(p, e, g, n, st)
  BY <1>1, EmitFacts
<1>3. news \in [Events -> NewsItems] /\ outbox[p] \in Seq(Frames(Events))
      /\ outbox = [q \in Pods |-> outbox[q]]
  BY NewsHere DEF Links
<1> DEFINE v == news
           w == news'
           s == sess
           t == sess'
<1>4. /\ v[e].st = "none" /\ n >= 1 /\ Counted(g, n, t[p])
      /\ w = WithNumber(v, e, p, g, n, st)
      /\ \A h, m \in Nat : Counted(h, m, s[p]) /\ h = g => m < n
      /\ Numbers(v, s) /\ \A q \in Pods : Reaches(s[q], t[q])
  BY <1>2 DEF EmittedAs, BusOrder, Moved
<1>5. v \in [Events -> NewsItems]
  BY <1>3
<1> HIDE DEF v, w, s, t
<1>6. /\ Onward(v, w) /\ Unsent(v, w) /\ Numbers(w, t)
      /\ SentBelow([pod |-> p, gen |-> g], n, w)
      /\ \A x \in Events : Numbered(x, v) /\ v[x].pod = p /\ v[x].gen = g => v[x].tseq < n
      /\ w[e].st = st /\ w[e].pod = p /\ w[e].gen = g /\ w[e].tseq = n
  <2>1. Enters(v, w, s, t, p, e, g, n, st)
    BY <1>4, <1>5 DEF Enters
  <2>2. Entered(v, w, t, p, e, g, n, st)
    BY <2>1, EmitOrders
  <2> QED BY <2>2 DEF Entered
<1>7. \A q \in Pods : Outgoing(outbox[q], q, w)
  BY <1>6, OutgoingOnward DEF BusOrder, v
<1>8. \A q \in Pods : Outgoing(outbox'[q], q, w)
  <2>1. CASE outbox' = outbox
    BY <1>7, <2>1
  <2>2. CASE st # "lost"
    <3>1. outbox' = [outbox EXCEPT ![p] = Append(outbox[p], Wire(p, g, n, e))]
          /\ st \in {"queued", "saving"}
      BY <1>2, <2>2 DEF EmittedAs
    <3>2. Outgoing(Append(outbox[p], Wire(p, g, n, e)), p, w)
      <4>1. Outgoing(outbox[p], p, v)
        BY DEF BusOrder, v
      <4> QED BY <1>3, <1>6, <3>1, <4>1, OutgoingAppends
    <3> DEFINE z == Append(outbox[p], Wire(p, g, n, e))
    <3> HIDE DEF z
    <3>3. outbox'[p] = z /\ \A q \in Pods : q # p => outbox'[q] = outbox[q]
      BY <1>3, <3>1 DEF z
    <3> QED BY <1>7, <3>2, <3>3 DEF z
  <2> QED BY <1>2, <2>1, <2>2 DEF EmittedAs
<1>9. /\ \A q \in Pods : \A f \in ToSet(wire[q]) : SentFrame(f, w)
      /\ \A q, o \in Pods : Orderly(recv[q][o], o, w)
  BY <1>6, FromOnward DEF v, w
<1>10. wire' = wire /\ recv' = recv
  BY DEF Emit
<1> QED BY <1>6, <1>8, <1>9, <1>10 DEF BusOrder, w, t

\* Steps that settle an event or leave all as it was.
LEMMA SettlingOrdered ==
  ASSUME Links(Events), BusOrder, \A q \in Pods : Moved(sess[q], sess'[q]),
         Settling(news, news'), recv' = recv,
         wire' = wire \/ \E p \in Pods : wire' = [wire EXCEPT ![p] = <<>>],
         \/ outbox' = outbox
         \/ \E p \in Pods : outbox[p] # <<>> /\ outbox' = [outbox EXCEPT ![p] = Tail(outbox[p])]
  PROVE  BusOrder'
<1>1. /\ news \in [Events -> NewsItems] /\ Numbers(news, sess) /\ Onward(news, news')
      /\ Unsent(news, news') /\ \A e \in Events : Numbered(e, news') => Numbered(e, news)
      /\ \A q \in Pods : Reaches(sess[q], sess'[q])
  BY NewsHere DEF BusOrder, Settling, Moved
<1>2. Numbers(news', sess')
  <2> DEFINE v == news
             w == news'
             s == sess
             t == sess'
  <2>1. /\ v \in [Events -> NewsItems] /\ Numbers(v, s) /\ Onward(v, w)
        /\ \A e \in Events : Numbered(e, w) => Numbered(e, v)
        /\ \A q \in Pods : Reaches(s[q], t[q])
    BY <1>1
  <2> HIDE DEF v, w, s, t
  <2>2. Numbers(w, t)
    BY <2>1, NumbersOnward
  <2> QED BY <2>2 DEF w, t
<1>3. \A q : \A p : Outgoing(q, p, news) => Outgoing(q, p, news')
  BY <1>1, OutgoingOnward
<1>4. \A q \in Pods : Outgoing(outbox'[q], q, news')
  <2>1. CASE outbox' = outbox
    BY <1>3, <2>1 DEF BusOrder
  <2>2. ASSUME NEW p \in Pods, outbox[p] # <<>>, outbox' = [outbox EXCEPT ![p] = Tail(outbox[p])]
        PROVE  \A q \in Pods : Outgoing(outbox'[q], q, news')
    <3>1. outbox[p] \in Seq(Frames(Events)) /\ outbox = [q \in Pods |-> outbox[q]]
      BY NewsHere DEF Links
    <3>2. Outgoing(Tail(outbox[p]), p, news)
      BY <2>2, <3>1, OutgoingTail DEF BusOrder
    <3> DEFINE z == Tail(outbox[p])
    <3> HIDE DEF z
    <3>3. outbox'[p] = z /\ \A q \in Pods : q # p => outbox'[q] = outbox[q]
      BY <2>2, <3>1 DEF z
    <3> QED BY <1>3, <3>2, <3>3 DEF BusOrder, z
  <2> QED BY <2>1, <2>2
<1>5. \A q \in Pods : \A f \in ToSet(wire'[q]) : SentFrame(f, news')
  <2>1. \A q \in Pods : \A f \in ToSet(wire[q]) : SentFrame(f, news')
    BY <1>1, FromOnward
  <2>2. ASSUME NEW p \in Pods, wire' = [wire EXCEPT ![p] = <<>>]
        PROVE  \A q \in Pods : \A f \in ToSet(wire'[q]) : SentFrame(f, news')
    <3>1. wire = [q \in Pods |-> wire[q]]
      BY DEF Links
    <3>2. wire'[p] = <<>> /\ \A q \in Pods : q # p => wire'[q] = wire[q]
      BY <2>2, <3>1
    <3>3. ToSet(<<>>) = {}
      BY DEF ToSet
    <3> QED BY <2>1, <3>2, <3>3
  <2> QED BY <2>1, <2>2
<1>6. \A q, o \in Pods : Orderly(recv'[q][o], o, news')
  BY <1>1, FromOnward
<1> QED BY <1>2, <1>4, <1>5, <1>6 DEF BusOrder

\* The frame at the head of an outbox goes to the pods that listen.
Publishes(p, f) ==
  /\ outbox[p] # <<>> /\ f = Head(outbox[p]) /\ news[f.ev].st = "queued"
  /\ news' = Fated(news, f.ev, "sent")
  /\ outbox' = [outbox EXCEPT ![p] = Tail(outbox[p])]
  /\ wire' = [q \in Pods |-> IF listening[q] /\ q # p THEN Append(wire[q], f) ELSE wire[q]]

\* It is lost, or was.
Loses(p, x) ==
  /\ outbox[p] # <<>> /\ x = Head(outbox[p]).ev
  /\ outbox' = [outbox EXCEPT ![p] = Tail(outbox[p])] /\ wire' = wire
  /\ \/ news[x].st = "queued" /\ news' = Fated(news, x, "lost")
     \/ news[x].st = "lost" /\ news' = news

LEMMA PublishCases ==
  ASSUME NEW p \in Pods, Publish(p)
  PROVE  Publishes(p, Head(outbox[p])) \/ Loses(p, Head(outbox[p]).ev)
<1> DEFINE f == Head(outbox[p])
<1>1. /\ outbox[p] # <<>> /\ outbox' = [outbox EXCEPT ![p] = Tail(outbox[p])]
      /\ \/ /\ news[f.ev].st = "queued"
            /\ wire' = [q \in Pods |-> IF listening[q] /\ q # p
                                       THEN Append(wire[q], f) ELSE wire[q]]
            /\ Fate(f.ev, "sent")
         \/ news[f.ev].st = "queued" /\ Fate(f.ev, "lost") /\ UNCHANGED wire
         \/ news[f.ev].st = "lost" /\ UNCHANGED <<wire, news>>
  BY DEF Publish
<1>2. \A st : Fate(f.ev, st) => news' = Fated(news, f.ev, st)
  BY DEF Fate, Fated
<1> DEFINE x == f.ev
<1> HIDE DEF f
<1>3. CASE news[f.ev].st = "queued" /\ Fate(f.ev, "sent")
           /\ wire' = [q \in Pods |-> IF listening[q] /\ q # p
                                       THEN Append(wire[q], f) ELSE wire[q]]
  <2>1. Publishes(p, f)
    BY <1>1, <1>2, <1>3 DEF Publishes, f
  <2> QED BY <2>1 DEF f
<1>4. CASE \/ news[f.ev].st = "queued" /\ Fate(f.ev, "lost") /\ UNCHANGED wire
           \/ news[f.ev].st = "lost" /\ UNCHANGED <<wire, news>>
  <2>1. Loses(p, f.ev)
    BY <1>1, <1>2, <1>4 DEF Loses, f
  <2> QED BY <2>1 DEF f
<1> QED BY <1>1, <1>3, <1>4

LEMMA PublishOrdered ==
  ASSUME Links(Events), BusOrder, \A q \in Pods : Moved(sess[q], sess'[q]),
         NEW p \in Pods, Publish(p)
  PROVE  BusOrder'
<1>1. /\ news \in [Events -> NewsItems] /\ outbox[p] \in Seq(Frames(Events))
      /\ outbox = [q \in Pods |-> outbox[q]] /\ \A q \in Pods : wire[q] \in Seq(Frames(Events))
  BY NewsHere DEF Links
<1>2. UNCHANGED <<sess, listening, recv, chain>>
  BY DEF Publish
<1>3. ASSUME NEW x, Loses(p, x) PROVE BusOrder'
  <2>1. x \in Events /\ news[x].st \in {"queued", "lost"}
    <3>1. Head(outbox[p]) = outbox[p][1] /\ 1 \in 1 .. Len(outbox[p])
      <4> DEFINE F == Frames(Events)
      <4>1. outbox[p] \in Seq(F) /\ outbox[p] # <<>>
        BY <1>1, <1>3 DEF Loses
      <4> HIDE DEF F
      <4>2. Head(outbox[p]) = outbox[p][1] /\ Len(outbox[p]) \in Nat \ {0}
        BY <4>1, TailFacts
      <4> QED BY <4>2
    <3>2. IsFrame(outbox[p][1], news)
      BY <3>1 DEF BusOrder, Outgoing, Waits
    <3> QED BY <1>3, <3>1, <3>2 DEF Loses, IsFrame
  <2>2. Settling(news, news')
    <3> DEFINE v == news
               w == news'
    <3>1. v \in [Events -> NewsItems] /\ (w = v \/ (v[x].st = "queued" /\ w = Fated(v, x, "lost")))
      BY <1>1, <1>3 DEF Loses
    <3> HIDE DEF v, w
    <3>2. CASE w = v
      BY <3>2, SettlingSame DEF v, w
    <3>3. CASE v[x].st = "queued" /\ w = Fated(v, x, "lost")
      <4>1. Settling(v, w)
        BY <2>1, <3>1, <3>3, SettlingFate
      <4> QED BY <4>1 DEF v, w
    <3> QED BY <3>1, <3>2, <3>3
  <2> QED BY <1>2, <1>3, <2>2, SettlingOrdered DEF Loses
<1>4. ASSUME NEW f, Publishes(p, f) PROVE BusOrder'
  <2> DEFINE v == news
             w == news'
             z == outbox[p]
             x == f.ev
  <2>1. /\ z \in Seq(Frames(Events)) /\ z # <<>> /\ v \in [Events -> NewsItems]
        /\ Outgoing(z, p, v) /\ x = Head(z).ev /\ v[x].st = "queued" /\ w = Fated(v, x, "sent")
        /\ f = Head(z)
    BY <1>1, <1>4 DEF Publishes, BusOrder
  <2> HIDE DEF v, w, z, x
  <2>2. SendsHead(v, w, z, p, x)
    BY <2>1, OutgoingSends
  <2>3. Numbers(w, sess')
    <3> DEFINE s == sess
               t == sess'
    <3>1. /\ Numbers(v, s) /\ Onward(v, w) /\ \A e \in Events : Numbered(e, w) => Numbered(e, v)
          /\ \A q \in Pods : Reaches(s[q], t[q])
      BY <2>2 DEF BusOrder, Moved, v, SendsHead
    <3> HIDE DEF s, t
    <3>2. Numbers(w, t)
      BY <2>1, <3>1, NumbersOnward
    <3> QED BY <3>2 DEF t
  <2>4. \A q \in Pods : Outgoing(outbox'[q], q, w)
    <3> DEFINE y == Tail(z)
    <3>1. outbox' = [outbox EXCEPT ![p] = y]
      BY <1>4 DEF Publishes, z
    <3>2. Outgoing(y, p, w) /\ \A o, r : o # p /\ Outgoing(r, o, v) => Outgoing(r, o, w)
      BY <2>2 DEF SendsHead
    <3> HIDE DEF y
    <3>3. outbox'[p] = y /\ \A q \in Pods : q # p => outbox'[q] = outbox[q]
      BY <1>1, <3>1
    <3> QED BY <3>2, <3>3 DEF BusOrder, v
  <2>5. /\ \A q \in Pods : \A g \in ToSet(wire[q]) : SentFrame(g, w)
        /\ \A q, o \in Pods : Orderly(recv[q][o], o, w)
    BY <2>2, FromOnward DEF SendsHead, v, w
  <2>6. f \in Frames(Events) /\ SentFrame(f, w)
    <3> DEFINE F == Frames(Events)
    <3> HIDE DEF F
    <3>1. z \in Seq(F) /\ z # <<>>
      BY <2>1 DEF F
    <3>2. Head(z) \in F
      BY <3>1, TailFacts
    <3> QED BY <2>1, <2>2, <3>2 DEF F, SendsHead
  <2>7. \A q \in Pods : \A g \in ToSet(wire'[q]) : SentFrame(g, w)
    <3> TAKE q \in Pods
    <3> DEFINE F == Frames(Events)
               r == wire[q]
    <3>1. r \in Seq(F) /\ f \in F
      BY <1>1, <2>6
    <3>2. wire'[q] = r \/ wire'[q] = Append(r, f)
      BY <1>4 DEF Publishes
    <3>3. \A g \in ToSet(r) : SentFrame(g, w)
      BY <2>5
    <3> HIDE DEF F, r
    <3>4. ToSet(Append(r, f)) = ToSet(r) \cup {f}
      BY <3>1, EntriesAppend
    <3> QED BY <2>6, <3>2, <3>3, <3>4
  <2> QED BY <1>2, <2>3, <2>4, <2>5, <2>7 DEF BusOrder, w
<1> QED BY <1>3, <1>4, PublishCases

-----------------------------------------------------------------------------
(* The steps of a receiver.                                                *)

WithAt(f, p, o, x) == [f EXCEPT ![p][o] = x]
Square(f) == f = [q \in Pods |-> [z \in Pods |-> f[q][z]]]
ChangedAt(f, g, p, o, x) ==
  /\ g[p][o] = x
  /\ \A q, z \in Pods : q # p \/ z # o => g[q][z] = f[q][z]

LEMMA OneChanged ==
  ASSUME NEW f, NEW p \in Pods, NEW o \in Pods, Square(f),
         NEW x, NEW g, g = WithAt(f, p, o, x)
  PROVE  ChangedAt(f, g, p, o, x)
<1> DEFINE h == f[p]
           k == [h EXCEPT ![o] = x]
<1>1. f = [q \in Pods |-> f[q]] /\ h = [z \in Pods |-> h[z]]
  BY DEF Square
<1>2. g = [f EXCEPT ![p] = k]
  BY DEF WithAt
<1>3. k[o] = x /\ \A z \in Pods : z # o => k[z] = h[z]
  BY <1>1
<1>5. f = [q \in Pods |-> f[q]]
  BY <1>1
<1> HIDE DEF k, h
<1>4. g[p] = k /\ \A q \in Pods : q # p => g[q] = f[q]
  BY <1>2, <1>5
<1> QED BY <1>3, <1>4 DEF ChangedAt, h

LEMMA Squares ==
  ASSUME Links(Events)
  PROVE  Square(recv) /\ Square(chain)
<1> DEFINE S == Seq(Tasks(Events))
<1>1. recv = [q \in Pods |-> [z \in Pods |-> recv[q][z]]] /\ chain \in [Pods -> [Pods -> S]]
  BY DEF Links
<1> HIDE DEF S
<1>2. chain = [q \in Pods |-> chain[q]] /\ \A q \in Pods : chain[q] \in [Pods -> S]
  BY <1>1
<1>3. \A q \in Pods : chain[q] = [z \in Pods |-> chain[q][z]]
  BY <1>2
<1>4. chain = [q \in Pods |-> [z \in Pods |-> chain[q][z]]]
  BY <1>2, <1>3
<1> QED BY <1>1, <1>4 DEF Square

\* What p takes in: the frame f, in the state r of its stream.
TakesIn(p, f, r) ==
  LET o == f.pod
      x == Reception(r, f)
  IN  /\ f \in Frames(Events) /\ o \in Pods /\ SentFrame(f, news)
      /\ ToSet(wire[p]) = ToSet(wire'[p]) \cup {f}
      /\ \A q \in Pods : q # p => wire'[q] = wire[q]
      /\ IsRecv(r, Events) /\ Orderly(r, o, news) /\ r.stream = FrameStream(f)
      /\ ChangedAt(recv, recv', p, o, x.r)
      /\ \E c : /\ ChangedAt(chain, chain', p, o, c)
                /\ ToSet(chain[p][o]) \subseteq ToSet(c) /\ ToSet(x.tasks) \subseteq ToSet(c)
                /\ \/ r = recv[p][o]
                   \/ /\ recv[p][o].stream # FrameStream(f) /\ r = Opened(FrameStream(f))
                      /\ ToSet(FlushTasks(recv[p][o])) \subseteq ToSet(c)

LEMMA OpenedOrderly ==
  ASSUME NEW stream, NEW o, NEW w
  PROVE  /\ Orderly(Opened(stream), o, w) /\ IsRecv(Opened(stream), Events)
         /\ Opened(stream).stream = stream /\ Opened(stream).parked = {}
         /\ Opened(stream).expected = 1
<1>1. Opened(stream).stream = stream /\ Opened(stream).expected = 1 /\ Opened(stream).parked = {}
  BY DEF Opened
<1>2. Opened(stream) \in [stream : {stream, 1}, expected : {stream, 1},
                          parked : SUBSET Frames(Events)]
  BY DEF Opened
<1>3. IsRecv(Opened(stream), Events)
  BY <1>1, <1>2, FS_EmptySet DEF IsRecv
<1> QED BY <1>1, <1>3 DEF Orderly

LEMMA ReceiveTakesIn ==
  ASSUME Links(Events), BusOrder, NEW p \in Pods, NEW i \in 1 .. Len(wire[p]), Receive(p, i)
  PROVE  \E f, r : TakesIn(p, f, r)
<1> DEFINE f == wire[p][i]
           o == f.pod
           stream == [pod |-> o, gen |-> f.gen]
           known == recv[p][o].stream = stream
           old == IF known THEN <<>> ELSE FlushTasks(recv[p][o])
           r == IF known THEN recv[p][o] ELSE Opened(stream)
           x == Reception(r, f)
           c == (chain[p][o] \o old) \o x.tasks
<1>1. /\ wire' = [wire EXCEPT ![p] = RemoveAt(wire[p], i)]
      /\ recv' = WithAt(recv, p, o, x.r)
      /\ chain' = WithAt(chain, p, o, c)
  BY DEF Receive, WithAt
<1>2. /\ wire = [q \in Pods |-> wire[q]] /\ wire[p] \in Seq(Frames(Events))
      /\ stream = FrameStream(f)
  BY NewsHere DEF Links, FrameStream
<1>3. f \in Frames(Events) /\ f \in ToSet(wire[p])
  <2> DEFINE F == Frames(Events)
             z == wire[p]
  <2>1. z \in Seq(F) /\ i \in 1 .. Len(z)
    BY <1>2
  <2> HIDE DEF F, z
  <2>2. z[i] \in F /\ z[i] \in ToSet(z)
    BY <2>1, EntriesOf
  <2> QED BY <2>2 DEF F, z
<1>4. o \in Pods /\ SentFrame(f, news)
  BY <1>3 DEF Frames, BusOrder
<1>5. ToSet(wire[p]) = ToSet(wire'[p]) \cup {f} /\ \A q \in Pods : q # p => wire'[q] = wire[q]
  <2> DEFINE F == Frames(Events)
             z == wire[p]
             y == RemoveAt(z, i)
  <2>1. z \in Seq(F) /\ i \in 1 .. Len(z)
    BY <1>2
  <2> HIDE DEF F
  <2>2. ToSet(z) = ToSet(y) \cup {z[i]}
    BY SMTT(25), <2>1, EntriesRemove
  <2>3. wire' = [wire EXCEPT ![p] = y]
    BY <1>1
  <2> HIDE DEF y
  <2>4. wire'[p] = y /\ \A q \in Pods : q # p => wire'[q] = wire[q]
    BY <1>2, <2>3
  <2> QED BY <2>2, <2>4
<1>6. IsRecv(recv[p][o], Events) /\ Orderly(recv[p][o], o, news)
      /\ chain[p][o] \in Seq(Tasks(Events))
  BY <1>4, NewsHere DEF BusOrder
<1>7. IsRecv(r, Events) /\ Orderly(r, o, news) /\ r.stream = stream
  <2>1. CASE known
    BY <1>6, <2>1
  <2>2. CASE ~known
    <3>1. r = Opened(stream)
      BY <2>2
    <3> HIDE DEF stream, r, o
    <3> QED BY <3>1, OpenedOrderly
  <2> QED BY <2>1, <2>2
<1>8. old \in Seq(Tasks(Events)) /\ FlushTasks(recv[p][o]) \in Seq(Tasks(Events))
  BY SMTT(25), <1>6, FlushTypes
<1>9. x.tasks \in Seq(Tasks(Events))
  <2> HIDE DEF r, f
  <2> QED BY <1>3, <1>7, ReceptionTypes
<1>10. /\ ToSet(chain[p][o]) \subseteq ToSet(c) /\ ToSet(x.tasks) \subseteq ToSet(c)
       /\ ToSet(old) \subseteq ToSet(c)
  <2> DEFINE S == Tasks(Events)
             u == chain[p][o]
             y == x.tasks
  <2>1. u \in Seq(S) /\ old \in Seq(S) /\ y \in Seq(S)
    BY <1>6, <1>8, <1>9
  <2> HIDE DEF S, u, y, old
  <2>2. u \o old \in Seq(S) /\ ToSet(u \o old) = ToSet(u) \cup ToSet(old)
    BY <2>1, JoinType, EntriesJoin
  <2>3. ToSet((u \o old) \o y) = ToSet(u \o old) \cup ToSet(y)
    <3> DEFINE z == u \o old
    <3>1. z \in Seq(S)
      BY <2>2
    <3> HIDE DEF z
    <3>2. ToSet(z \o y) = ToSet(z) \cup ToSet(y)
      BY <2>1, <3>1, EntriesJoin
    <3> QED BY <3>2 DEF z
  <2>4. c = (u \o old) \o y
    BY SMTT(25) DEF u, y
  <2> HIDE DEF c, x
  <2> QED BY SMTT(25), <2>2, <2>3, <2>4 DEF u, y
<1>11. \/ r = recv[p][o]
       \/ /\ recv[p][o].stream # stream /\ r = Opened(stream)
          /\ ToSet(FlushTasks(recv[p][o])) \subseteq ToSet(c)
  <2>1. CASE known
    BY <2>1
  <2>2. CASE ~known
    <3>1. r = Opened(stream) /\ old = FlushTasks(recv[p][o])
      BY <2>2
    <3> HIDE DEF c, r, old, stream, o
    <3> QED BY <1>10, <2>2, <3>1
  <2> QED BY <2>1, <2>2
<1> HIDE DEF r, c, f, x
<1>12. ChangedAt(recv, recv', p, o, x.r) /\ ChangedAt(chain, chain', p, o, c)
  <2> DEFINE y == x.r
             rr == recv'
             cc == chain'
             ra == recv
             ca == chain
  <2>1. /\ rr = WithAt(ra, p, o, y) /\ cc = WithAt(ca, p, o, c)
        /\ Square(ra) /\ Square(ca)
    BY <1>1, Squares
  <2> HIDE DEF y, rr, cc, ra, ca
  <2>2. ChangedAt(ra, rr, p, o, y) /\ ChangedAt(ca, cc, p, o, c)
    BY <1>4, <2>1, OneChanged
  <2> QED BY <2>2 DEF rr, cc, ra, ca, y
<1>13. TakesIn(p, f, r)
  BY <1>2, <1>3, <1>4, <1>5, <1>7, <1>10, <1>11, <1>12 DEF TakesIn, x
<1> QED BY <1>13

\* What p has parked is delivered, and its state is the next one.
Flushes(p, o, r) ==
  /\ ChangedAt(recv, recv', p, o, r) /\ Orderly(r, o, news)
  /\ \/ r = Flushed(recv[p][o]) /\ recv[p][o].parked # {}
     \/ r = NoRecv
  /\ \E c : /\ ChangedAt(chain, chain', p, o, c)
            /\ ToSet(chain[p][o]) \subseteq ToSet(c)
            /\ ToSet(FlushTasks(recv[p][o])) \subseteq ToSet(c)

LEMMA TimerFlushes ==
  ASSUME Links(Events), BusOrder, NEW p \in Pods, NEW o \in Pods,
         FlushTimer(p, o) \/ EvictReceive(p, o)
  PROVE  \E r : Flushes(p, o, r)
<1> DEFINE z == recv[p][o]
           u == chain[p][o]
           y == FlushTasks(z)
           ra == recv
           rr == recv'
           ca == chain
           cc == chain'
<1>1. IsRecv(z, Events) /\ Orderly(z, o, news) /\ u \in Seq(Tasks(Events))
  BY NewsHere DEF BusOrder
<1>2. y \in Seq(Tasks(Events))
  BY <1>1, FlushTypes
<1>3. Square(ra) /\ Square(ca)
  BY Squares
<1>4. CASE FlushTimer(p, o)
  <2> DEFINE r == Flushed(z)
             c == u \o y
  <2>1. /\ z.parked # {} /\ rr = WithAt(ra, p, o, r) /\ cc = WithAt(ca, p, o, c)
    BY <1>4 DEF FlushTimer, WithAt
  <2>2. Orderly(r, o, news)
    BY <1>1, <2>1, FlushedFacts
  <2>3. ToSet(c) = ToSet(u) \cup ToSet(y)
    <3> DEFINE S == Tasks(Events)
    <3>1. u \in Seq(S) /\ y \in Seq(S)
      BY <1>1, <1>2
    <3> HIDE DEF S, u, y
    <3> QED BY <3>1, EntriesJoin
  <2> HIDE DEF r, c, ra, rr, ca, cc, u, y
  <2>4. ChangedAt(ra, rr, p, o, r) /\ ChangedAt(ca, cc, p, o, c)
    BY <1>3, <2>1, OneChanged
  <2>5. Flushes(p, o, r)
    BY <2>1, <2>2, <2>3, <2>4 DEF Flushes, r, ra, rr, ca, cc, u, y
  <2> QED BY <2>5
<1>5. CASE EvictReceive(p, o)
  <2> DEFINE r == NoRecv
             c == y
  <2>1. /\ u = <<>> /\ rr = WithAt(ra, p, o, r) /\ cc = WithAt(ca, p, o, c)
    BY <1>5 DEF EvictReceive, WithAt
  <2>2. Orderly(r, o, news)
    BY OpenedOrderly DEF NoRecv
  <2>3. ToSet(u) = {}
    BY <2>1 DEF ToSet
  <2> HIDE DEF r, c, ra, rr, ca, cc, u
  <2>4. ChangedAt(ra, rr, p, o, r) /\ ChangedAt(ca, cc, p, o, c)
    BY <1>3, <2>1, OneChanged
  <2>5. Flushes(p, o, r)
    BY <2>1, <2>2, <2>3, <2>4 DEF Flushes, r, ra, rr, ca, cc, u, c
  <2> QED BY <2>5
<1> QED BY <1>4, <1>5

\* The first task of a chain ends.
Ends(p, o) ==
  /\ chain[p][o] # <<>>
  /\ \E c : /\ ChangedAt(chain, chain', p, o, c)
            /\ ToSet(chain[p][o]) = ToSet(c) \cup {Head(chain[p][o])}

LEMMA TaskEnds ==
  ASSUME Links(Events), NEW p \in Pods, NEW o \in Pods,
         DeliverNext(p, o) \/ ResetNext(p, o) \/ SkipNext(p, o)
  PROVE  Ends(p, o)
<1> DEFINE u == chain[p][o]
           ca == chain
           cc == chain'
           c == Tail(u)
<1>1. u # <<>> /\ cc = WithAt(ca, p, o, c)
  BY DEF DeliverNext, ResetNext, SkipNext, WithAt
<1>2. Square(ca)
  BY Squares
<1>3. ToSet(u) = ToSet(c) \cup {Head(u)}
  <2> DEFINE S == Tasks(Events)
  <2>1. u \in Seq(S)
    BY NewsHere
  <2> HIDE DEF S, u
  <2>2. ToSet(u) = ToSet(Tail(u)) \cup {Head(u)}
    BY <1>1, <2>1, EntriesTail
  <2> QED BY <2>2
<1> HIDE DEF u, ca, cc, c
<1>4. ChangedAt(ca, cc, p, o, c)
  BY <1>1, <1>2, OneChanged
<1> QED BY <1>1, <1>3, <1>4 DEF Ends, u, ca, cc

LEMMA NumbersMoved ==
  ASSUME Links(Events), BusOrder, \A q \in Pods : Moved(sess[q], sess'[q])
  PROVE  Numbers(news, sess')
<1> DEFINE v == news
           s == sess
           t == sess'
<1>1. /\ v \in [Events -> NewsItems] /\ Numbers(v, s) /\ \A q \in Pods : Reaches(s[q], t[q])
      /\ Onward(v, v) /\ \A e \in Events : Numbered(e, v) => Numbered(e, v)
  BY NewsHere, SettlingSame DEF BusOrder, Moved, Settling
<1> HIDE DEF v, s, t
<1>2. Numbers(v, t)
  BY <1>1, NumbersOnward
<1> QED BY <1>2 DEF v, t

LEMMA ReceiveOrdered ==
  ASSUME Links(Events), BusOrder, \A q \in Pods : Moved(sess[q], sess'[q]),
         NEW p \in Pods, NEW i \in 1 .. Len(wire[p]), Receive(p, i)
  PROVE  BusOrder'
<1>1. PICK f, r : TakesIn(p, f, r)
  BY SMTT(25), ReceiveTakesIn
<1> DEFINE o == f.pod
           x == Reception(r, f)
<1>2. Numbers(news, sess') /\ news' = news /\ outbox' = outbox
  BY NumbersMoved DEF Receive
<1>3. \A q \in Pods : \A g \in ToSet(wire'[q]) : SentFrame(g, news)
  BY <1>1 DEF TakesIn, BusOrder
<1>4. Orderly(x.r, o, news)
  <2> DEFINE w == news
             s == sess
  <2>1. w \in [Events -> NewsItems] /\ Numbers(w, s) /\ IsRecv(r, Events) /\ f \in Frames(Events)
        /\ Orderly(r, o, w) /\ SentFrame(f, w) /\ FrameStream(f) = r.stream
    BY <1>1, NewsHere DEF TakesIn, BusOrder
  <2> HIDE DEF w, s
  <2>2. Orderly(x.r, o, w)
    BY <2>1, ReceptionFacts
  <2> QED BY <2>2 DEF w
<1>5. \A q, z \in Pods : Orderly(recv'[q][z], z, news)
  <2>1. ChangedAt(recv, recv', p, o, x.r)
    BY <1>1 DEF TakesIn
  <2> HIDE DEF x, o
  <2> QED BY <1>4, <2>1 DEF ChangedAt, BusOrder
<1> QED BY <1>2, <1>3, <1>5 DEF BusOrder

LEMMA TimerOrdered ==
  ASSUME Links(Events), BusOrder, \A q \in Pods : Moved(sess[q], sess'[q]),
         NEW p \in Pods, NEW o \in Pods, FlushTimer(p, o) \/ EvictReceive(p, o)
  PROVE  BusOrder'
<1>1. PICK r : Flushes(p, o, r)
  BY TimerFlushes
<1>2. Numbers(news, sess') /\ news' = news /\ outbox' = outbox /\ wire' = wire
  BY NumbersMoved DEF FlushTimer, EvictReceive
<1>3. \A q, z \in Pods : Orderly(recv'[q][z], z, news)
  BY <1>1 DEF Flushes, ChangedAt, BusOrder
<1> QED BY <1>2, <1>3 DEF BusOrder

LEMMA FailOrdered ==
  ASSUME Links(Events), BusOrder, \A q \in Pods : Moved(sess[q], sess'[q]),
         NEW p \in Pods, NEW e \in Events, EmitFails(p, e) \/ SaveSettles(p, e)
  PROVE  BusOrder'
<1> DEFINE v == news
           w == news'
<1>1. v \in [Events -> NewsItems]
  BY NewsHere
<1>2. Settling(v, w)
  <2>1. CASE EmitFails(p, e)
    <3>1. v[e].st = "none" /\ w = Failed(v, e, p)
      BY <2>1 DEF EmitFails, CommitNext, Failed
    <3> HIDE DEF v, w
    <3> QED BY <1>1, <3>1, FailedFacts
  <2>2. CASE SaveSettles(p, e)
    <3>1. v[e].st = "saving" /\ \E st \in {"queued", "lost"} : w = Fated(v, e, st)
      BY <2>2 DEF SaveSettles, Fate, Fated
    <3> HIDE DEF v, w
    <3> QED BY <1>1, <3>1, SettlingFate
  <2> QED BY <2>1, <2>2
<1>3. UNCHANGED <<outbox, wire, recv>>
  BY DEF EmitFails, SaveSettles
<1> QED BY <1>2, <1>3, SettlingOrdered

LEMMA StillOrdered ==
  ASSUME Links(Events), BusOrder, \A q \in Pods : Moved(sess[q], sess'[q]),
         news' = news, recv' = recv, outbox' = outbox,
         wire' = wire \/ \E p \in Pods : wire' = [wire EXCEPT ![p] = <<>>]
  PROVE  BusOrder'
<1>1. Settling(news, news')
  BY SettlingSame
<1> QED BY <1>1, SettlingOrdered

LEMMA StepOrdered ==
  ASSUME IInv, Links(Events), BusOrder, [Next]_vars
  PROVE  BusOrder'
<1>1. \A q \in Pods : Moved(sess[q], sess'[q])
  BY SessionsMove
<1>2. CASE BusStep
  <2>1. ASSUME NEW p \in Pods, NEW e \in Events, Emit(p, e) PROVE BusOrder'
    BY <1>1, <2>1, EmitOrdered
  <2>2. ASSUME NEW p \in Pods, NEW e \in Events, EmitFails(p, e) \/ SaveSettles(p, e)
        PROVE  BusOrder'
    BY <1>1, <2>2, FailOrdered
  <2>3. ASSUME NEW p \in Pods, Publish(p) PROVE BusOrder'
    BY <1>1, <2>3, PublishOrdered
  <2>4. ASSUME NEW p \in Pods, NEW i \in 1 .. Len(wire[p]), Receive(p, i) PROVE BusOrder'
    BY <1>1, <2>4, ReceiveOrdered
  <2>5. ASSUME NEW p \in Pods, Disconnect(p) \/ Reconnect(p) \/ Evict(p) PROVE BusOrder'
    BY <1>1, <2>5, StillOrdered DEF Disconnect, Reconnect, Evict
  <2>6. ASSUME NEW p \in Pods, NEW o \in Pods, FlushTimer(p, o) \/ EvictReceive(p, o)
        PROVE  BusOrder'
    BY <1>1, <2>6, TimerOrdered
  <2>7. ASSUME NEW p \in Pods, NEW o \in Pods,
               DeliverNext(p, o) \/ ResetNext(p, o) \/ SkipNext(p, o)
        PROVE  BusOrder'
    BY <1>1, <2>7, StillOrdered DEF DeliverNext, ResetNext, SkipNext
  <2> QED BY <1>2, <2>1, <2>2, <2>3, <2>4, <2>5, <2>6, <2>7 DEF BusStep
<1>3. CASE ClientStep
  <2>1. NoBus
    BY <1>3 DEF ClientStep, ReadView, Connect, ApplyView, Activate, WriteConnected,
       WriteReplay, WriteBuffered, WriteLive, Heartbeat, EndStream, Recover, Leave
  <2> QED BY SMTT(25), <1>1, <2>1, StillOrdered DEF NoBus
<1>4. CASE UNCHANGED vars
  BY <1>1, <1>4, StillOrdered DEF vars, busVars
<1> QED BY <1>2, <1>3, <1>4 DEF Next

LEMMA InitOrdered ==
  ASSUME Init
  PROVE  BusOrder
<1>1. PICK s, n : BusInitWith(s, n)
  BY DEF Init, InitOpening, InitLive
<1>2. \A e \in Events : news[e].st = "none"
  BY <1>1 DEF BusInitWith
<1>3. Numbers(news, sess)
  BY <1>2 DEF Numbers, Numbered
<1>4. \A p \in Pods : outbox[p] = <<>> /\ wire[p] = <<>>
  BY <1>1 DEF BusInitWith
<1>5. \A p \in Pods : Outgoing(outbox[p], p, news)
  BY <1>4 DEF Outgoing
<1>6. \A p \in Pods : ToSet(wire[p]) = {}
  BY <1>4 DEF ToSet
<1>7. \A q, o \in Pods : recv[q][o] = NoRecv
  BY <1>1 DEF BusInitWith
<1>8. \A q, o \in Pods : Orderly(recv[q][o], o, news)
  BY <1>7, OpenedOrderly DEF NoRecv
<1> QED BY SMTT(25), <1>3, <1>5, <1>6, <1>8 DEF BusOrder

-----------------------------------------------------------------------------
(* What is still to come.  Told: a task tells q of e, or resets it.  Flies: *)
(* the number of e is not passed at q, and a frame is under way to it that  *)
(* brings e or reveals that it is missing.                                  *)

Told(e, q) == \E o \in Pods : \E t \in ToSet(chain[q][o]) : TellsOf(t, e)
Fresh(e, r, w) == r.stream = StreamOf(e, w) => r.expected <= w[e].tseq
Flies(e, q) ==
  \E z \in Pods : /\ z = news[e].pod /\ Fresh(e, recv[q][z], news)
                  /\ \E f \in ToSet(wire[q]) \cup recv[q][z].parked : FrameAfter(f, e, news)
TailLost(e, w) == w[e].st = "lost" /\ SentBelow(StreamOf(e, w), w[e].tseq, w)
Queued(e) ==
  /\ news[e].st \in {"queued", "saving"}
  /\ \E z \in Pods : z = news[e].pod /\ \E f \in ToSet(outbox[z]) : f.ev = e

\* q will be told of e, or need not be.
Coming(e, q) ==
  \/ ~listening[q] \/ news[e].st = "none" \/ Told(e, q)
  \/ /\ news[e].pod # q
     /\ \/ news[e].st = "unpublished" \/ TailLost(e, news) \/ Queued(e)
        \/ Numbered(e, news) /\ Flies(e, q)

\* The step brings e to the subscribers of q, or resets them.
Arrives(e, q) ==
  \/ HearEvent(q, e) /\ Brings(sess[q], sess'[q], e)
  \/ HearReset(q) /\ Renews(sess[q], sess'[q])

LEMMA ComingKept ==
  ASSUME NEW e, NEW q \in Pods, Coming(e, q), listening'[q] = listening[q],
         \A o \in Pods : ToSet(chain[q][o]) \subseteq ToSet(chain'[q][o]),
         ToSet(wire[q]) \subseteq ToSet(wire'[q]),
         \A o \in Pods : recv'[q][o] = recv[q][o], news'[e] = news[e],
         TailLost(e, news) => TailLost(e, news'), Queued(e) => Queued(e)'
  PROVE  Coming(e, q)'
<1>1. CASE ~listening[q] \/ news[e].st = "none"
  BY <1>1 DEF Coming
<1>2. CASE Told(e, q)
  <2>1. Told(e, q)'
    BY <1>2 DEF Told
  <2> QED BY <2>1 DEF Coming
<1>3. CASE /\ news[e].pod # q
           /\ news[e].st = "unpublished" \/ TailLost(e, news) \/ Queued(e)
  BY <1>3 DEF Coming
<1>4. CASE news[e].pod # q /\ Numbered(e, news) /\ Flies(e, q)
  <2>1. Numbered(e, news') /\ Flies(e, q)'
    BY <1>4 DEF Numbered, Flies, Fresh, FrameAfter, StreamOf
  <2> QED BY <1>4, <2>1 DEF Coming
<1> QED BY <1>1, <1>2, <1>3, <1>4 DEF Coming

LEMMA TailLostOnward ==
  ASSUME NEW v, NEW w, Unsent(v, w), Onward(v, w), NEW e \in Events, TailLost(e, v)
  PROVE  TailLost(e, w)
<1>1. \A x \in Events : w[x].st = "sent" => v[x].st = "sent" /\ w[x] = v[x]
  BY DEF Onward, Unsent
<1>2. w[e] = v[e]
  BY DEF Onward, TailLost
<1> QED BY <1>1, <1>2 DEF TailLost, SentBelow, StreamOf

\* The step settles or numbers another event.
LEMMA ComingOthers ==
  ASSUME NEW e \in Events, NEW q \in Pods, Coming(e, q),
         UNCHANGED <<listening, chain, wire, recv>>, news'[e] = news[e],
         Unsent(news, news'), Onward(news, news'),
         \A z \in Pods : \A f \in ToSet(outbox[z]) : f.ev = e => f \in ToSet(outbox'[z])
  PROVE  Coming(e, q)'
<1>1. TailLost(e, news) => TailLost(e, news')
  BY TailLostOnward
<1>2. Queued(e) => Queued(e)'
  BY DEF Queued
<1> QED BY <1>1, <1>2, ComingKept

\* All that concerns e at q stays.
LEMMA ComingSame ==
  ASSUME NEW e, NEW q \in Pods, Coming(e, q), UNCHANGED <<news, outbox>>,
         listening'[q] = listening[q], wire'[q] = wire[q],
         \A o \in Pods : recv'[q][o] = recv[q][o] /\ chain'[q][o] = chain[q][o]
  PROVE  Coming(e, q)'
<1>1. TailLost(e, news) => TailLost(e, news')
  OBVIOUS
<1>2. Queued(e) => Queued(e)'
  BY DEF Queued
<1> QED BY <1>1, <1>2, ComingKept

LEMMA TailEntries ==
  ASSUME Links(Events), NEW p \in Pods, outbox[p] # <<>>,
         outbox' = [outbox EXCEPT ![p] = Tail(outbox[p])], NEW e, e # Head(outbox[p]).ev
  PROVE  \A z \in Pods : \A f \in ToSet(outbox[z]) : f.ev = e => f \in ToSet(outbox'[z])
<1> DEFINE F == Frames(Events)
           q == outbox[p]
           r == Tail(q)
<1>1. q \in Seq(F) /\ outbox = [z \in Pods |-> outbox[z]]
  BY NewsHere DEF Links
<1> HIDE DEF F
<1>2. ToSet(q) = ToSet(r) \cup {Head(q)}
  BY <1>1, EntriesTail
<1>3. outbox' = [outbox EXCEPT ![p] = r]
  OBVIOUS
<1> HIDE DEF r
<1>4. outbox'[p] = r /\ \A z \in Pods : z # p => outbox'[z] = outbox[z]
  BY <1>1, <1>3
<1> QED BY <1>2, <1>4

\* What waits in an outbox is lost with nothing sent after it.
LEMMA QueuedLost ==
  ASSUME Links(Events), BusOrder, NEW e \in Events, Queued(e),
         Unsent(news, news'), Onward(news, news'), news'[e].st = "lost"
  PROVE  TailLost(e, news')
<1>1. PICK z \in Pods : z = news[e].pod /\ \E f \in ToSet(outbox[z]) : f.ev = e
  BY DEF Queued
<1>2. PICK f \in ToSet(outbox[z]) : f.ev = e
  BY <1>1
<1> DEFINE F == Frames(Events)
           q == outbox[z]
           v == news
           w == news'
<1>3. q \in Seq(F)
  BY NewsHere
<1> HIDE DEF F, q
<1>4. PICK i \in 1 .. Len(q) : q[i] = f
  BY <1>2, <1>3, EntriesOf DEF q
<1>5. Waits(f, v) /\ SentBelow(FrameStream(f), f.seq, v)
  BY <1>4 DEF BusOrder, Outgoing, q
<1>6. FrameStream(f) = StreamOf(e, v) /\ f.seq = v[e].tseq /\ Numbered(e, v)
  BY <1>2, <1>5 DEF Waits, IsFrame, StreamOf, FrameStream, Numbered
<1>7. /\ Unsent(v, w) /\ Onward(v, w) /\ w[e].st = "lost"
  OBVIOUS
<1> HIDE DEF v, w
<1>8. StreamOf(e, w) = StreamOf(e, v) /\ w[e].tseq = v[e].tseq
  BY <1>6, <1>7 DEF Onward, StreamOf
<1>9. \A x \in Events : w[x].st = "sent" => v[x].st = "sent" /\ w[x] = v[x]
  BY <1>7 DEF Onward, Unsent
<1>10. SentBelow(StreamOf(e, v), v[e].tseq, v)
  BY <1>5, <1>6
<1>11. SentBelow(StreamOf(e, v), v[e].tseq, w)
  BY <1>9, <1>10 DEF SentBelow, StreamOf
<1>12. TailLost(e, w)
  BY <1>7, <1>8, <1>11 DEF TailLost
<1> QED BY <1>12 DEF w

LEMMA EmitComes ==
  ASSUME IInv, Links(Events), BusOrder, \A o \in Pods : Moved(sess[o], sess'[o]),
         NEW e \in Events \ Trace, NEW q \in Pods, Coming(e, q),
         NEW p \in Pods, NEW x \in Events, Emit(p, x), HearEvent(p, x)
  PROVE  Coming(e, q)' \/ Arrives(e, q)
<1>1. Sessions(sess)
  BY Here
<1>2. PICK g \in Nat, n \in Nat, st \in {"queued", "saving", "lost"} : EmittedAs(p, x, g, n, st)
  BY <1>1, EmitFacts
<1> DEFINE v == news
           w == news'
           s == sess
           t == sess'
<1>3. Enters(v, w, s, t, p, x, g, n, st)
  BY <1>2, NewsHere DEF EmittedAs, BusOrder, Moved, Enters
<1>4. Entered(v, w, t, p, x, g, n, st)
  <2> HIDE DEF v, w, s, t
  <2> QED BY <1>3, EmitOrders
<1>5. \A z \in Pods : \A f \in ToSet(outbox[z]) : f \in ToSet(outbox'[z])
  <2>1. CASE outbox' = outbox
    BY <2>1
  <2>2. CASE outbox' # outbox
    <3> DEFINE F == Frames(Events)
               f == Wire(p, g, n, x)
               r == outbox[p]
               y == Append(r, f)
    <3>1. outbox' = [outbox EXCEPT ![p] = y]
      BY <1>2, <2>2 DEF EmittedAs
    <3>2. r \in Seq(F) /\ outbox = [z \in Pods |-> outbox[z]]
      BY NewsHere DEF Links
    <3>3. f \in F
      <4> DEFINE b == x \in Oversize
      <4>1. b \in BOOLEAN
        OBVIOUS
      <4> HIDE DEF b
      <4>2. [pod |-> p, gen |-> g, seq |-> n, ev |-> x, ref |-> b] \in Frames(Events)
        BY <4>1 DEF Frames
      <4> QED BY <4>2 DEF Wire, b
    <3> HIDE DEF F, f
    <3>4. ToSet(y) = ToSet(r) \cup {f}
      BY <3>2, <3>3, EntriesAppend
    <3> HIDE DEF y
    <3>5. outbox'[p] = y /\ \A z \in Pods : z # p => outbox'[z] = outbox[z]
      BY <3>1, <3>2
    <3> QED BY <3>4, <3>5
  <2> QED BY <2>1, <2>2
<1>6. UNCHANGED <<wire, listening, recv, chain>>
  BY DEF Emit
<1>7. CASE x # e
  <2>1. w[e] = v[e] /\ Unsent(v, w) /\ Onward(v, w)
    BY <1>4, <1>7 DEF Entered
  <2> QED BY <1>5, <1>6, <2>1, ComingOthers
<1>8. CASE x = e /\ q = p
  BY <1>2, <1>8 DEF EmittedAs, Arrives
<1>9. CASE x = e /\ q # p
  <2>1. w[e].pod # q /\ w[e].st # "none"
    BY <1>4, <1>9 DEF Entered
  <2>2. CASE st = "lost"
    <3>1. TailLost(e, w)
      BY <1>4, <1>9, <2>2 DEF Entered, TailLost, StreamOf
    <3> QED BY <2>1, <3>1 DEF Coming
  <2>3. CASE st # "lost"
    <3> DEFINE F == Frames(Events)
               f == Wire(p, g, n, x)
               r == outbox[p]
               y == Append(r, f)
    <3>1. outbox' = [outbox EXCEPT ![p] = y] /\ st \in {"queued", "saving"}
      BY <1>2, <2>3 DEF EmittedAs
    <3>2. r \in Seq(F) /\ outbox = [z \in Pods |-> outbox[z]]
      BY NewsHere DEF Links
    <3>3. f \in F
      <4> DEFINE b == x \in Oversize
      <4>1. b \in BOOLEAN
        OBVIOUS
      <4> HIDE DEF b
      <4>2. [pod |-> p, gen |-> g, seq |-> n, ev |-> x, ref |-> b] \in Frames(Events)
        BY <4>1 DEF Frames
      <4> QED BY <4>2 DEF Wire, b
    <3>6. f.ev = x
      BY DEF Wire
    <3> HIDE DEF F, f
    <3>4. ToSet(y) = ToSet(r) \cup {f}
      BY <3>2, <3>3, EntriesAppend
    <3> HIDE DEF y
    <3>5. outbox'[p] = y
      BY <3>1, <3>2
    <3>7. Queued(e)'
      <4>1. w[e].st \in {"queued", "saving"} /\ w[e].pod = p
        BY <1>4, <1>9, <3>1 DEF Entered
      <4>2. f \in ToSet(outbox'[p]) /\ f.ev = e
        BY <1>9, <3>4, <3>5, <3>6
      <4> QED BY <4>1, <4>2 DEF Queued
    <3> QED BY <2>1, <3>7 DEF Coming
  <2> QED BY <2>2, <2>3
<1> QED BY <1>7, <1>8, <1>9

LEMMA FailComes ==
  ASSUME IInv, Links(Events), NEW e \in Events \ Trace, NEW q \in Pods, Coming(e, q),
         NEW p \in Pods, NEW x \in Events, EmitFails(p, x), HearReset(p)
  PROVE  Coming(e, q)' \/ Arrives(e, q)
<1> DEFINE v == news
           w == news'
<1>1. v \in [Events -> NewsItems] /\ v[x].st = "none" /\ w = Failed(v, x, p)
  BY NewsHere DEF EmitFails, CommitNext, Failed
<1>2. /\ Settling(v, w) /\ w[x].st = "unpublished" /\ w[x].pod = p
      /\ \A y \in Events : y # x => w[y] = v[y]
  <2> HIDE DEF v, w
  <2> QED BY <1>1, FailedFacts
<1>3. UNCHANGED <<wire, listening, recv, chain, outbox>>
  BY DEF EmitFails
<1>4. CASE x # e
  <2>1. w[e] = v[e] /\ Unsent(v, w) /\ Onward(v, w)
    BY <1>2, <1>4 DEF Settling
  <2> QED BY <1>3, <2>1, ComingOthers
<1>5. CASE x = e /\ q # p
  BY <1>2, <1>5 DEF Coming
<1>6. CASE q = p
  <2>1. Kept(sess[p]) /\ sess' = [sess EXCEPT ![p] = Invalidate(sess[p])]
        /\ sess = [z \in Pods |-> sess[z]]
    BY DEF EmitFails, IInv
  <2> DEFINE t == Invalidate(sess[p])
  <2>2. Renews(sess[p], t)
    BY <2>1, InvalidateReaches
  <2> HIDE DEF t
  <2>3. sess'[p] = t
    BY <2>1 DEF t
  <2> QED BY <1>6, <2>2, <2>3 DEF Arrives
<1> QED BY <1>4, <1>5, <1>6

LEMMA SaveComes ==
  ASSUME Links(Events), BusOrder, NEW e \in Events \ Trace, NEW q \in Pods, Coming(e, q),
         NEW p \in Pods, NEW x \in Events, SaveSettles(p, x)
  PROVE  Coming(e, q)'
<1> DEFINE v == news
           w == news'
<1>1. PICK st \in {"queued", "lost"} : w = Fated(v, x, st)
  BY DEF SaveSettles, Fate, Fated
<1>2. v \in [Events -> NewsItems] /\ v[x].st = "saving"
  BY NewsHere DEF SaveSettles
<1>3. /\ Settling(v, w) /\ w[x].st = st /\ w[x].pod = v[x].pod /\ w[x].gen = v[x].gen
      /\ w[x].tseq = v[x].tseq /\ \A y \in Events : y # x => w[y] = v[y]
  <2>1. st \in {"queued", "sent", "lost"} /\ st # "sent" /\ v[x].st \in {"queued", "saving"}
    BY <1>2
  <2> HIDE DEF v, w
  <2> QED BY <1>1, <1>2, <2>1, FateFacts, SettlingFate
<1>4. UNCHANGED <<wire, listening, recv, chain, outbox>>
  BY DEF SaveSettles
<1>5. Unsent(v, w) /\ Onward(v, w)
  BY <1>3 DEF Settling
<1>6. CASE x # e
  <2>1. w[e] = v[e]
    BY <1>3, <1>6
  <2> QED BY <1>4, <1>5, <2>1, ComingOthers
<1>7. CASE x = e
  <2>1. CASE ~listening[q] \/ Told(e, q)
    <3>1. ~listening'[q] \/ Told(e, q)'
      BY <1>4, <2>1 DEF Told
    <3> QED BY <3>1 DEF Coming
  <2>2. CASE v[e].pod # q /\ Queued(e)
    <3>1. w[e].pod # q
      BY <1>3, <1>7, <2>2
    <3>2. CASE st = "lost"
      BY <1>3, <1>5, <1>7, <2>2, <3>1, <3>2, QueuedLost DEF Coming
    <3>3. CASE st = "queued"
      <4>1. Queued(e)'
        BY <1>3, <1>4, <1>7, <2>2, <3>3 DEF Queued
      <4> QED BY <3>1, <4>1 DEF Coming
    <3> QED BY <3>2, <3>3
  <2>3. CASE v[e].pod # q /\ Numbered(e, v) /\ Flies(e, q)
    <3>1. w[e].pod # q /\ Numbered(e, w)
      BY <1>3, <1>7, <2>3 DEF Numbered
    <3>2. Flies(e, q)'
      BY <1>3, <1>4, <1>7, <2>3 DEF Flies, Fresh, FrameAfter, StreamOf
    <3> QED BY <3>1, <3>2 DEF Coming
  <2> QED BY <1>2, <1>7, <2>1, <2>2, <2>3 DEF Coming, TailLost
<1> QED BY <1>6, <1>7

LEMMA LosesComes ==
  ASSUME Links(Events), BusOrder, NEW e \in Events \ Trace, NEW q \in Pods, Coming(e, q),
         NEW p \in Pods, NEW x, Loses(p, x), UNCHANGED <<listening, recv, chain>>
  PROVE  Coming(e, q)'
<1> DEFINE v == news
           w == news'
<1>1. /\ outbox[p] # <<>> /\ x = Head(outbox[p]).ev
      /\ outbox' = [outbox EXCEPT ![p] = Tail(outbox[p])] /\ wire' = wire
      /\ v \in [Events -> NewsItems]
  BY NewsHere DEF Loses
<1>2. x \in Events
  <2> DEFINE F == Frames(Events)
             z == outbox[p]
  <2>1. z \in Seq(F) /\ z # <<>>
    BY <1>1, NewsHere
  <2> HIDE DEF F, z
  <2>2. Head(z) = z[1] /\ 1 \in 1 .. Len(z)
    BY <2>1, TailFacts
  <2>3. IsFrame(Head(z), news)
    BY <2>2 DEF BusOrder, Outgoing, Waits, z
  <2> QED BY <1>1, <2>3 DEF IsFrame, z
<1>3. CASE x # e
  <2>1. Settling(v, w) /\ w[e] = v[e]
    <3>1. CASE w = v
      BY <3>1, SettlingSame
    <3>2. CASE v[x].st = "queued" /\ w = Fated(v, x, "lost")
      <4>1. "lost" \in {"queued", "sent", "lost"} /\ "lost" \in {"queued", "lost"}
            /\ v[x].st \in {"queued", "saving"}
        BY <3>2
      <4> HIDE DEF v, w
      <4> QED BY <1>1, <1>2, <1>3, <3>2, <4>1, FateFacts, SettlingFate
    <3> QED BY <3>1, <3>2 DEF Loses
  <2>2. \A z \in Pods : \A f \in ToSet(outbox[z]) : f.ev = e => f \in ToSet(outbox'[z])
    BY <1>1, <1>3, TailEntries
  <2> QED BY <1>1, <2>1, <2>2, ComingOthers DEF Settling
<1>4. CASE x = e /\ v[e].st = "lost" /\ w = v
  <2>1. TailLost(e, v) => TailLost(e, w)
    BY <1>4
  <2>2. ~Queued(e)
    BY <1>4 DEF Queued
  <2> QED BY <1>1, <1>4, <2>1, <2>2, ComingKept
<1>5. CASE x = e /\ v[e].st = "queued" /\ w = Fated(v, e, "lost")
  <2>1. /\ Settling(v, w) /\ w[e].st = "lost" /\ w[e].pod = v[e].pod /\ w[e].gen = v[e].gen
        /\ w[e].tseq = v[e].tseq
    <3>1. "lost" \in {"queued", "sent", "lost"} /\ "lost" \in {"queued", "lost"}
          /\ v[e].st \in {"queued", "saving"}
      BY <1>5
    <3> HIDE DEF v, w
    <3> QED BY <1>1, <1>5, <3>1, FateFacts, SettlingFate
  <2>2. CASE ~listening[q] \/ Told(e, q)
    <3>1. ~listening'[q] \/ Told(e, q)'
      BY <2>2 DEF Told
    <3> QED BY <3>1 DEF Coming
  <2>3. CASE v[e].pod # q /\ Queued(e)
    BY <2>1, <2>3, QueuedLost DEF Coming, Settling
  <2>4. CASE v[e].pod # q /\ Numbered(e, v) /\ Flies(e, q)
    <3>1. w[e].pod # q /\ Numbered(e, w)
      BY <2>1, <2>4 DEF Numbered
    <3>2. Flies(e, q)'
      BY <1>1, <2>1, <2>4 DEF Flies, Fresh, FrameAfter, StreamOf
    <3> QED BY <3>1, <3>2 DEF Coming
  <2> QED BY <1>5, <2>2, <2>3, <2>4 DEF Coming, TailLost
<1> QED BY <1>3, <1>4, <1>5 DEF Loses

\* A receiver that follows what was sent has not passed a number beyond it.
LEMMA BelowFresh ==
  ASSUME NEW r, NEW o, NEW w \in [Events -> NewsItems], Orderly(r, o, w), NEW e \in Events,
         w[e].tseq >= 1, SentBelow(StreamOf(e, w), w[e].tseq, w)
  PROVE  Fresh(e, r, w)
<1>1. \A x \in Events : w[x].tseq \in Nat
  BY DEF NewsItems
<1>2. ASSUME r.stream = StreamOf(e, w) PROVE r.expected <= w[e].tseq
  <2>1. CASE r.expected = 1
    BY <1>1, <2>1
  <2>2. CASE r.expected # 1
    <3>1. PICK x \in Events : w[x].st = "sent" /\ StreamOf(x, w) = r.stream
                              /\ w[x].tseq + 1 = r.expected
      BY <2>2 DEF Orderly
    <3>2. w[x].tseq < w[e].tseq
      BY <1>2, <3>1 DEF SentBelow
    <3> QED BY <1>1, <3>1, <3>2
  <2> QED BY <2>1, <2>2
<1> QED BY <1>2 DEF Fresh

LEMMA SentComes ==
  ASSUME Links(Events), BusOrder, NEW e \in Events \ Trace, NEW q \in Pods, Coming(e, q),
         NEW p \in Pods, NEW f, Publishes(p, f), UNCHANGED <<listening, recv, chain>>
  PROVE  Coming(e, q)'
<1> DEFINE v == news
           w == news'
           z == outbox[p]
           x == f.ev
<1>1. /\ z \in Seq(Frames(Events)) /\ z # <<>> /\ v \in [Events -> NewsItems]
      /\ Outgoing(z, p, v) /\ x = Head(z).ev /\ v[x].st = "queued" /\ w = Fated(v, x, "sent")
      /\ f = Head(z)
  BY NewsHere DEF Publishes, BusOrder
<1>2. SendsHead(v, w, z, p, x)
  <2> HIDE DEF v, w, z, x
  <2> QED BY <1>1, OutgoingSends
<1>3. /\ x \in Events /\ Onward(v, w) /\ IsFrame(f, v) /\ SentFrame(f, w) /\ f.pod = p
      /\ SentBelow(FrameStream(f), f.seq, v)
      /\ \A y \in Events : y # x => w[y] = v[y]
  BY <1>1, <1>2 DEF SendsHead
<1>4. /\ w[x].st = "sent" /\ w[x].pod = p /\ v[x].pod = p /\ StreamOf(x, w) = FrameStream(f)
      /\ StreamOf(x, v) = FrameStream(f) /\ w[x].tseq = f.seq /\ v[x].tseq = f.seq
      /\ f.seq \in Nat /\ f.seq >= 1
  <2>1. w[x].st = "sent" /\ w[x].pod = p /\ w[x].gen = f.gen /\ w[x].tseq = f.seq
    BY <1>3 DEF SentFrame, IsFrame
  <2>2. v[x].pod = p /\ v[x].gen = f.gen /\ v[x].tseq = f.seq
    BY <1>3 DEF IsFrame
  <2>3. v[x].tseq >= 1
    BY <1>1, <1>3 DEF BusOrder, Numbers, Numbered
  <2>4. v[x].tseq \in Nat
    <3> HIDE DEF x, v
    <3> QED BY <1>1, <1>3 DEF NewsItems
  <2> QED BY <1>3, <2>1, <2>2, <2>3, <2>4 DEF StreamOf, FrameStream
\* What was sent before is what is sent now, but for x.
<1>5. \A y \in Events : y # x /\ w[y].st = "sent" => v[y].st = "sent" /\ StreamOf(y, w) = StreamOf(y, v)
                                                      /\ w[y].tseq = v[y].tseq
  BY <1>3 DEF StreamOf
<1>7. ToSet(wire[q]) \subseteq ToSet(wire'[q])
      /\ (listening[q] /\ q # p => f \in ToSet(wire'[q]))
  <2> DEFINE F == Frames(Events)
             r == wire[q]
  <2>1. r \in Seq(F) /\ z \in Seq(F)
    BY <1>1, NewsHere
  <2> HIDE DEF F, z
  <2>2. f \in F
    BY <1>1, <2>1, TailFacts
  <2>3. wire'[q] = IF listening[q] /\ q # p THEN Append(r, f) ELSE r
    BY DEF Publishes
  <2> HIDE DEF r
  <2>4. ToSet(Append(r, f)) = ToSet(r) \cup {f}
    BY <2>1, <2>2, EntriesAppend
  <2> QED BY <2>3, <2>4 DEF r
<1>8. CASE ~listening[q] \/ Told(e, q)
  <2>1. ~listening'[q] \/ Told(e, q)'
    BY <1>8 DEF Told
  <2> QED BY <2>1 DEF Coming
<1>9. CASE listening[q] /\ ~Told(e, q) /\ e = x
  <2>1. v[e].pod # q /\ q # p /\ f \in ToSet(wire'[q]) /\ w[e].pod # q
    BY <1>1, <1>3, <1>4, <1>7, <1>9 DEF Coming
  <2>2. Fresh(e, recv[q][p], v)
    <3>1. Orderly(recv[q][p], p, v) /\ SentBelow(StreamOf(e, v), v[e].tseq, v) /\ v[e].tseq >= 1
      BY <1>3, <1>4, <1>9 DEF BusOrder
    <3> HIDE DEF v
    <3> QED BY <1>1, <3>1, BelowFresh
  <2>3. Flies(e, q)'
    <3>1. Fresh(e, recv'[q][p], w)
      BY <1>4, <1>9, <2>2 DEF Fresh
    <3>2. FrameAfter(f, e, w)
      BY <1>4, <1>9 DEF FrameAfter
    <3> QED BY <1>4, <1>9, <2>1, <3>1, <3>2 DEF Flies
  <2>4. Numbered(e, w)
    BY <1>4, <1>9 DEF Numbered
  <2> QED BY <2>1, <2>3, <2>4 DEF Coming
<1>10. CASE listening[q] /\ ~Told(e, q) /\ e # x
  <2>1. w[e] = v[e] /\ StreamOf(e, w) = StreamOf(e, v)
    BY <1>3, <1>10 DEF StreamOf
  <2>2. Queued(e) => Queued(e)'
    <3>1. \A y \in Pods : \A g \in ToSet(outbox[y]) : g.ev = e => g \in ToSet(outbox'[y])
      BY <1>1, <1>10, TailEntries DEF Publishes
    <3> QED BY <2>1, <3>1 DEF Queued
  <2>3. CASE TailLost(e, v) => TailLost(e, w)
    BY <1>7, <2>1, <2>2, <2>3, ComingKept
\* The frame reveals the hole.
  <2>4. CASE TailLost(e, v) /\ ~TailLost(e, w)
    <3>1. SentBelow(StreamOf(e, v), v[e].tseq, v) /\ v[e].st = "lost"
      BY <2>4 DEF TailLost
    <3>2. PICK y \in Events : w[y].st = "sent" /\ StreamOf(y, w) = StreamOf(e, v)
                              /\ ~(w[y].tseq < v[e].tseq)
      BY <2>1, <2>4, <3>1 DEF TailLost, SentBelow
    <3>3. y = x
      BY <1>5, <3>1, <3>2 DEF SentBelow
    <3>4. FrameStream(f) = StreamOf(e, v) /\ ~(f.seq < v[e].tseq)
      BY <1>4, <3>2, <3>3
    <3>5. v[e].pod = p
      BY <1>3, <3>4 DEF FrameStream, StreamOf
    <3>6. v[e].tseq \in Nat /\ v[e].tseq >= 1
      <4>1. v[e].tseq \in Nat
        <5> HIDE DEF v
        <5> QED BY <1>1 DEF NewsItems
      <4> QED BY <3>1, <4>1 DEF BusOrder, Numbers, Numbered
    <3>7. CASE v[e].pod = q
      BY <1>10, <2>1, <3>1, <3>7 DEF Coming
    <3>8. CASE v[e].pod # q
      <4>1. Fresh(e, recv[q][p], v)
        <5>1. Orderly(recv[q][p], p, v)
          BY DEF BusOrder
        <5> HIDE DEF v
        <5> QED BY <1>1, <3>1, <3>6, <5>1, BelowFresh
      <4>2. Fresh(e, recv'[q][p], w)
        BY <2>1, <4>1 DEF Fresh
      <4>3. FrameAfter(f, e, w)
        BY <1>4, <2>1, <3>4, <3>6 DEF FrameAfter
      <4>4. f \in ToSet(wire'[q])
        BY <1>7, <1>10, <3>5, <3>8
      <4>5. Flies(e, q)' /\ Numbered(e, w) /\ w[e].pod # q
        BY <2>1, <3>1, <3>5, <3>8, <4>2, <4>3, <4>4 DEF Flies, Numbered
      <4> QED BY <4>5 DEF Coming
    <3> QED BY <3>7, <3>8
  <2> QED BY <2>3, <2>4
<1> QED BY <1>8, <1>9, <1>10

LEMMA PublishComes ==
  ASSUME Links(Events), BusOrder, NEW e \in Events \ Trace, NEW q \in Pods, Coming(e, q),
         NEW p \in Pods, Publish(p)
  PROVE  Coming(e, q)'
<1>1. UNCHANGED <<listening, recv, chain>>
  BY DEF Publish
<1> QED BY <1>1, PublishCases, SentComes, LosesComes

\* Another pod, or another stream of q, takes a frame in.
LEMMA FliesApart ==
  ASSUME NEW e, NEW q \in Pods, NEW z \in Pods, z = news[e].pod, Fresh(e, recv'[q][z], news),
         NEW f \in ToSet(wire'[q]) \cup recv'[q][z].parked, FrameAfter(f, e, news),
         Numbered(e, news), news[e].pod # q, news' = news
  PROVE  Coming(e, q)'
<1>1. Flies(e, q)' /\ Numbered(e, news') /\ news'[e].pod # q
  BY DEF Flies, Numbered
<1> QED BY <1>1 DEF Coming

LEMMA TakesInComes ==
  ASSUME Links(Events), BusOrder, NEW e \in Events \ Trace, NEW q \in Pods, Coming(e, q),
         NEW f, NEW r, TakesIn(q, f, r), UNCHANGED <<listening, news, outbox>>
  PROVE  Coming(e, q)'
<1> DEFINE o == f.pod
           x == Reception(r, f)
           w == news
<1>1. /\ f \in Frames(Events) /\ o \in Pods /\ SentFrame(f, news)
      /\ ToSet(wire[q]) = ToSet(wire'[q]) \cup {f}
      /\ IsRecv(r, Events) /\ Orderly(r, o, news) /\ r.stream = FrameStream(f)
      /\ recv'[q][o] = x.r /\ \A z \in Pods : z # o => recv'[q][z] = recv[q][z]
  BY DEF TakesIn, ChangedAt
<1>2. PICK c : /\ ChangedAt(chain, chain', q, o, c)
               /\ ToSet(chain[q][o]) \subseteq ToSet(c) /\ ToSet(x.tasks) \subseteq ToSet(c)
               /\ \/ r = recv[q][o]
                  \/ /\ recv[q][o].stream # FrameStream(f) /\ r = Opened(FrameStream(f))
                     /\ ToSet(FlushTasks(recv[q][o])) \subseteq ToSet(c)
  BY DEF TakesIn
<1> HIDE DEF x
<1>3. chain'[q][o] = c /\ \A z \in Pods : z # o => chain'[q][z] = chain[q][z]
  BY <1>2 DEF ChangedAt
<1>4. ASSUME NEW t \in ToSet(c), TellsOf(t, e) PROVE Coming(e, q)'
  BY <1>1, <1>3, <1>4 DEF Coming, Told
<1>5. CASE ~listening[q] \/ news[e].st = "none"
  BY <1>5 DEF Coming
<1>6. CASE Told(e, q)
  <2>1. PICK z \in Pods : \E t \in ToSet(chain[q][z]) : TellsOf(t, e)
    BY <1>6 DEF Told
  <2>2. ToSet(chain[q][z]) \subseteq ToSet(chain'[q][z])
    BY <1>2, <1>3
  <2>3. Told(e, q)'
    BY <2>1, <2>2 DEF Told
  <2> QED BY <2>3 DEF Coming
<1>7. CASE /\ news[e].pod # q
           /\ news[e].st = "unpublished" \/ TailLost(e, news) \/ Queued(e)
  <2>1. Queued(e) => Queued(e)'
    BY DEF Queued
  <2> QED BY <1>7, <2>1 DEF Coming
<1>8. CASE news[e].pod # q /\ Numbered(e, news) /\ Flies(e, q)
  <2>1. PICK z \in Pods : /\ z = news[e].pod /\ Fresh(e, recv[q][z], news)
                          /\ \E g \in ToSet(wire[q]) \cup recv[q][z].parked : FrameAfter(g, e, news)
    BY <1>8 DEF Flies
  <2>2. PICK g \in ToSet(wire[q]) \cup recv[q][z].parked : FrameAfter(g, e, news)
    BY <2>1
  <2>3. FrameStream(g) = StreamOf(e, news) /\ g.pod = z
    BY <2>1, <2>2 DEF FrameAfter, FrameStream, StreamOf
  <2>4. CASE z # o
    <3>1. g # f
      BY <2>3, <2>4
    <3>2. recv'[q][z] = recv[q][z] /\ g \in ToSet(wire'[q]) \cup recv'[q][z].parked
      BY <1>1, <2>2, <2>4, <3>1
    <3> HIDE DEF o
    <3> QED BY <1>8, <2>1, <2>2, <3>2, FliesApart
\* The frame is of the stream's pod: it finds e's stream, or another.
  <2>5. CASE z = o
    <3>1. \/ \E t \in ToSet(c) : TellsOf(t, e)
          \/ g \in ToSet(wire[q]) \cup r.parked /\ Fresh(e, r, news)
      <4>1. CASE r = recv[q][o]
        BY <2>1, <2>2, <2>5, <4>1
      <4>2. CASE /\ recv[q][o].stream # FrameStream(f) /\ r = Opened(FrameStream(f))
                 /\ ToSet(FlushTasks(recv[q][o])) \subseteq ToSet(c)
        <5>1. CASE recv[q][o].parked # {}
          <6>1. IsRecv(recv[q][o], Events) /\ Orderly(recv[q][o], o, news)
            BY <1>1, NewsHere DEF BusOrder
          <6>2. Reset \in ToSet(FlushTasks(recv[q][o]))
            BY <5>1, <6>1, FlushedFacts
          <6>3. TellsOf(Reset, e)
            BY DEF TellsOf, Reset
          <6> QED BY <4>2, <6>2, <6>3
        <5>2. CASE recv[q][o].parked = {}
          <6>1. g \in ToSet(wire[q])
            BY <2>2, <2>5, <5>2
          <6>2. r.expected = 1
            BY <4>2, OpenedOrderly
          <6>3. news[e].tseq >= 1
            BY <1>8 DEF BusOrder, Numbers
          <6> QED BY <6>1, <6>2, <6>3 DEF Fresh
        <5> QED BY <5>1, <5>2
      <4> QED BY <1>2, <4>1, <4>2
    <3>2. CASE g \in ToSet(wire[q]) \cup r.parked /\ Fresh(e, r, news)
      <4>1. /\ x.r.stream = r.stream
            /\ StreamOf(e, w) = r.stream /\ r.expected <= w[e].tseq =>
                 \/ \E t \in ToSet(x.tasks) : TellsOf(t, e)
                 \/ /\ x.r.expected <= w[e].tseq
                    /\ \A h \in r.parked \cup {f} : FrameAfter(h, e, w) => h \in x.r.parked
        <5> DEFINE s == sess
        <5>1. w \in [Events -> NewsItems] /\ Numbers(w, s) /\ IsRecv(r, Events)
              /\ f \in Frames(Events) /\ Orderly(r, o, w) /\ SentFrame(f, w)
              /\ FrameStream(f) = r.stream /\ Numbered(e, w)
          BY <1>1, <1>8, NewsHere DEF BusOrder
        <5> HIDE DEF w, s
        <5>2. /\ x.r.stream = r.stream
              /\ \A y \in Events :
                   Numbered(y, w) /\ StreamOf(y, w) = r.stream /\ r.expected <= w[y].tseq =>
                     \/ \E t \in ToSet(x.tasks) : TellsOf(t, y)
                     \/ /\ x.r.expected <= w[y].tseq
                        /\ \A h \in r.parked \cup {f} : FrameAfter(h, y, w) => h \in x.r.parked
          BY <5>1, ReceptionFacts DEF x
        <5> QED BY <5>1, <5>2
      <4>2. CASE StreamOf(e, w) = r.stream
        <5>1. r.expected <= w[e].tseq
          BY <3>2, <4>2 DEF Fresh
        <5>2. CASE \E t \in ToSet(x.tasks) : TellsOf(t, e)
          BY <1>2, <1>4, <5>2
        <5>3. CASE /\ x.r.expected <= w[e].tseq
                   /\ \A h \in r.parked \cup {f} : FrameAfter(h, e, w) => h \in x.r.parked
          <6>1. g \in ToSet(wire'[q]) \cup x.r.parked
            BY <1>1, <2>2, <3>2, <5>3
          <6>2. recv'[q][z] = x.r /\ Fresh(e, x.r, news)
            BY <1>1, <2>5, <5>3 DEF Fresh
          <6> HIDE DEF o, w
          <6> QED BY <1>8, <2>1, <2>2, <6>1, <6>2, FliesApart
        <5> QED BY <4>1, <4>2, <5>1, <5>2, <5>3
      <4>3. CASE StreamOf(e, w) # r.stream
        <5>1. g # f /\ g \notin r.parked
          BY <1>1, <2>3, <4>3 DEF Orderly
        <5>2. g \in ToSet(wire'[q])
          BY <1>1, <3>2, <5>1
        <5>3. recv'[q][z] = x.r /\ Fresh(e, x.r, news)
          BY <1>1, <2>5, <4>1, <4>3 DEF Fresh
        <5> HIDE DEF o, w
        <5> QED BY <1>8, <2>1, <2>2, <5>2, <5>3, FliesApart
      <4> QED BY <4>2, <4>3
    <3> QED BY <1>4, <3>1, <3>2
  <2> QED BY <2>4, <2>5
<1> QED BY <1>5, <1>6, <1>7, <1>8 DEF Coming

LEMMA ReceiveComes ==
  ASSUME Links(Events), BusOrder, NEW e \in Events \ Trace, NEW q \in Pods, Coming(e, q),
         NEW p \in Pods, NEW i \in 1 .. Len(wire[p]), Receive(p, i)
  PROVE  Coming(e, q)'
<1>1. PICK f, r : TakesIn(p, f, r)
  BY SMTT(25), ReceiveTakesIn
<1>2. UNCHANGED <<listening, news, outbox>>
  BY DEF Receive
<1>3. CASE q = p
  BY <1>1, <1>2, <1>3, TakesInComes
<1>4. CASE q # p
  <2>1. wire'[q] = wire[q] /\ \A o \in Pods : recv'[q][o] = recv[q][o] /\ chain'[q][o] = chain[q][o]
    BY <1>1, <1>4 DEF TakesIn, ChangedAt
  <2> QED BY <1>2, <2>1, ComingSame
<1> QED BY <1>3, <1>4

LEMMA TimerComes ==
  ASSUME Links(Events), BusOrder, NEW e \in Events \ Trace, NEW q \in Pods, Coming(e, q),
         NEW p \in Pods, NEW o \in Pods, FlushTimer(p, o) \/ EvictReceive(p, o)
  PROVE  Coming(e, q)'
<1>1. PICK r : Flushes(p, o, r)
  BY TimerFlushes
<1>2. UNCHANGED <<listening, news, outbox, wire>>
  BY DEF FlushTimer, EvictReceive
<1>3. PICK c : /\ ChangedAt(chain, chain', p, o, c) /\ ToSet(chain[p][o]) \subseteq ToSet(c)
               /\ ToSet(FlushTasks(recv[p][o])) \subseteq ToSet(c)
  BY <1>1 DEF Flushes
<1>4. CASE q # p
  <2>1. \A z \in Pods : recv'[q][z] = recv[q][z] /\ chain'[q][z] = chain[q][z]
    BY <1>1, <1>3, <1>4 DEF Flushes, ChangedAt
  <2> QED BY <1>2, <2>1, ComingSame
<1>5. CASE q = p
  <2>1. /\ chain'[q][o] = c /\ \A z \in Pods : z # o => chain'[q][z] = chain[q][z]
        /\ recv'[q][o] = r /\ \A z \in Pods : z # o => recv'[q][z] = recv[q][z]
    BY <1>1, <1>3, <1>5 DEF Flushes, ChangedAt
  <2>2. CASE ~listening[q] \/ news[e].st = "none"
    BY <1>2, <2>2 DEF Coming
  <2>3. CASE Told(e, q)
    <3>1. PICK z \in Pods : \E t \in ToSet(chain[q][z]) : TellsOf(t, e)
      BY <2>3 DEF Told
    <3>2. ToSet(chain[q][z]) \subseteq ToSet(chain'[q][z])
      BY <1>3, <1>5, <2>1
    <3>3. Told(e, q)'
      BY <3>1, <3>2 DEF Told
    <3> QED BY <3>3 DEF Coming
  <2>4. CASE /\ news[e].pod # q
             /\ news[e].st = "unpublished" \/ TailLost(e, news) \/ Queued(e)
    <3>1. Queued(e) => Queued(e)'
      BY <1>2 DEF Queued
    <3> QED BY <1>2, <2>4, <3>1 DEF Coming
  <2>5. CASE news[e].pod # q /\ Numbered(e, news) /\ Flies(e, q)
    <3>1. PICK z \in Pods : /\ z = news[e].pod /\ Fresh(e, recv[q][z], news)
                            /\ \E g \in ToSet(wire[q]) \cup recv[q][z].parked : FrameAfter(g, e, news)
      BY <2>5 DEF Flies
    <3>2. PICK g \in ToSet(wire[q]) \cup recv[q][z].parked : FrameAfter(g, e, news)
      BY <3>1
    <3>3. CASE z # o
      <4>1. recv'[q][z] = recv[q][z] /\ g \in ToSet(wire'[q]) \cup recv'[q][z].parked
        BY <1>2, <2>1, <3>2, <3>3
      <4> QED BY <1>2, <2>5, <3>1, <3>2, <4>1, FliesApart
    <3>4. CASE z = o /\ recv[q][o].parked # {}
      <4>1. IsRecv(recv[q][o], Events) /\ Orderly(recv[q][o], o, news)
        BY NewsHere DEF BusOrder
      <4>2. Reset \in ToSet(FlushTasks(recv[q][o]))
        BY <3>4, <4>1, FlushedFacts
      <4>3. TellsOf(Reset, e)
        BY DEF TellsOf, Reset
      <4>4. Told(e, q)'
        BY <1>3, <1>5, <2>1, <4>2, <4>3 DEF Told
      <4> QED BY <4>4 DEF Coming
    <3>5. CASE z = o /\ recv[q][o].parked = {}
      <4>1. r = NoRecv
        BY <1>1, <1>5, <3>5 DEF Flushes
      <4>2. g \in ToSet(wire'[q])
        BY <1>2, <3>2, <3>5
      <4>3. Fresh(e, recv'[q][z], news)
        <5>1. r.stream = NoStream /\ NoStream.pod = NoPod
          BY <4>1, OpenedOrderly DEF NoRecv, NoStream
        <5>2. StreamOf(e, news).pod \in Pods
          BY <3>1 DEF StreamOf
        <5>3. r.stream # StreamOf(e, news)
          BY <5>1, <5>2, BusConstants
        <5> QED BY <2>1, <3>5, <5>3 DEF Fresh
      <4> QED BY <1>2, <2>5, <3>1, <3>2, <4>2, <4>3, FliesApart
    <3> QED BY <3>3, <3>4, <3>5
  <2> QED BY <2>2, <2>3, <2>4, <2>5 DEF Coming
<1> QED BY <1>4, <1>5

LEMMA TaskComes ==
  ASSUME IInv, Links(Events), NEW e \in Events \ Trace, NEW q \in Pods, Coming(e, q),
         NEW p \in Pods, NEW o \in Pods,
         \/ DeliverNext(p, o) /\ HearEvent(p, Head(chain[p][o]).ev)
         \/ ResetNext(p, o) /\ HearReset(p)
         \/ SkipNext(p, o)
  PROVE  Coming(e, q)' \/ Arrives(e, q)
<1> DEFINE t == Head(chain[p][o])
<1>1. Ends(p, o)
  BY TaskEnds
<1>2. PICK c : /\ ChangedAt(chain, chain', p, o, c)
               /\ ToSet(chain[p][o]) = ToSet(c) \cup {t}
  BY <1>1 DEF Ends
<1>3. UNCHANGED <<listening, news, outbox, wire, recv>>
  BY DEF DeliverNext, ResetNext, SkipNext
<1> HIDE DEF t
<1>4. CASE q # p
  <2>1. \A z \in Pods : chain'[q][z] = chain[q][z]
    BY <1>2, <1>4 DEF ChangedAt
  <2> QED BY <1>3, <2>1, ComingSame
<1>5. CASE q = p /\ ~TellsOf(t, e)
  <2>1. CASE Told(e, q)
    <3>1. PICK z \in Pods : \E y \in ToSet(chain[q][z]) : TellsOf(y, e)
      BY <2>1 DEF Told
    <3>2. \E y \in ToSet(chain'[q][z]) : TellsOf(y, e)
      BY <1>2, <1>5, <3>1 DEF ChangedAt
    <3>3. Told(e, q)'
      BY <3>1, <3>2 DEF Told
    <3> QED BY <3>3 DEF Coming
  <2>2. CASE ~listening[q] \/ news[e].st = "none"
    BY <1>3, <2>2 DEF Coming
  <2>3. CASE /\ news[e].pod # q
             /\ \/ news[e].st = "unpublished" \/ TailLost(e, news) \/ Queued(e)
                \/ Numbered(e, news) /\ Flies(e, q)
    <3>1. (Queued(e) => Queued(e)') /\ (Flies(e, q) => Flies(e, q)')
      BY <1>3 DEF Queued, Flies
    <3> QED BY <1>3, <2>3, <3>1 DEF Coming
  <2> QED BY <2>1, <2>2, <2>3 DEF Coming
<1>6. CASE q = p /\ TellsOf(t, e)
  <2>1. Kept(sess[p]) /\ sess = [z \in Pods |-> sess[z]]
    BY DEF IInv
  <2>2. CASE DeliverNext(p, o) /\ HearEvent(p, Head(chain[p][o]).ev)
    <3>1. t.ev = e
      BY <1>6, <2>2 DEF DeliverNext, TellsOf, t
    <3>2. sess' = [sess EXCEPT ![p] = Announce(sess[p], e)]
      BY <2>2, <3>1 DEF DeliverNext, t
    <3> DEFINE s == Announce(sess[p], e)
    <3>3. Brings(sess[p], s, e)
      BY <2>1, AnnounceReaches
    <3> HIDE DEF s
    <3>4. sess'[p] = s
      BY <2>1, <3>2 DEF s
    <3> QED BY <1>6, <2>2, <3>1, <3>3, <3>4 DEF Arrives, t
  <2>3. CASE ResetNext(p, o) /\ HearReset(p)
    <3> DEFINE s == Invalidate(sess[p])
    <3>1. sess' = [sess EXCEPT ![p] = s]
      BY <2>3 DEF ResetNext
    <3>2. Renews(sess[p], s)
      BY <2>1, InvalidateReaches
    <3> HIDE DEF s
    <3>3. sess'[p] = s
      BY <2>1, <3>1
    <3> QED BY <1>6, <2>3, <3>2, <3>3 DEF Arrives
  <2>4. CASE SkipNext(p, o)
    <3>1. t.ref /\ t.ev \in Trace
      BY <2>4 DEF SkipNext, t
    <3>2. t \in Tasks(Events)
      <4> DEFINE S == Tasks(Events)
                 z == chain[p][o]
      <4>1. z \in Seq(S) /\ z # <<>>
        BY <2>4, NewsHere DEF SkipNext
      <4> HIDE DEF S, z
      <4>2. Head(z) \in S
        BY <4>1, TailFacts
      <4> QED BY <4>2 DEF S, z, t
    <3>3. t.do # "reset"
      BY <3>1, <3>2 DEF Tasks, Reset
    <3> QED BY <1>6, <3>1, <3>3 DEF TellsOf
  <2> QED BY <2>2, <2>3, <2>4
<1> QED BY <1>4, <1>5, <1>6

LEMMA ListenComes ==
  ASSUME IInv, Links(Events), NEW e \in Events \ Trace, NEW q \in Pods, Coming(e, q),
         NEW p \in Pods, Disconnect(p) \/ (Reconnect(p) /\ HearReset(p)) \/ Evict(p)
  PROVE  Coming(e, q)' \/ Arrives(e, q)
<1>1. UNCHANGED <<news, outbox, recv, chain>>
  BY DEF Disconnect, Reconnect, Evict
<1>2. CASE q # p \/ Evict(p)
  <2>1. wire'[q] = wire[q] /\ listening'[q] = listening[q]
    <3>1. listening \in [Pods -> BOOLEAN] /\ wire = [z \in Pods |-> wire[z]]
      BY DEF Links
    <3> QED BY <1>2, <3>1 DEF Disconnect, Reconnect, Evict
  <2> QED BY <1>1, <2>1, ComingSame
<1>3. CASE q = p /\ Disconnect(p)
  <2>1. ~listening'[q]
    <3>1. listening \in [Pods -> BOOLEAN]
      BY DEF Links
    <3> QED BY <1>3, <3>1 DEF Disconnect
  <2> QED BY <2>1 DEF Coming
<1>4. CASE q = p /\ Reconnect(p) /\ HearReset(p)
  <2>1. Kept(sess[p]) /\ sess = [z \in Pods |-> sess[z]]
    BY DEF IInv
  <2>2. Renews(sess[p], sess'[p])
    <3>1. CASE sess[p].tracked
      <4> DEFINE s == Invalidate(sess[p])
      <4>1. sess' = [sess EXCEPT ![p] = s]
        BY <1>4, <3>1 DEF Reconnect
      <4>2. Renews(sess[p], s)
        BY <2>1, InvalidateReaches
      <4> HIDE DEF s
      <4>3. sess'[p] = s
        BY <2>1, <4>1
      <4> QED BY <4>2, <4>3
    <3>2. CASE ~sess[p].tracked
      <4>1. sess'[p] = sess[p]
        BY <1>4, <2>1, <3>2 DEF Reconnect
      <4> QED BY <2>1, <3>2, <4>1, EvictedReaches
    <3> QED BY <3>1, <3>2
  <2> QED BY <1>4, <2>2 DEF Arrives
<1> QED BY <1>2, <1>3, <1>4

LEMMA StillComes ==
  ASSUME NEW e \in Events \ Trace, NEW q \in Pods, Coming(e, q), NoBus
  PROVE  Coming(e, q)'
BY ComingSame DEF NoBus

\* What comes to a pod stays on its way, until the step that brings it or that
\* resets the subscribers of the pod.
LEMMA ComingStep ==
  ASSUME IInv, Links(Events), BusOrder, BusStep,
         NEW e \in Events \ Trace, NEW q \in Pods, Coming(e, q)
  PROVE  Coming(e, q)' \/ Arrives(e, q)
<1>0. \A o \in Pods : Moved(sess[o], sess'[o])
  BY SessionsMove DEF Next
<1>1. ASSUME NEW p \in Pods, NEW x \in Events, Emit(p, x), HearEvent(p, x)
      PROVE  Coming(e, q)' \/ Arrives(e, q)
  BY <1>0, <1>1, EmitComes
<1>2. ASSUME NEW p \in Pods, NEW x \in Events,
             (EmitFails(p, x) /\ HearReset(p)) \/ SaveSettles(p, x)
      PROVE  Coming(e, q)' \/ Arrives(e, q)
  BY <1>0, <1>2, FailComes, SaveComes
<1>3. ASSUME NEW p \in Pods, Publish(p) PROVE Coming(e, q)' \/ Arrives(e, q)
  BY <1>3, PublishComes
<1>4. ASSUME NEW p \in Pods, NEW i \in 1 .. Len(wire[p]), Receive(p, i)
      PROVE  Coming(e, q)' \/ Arrives(e, q)
  BY <1>4, ReceiveComes
<1>5. ASSUME NEW p \in Pods, Disconnect(p) \/ (Reconnect(p) /\ HearReset(p)) \/ Evict(p)
      PROVE  Coming(e, q)' \/ Arrives(e, q)
  BY <1>5, ListenComes
<1>6. ASSUME NEW p \in Pods, NEW o \in Pods, FlushTimer(p, o) \/ EvictReceive(p, o)
      PROVE  Coming(e, q)' \/ Arrives(e, q)
  BY <1>6, TimerComes
<1>7. ASSUME NEW p \in Pods, NEW o \in Pods,
             \/ DeliverNext(p, o) /\ HearEvent(p, Head(chain[p][o]).ev)
             \/ ResetNext(p, o) /\ HearReset(p)
             \/ SkipNext(p, o)
      PROVE  Coming(e, q)' \/ Arrives(e, q)
  BY <1>7, TaskComes
<1> QED BY <1>1, <1>2, <1>3, <1>4, <1>5, <1>6, <1>7 DEF BusStep

-----------------------------------------------------------------------------
(* The client has every change, or something will bring it.  C is the set  *)
(* of the pods that e comes to, c the stream, k the client, f the sessions. *)

Behind(e, id, C, f) == id.pod \in Pods /\ (Ahead(e, id, f[id.pod]) \/ id.pod \in C)

\* The client knows e, or will read it.
Known(e, k) == e \in k.known \/ k.recovering

\* The view will be read with e, or was, or will be found to be too old: the
\* head that the first stream tells is, or will be, compared with its cursor.
Mismatch(v, h) == v.pod # h.pod \/ v.gen # h.gen \/ h.seq > v.seq
FirstHead(c, k) ==
  IF k.head # NoCursor THEN k.head
  ELSE IF c.phase = "opening" /\ k.noCursor THEN c.todo[1].id ELSE NoCursor
InView(e, c, k) ==
  /\ ~k.viewChecked
  /\ \/ k.view = "none" \/ e \in k.viewKnown
     \/ FirstHead(c, k) # NoCursor /\ Mismatch(k.viewCursor, FirstHead(c, k))
FromView(e, C, k, f) ==
  k.view = "none" \/ e \in k.viewKnown \/ Behind(e, k.viewCursor, C, f)

Heard(e, c) == \E i \in 1 .. Len(c.buf) : IsEvent(c.buf[i]) /\ c.buf[i].ev = e
Seen(e, c, k) == Known(e, k) \/ InView(e, c, k)
Piped(e, C, c, k) == Seen(e, c, k) \/ Heard(e, c) \/ c.pod \in C
ByCursor(e, C, c, k, f) == Seen(e, c, k) \/ Behind(e, k.last, C, f)

\* The answer will bring e or a reset, and does.
Answered(e, c, k, f) ==
  /\ ~k.skipReset /\ c.cursor # NoCursor
  /\ c.cursor.pod # c.pod \/ Ahead(e, c.cursor, f[c.pod])
InAnswer(e, c, k) ==
  \E n \in 1 .. Len(c.todo) : \/ IsEvent(c.todo[n]) /\ c.todo[n].ev = e
                              \/ c.todo[n].do = "reset" /\ ~k.skipReset

Away(c) == c.phase \in {"none", "watch"}
Covered(e, C, c, k, f) ==
  /\ Away(c) /\ ~k.connected /\ k.last = NoCursor => FromView(e, C, k, f)
  /\ Away(c) /\ (c.silent \/ ~k.connected) /\ k.last # NoCursor => ByCursor(e, C, c, k, f)
  /\ c.phase = "opening" => Piped(e, C, c, k) \/ Answered(e, c, k, f)
  /\ c.phase = "replay" => Piped(e, C, c, k) \/ InAnswer(e, c, k)
  /\ c.phase = "live" => /\ Piped(e, C, c, k) \/ ResetQueued(c)
                         /\ ByCursor(e, C, c, k, f)

-----------------------------------------------------------------------------
(* What those cases rest on: the client and its stream agree.              *)

Clients ==
  [last : Ids, view : {"none", "read", "applied"}, viewCursor : Ids,
   viewKnown : SUBSET Events, viewChecked : BOOLEAN, noCursor : BOOLEAN, head : Ids,
   connected : BOOLEAN, skipReset : BOOLEAN, recovering : BOOLEAN, known : SUBSET Events]

\* The view and the cursor of the client.
ViewShape(k) ==
  /\ k.view = "applied" => /\ k.viewKnown \subseteq k.known
                           /\ k.head # NoCursor => k.viewChecked
  /\ k.viewChecked => k.view = "applied"
  /\ k.view # "none" => k.viewCursor.pod \in Pods
  /\ k.last = NoCursor \/ k.last.pod \in Pods

\* A client that never had a stream, and one that resumes silently.
AwayShape(c, k) ==
  /\ ~k.connected => /\ Away(c) /\ ~c.silent /\ k.head = NoCursor
                     /\ k.last = NoCursor => ~k.viewChecked
                     /\ c.phase = "none" => k.last = NoCursor
  /\ Away(c) /\ c.silent => k.last # NoCursor /\ ~k.skipReset
  /\ c.phase \in {"watch", "opening"} =>
       c.cursor = k.last /\ (k.noCursor <=> k.last = NoCursor) /\ c.sent = {}

\* An open stream starts with the control frame, then the answer.
OpenShape(c, k) ==
  /\ c.phase = "opening" =>
       Len(c.todo) = 1 /\ c.todo[1].do = "connected" /\ c.todo[1].id.pod = c.pod
  /\ c.phase = "replay" =>
       \/ Len(c.todo) = 1 /\ c.todo[1].do = "reset"
       \/ k.last.pod = c.pod /\ \A n \in 1 .. Len(c.todo) : IsEvent(c.todo[n])
  /\ c.phase = "live" => k.last.pod = c.pod
  /\ c.phase \in {"replay", "live"} => k.last # NoCursor

Shape(c, k) == k \in Clients /\ ViewShape(k) /\ AwayShape(c, k) /\ OpenShape(c, k)

\* What is buffered can be read again from the ring, and what the replay sent
\* of it is known.
BufKept(c, k, f) ==
  /\ c.phase \in {"watch", "opening", "replay", "live"} =>
       \A i \in 1 .. Len(c.buf) : IsEvent(c.buf[i]) /\ c.buf[i].ev \notin Trace =>
         Keeps(c.buf[i].id, c.buf[i].ev, f[c.pod])
  /\ c.phase = "replay" =>
       /\ \A n \in 1 .. Len(c.todo), i \in 1 .. Len(c.buf) :
            IsEvent(c.todo[n]) /\ c.todo[n].id = c.buf[i].id => c.todo[n].ev = c.buf[i].ev
       /\ \A id \in c.sent : At(id, c.pod, f[c.pod])
       /\ \A i \in 1 .. Len(c.buf) : c.buf[i].id \in c.sent => c.buf[i].ev \in k.known

ComesTo(e) == {q \in Pods : Coming(e, q)}
CoverInv == \A e \in Events \ Trace : Covered(e, ComesTo(e), conn, client, sess)
InformInv == CoverInv /\ Shape(conn, client) /\ BufKept(conn, client, sess)

-----------------------------------------------------------------------------
(* What the stream hears keeps the cover.                                  *)

\* An event that comes to all pods is covered, whatever else holds.
LEMMA CoverAll ==
  ASSUME NEW e, NEW C, Pods \subseteq C, NEW c, NEW k, NEW f, Shape(c, k),
         c.phase \notin {"none", "closing"} => c.pod \in Pods
  PROVE  Covered(e, C, c, k, f)
<1>1. k.last # NoCursor => ByCursor(e, C, c, k, f)
  BY DEF Shape, ViewShape, ByCursor, Behind
<1>2. FromView(e, C, k, f)
  BY DEF Shape, ViewShape, Clients, FromView, Behind
<1>3. c.phase \in {"opening", "replay", "live"} => Piped(e, C, c, k)
  BY DEF Piped
<1> QED BY <1>1, <1>2, <1>3 DEF Covered, Shape, OpenShape

\* What c and d have in common: all but what was heard.
SameStream(c, d) ==
  /\ d.phase = c.phase /\ d.pod = c.pod /\ d.cursor = c.cursor /\ d.silent = c.silent
  /\ d.todo = c.todo /\ d.sent = c.sent

Written == {"opening", "replay", "live"}
Shuts(c, d) == c.phase \in Written /\ d.phase = "closing" /\ d.pod = c.pod
ResetLast(d) == d.phase = "live" /\ ResetQueued(d)
Tells(e, c, d) == c.phase \in Written => Heard(e, d) \/ ResetLast(d)
HearsOn(c, d) ==
  \/ Shuts(c, d)
  \/ /\ SameStream(c, d)
     /\ \A e : Heard(e, c) => Heard(e, d) \/ ResetLast(d)
     /\ ResetQueued(c) => ResetQueued(d)

\* What is behind a cursor stays behind it, or comes to its pod.
Brought(e, f, g, q) == \A id \in Ids : Past(id, f[q]) => Ahead(e, id, g[q])
Onto(e, C, D, f, g) ==
  /\ \A q \in Pods : Reaches(f[q], g[q])
  /\ \A q \in C : q \in D \/ Brought(e, f, g, q)

LEMMA BehindOn ==
  ASSUME NEW e, NEW C, NEW D, NEW f, NEW g, Onto(e, C, D, f, g),
         NEW id \in Ids, Placed(id, f), Behind(e, id, C, f)
  PROVE  Behind(e, id, D, g)
<1>1. id.pod \in Pods /\ Past(id, f[id.pod])
  BY DEF Behind, Placed
<1>2. CASE Ahead(e, id, f[id.pod])
  BY <1>1, <1>2 DEF Onto, Reaches, Behind
<1>3. CASE id.pod \in C
  BY <1>1, <1>3 DEF Onto, Brought, Behind
<1> QED BY <1>2, <1>3 DEF Behind

LEMMA CursorOn ==
  ASSUME NEW e, NEW C, NEW D, NEW c, NEW d, NEW k, NEW f, NEW g, Onto(e, C, D, f, g),
         k.last \in Ids, Placed(k.last, f), Seen(e, c, k) => Seen(e, d, k)
  PROVE  ByCursor(e, C, c, k, f) => ByCursor(e, D, d, k, g)
BY BehindOn DEF ByCursor

LEMMA AnswerOn ==
  ASSUME NEW e, NEW C, NEW D, NEW c, NEW d, NEW k, NEW f, NEW g, Onto(e, C, D, f, g),
         c.cursor \in Ids, Placed(c.cursor, f), c.pod \in Pods,
         d.pod = c.pod, d.cursor = c.cursor
  PROVE  Answered(e, c, k, f) => Answered(e, d, k, g)
<1>1. SUFFICES ASSUME c.cursor.pod = c.pod, Ahead(e, c.cursor, f[c.pod])
               PROVE  Ahead(e, c.cursor, g[c.pod])
  BY DEF Answered
<1>2. Past(c.cursor, f[c.pod])
  BY <1>1 DEF Placed
<1> QED BY <1>1, <1>2 DEF Onto, Reaches

LEMMA CoverHears ==
  ASSUME NEW e, NEW C, NEW D, NEW c, NEW d, NEW k, NEW f, NEW g,
         Covered(e, C, c, k, f), HearsOn(c, d), Onto(e, C, D, f, g),
         k.last \in Ids, k.viewCursor \in Ids, c.cursor \in Ids,
         Placed(k.last, f), Placed(k.viewCursor, f), Placed(c.cursor, f),
         c.phase \in Written => c.pod \in Pods,
         c.pod \in C => c.pod \in D \/ Shuts(c, d) \/ Tells(e, c, d)
  PROVE  Covered(e, D, d, k, g)
<1>1. CASE Shuts(c, d)
  BY <1>1 DEF Shuts, Covered, Away
<1>2. CASE /\ SameStream(c, d) /\ ~Shuts(c, d)
           /\ \A x : Heard(x, c) => Heard(x, d) \/ ResetLast(d)
           /\ ResetQueued(c) => ResetQueued(d)
  <2>1. Seen(e, c, k) => Seen(e, d, k)
    BY <1>2 DEF Seen, InView, FirstHead, SameStream
  <2>2. ByCursor(e, C, c, k, f) => ByCursor(e, D, d, k, g)
    BY <2>1, CursorOn
  <2>3. FromView(e, C, k, f) => FromView(e, D, k, g)
    BY BehindOn DEF FromView
  <2>4. c.phase \in Written /\ Piped(e, C, c, k) => Piped(e, D, d, k) \/ ResetLast(d)
    BY <1>2, <2>1 DEF Piped, Tells, SameStream
  <2>5. c.phase \in Written /\ Answered(e, c, k, f) => Answered(e, d, k, g)
    BY <1>2, AnswerOn DEF SameStream
  <2>6. InAnswer(e, c, k) => InAnswer(e, d, k)
    BY <1>2 DEF InAnswer, SameStream
  <2>7. d.phase = c.phase /\ d.silent = c.silent /\ (Away(d) <=> Away(c))
    BY <1>2 DEF SameStream, Away
  <2>8. d.phase = "opening" => Piped(e, D, d, k) \/ Answered(e, d, k, g)
    BY <2>4, <2>5, <2>7 DEF Covered, Written, ResetLast
  <2>9. d.phase = "replay" => Piped(e, D, d, k) \/ InAnswer(e, d, k)
    BY <2>4, <2>6, <2>7 DEF Covered, Written, ResetLast
  <2>10. d.phase = "live" => /\ Piped(e, D, d, k) \/ ResetQueued(d)
                             /\ ByCursor(e, D, d, k, g)
    BY <1>2, <2>2, <2>4, <2>7 DEF Covered, Written, ResetLast
  <2> QED BY <2>2, <2>3, <2>7, <2>8, <2>9, <2>10 DEF Covered
<1> QED BY <1>1, <1>2 DEF HearsOn

Stays(c, d) == SameStream(c, d) /\ d.buf = c.buf
Adds(c, d, frame) == SameStream(c, d) /\ d.buf = Append(c.buf, frame) /\ ~ResetQueued(c)
Resets(c, d) ==
  SameStream(c, d) /\ ResetLast(d) /\ Len(d.buf) = 1 /\ d.buf[1].do = "reset"

LEMMA BufUpdates ==
  ASSUME NEW T, NEW c \in Streams(T), NEW q
  PROVE  LET d == [c EXCEPT !.buf = q]
             h == [c EXCEPT !.hit = TRUE]
         IN  /\ SameStream(c, d) /\ d.buf = q
             /\ SameStream(c, h) /\ h.buf = c.buf
             /\ Closing(c).phase = "closing" /\ Closing(c).pod = c.pod
<1> HIDE DEF StreamFrames, Ids, Phases
<1> QED BY DEF Streams, SameStream, Closing

LEMMA AppendAny ==
  ASSUME NEW S, NEW q \in Seq(S), NEW x
  PROVE  /\ Len(Append(q, x)) = Len(q) + 1 /\ Len(q) \in Nat
         /\ Append(q, x)[Len(q) + 1] = x
         /\ \A i \in 1 .. Len(q) : Append(q, x)[i] = q[i]
OBVIOUS

\* A stream that is not live has events in its buffer only.
LEMMA OnlyLiveResets ==
  ASSUME NEW T, NEW c, NEW f, Sound(T, c, f), ResetQueued(c), c.phase \notin {"none", "closing"}
  PROVE  c.phase = "live"
<1>1. c \in Streams(T) /\ StreamOrder(c, f[c.pod]) /\ Len(c.buf) \in Nat
  BY StreamTypes DEF Sound
<1>2. c.buf \in Seq(StreamFrames(T)) /\ c.buf # <<>>
  BY <1>1, StreamTypes DEF ResetQueued
<1>3. Len(c.buf) \in 1 .. Len(c.buf)
  <2> DEFINE S == StreamFrames(T)
  <2>1. c.buf \in Seq(S)
    BY <1>2
  <2> HIDE DEF S
  <2> QED BY <1>1, <1>2, <2>1
<1>4. ~IsEvent(c.buf[Len(c.buf)])
  BY DEF ResetQueued, IsEvent
<1> QED BY <1>1, <1>3, <1>4 DEF StreamOrder

LEMMA HearEventCases ==
  ASSUME NEW T, Sound(T, conn, sess), NEW p \in Pods, NEW x, HearEvent(p, x)
  PROVE  /\ \/ Stays(conn, conn') \/ Shuts(conn, conn')
            \/ conn.pod = p /\ Adds(conn, conn', EventFrame(Cursor(p, sess'[p]), x))
         /\ conn.pod = p /\ x \notin Trace /\ conn.phase \in Written =>
              \/ Shuts(conn, conn') \/ ResetLast(conn')
              \/ Adds(conn, conn', EventFrame(Cursor(p, sess'[p]), x))
<1> DEFINE f == EventFrame(Cursor(p, sess'[p]), x)
           q == Append(conn.buf, f)
           d == [conn EXCEPT !.buf = q]
           h == [conn EXCEPT !.hit = TRUE]
<1>1. conn \in Streams(T) /\ conn.phase \in Phases
  BY StreamTypes DEF Sound
<1>2. ResetQueued(conn) /\ conn.phase \notin {"none", "closing"} => conn.phase = "live"
  BY OnlyLiveResets
<1> HIDE DEF q, f
<1>3. Stays(conn, conn) /\ Stays(conn, h) /\ SameStream(conn, d) /\ d.buf = q
  BY <1>1, BufUpdates DEF Stays, SameStream
<1>4. Closing(conn).phase = "closing" /\ Closing(conn).pod = conn.pod
  BY <1>1, BufUpdates
<1> HIDE DEF d, h
<1>5. \/ conn' = conn /\ (Deaf(p) \/ (conn.phase # "watch" /\ (x \in Trace \/ ResetQueued(conn))))
      \/ ~Deaf(p) /\ conn.phase = "watch" /\ (conn' = h \/ conn' = d)
      \/ /\ ~Deaf(p) /\ conn.phase # "watch" /\ ~ResetQueued(conn)
         /\ conn' = Closing(conn) \/ conn' = d
  <2> HIDE DEF Deaf, ResetQueued, Closing
  <2> QED BY DEF HearEvent, d, h, q, f
<1>6. CASE conn' = conn /\ (Deaf(p) \/ (conn.phase # "watch" /\ (x \in Trace \/ ResetQueued(conn))))
  BY <1>2, <1>3, <1>6 DEF Deaf, Written, ResetLast
<1>7. CASE ~Deaf(p) /\ conn.phase = "watch" /\ (conn' = h \/ conn' = d)
  BY <1>2, <1>3, <1>7 DEF Deaf, Written, Adds, q, f
<1>8. CASE /\ ~Deaf(p) /\ conn.phase # "watch" /\ ~ResetQueued(conn)
           /\ conn' = Closing(conn) \/ conn' = d
  <2>1. conn.phase \in Written /\ conn.pod = p
    BY <1>1, <1>8 DEF Phases, Written, Deaf
  <2> HIDE DEF Closing
  <2> QED BY <1>3, <1>4, <1>8, <2>1 DEF Shuts, Adds, q, f
<1> QED BY <1>5, <1>6, <1>7, <1>8

LEMMA HearResetCases ==
  ASSUME NEW T, Sound(T, conn, sess), NEW p \in Pods, HearReset(p)
  PROVE  /\ Stays(conn, conn') \/ Shuts(conn, conn') \/ Resets(conn, conn')
         /\ conn.pod = p /\ conn.phase \in Written =>
              Shuts(conn, conn') \/ ResetLast(conn')
<1> DEFINE q == <<Control("reset", NoCursor)>>
           d == [conn EXCEPT !.buf = q]
           h == [conn EXCEPT !.hit = TRUE]
<1>1. conn \in Streams(T) /\ conn.phase \in Phases
  BY StreamTypes DEF Sound
<1>2. Len(q) = 1 /\ q # <<>> /\ q[1].do = "reset"
  BY DEF Control
<1> HIDE DEF q
<1>3. Stays(conn, conn) /\ Stays(conn, h) /\ SameStream(conn, d) /\ d.buf = q
  BY <1>1, BufUpdates DEF Stays, SameStream
<1>4. Closing(conn).phase = "closing" /\ Closing(conn).pod = conn.pod
  BY <1>1, BufUpdates
<1> HIDE DEF d, h
<1>5. ResetQueued(d)
  BY <1>2, <1>3 DEF ResetQueued
<1>6. \/ conn' = conn /\ (Deaf(p) \/ (conn.phase = "live" /\ ResetQueued(conn)))
      \/ conn' = h /\ conn.phase = "watch"
      \/ ~Deaf(p) /\ conn.phase # "watch" /\ conn' = Closing(conn)
      \/ conn.phase = "live" /\ conn' = d
  <2> HIDE DEF Deaf, ResetQueued, Closing
  <2> QED BY DEF HearReset, d, h, q
<1>7. CASE conn' = conn /\ (Deaf(p) \/ (conn.phase = "live" /\ ResetQueued(conn)))
  BY <1>3, <1>7 DEF Deaf, Written, ResetLast
<1>8. CASE conn' = h /\ conn.phase = "watch"
  BY <1>3, <1>8 DEF Written
<1>9. CASE ~Deaf(p) /\ conn.phase # "watch" /\ conn' = Closing(conn)
  <2>1. conn.phase \in Written
    BY <1>1, <1>9 DEF Phases, Written, Deaf
  <2> HIDE DEF Closing
  <2> QED BY <1>4, <1>9, <2>1 DEF Shuts
<1>10. CASE conn.phase = "live" /\ conn' = d
  <2>1. d.phase = "live"
    BY <1>3, <1>10 DEF SameStream
  <2> QED BY <1>2, <1>3, <1>5, <1>10, <2>1 DEF Resets, ResetLast
<1> QED BY <1>6, <1>7, <1>8, <1>9, <1>10

LEMMA CasesHear ==
  ASSUME NEW T, NEW c \in Streams(T), NEW d, NEW frame, IsEvent(frame),
         Stays(c, d) \/ Shuts(c, d) \/ Resets(c, d) \/ Adds(c, d, frame)
  PROVE  /\ HearsOn(c, d)
         /\ Adds(c, d, frame) => Heard(frame.ev, d)
<1>0. Adds(c, d, frame) => Heard(frame.ev, d)
  <2> DEFINE S == StreamFrames(T)
             q == c.buf
             r == Append(q, frame)
  <2> SUFFICES ASSUME d.buf = r PROVE Heard(frame.ev, d)
    BY DEF Adds
  <2>1. q \in Seq(S)
    BY StreamTypes
  <2> HIDE DEF S, q
  <2>2. Len(r) = Len(q) + 1 /\ Len(q) \in Nat /\ r[Len(q) + 1] = frame
    BY <2>1, AppendAny
  <2> HIDE DEF r
  <2>3. Len(q) + 1 \in 1 .. Len(r)
    BY <2>2
  <2> QED BY <2>2, <2>3 DEF Heard
<1>1. CASE Stays(c, d)
  BY <1>0, <1>1 DEF Stays, HearsOn, Heard, ResetQueued
<1>2. CASE Shuts(c, d)
  BY <1>0, <1>2 DEF HearsOn
<1>3. CASE Resets(c, d)
  BY <1>0, <1>3 DEF Resets, HearsOn, ResetLast
<1>4. CASE Adds(c, d, frame)
  <2> DEFINE S == StreamFrames(T)
             q == c.buf
             r == Append(q, frame)
  <2>1. q \in Seq(S) /\ d.buf = r
    BY <1>4, StreamTypes DEF Adds
  <2> HIDE DEF S, q
  <2>2. /\ Len(r) = Len(q) + 1 /\ Len(q) \in Nat /\ r[Len(q) + 1] = frame
        /\ \A i \in 1 .. Len(q) : r[i] = q[i]
    BY <2>1, AppendAny
  <2> HIDE DEF r
  <2>3. Len(q) + 1 \in 1 .. Len(r) /\ \A i \in 1 .. Len(q) : i \in 1 .. Len(r)
    BY <2>2
  <2>4. \A e : Heard(e, c) => Heard(e, d)
    BY <2>1, <2>2, <2>3 DEF Heard, q
  <2> QED BY <1>0, <1>4, <2>4 DEF Adds, HearsOn
<1> QED BY <1>1, <1>2, <1>3, <1>4

\* The newest id of t is x's, and later than all that s has given out.
Newest(s, t, x) ==
  /\ x \notin Trace => Brings(s, t, x)
  /\ t.gen \in Nat /\ t.seq \in Nat
  /\ \A id \in Ids : id.gen = t.gen /\ id.seq = t.seq =>
       Past(id, t) /\ \A old \in Ids : Past(old, s) => Later(id, old)

HearsStep(c, d, f, g) ==
  \/ Stays(c, d) \/ Shuts(c, d) \/ Resets(c, d)
  \/ \E p \in Pods : /\ c.pod = p
                     /\ \E x : /\ Adds(c, d, EventFrame(Cursor(p, g[p]), x))
                               /\ Newest(f[p], g[p], x)

LEMMA NewestAnnounced ==
  ASSUME Sessions(sess), NEW p \in Pods, NEW e,
         \/ sess' = [sess EXCEPT ![p] = Announce(sess[p], e)]
         \/ sess' = [sess EXCEPT ![p] =
              [Announce(sess[p], e) EXCEPT !.tseq = Announce(sess[p], e).tseq + 1]]
  PROVE  Newest(sess[p], sess'[p], e)
<1> DEFINE u == Announce(sess[p], e)
           t == [u EXCEPT !.tseq = u.tseq + 1]
<1>1. Kept(sess[p]) /\ sess = [q \in Pods |-> sess[q]]
  BY DEF Sessions
<1>2. /\ Kept(u) /\ Announces(sess[p], u, e) /\ (e \notin Trace => Brings(sess[p], u, e))
  BY <1>1, AnnounceKept, AnnounceAnnounces, AnnounceReaches
<1>3. e \notin Trace => Brings(sess[p], t, e)
  BY <1>1, <1>2, CountedReaches
<1>4. sess' = [sess EXCEPT ![p] = u] \/ sess' = [sess EXCEPT ![p] = t]
  OBVIOUS
<1> HIDE DEF u
<1>5. u.gen \in Nat /\ u.seq \in Nat
  BY <1>2, KeptTypes
<1>6. Announces(sess[p], t, e) /\ t.gen = u.gen /\ t.seq = u.seq
  <2>1. PICK S : u \in SessionOver(S)
    BY <1>2 DEF Kept
  <2> QED BY <1>2, <2>1, CountedAnnounces DEF SessionOver
<1> HIDE DEF t
<1>7. ASSUME NEW s, sess' = [sess EXCEPT ![p] = s], Announces(sess[p], s, e),
             e \notin Trace => Brings(sess[p], s, e), s.gen \in Nat, s.seq \in Nat
      PROVE  Newest(sess[p], sess'[p], e)
  <2>1. sess'[p] = s
    BY <1>1, <1>7
  <2> QED BY <1>7, <2>1 DEF Newest, Announces
<1> QED BY <1>2, <1>3, <1>4, <1>5, <1>6, <1>7

LEMMA BusHears ==
  ASSUME NEW T, Carried(T), Sessions(sess), BusStep
  PROVE  HearsStep(conn, conn', sess, sess')
<1>1. Sound(T, conn, sess)
  BY DEF Carried
<1>2. ASSUME NEW p \in Pods, NEW x, HearEvent(p, x), Newest(sess[p], sess'[p], x)
      PROVE  HearsStep(conn, conn', sess, sess')
  BY <1>1, <1>2, HearEventCases DEF HearsStep
<1>3. ASSUME NEW p \in Pods, HearReset(p)
      PROVE  HearsStep(conn, conn', sess, sess')
  BY <1>1, <1>3, HearResetCases DEF HearsStep
<1>4. ASSUME HearNothing
      PROVE  HearsStep(conn, conn', sess, sess')
  BY <1>4 DEF HearNothing, HearsStep, Stays, SameStream
<1>5. ASSUME NEW p \in Pods, NEW e \in Events, Emit(p, e) PROVE Newest(sess[p], sess'[p], e)
  BY <1>5, NewestAnnounced DEF Emit
<1>6. ASSUME NEW p \in Pods, NEW o \in Pods, DeliverNext(p, o)
      PROVE  Newest(sess[p], sess'[p], Head(chain[p][o]).ev)
  BY <1>6, NewestAnnounced DEF DeliverNext
<1>7. \/ HearNothing \/ \E p \in Pods : HearReset(p)
      \/ \E p \in Pods, e \in Events : Emit(p, e) /\ HearEvent(p, e)
      \/ \E p, o \in Pods : DeliverNext(p, o) /\ HearEvent(p, Head(chain[p][o]).ev)
  BY DEF BusStep
<1> QED BY <1>2, <1>3, <1>4, <1>5, <1>6, <1>7

\* The subscriber of a pod that e arrives at is told.
LEMMA ArriveTells ==
  ASSUME NEW T, Sound(T, conn, sess), NEW e, e \notin Trace, NEW q \in Pods, Arrives(e, q)
  PROVE  /\ Brought(e, sess, sess', q)
         /\ conn.pod = q => Shuts(conn, conn') \/ Tells(e, conn, conn')
<1>1. conn \in Streams(T)
  BY DEF Sound
<1>2. CASE HearEvent(q, e) /\ Brings(sess[q], sess'[q], e)
  <2>1. Brought(e, sess, sess', q)
    BY <1>2 DEF Brings, Brought
  <2> DEFINE f == EventFrame(Cursor(q, sess'[q]), e)
  <2>2. f.ev = e /\ IsEvent(f)
    BY DEF EventFrame, IsEvent
  <2>3. conn.pod = q /\ conn.phase \in Written =>
              Shuts(conn, conn') \/ ResetLast(conn') \/ Adds(conn, conn', f)
    BY <1>2, HearEventCases
  <2> HIDE DEF f
  <2>4. Adds(conn, conn', f) => Heard(e, conn')
    BY <1>1, <2>2, CasesHear
  <2> QED BY <2>1, <2>3, <2>4 DEF Tells
<1>3. CASE HearReset(q) /\ Renews(sess[q], sess'[q])
  <2>1. Brought(e, sess, sess', q)
    BY <1>3 DEF Renews, Brought
  <2> QED BY <1>3, <2>1, HearResetCases DEF Tells
<1> QED BY <1>2, <1>3 DEF Arrives

\* What is buffered keeps its place in the ring.
LEMMA BufHears ==
  ASSUME NEW T, NEW c, NEW d, NEW k, NEW f, NEW g, Sound(T, c, f), BufKept(c, k, f),
         HearsStep(c, d, f, g), \A q \in Pods : Moved(f[q], g[q])
  PROVE  BufKept(d, k, g)
<1> DEFINE p == c.pod
           Open == c.phase \in {"watch", "opening", "replay", "live"}
<1>1. /\ c \in Streams(T)
      /\ Open => p \in Pods /\ StreamOrder(c, f[p])
  BY DEF Sound
<1>2. /\ Len(c.buf) \in Nat /\ c.sent \subseteq Ids
      /\ \A n \in 1 .. Len(c.todo) : c.todo[n].id \in Ids
      /\ \A i \in 1 .. Len(c.buf) : c.buf[i].id \in Ids
  BY <1>1, StreamTypes
<1>3. ASSUME Open, NEW i \in 1 .. Len(c.buf), IsEvent(c.buf[i]), c.buf[i].ev \notin Trace
      PROVE  Keeps(c.buf[i].id, c.buf[i].ev, g[p])
  <2>1. Keeps(c.buf[i].id, c.buf[i].ev, f[p]) /\ Past(c.buf[i].id, f[p])
    BY <1>1, <1>3 DEF BufKept, StreamOrder, At
  <2> QED BY <1>1, <1>2, <1>3, <2>1 DEF Moved, Reaches
<1>4. c.phase = "replay" => \A id \in c.sent : At(id, p, f[p]) /\ At(id, p, g[p])
  BY <1>1, <1>2 DEF BufKept, Moved, Grows, At
<1>5. CASE Stays(c, d)
  BY <1>3, <1>4, <1>5 DEF BufKept, Stays, SameStream
<1>6. CASE Shuts(c, d)
  BY <1>6 DEF BufKept, Shuts
<1>7. CASE Resets(c, d)
  <2>1. \A i \in 1 .. Len(d.buf) : ~IsEvent(d.buf[i])
    <3>1. \A i \in 1 .. 1 : i = 1
      OBVIOUS
    <3> QED BY <1>7, <3>1 DEF Resets, IsEvent
  <2> QED BY <1>7, <2>1 DEF BufKept, Resets, ResetLast
<1>8. ASSUME NEW x, p \in Pods, Adds(c, d, EventFrame(Cursor(p, g[p]), x)), Newest(f[p], g[p], x)
      PROVE  BufKept(d, k, g)
  <2> DEFINE id == Cursor(p, g[p])
             h == EventFrame(id, x)
             S == StreamFrames(T)
             q == c.buf
             r == Append(q, h)
  <2>1. id \in Ids /\ id.gen = g[p].gen /\ id.seq = g[p].seq
    BY <1>8 DEF Cursor, Ids, Newest
  <2>2. h.id = id /\ h.ev = x
    BY DEF EventFrame
  <2>3. q \in Seq(S) /\ d.buf = r /\ SameStream(c, d)
    BY <1>1, <1>8, StreamTypes DEF Adds
  <2> HIDE DEF S, id, h
  <2>4. /\ Len(r) = Len(q) + 1 /\ Len(q) \in Nat /\ r[Len(q) + 1] = h
        /\ \A i \in 1 .. Len(q) : r[i] = q[i]
    BY <2>3, AppendAny
  <2> HIDE DEF r
  <2>5. \A i \in 1 .. Len(r) : r[i] = h \/ (i \in 1 .. Len(q) /\ r[i] = q[i])
    BY <2>4
  <2>6. x \notin Trace => Keeps(id, x, g[p])
    BY <1>8, <2>1 DEF Newest, Brings
  <2>7. \A old \in Ids : Past(old, f[p]) => Later(id, old)
    BY <1>8, <2>1 DEF Newest
  <2>8. \A old \in Ids : Past(old, f[p]) => old # id
    <3>1. ~Later(id, id)
      BY <2>1 DEF Later, Ids
    <3> QED BY <2>7, <3>1
  <2>9. Open /\ c.phase = "replay" => /\ \A n \in 1 .. Len(c.todo) : c.todo[n].id # id
                                      /\ id \notin c.sent
    BY <1>1, <1>2, <1>4, <2>8 DEF StreamOrder, At
  <2>10. Open => \A i \in 1 .. Len(r) : IsEvent(r[i]) /\ r[i].ev \notin Trace =>
                   Keeps(r[i].id, r[i].ev, g[p])
    BY <1>3, <2>2, <2>5, <2>6
  <2>11. c.phase = "replay" =>
           /\ \A n \in 1 .. Len(c.todo), i \in 1 .. Len(r) :
                IsEvent(c.todo[n]) /\ c.todo[n].id = r[i].id => c.todo[n].ev = r[i].ev
           /\ \A i \in 1 .. Len(r) : r[i].id \in c.sent => r[i].ev \in k.known
    <3> SUFFICES ASSUME c.phase = "replay"
                 PROVE  /\ \A n \in 1 .. Len(c.todo), i \in 1 .. Len(r) :
                             IsEvent(c.todo[n]) /\ c.todo[n].id = r[i].id => c.todo[n].ev = r[i].ev
                        /\ \A i \in 1 .. Len(r) : r[i].id \in c.sent => r[i].ev \in k.known
      OBVIOUS
    <3>1. /\ \A n \in 1 .. Len(c.todo), i \in 1 .. Len(q) :
               IsEvent(c.todo[n]) /\ c.todo[n].id = q[i].id => c.todo[n].ev = q[i].ev
          /\ \A i \in 1 .. Len(q) : q[i].id \in c.sent => q[i].ev \in k.known
      BY DEF BufKept
    <3>2. /\ \A n \in 1 .. Len(c.todo) : c.todo[n].id # id
          /\ id \notin c.sent
      BY <2>9
    <3> HIDE DEF q
    <3> QED BY <2>2, <2>5, <3>1, <3>2
  <2> QED BY <1>4, <2>3, <2>10, <2>11 DEF BufKept, SameStream
<1> QED BY <1>5, <1>6, <1>7, <1>8 DEF HearsStep

LEMMA ShapeHears ==
  ASSUME NEW c, NEW d, NEW k, Shape(c, k), SameStream(c, d) \/ Shuts(c, d)
  PROVE  Shape(d, k)
<1>1. CASE SameStream(c, d)
  BY <1>1 DEF Shape, AwayShape, OpenShape, SameStream, Away
<1>2. CASE Shuts(c, d)
  BY <1>2 DEF Shape, AwayShape, OpenShape, Shuts, Written, Away
<1> QED BY <1>1, <1>2

LEMMA StepHearsOn ==
  ASSUME NEW T, NEW c \in Streams(T), NEW d, NEW f, NEW g, HearsStep(c, d, f, g)
  PROVE  HearsOn(c, d) /\ (SameStream(c, d) \/ Shuts(c, d))
<1> DEFINE h == EventFrame(NoCursor, 0)
<1>1. IsEvent(h) /\ \A id, x : IsEvent(EventFrame(id, x))
  BY DEF IsEvent, EventFrame
<1> HIDE DEF h
<1>2. CASE Stays(c, d) \/ Shuts(c, d) \/ Resets(c, d)
  BY <1>1, <1>2, CasesHear DEF Stays, Resets
<1>3. ASSUME NEW frame, IsEvent(frame), Adds(c, d, frame)
      PROVE  HearsOn(c, d) /\ SameStream(c, d)
  BY <1>3, CasesHear DEF Adds
<1> QED BY <1>1, <1>2, <1>3 DEF HearsStep

LEMMA BusInforms ==
  ASSUME IInv, Carried(Events), BusOrder, InformInv, BusStep
  PROVE  InformInv'
<1> DEFINE c == conn
           d == conn'
           f == sess
           g == sess'
           k == client
<1>1. Sound(Events, c, f) /\ Informed(Events, k, f) /\ Links(Events)
  BY DEF Carried
<1>2. Sessions(sess)
  BY Here
<1>3. client' = k
  BY DEF BusStep
<1>4. HearsStep(c, d, f, g)
  BY <1>2, BusHears
<1>5. \A q \in Pods : Moved(f[q], g[q])
  BY SessionsMove DEF Next
<1>6. /\ c \in Streams(Events) /\ c.cursor \in Ids /\ c.phase \in Phases
      /\ c.phase \in Written => c.pod \in Pods
  BY <1>1, StreamTypes DEF Sound, Written
<1>7. HearsOn(c, d) /\ (SameStream(c, d) \/ Shuts(c, d))
  BY <1>4, <1>6, StepHearsOn
<1>8. k.last \in Ids /\ k.viewCursor \in Ids /\ Placed(k.last, f) /\ Placed(k.viewCursor, f)
      /\ Placed(c.cursor, f)
  BY <1>1, InformedTypes DEF Informed, Sound
<1>9. ASSUME NEW e \in Events \ Trace
      PROVE  Covered(e, ComesTo(e)', d, k, g)
  <2> DEFINE C == ComesTo(e)
             D == ComesTo(e)'
  <2>1. Covered(e, C, c, k, f)
    BY DEF InformInv, CoverInv
  <2>2. ASSUME NEW q \in C
        PROVE  q \in D \/ (/\ Brought(e, f, g, q)
                           /\ c.pod = q => Shuts(c, d) \/ Tells(e, c, d))
    <3>1. q \in Pods /\ Coming(e, q)
      BY DEF ComesTo
    <3>2. Coming(e, q)' \/ Arrives(e, q)
      BY <1>1, <3>1, ComingStep
    <3>3. CASE Coming(e, q)'
      BY <3>1, <3>3 DEF ComesTo
    <3>4. CASE Arrives(e, q)
      BY <1>1, <3>1, <3>4, ArriveTells
    <3> QED BY <3>2, <3>3, <3>4
  <2> HIDE DEF C, D, c, d, f, g, k
  <2>3. Onto(e, C, D, f, g)
    BY <1>5, <2>2 DEF Onto, Moved
  <2>4. c.pod \in C => c.pod \in D \/ Shuts(c, d) \/ Tells(e, c, d)
    BY <2>2
  <2>5. Covered(e, D, d, k, g)
    BY <1>6, <1>7, <1>8, <2>1, <2>3, <2>4, CoverHears
  <2> QED BY <2>5 DEF D
<1>10. Shape(d, k)
  BY <1>7, ShapeHears DEF InformInv
<1>11. BufKept(d, k, g)
  <2>1. BufKept(c, k, f)
    BY DEF InformInv
  <2> HIDE DEF c, d, f, g, k
  <2> QED BY <1>1, <1>4, <1>5, <2>1, BufHears
<1>12. CoverInv'
  BY <1>3, <1>9 DEF CoverInv
<1> QED BY <1>3, <1>10, <1>11, <1>12 DEF InformInv

-----------------------------------------------------------------------------
(* The steps of the client.                                                *)

LEMMA CoverWider ==
  ASSUME NEW e, NEW C, NEW D, C \subseteq D, NEW c, NEW k, NEW f, Covered(e, C, c, k, f)
  PROVE  Covered(e, D, c, k, f)
<1>1. \A id : Behind(e, id, C, f) => Behind(e, id, D, f)
  BY DEF Behind
<1>2. ByCursor(e, C, c, k, f) => ByCursor(e, D, c, k, f)
  BY <1>1 DEF ByCursor
<1>3. FromView(e, C, k, f) => FromView(e, D, k, f)
  BY <1>1 DEF FromView
<1>4. Piped(e, C, c, k) => Piped(e, D, c, k)
  BY DEF Piped
<1> QED BY <1>2, <1>3, <1>4 DEF Covered

\* What a step of the client has to keep: the cover of what is committed.
CoverStep ==
  \A e \in Committed \ Trace : \A C :
    Covered(e, C, conn, client, sess) => Covered(e, C, conn', client', sess')

LEMMA ClientInforms ==
  ASSUME InformInv, NoBus, CoverStep, Shape(conn', client'), BufKept(conn', client', sess'),
         conn'.phase \notin {"none", "closing"} => conn'.pod \in Pods
  PROVE  InformInv'
<1>1. ASSUME NEW e \in Events \ Trace
      PROVE  Covered(e, ComesTo(e)', conn', client', sess')
  <2> DEFINE C == ComesTo(e)
             D == ComesTo(e)'
  <2>1. C \subseteq D
    BY StillComes DEF ComesTo
  <2>2. CASE e \in Committed
    <3>1. Covered(e, C, conn, client, sess)
      BY DEF InformInv, CoverInv
    <3>2. Covered(e, C, conn', client', sess')
      BY <2>2, <3>1 DEF CoverStep
    <3> HIDE DEF C, D
    <3>3. Covered(e, D, conn', client', sess')
      BY <2>1, <3>2, CoverWider
    <3> QED BY <3>3 DEF D
  <2>3. CASE e \notin Committed
    <3>1. news[e].st = "none"
      BY <2>3 DEF Committed
    <3>2. Pods \subseteq C
      BY <3>1 DEF ComesTo, Coming
    <3>3. Pods \subseteq D
      BY <2>1, <3>2
    <3> HIDE DEF D
    <3>4. Covered(e, D, conn', client', sess')
      BY <3>3, CoverAll
    <3> QED BY <3>4 DEF D
  <2> QED BY <2>2, <2>3
<1>2. CoverInv'
  BY <1>1 DEF CoverInv
<1> QED BY <1>2 DEF InformInv

LEMMA BufKeptOn ==
  ASSUME NEW T, NEW c, NEW k, NEW l, NEW f, NEW g, Sound(T, c, f), BufKept(c, k, f),
         \A q \in Pods : Moved(f[q], g[q]), k.known \subseteq l.known
  PROVE  BufKept(c, l, g)
<1>1. Stays(c, c)
  BY DEF Stays, SameStream
<1>2. BufKept(c, k, g)
  BY <1>1, BufHears DEF HearsStep
<1> QED BY <1>2 DEF BufKept

\* The fields of an updated client, one lemma for each update.
SameView(k, l) ==
  l.view = k.view /\ l.viewCursor = k.viewCursor /\ l.viewKnown = k.viewKnown

LEMMA ApplyUpdate ==
  ASSUME NEW k \in Clients, NEW K \in SUBSET Events
  PROVE  LET l == [k EXCEPT !.view = "applied", !.known = K]
         IN  /\ l \in Clients /\ l.view = "applied" /\ l.viewCursor = k.viewCursor
             /\ l.viewKnown = k.viewKnown /\ l.last = k.last /\ l.head = k.head
             /\ l.known = K /\ l.viewChecked = k.viewChecked /\ l.noCursor = k.noCursor
             /\ l.connected = k.connected /\ l.skipReset = k.skipReset
             /\ l.recovering = k.recovering
<1> HIDE DEF Ids, Events
<1> QED BY DEF Clients, SameView

LEMMA RecoverUpdate ==
  ASSUME NEW k \in Clients, NEW K \in SUBSET Events
  PROVE  LET l == [k EXCEPT !.recovering = FALSE, !.known = K]
         IN  /\ l \in Clients /\ SameView(k, l) /\ l.last = k.last /\ l.head = k.head
             /\ l.known = K /\ l.viewChecked = k.viewChecked /\ l.noCursor = k.noCursor
             /\ l.connected = k.connected /\ l.skipReset = k.skipReset
             /\ l.recovering = FALSE
<1> HIDE DEF Ids, Events
<1> QED BY DEF Clients, SameView

LEMMA BeatUpdate ==
  ASSUME NEW k \in Clients
  PROVE  LET l == [k EXCEPT !.skipReset = FALSE]
         IN  /\ l \in Clients /\ SameView(k, l) /\ l.last = k.last /\ l.head = k.head
             /\ l.known = k.known /\ l.viewChecked = k.viewChecked
             /\ l.noCursor = k.noCursor /\ l.connected = k.connected
             /\ l.skipReset = FALSE /\ l.recovering = k.recovering
<1> HIDE DEF Ids, Events
<1> QED BY DEF Clients, SameView

LEMMA LeaveUpdate ==
  ASSUME NEW k \in Clients
  PROVE  LET l == [k EXCEPT !.connected = TRUE]
         IN  /\ l \in Clients /\ SameView(k, l) /\ l.last = k.last /\ l.head = k.head
             /\ l.known = k.known /\ l.viewChecked = k.viewChecked
             /\ l.noCursor = k.noCursor /\ l.connected = TRUE
             /\ l.skipReset = k.skipReset /\ l.recovering = k.recovering
<1> HIDE DEF Ids, Events
<1> QED BY DEF Clients, SameView

LEMMA CheckUpdate ==
  ASSUME NEW k \in Clients, NEW u \in BOOLEAN
  PROVE  LET l == [k EXCEPT !.viewChecked = TRUE, !.recovering = u]
         IN  /\ l \in Clients /\ SameView(k, l) /\ l.last = k.last /\ l.head = k.head
             /\ l.known = k.known /\ l.viewChecked = TRUE /\ l.noCursor = k.noCursor
             /\ l.connected = k.connected /\ l.skipReset = k.skipReset
             /\ l.recovering = u
<1> HIDE DEF Ids, Events
<1> QED BY DEF Clients, SameView

\* checkSnapshotCursor compares the view's cursor with the first head, once.
ChecksView(k, l) ==
  /\ l \in Clients /\ SameView(k, l) /\ l.known = k.known
  /\ l.last = k.last /\ l.head = k.head /\ l.noCursor = k.noCursor
  /\ l.connected = k.connected /\ l.skipReset = k.skipReset
  /\ k.recovering => l.recovering
  /\ \/ l.viewChecked = k.viewChecked /\ ~(~k.viewChecked /\ k.view = "applied" /\ k.head # NoCursor)
     \/ /\ ~k.viewChecked /\ k.view = "applied" /\ k.head # NoCursor
        /\ l.viewChecked /\ (Mismatch(k.viewCursor, k.head) => l.recovering)

LEMMA CheckedFacts ==
  ASSUME NEW k \in Clients
  PROVE  ChecksView(k, Checked(k))
<1> DEFINE u == \/ k.recovering \/ k.viewCursor.pod # k.head.pod
                \/ k.viewCursor.gen # k.head.gen \/ k.head.seq > k.viewCursor.seq
           d == [k EXCEPT !.viewChecked = TRUE, !.recovering = u]
<1>1. \/ Checked(k) = k /\ ~(~k.viewChecked /\ k.view = "applied" /\ k.head # NoCursor)
      \/ Checked(k) = d /\ ~k.viewChecked /\ k.view = "applied" /\ k.head # NoCursor
  BY DEF Checked
<1>2. u \in BOOLEAN /\ (k.recovering => u) /\ (Mismatch(k.viewCursor, k.head) => u)
  BY DEF Mismatch
<1> HIDE DEF u
<1>3. NoCursor \in Ids
  BY PlacedNone
<1>4. /\ d \in Clients /\ SameView(k, d) /\ d.known = k.known
      /\ d.last = k.last /\ d.head = k.head
      /\ d.viewChecked = TRUE /\ d.noCursor = k.noCursor
      /\ d.connected = k.connected /\ d.skipReset = k.skipReset
      /\ d.recovering = u
  <2> HIDE DEF SameView
  <2> QED BY <1>2, CheckUpdate
<1> HIDE DEF d
<1>5. SameView(k, k)
  BY DEF SameView
<1> QED BY <1>1, <1>2, <1>4, <1>5 DEF ChecksView

\* What is still seen when the view may have been applied and checked.
LEMMA SeenChecked ==
  ASSUME NEW e, NEW c, NEW d, NEW k, NEW m, NEW l, Seen(e, c, k), ChecksView(m, l),
         m.viewChecked = k.viewChecked, m.viewCursor = k.viewCursor, m.viewKnown = k.viewKnown,
         k.known \subseteq m.known, k.recovering => m.recovering,
         FirstHead(d, m) = FirstHead(c, k), d.phase # "opening" \/ l.noCursor = m.noCursor,
         k.view = "none" => m.view = "none",
         m.view = "applied" => m.viewKnown \subseteq m.known
  PROVE  Seen(e, d, l)
<1>1. CASE Known(e, k)
  BY <1>1 DEF Seen, Known, ChecksView
<1>2. CASE InView(e, c, k) /\ m.view = "applied" /\ m.head # NoCursor
  <2>1. ~m.viewChecked /\ FirstHead(d, m) = m.head
    BY <1>2 DEF InView, FirstHead
  <2>2. e \in m.viewKnown \/ Mismatch(m.viewCursor, m.head)
    BY <1>2, <2>1 DEF InView
  <2> QED BY <1>2, <2>1, <2>2 DEF Seen, Known, ChecksView
<1>3. CASE InView(e, c, k) /\ ~(m.view = "applied" /\ m.head # NoCursor)
  <2>1. ~l.viewChecked /\ l.view = m.view /\ l.viewKnown = m.viewKnown
        /\ l.viewCursor = m.viewCursor /\ l.head = m.head /\ l.noCursor = m.noCursor
    BY <1>3 DEF InView, ChecksView, SameView
  <2>2. FirstHead(d, l) = FirstHead(d, m)
    BY <2>1 DEF FirstHead
  <2> QED BY <1>3, <2>1, <2>2 DEF Seen, InView
<1> QED BY <1>1, <1>2, <1>3 DEF Seen

-----------------------------------------------------------------------------
LEMMA ReadViewInforms ==
  ASSUME IInv, Carried(Events), InformInv, \A q \in Pods : Moved(sess[q], sess'[q]),
         NEW p \in Pods, ReadView(p)
  PROVE  InformInv'
<1> DEFINE c == conn
           k == client
           l == client'
           f == sess
           g == sess'
           id == Cursor(p, sess'[p])
           K == Committed
<1>1. conn' = c /\ NoBus /\ k.view = "none" /\ k \in Clients
  BY DEF ReadView, InformInv, Shape
<1>2. id \in Ids /\ id.pod = p
  <2> DEFINE t == Touch(sess[p])
  <2>1. Kept(sess[p]) /\ sess = [q \in Pods |-> sess[q]]
    BY DEF IInv
  <2>2. sess' = [sess EXCEPT ![p] = t] /\ Kept(t)
    BY <2>1, TouchKept DEF ReadView, Track
  <2> HIDE DEF t
  <2>3. sess'[p] = t /\ t.gen \in Nat /\ t.seq \in Nat
    BY <2>1, <2>2, KeptTypes
  <2> QED BY <2>3, PastHead
<1>3. l = [k EXCEPT !.view = "read", !.viewCursor = id, !.viewKnown = K]
  BY DEF ReadView
<1>4. K \in SUBSET Events
  BY DEF Committed
<1> HIDE DEF id, K
<1>5. /\ l \in Clients /\ l.view = "read" /\ l.viewCursor = id /\ l.viewKnown = K
      /\ l.last = k.last /\ l.head = k.head /\ l.known = k.known
      /\ l.viewChecked = k.viewChecked /\ l.noCursor = k.noCursor
      /\ l.connected = k.connected /\ l.skipReset = k.skipReset
      /\ l.recovering = k.recovering
  <2>1. k \in Clients /\ id \in Ids
    BY <1>1, <1>2
  <2> HIDE DEF k, l
  <2> HIDE DEF Ids, Events
  <2> QED BY <1>3, <1>4, <2>1 DEF Clients
<1>6. Sound(Events, c, f) /\ Informed(Events, k, f)
  BY DEF Carried
<1>7. BufKept(c, l, g)
  <2>1. BufKept(c, k, f) /\ \A q \in Pods : Moved(f[q], g[q])
    BY DEF InformInv
  <2>2. k.known \subseteq l.known
    BY <1>5
  <2> HIDE DEF c, k, l, f, g
  <2> QED BY <1>6, <2>1, <2>2, BufKeptOn
<1>8. Shape(c, k) /\ ~k.viewChecked
  BY <1>1 DEF InformInv, Shape, ViewShape
<1>9. Shape(c, l)
  BY <1>2, <1>5, <1>8 DEF Shape, ViewShape, AwayShape, OpenShape
<1>10. CoverStep
  <2> SUFFICES ASSUME NEW e \in K, NEW C, Covered(e, C, c, k, f)
               PROVE  Covered(e, C, c, l, g)
    BY <1>1 DEF CoverStep, K
  <2>1. Seen(e, c, l) /\ FromView(e, C, l, g)
    BY <1>5, <1>8 DEF Seen, InView, FromView
  <2> QED BY <2>1 DEF Covered, ByCursor, Piped
<1>11. c.phase \notin {"none", "closing"} => c.pod \in Pods
  BY <1>6 DEF Sound
<1> QED BY <1>1, <1>7, <1>9, <1>10, <1>11, ClientInforms

LEMMA ApplyViewInforms ==
  ASSUME Carried(Events), InformInv, ApplyView
  PROVE  InformInv'
<1> DEFINE c == conn
           k == client
           l == client'
           f == sess
           K == client.known \cup client.viewKnown
           m == [client EXCEPT !.view = "applied", !.known = K]
<1>1. conn' = c /\ sess' = f /\ NoBus /\ k.view = "read" /\ k \in Clients /\ l = Checked(m)
  BY DEF ApplyView, InformInv, Shape
<1>2. NoCursor \in Ids /\ K \in SUBSET Events /\ k.known \subseteq K /\ k.viewKnown \subseteq K
  <2>1. NoCursor \in Ids
    BY PlacedNone
  <2> QED BY <1>1, <2>1 DEF Clients
<1> HIDE DEF K
<1>3. /\ m \in Clients /\ m.view = "applied" /\ m.known = K
      /\ m.viewCursor = k.viewCursor /\ m.viewKnown = k.viewKnown
      /\ m.last = k.last /\ m.head = k.head
      /\ m.viewChecked = k.viewChecked /\ m.noCursor = k.noCursor
      /\ m.connected = k.connected /\ m.skipReset = k.skipReset
      /\ m.recovering = k.recovering
  BY ZenonT(40), <1>1, <1>2, ApplyUpdate
<1> HIDE DEF m
<1>4. ChecksView(m, l)
  BY <1>1, <1>3, CheckedFacts
<1>5. Sound(Events, c, f)
  BY DEF Carried
<1>6. BufKept(c, l, f)
  BY <1>2, <1>3, <1>4 DEF InformInv, BufKept, ChecksView
<1>7. Shape(c, k) /\ ~k.viewChecked
  BY <1>1 DEF InformInv, Shape, ViewShape
<1>8. Shape(c, l)
  <2>1. /\ l \in Clients /\ l.view = "applied" /\ l.viewCursor = k.viewCursor
        /\ l.viewKnown \subseteq l.known /\ l.last = k.last /\ l.head = k.head
        /\ l.noCursor = k.noCursor /\ l.connected = k.connected /\ l.skipReset = k.skipReset
        /\ l.viewChecked => k.head # NoCursor
        /\ k.head # NoCursor => l.viewChecked
    BY <1>2, <1>3, <1>4, <1>7 DEF ChecksView, SameView
  <2> QED BY <1>1, <1>7, <2>1 DEF Shape, ViewShape, AwayShape, OpenShape
<1>9. CoverStep
  <2> SUFFICES ASSUME NEW e, NEW C, Covered(e, C, c, k, f)
               PROVE  Covered(e, C, c, l, f)
    BY <1>1 DEF CoverStep
  <2>1. l.last = k.last /\ l.viewCursor = k.viewCursor /\ l.viewKnown = k.viewKnown
        /\ l.connected = k.connected /\ l.skipReset = k.skipReset /\ l.view = "applied"
    BY <1>3, <1>4 DEF ChecksView, SameView
  <2>2. FirstHead(c, m) = FirstHead(c, k) /\ l.noCursor = m.noCursor
    BY <1>3, <1>4 DEF FirstHead, ChecksView
  <2>3. Seen(e, c, k) => Seen(e, c, l)
    BY <1>1, <1>2, <1>3, <1>4, <2>2, SeenChecked
  <2>4. FromView(e, C, k, f) => FromView(e, C, l, f)
    BY <1>1, <2>1 DEF FromView
  <2>5. ByCursor(e, C, c, k, f) => ByCursor(e, C, c, l, f)
    BY <2>1, <2>3 DEF ByCursor
  <2>6. Piped(e, C, c, k) => Piped(e, C, c, l)
    BY <2>3 DEF Piped
  <2>7. /\ Answered(e, c, k, f) => Answered(e, c, l, f)
        /\ InAnswer(e, c, k) => InAnswer(e, c, l)
    BY <2>1 DEF Answered, InAnswer
  <2> HIDE DEF c, k, l, f
  <2> QED BY <2>1, <2>4, <2>5, <2>6, <2>7 DEF Covered
<1>10. c.phase \notin {"none", "closing"} => c.pod \in Pods
  BY <1>5 DEF Sound
<1> QED BY <1>1, <1>6, <1>8, <1>9, <1>10, ClientInforms

\* Streams that are none yet, or are not any more.
LEMMA NoConnFields ==
  ASSUME NEW z \in BOOLEAN
  PROVE  LET d == NoConn(z)
         IN  d.phase = "none" /\ d.silent = z /\ d.buf = <<>> /\ d.sent = {}
<1> HIDE DEF NoCursor
<1> QED BY DEF NoConn

LEMMA WatchFields ==
  ASSUME NEW z, NEW p \in Pods, NEW i \in Ids
  PROVE  LET d == [NoConn(z) EXCEPT !.phase = "watch", !.pod = p, !.cursor = i]
         IN  /\ d.phase = "watch" /\ d.pod = p /\ d.cursor = i /\ d.silent = z
             /\ Len(d.buf) = 0 /\ d.sent = {}
<1> HIDE DEF NoCursor
<1> QED BY DEF NoConn

\* Connected again, with no stream and none to be resumed silently.
LEMMA EndedInforms ==
  ASSUME InformInv, NoBus, client'.connected, client' \in Clients, ViewShape(client'),
         conn'.phase = "none", ~conn'.silent
  PROVE  InformInv'
<1> DEFINE d == conn'
           l == client'
           g == sess'
<1>1. CoverStep
  <2>1. \A e, C : Covered(e, C, d, l, g)
    BY DEF Covered
  <2> QED BY <2>1 DEF CoverStep
<1>2. Shape(d, l)
  BY DEF Shape, AwayShape, OpenShape, Away
<1>3. BufKept(d, l, g)
  BY DEF BufKept
<1> QED BY <1>1, <1>2, <1>3, ClientInforms

LEMMA EndInforms ==
  ASSUME InformInv, EndStream
  PROVE  InformInv'
<1>1. conn' = NoConn(FALSE) /\ client' = client /\ NoBus /\ conn.phase = "closing"
  BY DEF EndStream
<1>2. conn'.phase = "none" /\ ~conn'.silent
  BY <1>1, NoConnFields
<1>3. client.connected /\ client \in Clients /\ ViewShape(client)
  BY <1>1 DEF InformInv, Shape, AwayShape, Away
<1> QED BY <1>1, <1>2, <1>3, EndedInforms

LEMMA LeaveInforms ==
  ASSUME InformInv, Leave(FALSE)
  PROVE  InformInv'
<1> DEFINE k == client
           l == client'
<1>1. conn' = NoConn(FALSE) /\ l = [k EXCEPT !.connected = TRUE] /\ NoBus
  BY DEF Leave
<1>2. conn'.phase = "none" /\ ~conn'.silent
  BY <1>1, NoConnFields
<1>3. k \in Clients /\ ViewShape(k)
  BY DEF InformInv, Shape
<1>4. l \in Clients /\ SameView(k, l) /\ l.last = k.last /\ l.head = k.head
      /\ l.known = k.known /\ l.viewChecked = k.viewChecked /\ l.connected = TRUE
  BY <1>1, <1>3, LeaveUpdate
<1>5. ViewShape(l)
  BY <1>3, <1>4 DEF ViewShape, SameView
<1> QED BY <1>1, <1>2, <1>4, <1>5, EndedInforms

\* A silent resume keeps the cursor of a stream that was live.
LEMMA PauseInforms ==
  ASSUME Carried(Events), InformInv, \A q \in Pods : Moved(sess[q], sess'[q]),
         "earlyPause" \notin Faults, Leave(TRUE)
  PROVE  InformInv'
<1> DEFINE c == conn
           d == conn'
           k == client
           f == sess
           g == sess'
<1>1. /\ d = NoConn(TRUE) /\ client' = k /\ NoBus /\ k.connected
      /\ Fault(IF c.phase = "live" /\ ~k.skipReset THEN "pause" ELSE "earlyPause")
  BY DEF Leave
<1>2. c.phase = "live" /\ ~k.skipReset
  BY <1>1 DEF Fault
<1>3. d.phase = "none" /\ d.silent = TRUE
  BY <1>1, NoConnFields
<1>4. Shape(c, k)
  BY DEF InformInv
<1>5. k.last # NoCursor /\ k.last \in Ids /\ Placed(k.last, f)
  BY <1>2, <1>4, InformedTypes DEF Shape, OpenShape, Carried, Informed
<1>6. Shape(d, k)
  BY <1>1, <1>2, <1>3, <1>4, <1>5 DEF Shape, AwayShape, OpenShape
<1>7. BufKept(d, k, g)
  BY <1>3 DEF BufKept
<1>8. CoverStep
  <2> SUFFICES ASSUME NEW e, NEW C, Covered(e, C, c, k, f)
               PROVE  Covered(e, C, d, k, g)
    BY <1>1 DEF CoverStep
  <2>1. ByCursor(e, C, c, k, f)
    BY <1>2 DEF Covered
  <2>2. Seen(e, c, k) => Seen(e, d, k)
    BY <1>2, <1>3 DEF Seen, InView, FirstHead
  <2>3. Onto(e, C, C, f, g)
    BY DEF Onto, Moved
  <2> HIDE DEF c, d, k, f, g
  <2>4. ByCursor(e, C, d, k, g)
    BY <1>5, <2>1, <2>2, <2>3, CursorOn
  <2> QED BY <1>3, <1>5, <2>4 DEF Covered
<1> QED BY <1>1, <1>3, <1>6, <1>7, <1>8, ClientInforms

LEMMA RecoverInforms ==
  ASSUME Carried(Events), InformInv, Recover
  PROVE  InformInv'
<1> DEFINE c == conn
           k == client
           l == client'
           f == sess
           K == client.known \cup Committed
<1>1. conn' = c /\ sess' = f /\ NoBus /\ l = [k EXCEPT !.recovering = FALSE, !.known = K]
  BY DEF Recover
<1>2. k \in Clients /\ Shape(c, k)
  BY DEF InformInv, Shape
<1>3. K \in SUBSET Events /\ k.known \subseteq K /\ Committed \subseteq K
  BY <1>2 DEF Committed, Clients
<1> HIDE DEF K
<1>4. /\ l \in Clients /\ SameView(k, l) /\ l.last = k.last /\ l.head = k.head
      /\ l.known = K /\ l.viewChecked = k.viewChecked /\ l.noCursor = k.noCursor
      /\ l.connected = k.connected /\ l.skipReset = k.skipReset
  BY <1>1, <1>2, <1>3, RecoverUpdate
<1>5. Shape(c, l)
  BY <1>2, <1>3, <1>4 DEF Shape, ViewShape, AwayShape, OpenShape, SameView
<1>6. BufKept(c, l, f)
  BY <1>3, <1>4 DEF InformInv, BufKept
<1>7. CoverStep
  <2> SUFFICES ASSUME NEW e \in Committed, NEW C, Covered(e, C, c, k, f)
               PROVE  Covered(e, C, c, l, f)
    BY <1>1 DEF CoverStep
  <2>1. Seen(e, c, l)
    BY <1>3, <1>4 DEF Seen, Known
  <2>2. FromView(e, C, k, f) => FromView(e, C, l, f)
    BY <1>4 DEF FromView, SameView
  <2> QED BY <1>4, <2>1, <2>2 DEF Covered, ByCursor, Piped
<1>8. c.phase \notin {"none", "closing"} => c.pod \in Pods
  BY DEF Carried, Sound
<1> QED BY <1>1, <1>5, <1>6, <1>7, <1>8, ClientInforms

LEMMA HeartbeatInforms ==
  ASSUME Carried(Events), InformInv, Heartbeat
  PROVE  InformInv'
<1> DEFINE c == conn
           k == client
           l == client'
           f == sess
<1>1. conn' = c /\ sess' = f /\ NoBus /\ l = [k EXCEPT !.skipReset = FALSE] /\ c.phase = "live"
  BY DEF Heartbeat
<1>2. k \in Clients /\ Shape(c, k)
  BY DEF InformInv, Shape
<1>3. /\ l \in Clients /\ SameView(k, l) /\ l.last = k.last /\ l.head = k.head
      /\ l.known = k.known /\ l.viewChecked = k.viewChecked /\ l.noCursor = k.noCursor
      /\ l.connected = k.connected /\ l.recovering = k.recovering
  BY <1>1, <1>2, BeatUpdate
<1>4. Shape(c, l)
  BY <1>1, <1>2, <1>3 DEF Shape, ViewShape, AwayShape, OpenShape, SameView, Away
<1>5. BufKept(c, l, f)
  BY <1>3 DEF InformInv, BufKept
<1>6. CoverStep
  <2> SUFFICES ASSUME NEW e, NEW C, Covered(e, C, c, k, f)
               PROVE  Covered(e, C, c, l, f)
    BY <1>1 DEF CoverStep
  <2>1. Seen(e, c, k) => Seen(e, c, l)
    BY <1>1, <1>3 DEF Seen, Known, InView, FirstHead, SameView
  <2> QED BY <1>1, <1>3, <2>1 DEF Covered, ByCursor, Piped, Away
<1>7. c.phase \notin {"none", "closing"} => c.pod \in Pods
  BY DEF Carried, Sound
<1> QED BY <1>1, <1>4, <1>5, <1>6, <1>7, ClientInforms

LEMMA StutterInforms ==
  ASSUME Carried(Events), InformInv, UNCHANGED vars
  PROVE  InformInv'
<1>1. NoBus /\ conn' = conn /\ client' = client /\ sess' = sess
  BY DEF vars, busVars, NoBus
<1>2. CoverStep
  BY <1>1 DEF CoverStep
<1>3. Shape(conn', client') /\ BufKept(conn', client', sess')
  BY <1>1 DEF InformInv
<1>4. conn'.phase \notin {"none", "closing"} => conn'.pod \in Pods
  BY <1>1 DEF Carried, Sound
<1> QED BY <1>1, <1>2, <1>3, <1>4, ClientInforms

LEMMA ConnectInforms ==
  ASSUME InformInv, NEW p \in Pods, Connect(p)
  PROVE  InformInv'
<1> DEFINE c == conn
           d == conn'
           k == client
           l == client'
           f == sess
           align == k.last = NoCursor /\ k.view = "applied" /\ ~k.viewChecked
           last == IF align THEN k.viewCursor ELSE k.last
           u == k.viewChecked \/ align
           v == last = NoCursor
<1>1. /\ c.phase = "none" /\ sess' = f /\ NoBus
      /\ l = [k EXCEPT !.last = last, !.viewChecked = u, !.noCursor = v]
      /\ d = [NoConn(c.silent) EXCEPT !.phase = "watch", !.pod = p, !.cursor = last]
  BY DEF Connect
<1>2. Shape(c, k) /\ k \in Clients
  BY DEF InformInv, Shape
<1>3. last \in Ids
  BY <1>2 DEF Clients
<1>4. NoPod \notin Pods /\ NoCursor.pod = NoPod
  BY BusConstants DEF NoCursor
<1>5. \/ align /\ last = k.viewCursor /\ last # NoCursor /\ u /\ last.pod \in Pods
      \/ ~align /\ last = k.last /\ (u <=> k.viewChecked)
  BY <1>2, <1>4 DEF Shape, ViewShape
<1>6. u \in BOOLEAN /\ v \in BOOLEAN /\ (v <=> last = NoCursor)
  BY <1>2 DEF Clients
<1>7. align => k.last = NoCursor /\ k.view = "applied" /\ ~k.viewChecked
  OBVIOUS
<1> HIDE DEF last, u, v, align
<1>8. /\ d.phase = "watch" /\ d.pod = p /\ d.cursor = last /\ d.silent = c.silent
      /\ Len(d.buf) = 0 /\ d.sent = {}
  <2> HIDE DEF d, c
  <2> QED BY <1>1, <1>3, WatchFields
<1>9. /\ l \in Clients /\ SameView(k, l) /\ l.last = last /\ l.head = k.head
      /\ l.known = k.known /\ l.viewChecked = u /\ l.noCursor = v
      /\ l.connected = k.connected /\ l.skipReset = k.skipReset
      /\ l.recovering = k.recovering
  <2> HIDE DEF Ids, Events, k, l
  <2> QED BY <1>1, <1>2, <1>3, <1>6 DEF Clients, SameView
<1> HIDE DEF c, d, k, l, f
<1>10. ViewShape(l)
  BY <1>2, <1>5, <1>7, <1>9 DEF Shape, ViewShape, SameView
<1>11. AwayShape(d, l)
  BY <1>1, <1>2, <1>5, <1>6, <1>8, <1>9 DEF Shape, AwayShape, Away
<1>12. Shape(d, l)
  BY <1>8, <1>9, <1>10, <1>11 DEF Shape, OpenShape
<1>13. BufKept(d, l, f)
  BY <1>8 DEF BufKept
<1>14. ASSUME NEW e, NEW C, Covered(e, C, c, k, f)
       PROVE  Covered(e, C, d, l, f)
  <2>1. CASE align
    <3>1. ~k.connected => FromView(e, C, k, f)
      BY <1>1, <1>7, <1>14, <2>1 DEF Covered, Away
    <3>2. c.silent => FALSE
      BY <1>1, <1>2, <1>7, <2>1 DEF Shape, AwayShape, Away
    <3>3. k.viewKnown \subseteq k.known
      BY <1>2, <1>7, <2>1 DEF Shape, ViewShape
    <3>4. FromView(e, C, k, f) => ByCursor(e, C, d, l, f)
      BY <1>5, <1>7, <1>9, <2>1, <3>3 DEF FromView, ByCursor, Seen, Known
    <3> QED BY <1>5, <1>8, <1>9, <2>1, <3>1, <3>2, <3>4 DEF Covered
  <2>2. CASE ~align
    <3>1. Seen(e, c, k) => Seen(e, d, l)
      BY <1>1, <1>5, <1>8, <1>9, <2>2 DEF Seen, Known, InView, FirstHead, SameView
    <3>2. FromView(e, C, k, f) => FromView(e, C, l, f)
      BY <1>9 DEF FromView, SameView
    <3>3. ByCursor(e, C, c, k, f) => ByCursor(e, C, d, l, f)
      BY <1>5, <1>9, <2>2, <3>1 DEF ByCursor
    <3> QED BY <1>1, <1>5, <1>8, <1>9, <1>14, <2>2, <3>2, <3>3 DEF Covered, Away
  <2> QED BY <2>1, <2>2
<1>15. CoverStep
  BY <1>1, <1>14 DEF CoverStep, c, d, k, l, f
<1> QED BY <1>1, <1>8, <1>12, <1>13, <1>15, ClientInforms DEF d, l, f

\* A view that an event is ahead of does not match the head.
LEMMA AheadMismatch ==
  ASSUME NEW t, Kept(t), t.tracked, NEW v \in Ids, NEW e, Ahead(e, v, t), NEW h,
         h.gen = t.gen, h.seq = t.seq
  PROVE  Mismatch(v, h)
<1>1. SUFFICES ASSUME v.gen = h.gen PROVE h.seq > v.seq
  BY DEF Mismatch
<1>2. PICK S : t \in SessionOver(S)
  BY DEF Kept
<1>3. Ordered(t.buf, t.floor, t.seq)
  BY <1>2, WindowIsOrdered DEF Kept
<1>4. t.floor \in Nat /\ t.seq \in Nat /\ t.floor <= t.seq
  BY <1>2, WindowIsOrdered DEF SessionOver, Kept
<1>5. \A i \in 1 .. Len(t.buf) : t.buf[i].seq \in Nat
  <2>1. t.buf \in Seq(Items(S))
    BY <1>2 DEF SessionOver
  <2>2. \A x \in Items(S) : x.seq \in Nat
    BY DEF Items
  <2> HIDE DEF Items
  <2> QED BY <2>1, <2>2
<1>6. v.seq \in Nat
  BY DEF Ids
<1> QED BY <1>1, <1>3, <1>4, <1>5, <1>6 DEF Ahead, Ordered

\* The fields of the stream that opens, and what it still holds.
Opens(c, d, h) ==
  /\ d.phase = "opening" /\ d.pod = c.pod /\ d.cursor = c.cursor /\ d.silent = c.silent
  /\ d.sent = c.sent /\ Len(d.todo) = 1 /\ d.todo[1].do = "connected" /\ d.todo[1].id = h
  /\ \A i \in 1 .. Len(d.buf) : \E j \in 1 .. Len(c.buf) : d.buf[i] = c.buf[j]

LEMMA OpensFields ==
  ASSUME NEW T, NEW c \in Streams(T), NEW h
  PROVE  Opens(c, [c EXCEPT
           !.phase = "opening",
           !.buf = Entries(c.buf, {i \in DOMAIN c.buf : c.buf[i].ev \notin Trace}),
           !.todo = <<Control("connected", h)>>], h)
<1> DEFINE b == c.buf
           I == {i \in DOMAIN b : b[i].ev \notin Trace}
           q == Entries(b, I)
           z == Ascending(I)
           todo == <<Control("connected", h)>>
           d == [c EXCEPT !.phase = "opening", !.buf = q, !.todo = todo]
           S == StreamFrames(T)
<1>1. b \in Seq(S)
  BY StreamTypes
<1>2. Len(todo) = 1 /\ todo[1].do = "connected" /\ todo[1].id = h
  BY DEF Control
<1>3. /\ d.phase = "opening" /\ d.pod = c.pod /\ d.cursor = c.cursor /\ d.silent = c.silent
      /\ d.sent = c.sent /\ d.todo = todo /\ d.buf = q
  <2> HIDE DEF StreamFrames, Ids, Phases, q, todo
  <2> QED BY DEF Streams
<1> HIDE DEF b, S, q, todo, d
<1>4. I \subseteq 1 .. Len(b)
  BY <1>1
<1> HIDE DEF I
<1>5. Lists(q, b, I)
  BY <1>1, <1>4, EntriesFacts DEF q
<1>6. \A i \in 1 .. Len(q) : z[i] \in 1 .. Len(b) /\ q[i] = b[z[i]]
  BY <1>4, <1>5 DEF Lists
<1> HIDE DEF z
<1>7. Opens(c, d, h)
  BY <1>2, <1>3, <1>6 DEF Opens, b
<1> QED BY <1>7 DEF d, q, I, b, todo

\* The client is told that its stream is open; one that reconnects recovers.
ToldOpen(c, k, l) ==
  /\ l \in Clients /\ SameView(k, l) /\ l.last = k.last /\ l.head = k.head
  /\ l.known = k.known /\ l.viewChecked = k.viewChecked /\ l.noCursor = k.noCursor
  /\ l.connected
  /\ \/ c.silent /\ k.connected /\ l.recovering = k.recovering /\ l.skipReset = k.skipReset
     \/ ~c.silent /\ k.connected /\ l.recovering
     \/ ~c.silent /\ ~k.connected /\ l.recovering = k.recovering /\ ~l.skipReset

LEMMA OpenCovers ==
  ASSUME NEW e, NEW C, NEW c, NEW d, NEW k, NEW l, NEW f, NEW g, NEW h \in Ids,
         Covered(e, C, c, k, f), c.phase = "watch", Shape(c, k), Opens(c, d, h),
         ToldOpen(c, k, l), Onto(e, C, C, f, g), Placed(k.last, f), Placed(k.viewCursor, f),
         c.pod \in Pods, h.pod = c.pod, h.gen = g[c.pod].gen, h.seq = g[c.pod].seq,
         Kept(g[c.pod]), g[c.pod].tracked
  PROVE  Covered(e, C, d, l, g)
<1>1. SUFFICES Piped(e, C, d, l) \/ Answered(e, d, l, g)
  BY DEF Opens, Covered, Away
<1>2. k.last \in Ids /\ k.viewCursor \in Ids
  BY DEF Shape, Clients
<1>3. c.cursor = k.last /\ (k.noCursor <=> k.last = NoCursor)
  BY DEF Shape, AwayShape
<1>4. CASE k.connected /\ ~c.silent
  BY <1>4 DEF ToldOpen, Piped, Seen, Known
<1>5. CASE (c.silent \/ ~k.connected) /\ k.last # NoCursor
  <2>1. ByCursor(e, C, c, k, f)
    BY <1>5 DEF Covered, Away
  <2>2. Seen(e, c, k) => Seen(e, d, k)
    BY <1>3, <1>5 DEF Seen, InView, FirstHead
  <2>3. ByCursor(e, C, d, k, g)
    BY <1>2, <2>1, <2>2, CursorOn
  <2>4. Seen(e, d, k) => Seen(e, d, l)
    BY <1>4, <1>5 DEF ToldOpen, SameView, Seen, Known, InView, FirstHead
  <2>5. ~l.skipReset
    BY <1>5 DEF ToldOpen, Shape, AwayShape, Away
  <2>6. CASE Seen(e, d, l)
    BY <2>6 DEF Piped
  <2>7. CASE Behind(e, k.last, C, g)
    BY <1>3, <1>5, <2>5, <2>7 DEF Behind, Answered, Piped, Opens
  <2> QED BY <2>3, <2>4, <2>6, <2>7 DEF ByCursor
<1>6. CASE ~k.connected /\ k.last = NoCursor
  <2>1. FromView(e, C, k, f) /\ ~k.viewChecked /\ k.head = NoCursor
    BY <1>6 DEF Covered, Away, Shape, AwayShape
  <2>2. h # NoCursor
    BY BusConstants DEF NoCursor
  <2>3. FirstHead(d, l) = h /\ ~l.viewChecked /\ SameView(k, l)
    BY <1>3, <1>6, <2>1 DEF FirstHead, Opens, ToldOpen
  <2>4. CASE k.view = "none" \/ e \in k.viewKnown
    BY <2>3, <2>4 DEF SameView, Piped, Seen, InView
  <2>5. CASE Behind(e, k.viewCursor, C, f)
    <3> DEFINE v == k.viewCursor
    <3>1. Behind(e, v, C, g)
      BY <1>2, <2>5, BehindOn
    <3>2. CASE v.pod \in C /\ v.pod = c.pod
      BY <3>2 DEF Piped, Opens
    <3>3. CASE v.pod # c.pod \/ Ahead(e, v, g[c.pod])
      <4>1. Mismatch(v, h)
        BY <1>2, <3>3, AheadMismatch DEF Mismatch
      <4> QED BY <2>2, <2>3, <4>1 DEF SameView, Piped, Seen, InView
    <3> QED BY <3>1, <3>2, <3>3 DEF Behind
  <2> QED BY <2>1, <2>4, <2>5 DEF FromView
<1> QED BY <1>4, <1>5, <1>6 DEF Shape, AwayShape, Away

LEMMA ActivateInforms ==
  ASSUME IInv, Carried(Events), InformInv, \A q \in Pods : Moved(sess[q], sess'[q]), Activate
  PROVE  InformInv'
<1> DEFINE c == conn
           d == conn'
           k == client
           l == client'
           f == sess
           g == sess'
           p == conn.pod
           h == Cursor(p, g[p])
<1>1. c.phase = "watch" /\ NoBus /\ Shape(c, k) /\ k \in Clients /\ k.connected \in BOOLEAN
      /\ k.recovering \in BOOLEAN /\ (c.silent => k.connected)
  BY DEF Activate, InformInv, Shape, Clients, AwayShape
<1>2. /\ Sound(Events, c, f) /\ Informed(Events, k, f) /\ c \in Streams(Events)
      /\ p \in Pods /\ StreamOrder(c, f[p])
  BY <1>1 DEF Carried, Sound
<1>3. Kept(g[p]) /\ g[p].tracked
  <2> DEFINE t == Touch(f[p])
             n == t.pins + 1
             s == [t EXCEPT !.pins = n]
  <2>1. Kept(t) /\ t.tracked /\ t.pins \in Nat
    <3>1. Kept(f[p])
      BY <1>2 DEF IInv
    <3>2. Kept(t) /\ t.tracked
      BY <3>1, TouchKept
    <3> HIDE DEF t
    <3> QED BY <3>2, KeptTypes
  <2>2. Kept(s) /\ s.tracked
    <3> HIDE DEF t
    <3>1. n \in Nat
      BY <2>1
    <3> HIDE DEF n
    <3> QED BY <2>1, <3>1, PinsKept
  <2>3. g = [f EXCEPT ![p] = s]
    BY DEF Activate, Pin
  <2> HIDE DEF s
  <2>4. g[p] = s
    BY <1>2, <2>3, Here DEF Sessions
  <2> QED BY <2>2, <2>4
<1>4. h \in Ids /\ h.pod = p /\ h.gen = g[p].gen /\ h.seq = g[p].seq
  BY <1>2, <1>3, KeptTypes DEF Cursor, Ids
<1>5. \A q \in Pods : Moved(f[q], g[q])
  OBVIOUS
<1>6. ToldOpen(c, k, l)
  <2> DEFINE u == k.recovering \/ k.connected
             w == k.connected
             m == [k EXCEPT !.connected = TRUE, !.recovering = u, !.skipReset = w]
  <2>1. (c.silent => l = k) /\ (~c.silent => l = m)
    BY DEF Activate
  <2>2. /\ u \in BOOLEAN /\ w \in BOOLEAN /\ (w <=> k.connected)
        /\ (~k.connected => u = k.recovering) /\ (k.connected => u)
    BY <1>1
  <2> HIDE DEF u, w
  <2>3. /\ m \in Clients /\ SameView(k, m) /\ m.last = k.last /\ m.head = k.head
        /\ m.known = k.known /\ m.viewChecked = k.viewChecked /\ m.noCursor = k.noCursor
        /\ m.connected = TRUE /\ m.recovering = u /\ m.skipReset = w
    <3> HIDE DEF Ids, Events, k
    <3> QED BY <1>1, <2>2 DEF Clients, SameView
  <2> HIDE DEF m, c, k, l
  <2>4. SameView(k, k)
    BY DEF SameView
  <2> QED BY <1>1, <2>1, <2>2, <2>3, <2>4 DEF ToldOpen
<1>7. ViewShape(l) /\ l \in Clients /\ l.connected
  BY <1>1, <1>6 DEF ToldOpen, Shape, ViewShape, SameView
<1>8. CASE conn.hit
  <2>1. d.phase = "closing" /\ d.pod = p
    BY <1>2, <1>8, BufUpdates DEF Activate
  <2>2. Shape(d, l)
    BY <1>7, <2>1 DEF Shape, AwayShape, OpenShape, Away
  <2>3. BufKept(d, l, g)
    BY <2>1 DEF BufKept
  <2>4. CoverStep
    <3>1. \A e, C : Covered(e, C, d, l, g)
      BY <2>1 DEF Covered, Away
    <3> QED BY <3>1 DEF CoverStep
  <2> QED BY <1>1, <2>1, <2>2, <2>3, <2>4, ClientInforms
<1>9. CASE ~conn.hit
  <2>1. Opens(c, d, h)
    <3>1. d = [c EXCEPT
                 !.phase = "opening",
                 !.buf = Entries(c.buf, {i \in DOMAIN c.buf : c.buf[i].ev \notin Trace}),
                 !.todo = <<Control("connected", h)>>]
      BY <1>9 DEF Activate
    <3> HIDE DEF h, d
    <3> QED BY <1>2, <3>1, OpensFields
  <2>2. d.phase = "opening" /\ d.pod \in Pods
    BY <1>2, <2>1 DEF Opens
  <2>3. Shape(d, l)
    BY <1>1, <1>4, <1>6, <1>7, <2>1 DEF Shape, AwayShape, OpenShape, ToldOpen, Opens, Away
  <2>4. BufKept(d, l, g)
    <3>1. BufKept(c, k, f)
      BY DEF InformInv
    <3> HIDE DEF c, k, l, f, g, d
    <3>2. k.known \subseteq k.known
      OBVIOUS
    <3>3. BufKept(c, k, g)
      BY <1>2, <1>5, <3>1, <3>2, BufKeptOn
    <3> QED BY <1>1, <2>1, <3>3 DEF BufKept, Opens
  <2>5. CoverStep
    <3> SUFFICES ASSUME NEW e, NEW C, Covered(e, C, c, k, f)
                 PROVE  Covered(e, C, d, l, g)
      BY DEF CoverStep
    <3>1. Onto(e, C, C, f, g)
      BY <1>5 DEF Onto, Moved
    <3>2. Placed(k.last, f) /\ Placed(k.viewCursor, f)
      BY <1>2 DEF Informed
    <3>3. /\ c.pod \in Pods /\ h.pod = c.pod /\ h.gen = g[c.pod].gen
          /\ h.seq = g[c.pod].seq /\ Kept(g[c.pod]) /\ g[c.pod].tracked
      BY <1>2, <1>3, <1>4
    <3> HIDE DEF c, d, k, l, f, g, h
    <3> QED BY <1>1, <1>4, <1>6, <2>1, <3>1, <3>2, <3>3, OpenCovers
  <2> QED BY <1>1, <2>2, <2>3, <2>4, <2>5, ClientInforms
<1> QED BY <1>8, <1>9

\* The retained events after a cursor, and they only.
LEMMA ReplayItems ==
  ASSUME NEW T, NEW s \in SessionOver(T), NEW seq \in Nat
  PROVE  LET r == ReplayAfter(s, seq)
         IN  /\ Len(r) \in Nat
             /\ \A i \in 1 .. Len(s.buf) :
                  s.buf[i].seq > seq => \E n \in 1 .. Len(r) : r[n] = s.buf[i]
             /\ \A n \in 1 .. Len(r) : \E i \in 1 .. Len(s.buf) : r[n] = s.buf[i]
<1> DEFINE q == s.buf
           I == {i \in DOMAIN q : q[i].seq > seq}
           r == ReplayAfter(s, seq)
           z == Ascending(I)
           S == Items(T)
<1>1. q \in Seq(S) /\ r = Entries(q, I)
  BY DEF SessionOver, ReplayAfter
<1> HIDE DEF q, r, S
<1>2. I \subseteq 1 .. Len(q) /\ \A i \in 1 .. Len(q) : i \in I <=> q[i].seq > seq
  BY <1>1
<1> HIDE DEF I
<1>3. Len(r) \in Nat /\ Lists(r, q, I)
  BY <1>1, <1>2, EntriesFacts
<1>4. /\ \A n \in 1 .. Len(r) : z[n] \in I /\ r[n] = q[z[n]]
      /\ \A i \in I : \E n \in 1 .. Len(r) : z[n] = i
  BY <1>3 DEF Lists
<1> HIDE DEF z
<1>5. ASSUME NEW i \in 1 .. Len(q), q[i].seq > seq
      PROVE  \E n \in 1 .. Len(r) : r[n] = q[i]
  <2>1. PICK n \in 1 .. Len(r) : z[n] = i
    BY <1>2, <1>4, <1>5
  <2>2. r[n] = q[i]
    BY <1>4, <2>1
  <2> QED BY <2>2
<1>6. ASSUME NEW n \in 1 .. Len(r)
      PROVE  \E i \in 1 .. Len(q) : r[n] = q[i]
  <2>1. z[n] \in 1 .. Len(q) /\ r[n] = q[z[n]]
    BY <1>2, <1>4
  <2> QED BY <2>1
<1> QED BY <1>3, <1>5, <1>6 DEF q, r

\* What a cursor of pod p is answered with.
Answers(a, cursor, p, s) ==
  \/ cursor = NoCursor /\ Len(a) = 0
  \/ cursor # NoCursor /\ Len(a) = 1 /\ a[1].do = "reset"
  \/ /\ cursor # NoCursor /\ cursor.pod = p /\ cursor.gen = s.gen /\ s.tracked
     /\ ~(cursor.seq < s.floor) /\ Len(a) \in Nat
     /\ \A i \in 1 .. Len(s.buf) : s.buf[i].seq > cursor.seq =>
          \E n \in 1 .. Len(a) : a[n].ev = s.buf[i].ev
     /\ \A n \in 1 .. Len(a) :
          /\ IsEvent(a[n])
          /\ \E i \in 1 .. Len(s.buf) : a[n].ev = s.buf[i].ev /\ a[n].id.seq = s.buf[i].seq
                                        /\ a[n].id.gen = s.gen

LEMMA AnswerIs ==
  ASSUME NEW T, NEW p, NEW s \in SessionOver(T), sess[p] = s, NEW cursor \in Ids
  PROVE  Answers(Answer(p, cursor), cursor, p, s)
<1> DEFINE a == Answer(p, cursor)
           head == HeadCursor(p)
           items == ReplayAfter(s, cursor.seq)
           frame(n) == EventFrame([head EXCEPT !.seq = items[n].seq], items[n].ev)
<1>1. head = [pod |-> p, gen |-> s.gen, seq |-> s.seq]
  BY DEF HeadCursor, Cursor
<1> HIDE DEF head
<1>2. cursor.seq \in Nat
  BY DEF Ids
<1>3. /\ Len(items) \in Nat
      /\ \A i \in 1 .. Len(s.buf) :
           s.buf[i].seq > cursor.seq => \E n \in 1 .. Len(items) : items[n] = s.buf[i]
      /\ \A n \in 1 .. Len(items) : \E i \in 1 .. Len(s.buf) : items[n] = s.buf[i]
  BY <1>2, ReplayItems
<1>4. \/ cursor = NoCursor /\ a = <<>>
      \/ cursor # NoCursor /\ a = <<Control("reset", head)>>
      \/ /\ cursor # NoCursor /\ ~ReplayGap(s, cursor.seq)
         /\ [pod |-> cursor.pod, gen |-> cursor.gen] = [pod |-> p, gen |-> s.gen]
         /\ a = [n \in 1 .. Len(items) |-> frame(n)]
  <2> HIDE DEF items, ReplayGap, NoCursor
  <2> QED BY DEF Answer, head, items
<1> HIDE DEF items
<1>5. CASE cursor = NoCursor /\ a = <<>>
  BY <1>5 DEF Answers
<1>6. CASE cursor # NoCursor /\ a = <<Control("reset", head)>>
  <2>1. Len(a) = 1 /\ a[1].do = "reset"
    BY <1>6 DEF Control
  <2> QED BY <1>6, <2>1 DEF Answers
<1>7. CASE /\ cursor # NoCursor /\ ~ReplayGap(s, cursor.seq)
           /\ [pod |-> cursor.pod, gen |-> cursor.gen] = [pod |-> p, gen |-> s.gen]
           /\ a = [n \in 1 .. Len(items) |-> frame(n)]
  <2>1. cursor.pod = p /\ cursor.gen = s.gen
    <3> DEFINE x == [pod |-> cursor.pod, gen |-> cursor.gen]
    <3>1. x.pod = p /\ x.gen = s.gen
      BY <1>7
    <3> QED BY <3>1
  <2>2. s.tracked /\ ~(cursor.seq < s.floor)
    BY <1>7 DEF ReplayGap
  <2>3. \A n \in 1 .. Len(items) :
          /\ IsEvent(frame(n)) /\ frame(n).ev = items[n].ev
          /\ frame(n).id.seq = items[n].seq /\ frame(n).id.gen = s.gen
    BY <1>1 DEF EventFrame, IsEvent
  <2> HIDE DEF frame
  <2>4. Len(a) = Len(items) /\ \A n \in 1 .. Len(a) : a[n] = frame(n)
    <3> DEFINE m == Len(items)
    <3>1. m \in Nat /\ a = [n \in 1 .. m |-> frame(n)]
      BY <1>3, <1>7
    <3> HIDE DEF m, a
    <3>2. Len(a) = m /\ \A n \in 1 .. m : a[n] = frame(n)
      BY <3>1
    <3> QED BY <3>2 DEF m
  <2> HIDE DEF a
  <2>5. \A i \in 1 .. Len(s.buf) : s.buf[i].seq > cursor.seq =>
          \E n \in 1 .. Len(a) : a[n].ev = s.buf[i].ev
    <3> TAKE i \in 1 .. Len(s.buf)
    <3> HAVE s.buf[i].seq > cursor.seq
    <3>1. PICK n \in 1 .. Len(items) : items[n] = s.buf[i]
      BY <1>3
    <3> QED BY <2>3, <2>4, <3>1
  <2>6. \A n \in 1 .. Len(a) :
          /\ IsEvent(a[n])
          /\ \E i \in 1 .. Len(s.buf) : a[n].ev = s.buf[i].ev /\ a[n].id.seq = s.buf[i].seq
                                        /\ a[n].id.gen = s.gen
    BY SMTT(25), <1>3, <2>3, <2>4
  <2>7. Answers(a, cursor, p, s)
    BY <1>3, <1>7, <2>1, <2>2, <2>4, <2>5, <2>6 DEF Answers
  <2> QED BY <2>7 DEF a
<1> QED BY <1>4, <1>5, <1>6, <1>7

\* The stream that starts its answer a, and the client that was told its head h.
Starts(c, d, a) ==
  /\ d.pod = c.pod /\ d.todo = a /\ d.buf = c.buf /\ d.sent = {}
  /\ d.phase = "replay" \/ (d.phase = "live" /\ Len(a) = 0 /\ Len(c.buf) = 0)

ToldHead(k, m, h) ==
  /\ m \in Clients /\ SameView(k, m) /\ m.known = k.known
  /\ m.viewChecked = k.viewChecked /\ m.connected = k.connected
  /\ m.skipReset = k.skipReset /\ m.recovering = k.recovering /\ m.noCursor = FALSE
  /\ m.last = IF k.last = NoCursor THEN h ELSE k.last
  /\ m.head = IF k.noCursor /\ k.head = NoCursor THEN h ELSE k.head

LEMMA StartShape ==
  ASSUME NEW c, NEW d, NEW k, NEW m, NEW l, NEW a, NEW h, NEW s,
         Shape(c, k), c.phase = "opening", c.pod \in Pods, Starts(c, d, a),
         Answers(a, c.cursor, c.pod, s), ToldHead(k, m, h), ChecksView(m, l),
         h.pod = c.pod, h # NoCursor
  PROVE  Shape(d, l)
<1>1. k.connected /\ c.cursor = k.last
  BY DEF Shape, AwayShape, Away
<1>2. l \in Clients /\ l.connected /\ l.last = IF k.last = NoCursor THEN h ELSE k.last
  BY <1>1 DEF ChecksView, ToldHead
<1>3. AwayShape(d, l)
  BY <1>2 DEF AwayShape, Starts, Away
<1>4. ViewShape(l)
  BY <1>2 DEF Shape, ViewShape, ChecksView, ToldHead, SameView
<1>5. l.last # NoCursor
  BY <1>2
<1>6. OpenShape(d, l)
  <2>1. CASE a[1].do = "reset" /\ Len(a) = 1
    BY <1>5, <2>1 DEF OpenShape, Starts
  <2>2. CASE c.cursor = NoCursor /\ Len(a) = 0
    <3>1. l.last.pod = d.pod
      BY <1>1, <1>2, <2>2 DEF Starts
    <3>2. \A n \in 1 .. Len(a) : IsEvent(a[n])
      BY <2>2
    <3> QED BY <1>5, <3>1, <3>2 DEF OpenShape, Starts
  <2>3. CASE /\ c.cursor # NoCursor /\ c.cursor.pod = c.pod
             /\ \A n \in 1 .. Len(a) : IsEvent(a[n])
    <3>1. l.last.pod = d.pod
      BY <1>1, <1>2, <2>3 DEF Starts
    <3> QED BY <1>5, <2>3, <3>1 DEF OpenShape, Starts
  <2> QED BY <2>1, <2>2, <2>3 DEF Answers
<1> QED BY <1>2, <1>3, <1>4, <1>6 DEF Shape

LEMMA StartCovers ==
  ASSUME NEW e, NEW C, NEW c, NEW d, NEW k, NEW m, NEW l, NEW a, NEW h, NEW f,
         Covered(e, C, c, k, f), Shape(c, k), c.phase = "opening", c.pod \in Pods,
         Starts(c, d, a), Answers(a, c.cursor, c.pod, f[c.pod]), ToldHead(k, m, h),
         ChecksView(m, l), h = c.todo[1].id, h # NoCursor, Shape(d, l)
  PROVE  Covered(e, C, d, l, f)
<1>1. l.skipReset = k.skipReset
  BY DEF ChecksView, ToldHead
<1>2. Seen(e, c, k) => Seen(e, d, l)
  <2>1. FirstHead(d, m) = FirstHead(c, k)
    BY DEF FirstHead, ToldHead
  <2>2. /\ m.viewChecked = k.viewChecked /\ m.viewCursor = k.viewCursor
        /\ m.viewKnown = k.viewKnown /\ k.known \subseteq m.known
        /\ k.recovering => m.recovering
        /\ k.view = "none" => m.view = "none"
        /\ m.view = "applied" => m.viewKnown \subseteq m.known
    BY DEF ToldHead, SameView, Shape, ViewShape
  <2>3. d.phase # "opening"
    BY DEF Starts
  <2> QED BY <2>1, <2>2, <2>3, SeenChecked
<1>3. Heard(e, c) => Heard(e, d)
  BY DEF Heard, Starts
<1>4. Piped(e, C, c, k) => Piped(e, C, d, l)
  BY <1>2, <1>3 DEF Piped, Starts
<1>5. Answered(e, c, k, f) => InAnswer(e, d, l)
  <2> SUFFICES ASSUME Answered(e, c, k, f) PROVE InAnswer(e, d, l)
    OBVIOUS
  <2>1. ~l.skipReset /\ c.cursor # NoCursor
    BY <1>1 DEF Answered
  <2>2. CASE Len(a) = 1 /\ a[1].do = "reset"
    <3>1. 1 \in 1 .. Len(a)
      BY <2>2
    <3> QED BY <2>1, <2>2, <3>1 DEF InAnswer, Starts
  <2>3. CASE Answers(a, c.cursor, c.pod, f[c.pod]) /\ ~(Len(a) = 1 /\ a[1].do = "reset")
    <3> DEFINE s == f[c.pod]
    <3>1. /\ c.cursor.pod = c.pod /\ c.cursor.gen = s.gen /\ s.tracked
          /\ ~(c.cursor.seq < s.floor)
          /\ \A i \in 1 .. Len(s.buf) : s.buf[i].seq > c.cursor.seq =>
               \E n \in 1 .. Len(a) : a[n].ev = s.buf[i].ev
          /\ \A n \in 1 .. Len(a) : IsEvent(a[n])
      BY <2>1, <2>3 DEF Answers
    <3>2. Ahead(e, c.cursor, s)
      BY <3>1 DEF Answered
    <3>3. PICK i \in 1 .. Len(s.buf) : s.buf[i].ev = e /\ s.buf[i].seq > c.cursor.seq
      BY <3>1, <3>2 DEF Ahead
    <3>4. PICK n \in 1 .. Len(a) : a[n].ev = e
      BY <3>1, <3>3
    <3> QED BY SMTT(25), <3>1, <3>4 DEF InAnswer, Starts
  <2> QED BY <2>2, <2>3
<1>6. Piped(e, C, c, k) \/ Answered(e, c, k, f)
  BY DEF Covered
<1>7. CASE d.phase = "replay"
  BY <1>4, <1>5, <1>6, <1>7 DEF Covered, Away
<1>8. CASE d.phase = "live" /\ Len(a) = 0 /\ Len(c.buf) = 0
  <2>1. ~InAnswer(e, d, l) /\ ~Heard(e, d)
    <3>1. \A n \in 1 .. 0 : FALSE
      OBVIOUS
    <3> QED BY <1>8, <3>1 DEF InAnswer, Heard, Starts
  <2>2. Piped(e, C, d, l)
    BY <1>4, <1>5, <1>6, <2>1
  <2>3. l.last.pod = d.pod /\ d.pod \in Pods
    BY <1>8 DEF Shape, OpenShape, Starts
  <2>4. ByCursor(e, C, d, l, f)
    BY <2>1, <2>2, <2>3 DEF Piped, ByCursor, Behind
  <2> QED BY <1>8, <2>2, <2>4 DEF Covered, Away
<1> QED BY <1>7, <1>8 DEF Starts

LEMMA StartBufKept ==
  ASSUME NEW T, NEW c, NEW d, NEW k, NEW l, NEW f, NEW a, Sound(T, c, f), c.phase = "opening",
         Kept(f[c.pod]), BufKept(c, k, f), Starts(c, d, a),
         Answers(a, c.cursor, c.pod, f[c.pod])
  PROVE  BufKept(d, l, f)
<1> DEFINE s == f[c.pod]
<1>1. StreamOrder(c, s) /\ Waiting(c, s)
  BY DEF Sound, StreamOrder
<1>2. ASSUME NEW i \in 1 .. Len(c.buf)
      PROVE  Keeps(c.buf[i].id, c.buf[i].ev, s)
  BY <1>1 DEF BufKept, StreamOrder, Waiting
<1>3. ASSUME NEW n \in 1 .. Len(a), NEW i \in 1 .. Len(c.buf), IsEvent(a[n]),
             a[n].id = c.buf[i].id
      PROVE  a[n].ev = c.buf[i].ev
  <2>1. a[1].do = "reset" /\ Len(a) = 1 => FALSE
    <3>1. \A j \in 1 .. 1 : j = 1
      OBVIOUS
    <3> QED BY <1>3, <3>1 DEF IsEvent
  <2>2. Len(a) = 0 => FALSE
    OBVIOUS
  <2>3. PICK j \in 1 .. Len(s.buf) :
          s.tracked /\ a[n].ev = s.buf[j].ev /\ a[n].id.seq = s.buf[j].seq /\ a[n].id.gen = s.gen
    BY <2>1, <2>2 DEF Answers
  <2>4. PICK S : s \in SessionOver(S)
    BY DEF Kept
  <2>5. Ordered(s.buf, s.floor, s.seq)
    BY <2>4, WindowIsOrdered DEF Kept
  <2>6. s.floor \in Nat /\ \A x \in 1 .. Len(s.buf) : s.buf[x].seq \in Nat
    BY SMTT(25), KeptTypes
  <2>7. Keeps(a[n].id, c.buf[i].ev, s)
    BY <1>2, <1>3
  <2>8. PICK x \in 1 .. Len(s.buf) : s.buf[x].ev = c.buf[i].ev /\ s.buf[x].seq = s.buf[j].seq
    <3>1. ~(s.buf[j].seq <= s.floor)
      BY <2>5, <2>6 DEF Ordered
    <3> QED BY <2>3, <2>7, <3>1 DEF Keeps
  <2>9. Len(s.buf) \in Nat
    BY KeptTypes
  <2>10. x = j
    BY SMTT(25), <2>5, <2>6, <2>8, <2>9 DEF Ordered
  <2> QED BY <2>3, <2>8, <2>10
<1> QED BY <1>2, <1>3 DEF BufKept, Starts

LEMMA SettledFields ==
  ASSUME NEW T, NEW c \in Streams(T)
  PROVE  LET d == Settled(c)
         IN  /\ d.pod = c.pod /\ d.todo = c.todo /\ d.buf = c.buf
             /\ \/ d.phase = c.phase /\ d.sent = c.sent
                \/ /\ d.phase = "live" /\ d.sent = {} /\ Len(c.todo) = 0 /\ Len(c.buf) = 0
<1> DEFINE d == [c EXCEPT !.phase = "live", !.sent = {}]
<1>1. d.pod = c.pod /\ d.todo = c.todo /\ d.buf = c.buf /\ d.phase = "live" /\ d.sent = {}
  <2> HIDE DEF StreamFrames, Ids, Phases
  <2> QED BY DEF Streams
<1> HIDE DEF d
<1>2. \/ Settled(c) = c
      \/ Settled(c) = d /\ Len(c.todo) = 0 /\ Len(c.buf) = 0
  BY DEF Settled, d
<1> QED BY <1>1, <1>2

LEMMA ConnectedTold ==
  ASSUME client \in Clients, NEW frame, frame.do = "connected", frame.id \in Ids
  PROVE  \E m : ToldHead(client, m, frame.id) /\ ChecksView(m, Received(frame))
<1> DEFINE k == client
           h == frame.id
           i == IF k.last = NoCursor THEN h ELSE k.last
           u == IF k.noCursor /\ k.head = NoCursor THEN h ELSE k.head
           m == [k EXCEPT !.last = i, !.head = u, !.noCursor = FALSE]
<1>1. Received(frame) = Checked(m)
  BY DEF Received
<1>2. i \in Ids /\ u \in Ids
  BY DEF Clients
<1>3. ToldHead(k, m, h)
  <2> HIDE DEF i, u
  <2>1. /\ m \in Clients /\ SameView(k, m) /\ m.known = k.known
        /\ m.viewChecked = k.viewChecked /\ m.connected = k.connected
        /\ m.skipReset = k.skipReset /\ m.recovering = k.recovering /\ m.noCursor = FALSE
        /\ m.last = i /\ m.head = u
    <3> HIDE DEF Ids, Events
    <3> QED BY <1>2 DEF Clients, SameView
  <2> HIDE DEF m, k, h
  <2> QED BY <2>1 DEF ToldHead, i, u
<1> HIDE DEF m
<1>4. ChecksView(m, Checked(m))
  BY <1>3, CheckedFacts DEF ToldHead
<1> QED BY <1>1, <1>3, <1>4

LEMMA ConnectedInforms ==
  ASSUME IInv, Carried(Events), InformInv, WriteConnected
  PROVE  InformInv'
<1> DEFINE c == conn
           d == conn'
           k == client
           l == client'
           f == sess
           p == conn.pod
           s == f[p]
           a == Answer(p, c.cursor)
           h == c.todo[1].id
<1>1. c.phase = "opening" /\ NoBus /\ sess' = f /\ l = Received(Head(c.todo))
  BY DEF WriteConnected
<1>2. Shape(c, k) /\ k \in Clients /\ BufKept(c, k, f) /\ c.sent = {}
  BY <1>1 DEF InformInv, Shape, AwayShape
<1>3. /\ Sound(Events, c, f) /\ c \in Streams(Events) /\ c.cursor \in Ids
      /\ p \in Pods /\ StreamOrder(c, s)
  BY <1>1, StreamTypes DEF Carried, Sound
<1>4. s \in SessionOver(Events) /\ Kept(s) /\ Window(s)
  BY <1>3 DEF Carried, IInv, Kept
<1>5. c.todo[1].do = "connected" /\ h.pod = p /\ h \in Ids /\ h # NoCursor
      /\ Head(c.todo) = c.todo[1]
  <2>1. Len(c.todo) = 1 /\ c.todo[1].do = "connected" /\ h.pod = p
    BY <1>1, <1>2 DEF Shape, OpenShape
  <2>2. h \in Ids
    <3>1. 1 \in 1 .. Len(c.todo)
      BY <2>1
    <3> QED BY <1>3, <3>1, StreamTypes
  <2>3. h # NoCursor
    BY <1>3, <2>1, BusConstants DEF NoCursor
  <2>4. Head(c.todo) = c.todo[1]
    OBVIOUS
  <2> QED BY <2>1, <2>2, <2>3, <2>4
<1>6. PICK m : ToldHead(k, m, h) /\ ChecksView(m, l)
  BY <1>1, <1>2, <1>5, ConnectedTold
<1>7. Answers(a, c.cursor, p, s)
  BY <1>3, <1>4, AnswerIs
<1>8. Starts(c, d, a)
  <2> DEFINE x == [c EXCEPT !.phase = "replay", !.todo = a]
  <2>1. a \in Seq(StreamFrames(Events))
    BY <1>1, <1>3, <1>4, AnswerFacts
  <2>2. d = Settled(x)
    BY DEF WriteConnected
  <2> HIDE DEF a
  <2>3. /\ x \in Streams(Events) /\ x.phase = "replay" /\ x.todo = a /\ x.pod = p
        /\ x.buf = c.buf /\ x.sent = c.sent
    <3>1. "replay" \in Phases
      BY DEF Phases
    <3> HIDE DEF StreamFrames, Ids, Phases
    <3> QED BY <1>3, <2>1, <3>1 DEF Streams
  <2> HIDE DEF x
  <2> QED BY <1>2, <2>2, <2>3, SettledFields DEF Starts
<1> HIDE DEF a, h
<1>9. Shape(d, l)
  BY <1>1, <1>2, <1>3, <1>5, <1>6, <1>7, <1>8, StartShape
<1>10. BufKept(d, l, f)
  BY <1>1, <1>2, <1>3, <1>4, <1>7, <1>8, StartBufKept
<1>11. CoverStep
  <2> SUFFICES ASSUME NEW e, NEW C, Covered(e, C, c, k, f)
               PROVE  Covered(e, C, d, l, f)
    BY <1>1 DEF CoverStep
  <2>1. h = c.todo[1].id /\ c.pod = p /\ Answers(a, c.cursor, c.pod, f[c.pod])
    BY <1>7 DEF h
  <2> HIDE DEF c, d, k, l, f, p
  <2> QED BY <1>1, <1>2, <1>3, <1>5, <1>6, <1>8, <1>9, <2>1, StartCovers
<1>12. d.pod \in Pods
  BY <1>3, <1>8 DEF Starts
<1> QED BY <1>1, <1>9, <1>10, <1>11, <1>12, ClientInforms

\* The client takes an event, or a reset.
Took(k, l, frame) ==
  /\ l \in Clients /\ SameView(k, l) /\ l.last = frame.id /\ l.head = k.head
  /\ l.viewChecked = k.viewChecked /\ l.noCursor = k.noCursor
  /\ l.connected = k.connected /\ l.skipReset = FALSE
  /\ k.known \subseteq l.known /\ (k.recovering => l.recovering)
  /\ IsEvent(frame) => frame.ev \in l.known
  /\ frame.do = "reset" /\ ~k.skipReset => l.recovering

LEMMA FrameTaken ==
  ASSUME client \in Clients, NEW frame, frame.id \in Ids,
         \/ frame.do = "reset"
         \/ frame.do = "event" /\ frame.ev \in Events
  PROVE  Took(client, Received(frame), frame)
<1> DEFINE k == client
           i == frame.id
           v == k.recovering \/ ~k.skipReset
           K == k.known \cup {frame.ev}
           m == [k EXCEPT !.last = i, !.skipReset = FALSE, !.recovering = v]
           n == [k EXCEPT !.last = i, !.skipReset = FALSE, !.known = K]
<1>1. CASE frame.do = "reset"
  <2>1. Received(frame) = m
    BY <1>1 DEF Received
  <2>2. v \in BOOLEAN /\ (k.recovering => v) /\ (~k.skipReset => v)
    OBVIOUS
  <2> HIDE DEF v
  <2>3. /\ m \in Clients /\ SameView(k, m) /\ m.last = i /\ m.head = k.head /\ m.known = k.known
        /\ m.viewChecked = k.viewChecked /\ m.noCursor = k.noCursor
        /\ m.connected = k.connected /\ m.skipReset = FALSE /\ m.recovering = v
    <3> HIDE DEF Ids, Events, i
    <3> QED BY <2>2 DEF Clients, SameView, i
  <2> HIDE DEF m
  <2> QED BY <1>1, <2>1, <2>2, <2>3 DEF Took, IsEvent
<1>2. CASE frame.do = "event" /\ frame.ev \in Events
  <2>1. Received(frame) = n
    BY <1>2 DEF Received
  <2>2. K \in SUBSET Events /\ k.known \subseteq K /\ frame.ev \in K
    BY <1>2 DEF Clients
  <2> HIDE DEF K
  <2>3. /\ n \in Clients /\ SameView(k, n) /\ n.last = i /\ n.head = k.head /\ n.known = K
        /\ n.viewChecked = k.viewChecked /\ n.noCursor = k.noCursor
        /\ n.connected = k.connected /\ n.skipReset = FALSE /\ n.recovering = k.recovering
    <3> HIDE DEF Ids, Events, i
    <3> QED BY <2>2 DEF Clients, SameView, i
  <2> HIDE DEF n
  <2> QED BY <1>2, <2>1, <2>2, <2>3 DEF Took
<1> QED BY <1>1, <1>2

\* r is q without its first item.
Shifted(q, r) ==
  /\ \A i \in 1 .. Len(r) : \E j \in 1 .. Len(q) : r[i] = q[j]
  /\ \A i \in 1 .. Len(q) : i = 1 \/ \E j \in 1 .. Len(r) : r[j] = q[i]

LEMMA TailShifted ==
  ASSUME NEW T, NEW q \in Seq(StreamFrames(T)), q # <<>>
  PROVE  /\ Shifted(q, Tail(q)) /\ Head(q) = q[1] /\ 1 \in 1 .. Len(q)
         /\ Len(q) = 1 => Len(Tail(q)) = 0
         /\ q[1] \in StreamFrames(T)
<1> DEFINE r == Tail(q)
           S == StreamFrames(T)
<1>1. /\ Head(q) = q[1] /\ 1 \in 1 .. Len(q) /\ q[1] \in StreamFrames(T)
      /\ \A i \in 1 .. Len(r) : i + 1 \in 1 .. Len(q) /\ r[i] = q[i + 1]
      /\ \A i \in 1 .. Len(q) : i = 1 \/ (i - 1 \in 1 .. Len(r) /\ r[i - 1] = q[i])
  BY TailKeeps
<1>2. Len(q) = 1 => Len(r) = 0
  <2> HIDE DEF S
  <2>1. Len(r) = Len(q) - 1
    BY TailFacts DEF S
  <2> QED BY <2>1
<1> HIDE DEF r
<1> QED BY <1>1, <1>2 DEF Shifted, r

\* The stream still answers, or is live with nothing to write.
Answering(c, d) ==
  /\ d.pod = c.pod
  /\ d.phase = "replay" \/ (d.phase = "live" /\ Len(d.todo) = 0 /\ Len(d.buf) = 0)

LEMMA AnsweringCovers ==
  ASSUME NEW e, NEW C, NEW c, NEW d, NEW l, NEW f, Answering(c, d), Shape(d, l), d.pod \in Pods,
         Piped(e, C, d, l) \/ InAnswer(e, d, l)
  PROVE  Covered(e, C, d, l, f)
<1>1. CASE d.phase = "replay"
  BY <1>1 DEF Covered, Away
<1>2. CASE d.phase = "live" /\ Len(d.todo) = 0 /\ Len(d.buf) = 0
  <2>1. ~InAnswer(e, d, l) /\ ~Heard(e, d)
    <3>1. \A n \in 1 .. 0 : FALSE
      OBVIOUS
    <3> QED BY <1>2, <3>1 DEF InAnswer, Heard
  <2>2. l.last.pod = d.pod
    BY <1>2 DEF Shape, OpenShape
  <2>3. ByCursor(e, C, d, l, f)
    BY <2>1, <2>2 DEF Piped, ByCursor, Behind
  <2> QED BY <1>2, <2>1, <2>3 DEF Covered, Away
<1> QED BY <1>1, <1>2 DEF Answering

LEMMA SeenTook ==
  ASSUME NEW e, NEW c, NEW d, NEW k, NEW l, NEW frame, Took(k, l, frame), Seen(e, c, k),
         c.phase # "opening", d.phase # "opening"
  PROVE  Seen(e, d, l)
BY DEF Took, SameView, Seen, Known, InView, FirstHead

LEMMA HeardTook ==
  ASSUME NEW e, NEW c, NEW d, NEW l, Shifted(c.buf, d.buf),
         IsEvent(c.buf[1]) => c.buf[1].ev \in l.known, Heard(e, c)
  PROVE  Heard(e, d) \/ Seen(e, d, l)
BY DEF Heard, Seen, Known, Shifted

\* A frame of the answer was written, or the first of what was heard meanwhile.
LEMMA TookShape ==
  ASSUME NEW c, NEW d, NEW k, NEW l, NEW h, Shape(c, k), Took(k, l, h),
         c.phase \in {"replay", "live"}, c.pod \in Pods, h.id.pod = c.pod, d.pod = c.pod,
         d.phase \in {"replay", "live"},
         d.phase = "replay" => \A n \in 1 .. Len(d.todo) : IsEvent(d.todo[n])
  PROVE  Shape(d, l)
<1>1. NoCursor.pod \notin Pods
  BY BusConstants DEF NoCursor
<1>2. l \in Clients /\ l.last = h.id /\ l.last.pod = d.pod /\ l.last # NoCursor /\ d.pod \in Pods
  BY <1>1 DEF Took
<1>3. k.connected
  BY DEF Shape, AwayShape, Away
<1>4. AwayShape(d, l)
  BY <1>2, <1>3 DEF Took, AwayShape, Away
<1>5. OpenShape(d, l)
  BY <1>2 DEF OpenShape
<1>6. ViewShape(l)
  BY <1>2 DEF Took, Shape, ViewShape, SameView
<1> QED BY <1>2, <1>4, <1>5, <1>6 DEF Shape

LEMMA ReplayTookCovers ==
  ASSUME NEW e, NEW C, NEW c, NEW d, NEW k, NEW l, NEW h, NEW f, Covered(e, C, c, k, f),
         c.phase = "replay", c.pod \in Pods, Took(k, l, h), h = c.todo[1],
         IsEvent(h) \/ h.do = "reset",
         Shifted(c.todo, d.todo), d.buf = c.buf, Answering(c, d), Shape(d, l)
  PROVE  Covered(e, C, d, l, f)
<1>1. Piped(e, C, c, k) \/ InAnswer(e, c, k)
  BY DEF Covered
<1>2. Piped(e, C, c, k) => Piped(e, C, d, l)
  BY SeenTook DEF Piped, Heard, Answering
<1>3. ASSUME InAnswer(e, c, k)
      PROVE  Piped(e, C, d, l) \/ InAnswer(e, d, l)
  <2>1. PICK n \in 1 .. Len(c.todo) : \/ IsEvent(c.todo[n]) /\ c.todo[n].ev = e
                                      \/ c.todo[n].do = "reset" /\ ~k.skipReset
    BY <1>3 DEF InAnswer
  <2>2. CASE n = 1
    BY <2>1, <2>2 DEF Took, Piped, Seen, Known
  <2>3. CASE n # 1
    <3>1. PICK m \in 1 .. Len(d.todo) : d.todo[m] = c.todo[n]
      BY <2>3 DEF Shifted
    <3> QED BY <2>1, <3>1 DEF InAnswer, Took
  <2> QED BY <2>2, <2>3
<1>4. Piped(e, C, d, l) \/ InAnswer(e, d, l)
  BY <1>1, <1>2, <1>3
<1> QED BY <1>4, AnsweringCovers DEF Answering

LEMMA ReplayInforms ==
  ASSUME Carried(Events), InformInv, WriteReplay
  PROVE  InformInv'
<1> DEFINE c == conn
           d == conn'
           k == client
           l == client'
           f == sess
           p == conn.pod
           h == Head(conn.todo)
           q == Tail(conn.todo)
           z == conn.sent \cup SentId(h)
           w == Wrote(h)
           x == [w EXCEPT !.todo = q, !.sent = z]
<1>1. c.phase = "replay" /\ NoBus /\ sess' = f /\ l = Received(h) /\ c.todo # <<>>
  BY DEF WriteReplay
<1>2. Shape(c, k) /\ k \in Clients /\ BufKept(c, k, f)
  BY DEF InformInv, Shape
<1>3. /\ Sound(Events, c, f) /\ c \in Streams(Events) /\ p \in Pods /\ StreamOrder(c, f[p])
      /\ c.todo \in Seq(StreamFrames(Events)) /\ c.sent \subseteq Ids
  BY <1>1, StreamTypes DEF Carried, Sound
<1>4. /\ Shifted(c.todo, q) /\ h = c.todo[1] /\ 1 \in 1 .. Len(c.todo)
      /\ Len(c.todo) = 1 => Len(q) = 0
      /\ h \in StreamFrames(Events) /\ q \in Seq(StreamFrames(Events))
  BY <1>1, <1>3, TailShifted, TailKeeps
<1>5. At(h.id, p, f[p]) /\ h.id \in Ids /\ (IsEvent(h) => Later(h.id, conn.high))
  <2>1. Replaying(c)
    BY <1>1, <1>3 DEF StreamOrder
  <2>2. h.id \in Ids
    BY <1>4 DEF StreamFrames
  <2> QED BY <1>3, <1>4, <2>1, <2>2 DEF StreamOrder, Replaying
<1>6. /\ h.do = "reset" \/ (h.do = "event" /\ h.ev \in Events)
      /\ \A n \in 1 .. Len(q) : IsEvent(q[n])
  <2>1. \/ Len(c.todo) = 1 /\ c.todo[1].do = "reset"
        \/ \A n \in 1 .. Len(c.todo) : IsEvent(c.todo[n])
    BY <1>1, <1>2 DEF Shape, OpenShape
  <2>2. CASE Len(c.todo) = 1 /\ c.todo[1].do = "reset"
    <3>1. \A n \in 1 .. 0 : FALSE
      OBVIOUS
    <3> QED BY <1>4, <2>2, <3>1
  <2>3. CASE \A n \in 1 .. Len(c.todo) : IsEvent(c.todo[n])
    <3>1. IsEvent(h)
      BY <1>4, <2>3
    <3>2. h.ev \in Events
      BY <1>4, <3>1 DEF StreamFrames, IsEvent
    <3>3. \A n \in 1 .. Len(q) : IsEvent(q[n])
      BY <1>4, <2>3 DEF Shifted
    <3> QED BY <3>1, <3>2, <3>3 DEF IsEvent
  <2> QED BY <2>1, <2>2, <2>3
<1>7. Took(k, l, h)
  BY <1>1, <1>2, <1>5, <1>6, FrameTaken
<1> HIDE DEF h, q
<1>8. /\ d.pod = p /\ d.todo = q /\ d.buf = c.buf /\ Answering(c, d)
      /\ d.phase = "replay" => d.sent = z
  <2>1. /\ w \in Streams(Events) /\ w.phase = c.phase /\ w.pod = p
        /\ w.todo = c.todo /\ w.buf = c.buf /\ w.sent = c.sent
    BY <1>3, <1>4, <1>5, WroteTypes
  <2>2. d = Settled(x)
    BY <2>1 DEF WriteReplay, h, q
  <2>3. z \in SUBSET Ids
    BY <1>3, <1>5 DEF SentId
  <2> HIDE DEF w, z
  <2>4. /\ x \in Streams(Events) /\ x.phase = "replay" /\ x.todo = q /\ x.pod = p
        /\ x.buf = c.buf /\ x.sent = z
    <3> HIDE DEF StreamFrames, Ids, Phases
    <3> QED BY <1>1, <1>4, <2>1, <2>3 DEF Streams
  <2> HIDE DEF x
  <2> QED BY <2>2, <2>4, SettledFields DEF Answering
<1>9. Shape(d, l)
  <2>1. d.phase \in {"replay", "live"} /\ h.id.pod = p
    BY <1>5, <1>8 DEF Answering, At
  <2> HIDE DEF z
  <2> QED BY <1>1, <1>2, <1>3, <1>6, <1>7, <1>8, <2>1, TookShape
<1>10. BufKept(d, l, f)
  <2>1. \A i \in 1 .. Len(c.buf) : IsEvent(c.buf[i]) /\ c.buf[i].ev \notin Trace =>
          Keeps(c.buf[i].id, c.buf[i].ev, f[p])
    BY <1>1, <1>2 DEF BufKept
  <2>2. \A n \in 1 .. Len(q), i \in 1 .. Len(c.buf) :
          IsEvent(q[n]) /\ q[n].id = c.buf[i].id => q[n].ev = c.buf[i].ev
    <3> TAKE n \in 1 .. Len(q), i \in 1 .. Len(c.buf)
    <3>1. PICK j \in 1 .. Len(c.todo) : q[n] = c.todo[j]
      BY <1>4 DEF Shifted
    <3>2. IsEvent(c.todo[j]) /\ c.todo[j].id = c.buf[i].id => c.todo[j].ev = c.buf[i].ev
      BY <1>1, <1>2 DEF BufKept
    <3> QED BY <3>1, <3>2
  <2>3. \A id \in z : At(id, p, f[p])
    BY <1>1, <1>2, <1>5 DEF BufKept, SentId
  <2>4. ASSUME NEW i \in 1 .. Len(c.buf), c.buf[i].id \in z
        PROVE  c.buf[i].ev \in l.known
    <3>1. CASE c.buf[i].id \in c.sent
      BY <1>1, <1>2, <1>7, <3>1 DEF BufKept, Took
    <3>2. CASE IsEvent(h) /\ c.buf[i].id = h.id
      <4>1. h.ev = c.buf[i].ev
        BY <1>1, <1>2, <1>4, <3>2 DEF BufKept
      <4> QED BY <1>7, <3>2, <4>1 DEF Took
    <3> QED BY <2>4, <3>1, <3>2 DEF SentId, IsEvent
  <2> HIDE DEF z
  <2> QED BY <1>8, <2>1, <2>2, <2>3, <2>4 DEF BufKept
<1>11. CoverStep
  <2> SUFFICES ASSUME NEW e, NEW C, Covered(e, C, c, k, f)
               PROVE  Covered(e, C, d, l, f)
    BY <1>1 DEF CoverStep
  <2>1. Shifted(c.todo, d.todo) /\ d.buf = c.buf /\ c.pod \in Pods
    BY <1>3, <1>4, <1>8
  <2>2. IsEvent(h) \/ h.do = "reset"
    BY <1>6 DEF IsEvent
  <2> HIDE DEF c, d, k, l, f, p
  <2> QED BY <1>1, <1>4, <1>7, <1>8, <1>9, <2>1, <2>2, ReplayTookCovers
<1>12. d.pod \in Pods
  BY <1>3, <1>8
<1> QED BY <1>1, <1>9, <1>10, <1>11, <1>12, ClientInforms

\* What is left to write is kept as it was.
LEMMA ShiftKept ==
  ASSUME NEW c, NEW d, NEW k, NEW l, NEW f, BufKept(c, k, f), c.phase \in {"replay", "live"},
         Shifted(c.buf, d.buf), d.pod = c.pod, k.known \subseteq l.known,
         \/ d.phase = "live"
         \/ d.phase = "replay" /\ c.phase = "replay" /\ d.sent = c.sent /\ Len(d.todo) = 0
  PROVE  BufKept(d, l, f)
<1>1. ASSUME NEW i \in 1 .. Len(d.buf), IsEvent(d.buf[i]), d.buf[i].ev \notin Trace
      PROVE  Keeps(d.buf[i].id, d.buf[i].ev, f[d.pod])
  BY <1>1 DEF BufKept, Shifted
<1>2. CASE d.phase = "live"
  BY <1>1, <1>2 DEF BufKept
<1>3. CASE d.phase = "replay" /\ c.phase = "replay" /\ d.sent = c.sent /\ Len(d.todo) = 0
  <2>1. \A n \in 1 .. Len(d.todo) : FALSE
    BY <1>3
  <2>2. \A id \in d.sent : At(id, d.pod, f[d.pod])
    BY <1>3 DEF BufKept
  <2>3. \A i \in 1 .. Len(d.buf) : d.buf[i].id \in d.sent => d.buf[i].ev \in l.known
    BY <1>3 DEF BufKept, Shifted
  <2> QED BY <1>1, <1>3, <2>1, <2>2, <2>3 DEF BufKept
<1> QED BY <1>2, <1>3

\* The first of what was heard is known, now or since the replay sent it.
LEMMA BufferedCovers ==
  ASSUME NEW e, NEW C, NEW c, NEW d, NEW k, NEW l, NEW f, Covered(e, C, c, k, f),
         c.phase = "replay", c.pod \in Pods, Len(c.todo) = 0, IsEvent(c.buf[1]),
         c.buf[1].ev \in l.known, l = k \/ Took(k, l, c.buf[1]),
         Shifted(c.buf, d.buf), Answering(c, d), Shape(d, l)
  PROVE  Covered(e, C, d, l, f)
<1>1. ~InAnswer(e, c, k)
  BY DEF InAnswer
<1>2. Piped(e, C, c, k)
  BY <1>1 DEF Covered
<1>3. d.phase # "opening"
  BY DEF Answering
<1>4. Seen(e, c, k) => Seen(e, d, l)
  <2>1. CASE l = k
    BY <1>3, <2>1 DEF Seen, Known, InView, FirstHead
  <2>2. CASE Took(k, l, c.buf[1])
    BY <1>3, <2>2, SeenTook
  <2> QED BY <2>1, <2>2
<1>5. Heard(e, c) => Heard(e, d) \/ Seen(e, d, l)
  BY HeardTook
<1>6. Piped(e, C, d, l)
  BY <1>2, <1>4, <1>5 DEF Piped, Answering
<1> QED BY <1>6, AnsweringCovers DEF Answering

LEMMA BufferedInforms ==
  ASSUME Carried(Events), InformInv, WriteBuffered
  PROVE  InformInv'
<1> DEFINE c == conn
           d == conn'
           k == client
           l == client'
           f == sess
           p == conn.pod
           h == Head(conn.buf)
           q == Tail(conn.buf)
           w == Wrote(h)
<1>1. c.phase = "replay" /\ c.todo = <<>> /\ NoBus /\ sess' = f
  BY DEF WriteBuffered
<1>2. Shape(c, k) /\ k \in Clients /\ BufKept(c, k, f)
  BY DEF InformInv, Shape
<1>3. /\ Sound(Events, c, f) /\ c \in Streams(Events) /\ p \in Pods /\ StreamOrder(c, f[p])
      /\ c.buf # <<>> /\ c.buf \in Seq(StreamFrames(Events))
  BY <1>1, StreamTypes DEF Carried, Sound
<1>4. /\ Shifted(c.buf, q) /\ h = c.buf[1] /\ 1 \in 1 .. Len(c.buf)
      /\ h \in StreamFrames(Events) /\ q \in Seq(StreamFrames(Events))
  BY <1>3, TailShifted, TailKeeps
<1>5. /\ Len(c.todo) = 0 /\ IsEvent(h) /\ h.ev \in Events /\ h.id \in Ids
      /\ At(h.id, p, f[p]) /\ (h.id \notin c.sent => Later(h.id, conn.high))
  <2>1. Len(c.todo) = 0
    BY <1>1
  <2>2. IsEvent(h) /\ At(h.id, p, f[p])
    BY <1>1, <1>3, <1>4 DEF StreamOrder
  <2>3. h.ev \in Events /\ h.id \in Ids
    BY <1>4, <2>2 DEF StreamFrames, IsEvent
  <2>4. Replaying(c)
    BY <1>1, <1>3 DEF StreamOrder
  <2>5. h.id \notin c.sent => After(h.id, c)
    BY <1>4, <2>1, <2>4 DEF Replaying
  <2> QED BY <2>1, <2>2, <2>3, <2>5 DEF After
<1>6. k.last.pod = p
  <2>1. Len(c.todo) # 1
    BY <1>5
  <2> QED BY <1>1, <1>2, <2>1 DEF Shape, OpenShape
<1> HIDE DEF q
<1>7. ASSUME NEW y \in Streams(Events), y.phase = c.phase, y.pod = p, y.todo = c.todo,
             y.sent = c.sent, d = Settled([y EXCEPT !.buf = q])
      PROVE  /\ d.pod = p /\ Len(d.todo) = 0 /\ d.buf = q /\ Answering(c, d)
             /\ d.phase = "replay" => d.sent = c.sent
  <2> DEFINE x == [y EXCEPT !.buf = q]
  <2>1. /\ x \in Streams(Events) /\ x.phase = "replay" /\ x.todo = c.todo /\ x.pod = p
        /\ x.buf = q /\ x.sent = c.sent
    <3> HIDE DEF StreamFrames, Ids, Phases
    <3> QED BY <1>1, <1>4, <1>7 DEF Streams
  <2> HIDE DEF x
  <2>2. d = Settled(x)
    BY <1>7 DEF x
  <2> QED BY <1>5, <2>1, <2>2, SettledFields DEF Answering
<1>8. \/ /\ h.id \in c.sent /\ l = k /\ d = Settled([c EXCEPT !.buf = q])
      \/ /\ h.id \notin c.sent /\ l = Received(h) /\ d = Settled([w EXCEPT !.buf = q])
  <2>1. w.buf = c.buf
    BY <1>3 DEF Wrote, Streams
  <2> QED BY <2>1 DEF WriteBuffered, q
<1> HIDE DEF h
<1>9. /\ d.pod = p /\ Len(d.todo) = 0 /\ d.buf = q /\ Answering(c, d)
      /\ d.phase = "replay" => d.sent = c.sent
  <2>1. CASE h.id \in c.sent /\ d = Settled([c EXCEPT !.buf = q])
    BY <1>3, <1>7, <2>1
  <2>2. CASE h.id \notin c.sent /\ d = Settled([w EXCEPT !.buf = q])
    <3>1. /\ w \in Streams(Events) /\ w.phase = c.phase /\ w.pod = p
          /\ w.todo = c.todo /\ w.sent = c.sent
      BY <1>3, <1>4, <1>5, <2>2, WroteTypes
    <3> HIDE DEF w
    <3> QED BY <1>7, <2>2, <3>1
  <2> QED BY <1>8, <2>1, <2>2
<1>10. /\ l = k \/ Took(k, l, h)
       /\ h.ev \in l.known /\ k.known \subseteq l.known
  <2>1. CASE h.id \in c.sent /\ l = k
    BY <1>1, <1>2, <1>4, <2>1 DEF BufKept
  <2>2. CASE l = Received(h)
    <3>1. Took(k, l, h)
      BY <1>2, <1>5, <2>2, FrameTaken DEF IsEvent
    <3> QED BY <1>5, <3>1 DEF Took
  <2> QED BY <1>8, <2>1, <2>2
<1>11. Shape(d, l)
  <2>1. d.phase \in {"replay", "live"} /\ h.id.pod = p
    BY <1>5, <1>9 DEF Answering, At
  <2>2. \A n \in 1 .. Len(d.todo) : IsEvent(d.todo[n])
    BY <1>9
  <2>3. CASE Took(k, l, h)
    BY <1>1, <1>2, <1>3, <1>9, <2>1, <2>2, <2>3, TookShape
  <2>4. CASE l = k
    <3>1. k.connected /\ k.last # NoCursor
      BY <1>1, <1>2 DEF Shape, AwayShape, OpenShape, Away
    <3> QED BY <1>2, <1>6, <1>9, <2>1, <2>2, <2>4, <3>1
         DEF Shape, AwayShape, OpenShape, Away
  <2> QED BY <1>10, <2>3, <2>4
<1>12. BufKept(d, l, f)
  BY <1>1, <1>2, <1>4, <1>9, <1>10, ShiftKept DEF Answering
<1>13. CoverStep
  <2> SUFFICES ASSUME NEW e, NEW C, Covered(e, C, c, k, f)
               PROVE  Covered(e, C, d, l, f)
    BY <1>1 DEF CoverStep
  <2>1. /\ c.pod \in Pods /\ IsEvent(c.buf[1]) /\ c.buf[1].ev \in l.known
        /\ l = k \/ Took(k, l, c.buf[1])
        /\ Shifted(c.buf, d.buf)
    BY <1>3, <1>4, <1>5, <1>9, <1>10
  <2> HIDE DEF c, d, k, l, f
  <2> QED BY <1>1, <1>5, <1>9, <1>11, <2>1, BufferedCovers
<1>14. d.pod \in Pods
  BY <1>3, <1>9
<1> QED BY <1>1, <1>11, <1>12, <1>13, <1>14, ClientInforms

\* What is kept under a later id is ahead of an earlier one.
LEMMA KeptAhead ==
  ASSUME NEW s, Kept(s), NEW id \in Ids, NEW last \in Ids, NEW e, Keeps(id, e, s),
         Past(id, s), Later(id, last)
  PROVE  Ahead(e, last, s)
<1>1. /\ id.gen \in Nat /\ id.seq \in Nat /\ last.gen \in Nat /\ last.seq \in Nat
      /\ s.gen \in Nat /\ s.floor \in Nat
      /\ \A i \in 1 .. Len(s.buf) : s.buf[i].seq \in Nat
  BY KeptTypes DEF Ids
<1> SUFFICES ASSUME s.tracked, last.gen = s.gen
             PROVE  \/ last.seq < s.floor
                    \/ \E i \in 1 .. Len(s.buf) : s.buf[i].ev = e /\ s.buf[i].seq > last.seq
  BY DEF Ahead
<1>2. id.gen = s.gen /\ id.seq > last.seq
  BY <1>1 DEF Past, Later
<1>3. id.seq <= s.floor \/ \E i \in 1 .. Len(s.buf) : s.buf[i].ev = e /\ s.buf[i].seq = id.seq
  BY <1>2 DEF Keeps
<1> QED BY <1>1, <1>2, <1>3

LEMMA LiveCovers ==
  ASSUME NEW e, e \notin Trace, NEW C, NEW c, NEW d, NEW k, NEW l, NEW f, Covered(e, C, c, k, f),
         c.phase = "live", ~ResetQueued(c), c.pod \in Pods, Took(k, l, c.buf[1]),
         IsEvent(c.buf[1]), Shifted(c.buf, d.buf), d.phase = "live", d.pod = c.pod,
         l.last.pod = d.pod, l.last \in Ids, Kept(f[c.pod]),
         \A i \in 1 .. Len(d.buf) : /\ d.buf[i].id \in Ids /\ IsEvent(d.buf[i])
                                    /\ Past(d.buf[i].id, f[c.pod])
                                    /\ Later(d.buf[i].id, l.last)
                                    /\ d.buf[i].ev \notin Trace =>
                                         Keeps(d.buf[i].id, d.buf[i].ev, f[c.pod])
  PROVE  Covered(e, C, d, l, f)
<1>1. Piped(e, C, c, k)
  BY DEF Covered
<1>2. Seen(e, c, k) => Seen(e, d, l)
  BY SeenTook
<1>3. Heard(e, c) => Heard(e, d) \/ Seen(e, d, l)
  BY HeardTook DEF Took
<1>4. Piped(e, C, d, l)
  BY <1>1, <1>2, <1>3 DEF Piped
<1>5. Heard(e, d) => Ahead(e, l.last, f[c.pod])
  BY KeptAhead DEF Heard
<1>6. ByCursor(e, C, d, l, f)
  BY <1>4, <1>5 DEF Piped, ByCursor, Behind
<1> QED BY <1>4, <1>6 DEF Covered, Away

LEMMA LiveInforms ==
  ASSUME IInv, Carried(Events), InformInv, WriteLive
  PROVE  InformInv'
<1> DEFINE c == conn
           d == conn'
           k == client
           l == client'
           f == sess
           p == conn.pod
           h == Head(conn.buf)
           q == Tail(conn.buf)
           w == Wrote(h)
           head == HeadCursor(p)
<1>1. c.phase = "live" /\ c.buf # <<>> /\ NoBus /\ sess' = f
  BY DEF WriteLive
<1>2. Shape(c, k) /\ k \in Clients /\ BufKept(c, k, f) /\ k.connected
  BY <1>1 DEF InformInv, Shape, AwayShape, Away
<1>3. /\ Sound(Events, c, f) /\ c \in Streams(Events) /\ p \in Pods /\ StreamOrder(c, f[p])
      /\ c.buf \in Seq(StreamFrames(Events))
  BY <1>1, StreamTypes DEF Carried, Sound
<1>4. Kept(f[p])
  BY <1>3 DEF IInv
<1>5. CASE /\ ResetQueued(c) /\ l = Received(Control("reset", head)) /\ d = Closing(c)
  <2> DEFINE r == Control("reset", head)
  <2>1. r.do = "reset" /\ r.id = head /\ head \in Ids /\ head.pod = p
    BY <1>3, <1>4, KeptTypes DEF Control, HeadCursor, Cursor, Ids
  <2>2. Took(k, l, r)
    BY <1>2, <1>5, <2>1, FrameTaken
  <2> HIDE DEF r, head
  <2>3. d.phase = "closing" /\ d.pod = p
    BY <1>3, <1>5, BufUpdates
  <2>4. l \in Clients /\ l.connected /\ ViewShape(l)
    BY <1>2, <1>3, <2>1, <2>2 DEF Took, Shape, ViewShape, SameView
  <2>5. Shape(d, l)
    BY <2>3, <2>4 DEF Shape, AwayShape, OpenShape, Away
  <2>6. BufKept(d, l, f)
    BY <2>3 DEF BufKept
  <2>7. CoverStep
    <3>1. \A e, C : Covered(e, C, d, l, sess')
      BY <2>3 DEF Covered, Away
    <3> QED BY <3>1 DEF CoverStep
  <2> QED BY <1>1, <2>3, <2>5, <2>6, <2>7, ClientInforms
<1>6. CASE /\ ~ResetQueued(c) /\ l = Received(h) /\ d = [w EXCEPT !.buf = q]
  <2>1. /\ Shifted(c.buf, q) /\ h = c.buf[1] /\ 1 \in 1 .. Len(c.buf)
        /\ h \in StreamFrames(Events) /\ q \in Seq(StreamFrames(Events))
        /\ Ascends(c.buf) => \A i \in 1 .. Len(q) : Later(q[i].id, c.buf[1].id)
    BY <1>1, <1>3, TailShifted, TailKeeps
  <2>2. /\ Ascends(c.buf) /\ \A i \in 1 .. Len(c.buf) : IsEvent(c.buf[i])
        /\ \A i \in 1 .. Len(c.buf) : c.buf[i].id \in Ids /\ At(c.buf[i].id, p, f[p])
        /\ \A i \in 1 .. Len(c.buf) : IsEvent(c.buf[i]) => Later(c.buf[i].id, c.high)
    <3>1. \A i \in 1 .. Len(c.buf) : IsEvent(c.buf[i])
      BY <1>3, <1>6 DEF StreamOrder, ResetQueued
    <3> QED BY <1>1, <1>3, <3>1, StreamTypes DEF StreamOrder
  <2>3. IsEvent(h) /\ h.id \in Ids /\ At(h.id, p, f[p]) /\ Later(h.id, conn.high)
    BY <2>1, <2>2
  <2>4. h.ev \in Events
    BY <2>1, <2>3 DEF StreamFrames, IsEvent
  <2>5. Took(k, l, h)
    BY <1>2, <1>6, <2>3, <2>4, FrameTaken DEF IsEvent
  <2> HIDE DEF h, q
  <2>6. d.phase = "live" /\ d.pod = p /\ d.buf = q
    <3>1. /\ w \in Streams(Events) /\ w.phase = c.phase /\ w.pod = p
      BY <1>3, <2>1, <2>3, WroteTypes
    <3> HIDE DEF w
    <3>2. d.phase = w.phase /\ d.pod = w.pod /\ d.buf = q
      BY <1>6, <2>1, <3>1, HeardTypes
    <3> QED BY <1>1, <3>1, <3>2
  <2>7. Shape(d, l)
    <3>1. h.id.pod = p
      BY <2>3 DEF At
    <3> QED BY <1>1, <1>2, <1>3, <2>5, <2>6, <3>1, TookShape
  <2>8. BufKept(d, l, f)
    BY <1>1, <1>2, <2>1, <2>5, <2>6, ShiftKept DEF Took
  <2>9. l.last = h.id /\ l.last.pod = d.pod /\ l.last \in Ids
    BY <2>3, <2>5, <2>6 DEF Took, At
  <2>10. \A i \in 1 .. Len(d.buf) :
           /\ d.buf[i].id \in Ids /\ IsEvent(d.buf[i]) /\ Past(d.buf[i].id, f[p])
           /\ Later(d.buf[i].id, l.last)
           /\ d.buf[i].ev \notin Trace => Keeps(d.buf[i].id, d.buf[i].ev, f[p])
    <3> TAKE i \in 1 .. Len(d.buf)
    <3>1. PICK j \in 1 .. Len(c.buf) : d.buf[i] = c.buf[j]
      BY <2>1, <2>6 DEF Shifted
    <3>2. Later(d.buf[i].id, l.last)
      BY <2>1, <2>2, <2>6, <2>9
    <3>3. c.buf[j].ev \notin Trace => Keeps(c.buf[j].id, c.buf[j].ev, f[p])
      BY <1>1, <1>2, <2>2 DEF BufKept
    <3> QED BY <2>2, <3>1, <3>2, <3>3 DEF At
  <2>11. CoverStep
    <3> SUFFICES ASSUME NEW e, e \notin Trace, NEW C, Covered(e, C, c, k, f)
                 PROVE  Covered(e, C, d, l, f)
      BY <1>1 DEF CoverStep
    <3>1. /\ c.pod \in Pods /\ IsEvent(c.buf[1]) /\ Took(k, l, c.buf[1])
          /\ Shifted(c.buf, d.buf) /\ d.pod = c.pod /\ Kept(f[c.pod])
          /\ \A i \in 1 .. Len(d.buf) :
               /\ d.buf[i].id \in Ids /\ IsEvent(d.buf[i]) /\ Past(d.buf[i].id, f[c.pod])
               /\ Later(d.buf[i].id, l.last)
               /\ d.buf[i].ev \notin Trace => Keeps(d.buf[i].id, d.buf[i].ev, f[c.pod])
      BY <1>3, <1>4, <2>1, <2>3, <2>5, <2>6, <2>10
    <3> HIDE DEF c, d, k, l, f
    <3> QED BY <1>1, <1>6, <2>6, <2>9, <3>1, LiveCovers
  <2>12. d.pod \in Pods
    BY <1>3, <2>6
  <2> QED BY <1>1, <2>7, <2>8, <2>11, <2>12, ClientInforms
<1>7. \/ ResetQueued(c) /\ l = Received(Control("reset", head)) /\ d = Closing(c)
      \/ ~ResetQueued(c) /\ l = Received(h) /\ d = [w EXCEPT !.buf = q]
  <2>1. w.buf = c.buf
    BY <1>3 DEF Wrote, Streams
  <2> QED BY <2>1 DEF WriteLive
<1> QED BY <1>5, <1>6, <1>7

LEMMA StartInforms ==
  ASSUME Carried(Events), \A e \in Events : news[e].st = "none", Shape(conn, client),
         conn.phase \in {"none", "live"}, conn.phase = "live" => Len(conn.buf) = 0
  PROVE  InformInv
<1>1. ASSUME NEW e \in Events \ Trace
      PROVE  Covered(e, ComesTo(e), conn, client, sess)
  <2>1. Pods \subseteq ComesTo(e)
    BY DEF ComesTo, Coming
  <2>2. conn.phase \notin {"none", "closing"} => conn.pod \in Pods
    BY DEF Carried, Sound
  <2> QED BY <2>1, <2>2, CoverAll
<1>2. BufKept(conn, client, sess)
  BY DEF BufKept
<1> QED BY <1>1, <1>2 DEF InformInv, CoverInv

LEMMA InitInforms ==
  ASSUME Init, Carried(Events)
  PROVE  InformInv
<1>1. NoCursor \in Ids /\ NoCursor.pod = NoPod /\ NoPod \notin Pods
  BY PlacedNone, BusConstants DEF NoCursor
<1>2. \A e \in Events : news[e].st = "none"
  <2>1. PICK s, n : BusInitWith(s, n)
    BY DEF Init, InitOpening, InitLive
  <2> QED BY SMTT(25), <2>1 DEF BusInitWith
<1>3. CASE InitOpening
  <2>1. conn.phase = "none" /\ ~conn.silent
    <3>1. conn = NoConn(FALSE)
      BY <1>3 DEF InitOpening
    <3> QED BY <3>1, NoConnFields
  <2>2. /\ client \in Clients /\ client.view = "none" /\ client.last = NoCursor
        /\ client.head = NoCursor /\ ~client.viewChecked
    <3>1. client = NewClient
      BY <1>3 DEF InitOpening
    <3> HIDE DEF NoCursor, Ids, Events
    <3> QED BY <1>1, <3>1 DEF NewClient, Clients
  <2>3. Shape(conn, client)
    BY <2>1, <2>2 DEF Shape, ViewShape, AwayShape, OpenShape, Away
  <2> QED BY <1>2, <2>1, <2>3, StartInforms
<1>4. ASSUME NEW p \in Pods, InitLive(p) PROVE InformInv
  <2> DEFINE here == [pod |-> p, gen |-> 1, seq |-> 0]
  <2>1. here \in Ids /\ here.pod = p /\ here # NoCursor
    BY <1>1 DEF Ids
  <2>2. /\ conn = [NoConn(FALSE) EXCEPT !.phase = "live", !.pod = p, !.cursor = here]
        /\ client = [NewClient EXCEPT !.last = here, !.view = "applied", !.viewCursor = here,
                                      !.viewChecked = TRUE, !.connected = TRUE]
    BY <1>4 DEF InitLive
  <2> HIDE DEF here
  <2>3. conn.phase = "live" /\ conn.pod = p /\ Len(conn.buf) = 0
    <3> HIDE DEF NoCursor
    <3> QED BY <2>2 DEF NoConn
  <2>4. /\ client \in Clients /\ client.view = "applied" /\ client.last = here
        /\ client.viewCursor = here /\ client.viewKnown = {} /\ client.connected
        /\ client.viewChecked
    <3> HIDE DEF NoCursor, Ids, Events
    <3> QED BY <1>1, <2>1, <2>2 DEF NewClient, Clients
  <2>5. Shape(conn, client)
    BY <2>1, <2>3, <2>4 DEF Shape, ViewShape, AwayShape, OpenShape, Away
  <2> QED BY <1>2, <2>3, <2>5, StartInforms
<1> QED BY <1>3, <1>4 DEF Init

LEMMA StepInforms ==
  ASSUME "earlyPause" \notin Faults, IInv, Carried(Events), BusOrder, InformInv, [Next]_vars
  PROVE  InformInv'
<1>1. \A q \in Pods : Moved(sess[q], sess'[q])
  BY SessionsMove
<1>2. CASE BusStep
  BY <1>2, BusInforms
<1>3. CASE ClientStep
  <2>1. ASSUME NEW p \in Pods, ReadView(p) \/ Connect(p) PROVE InformInv'
    BY <1>1, <2>1, ReadViewInforms, ConnectInforms
  <2>2. ASSUME NEW silent \in BOOLEAN, Leave(silent) PROVE InformInv'
    BY <1>1, <2>2, LeaveInforms, PauseInforms
  <2>3. CASE ApplyView \/ Activate \/ WriteConnected \/ WriteReplay
    BY <1>1, <2>3, ApplyViewInforms, ActivateInforms, ConnectedInforms, ReplayInforms
  <2>4. CASE WriteBuffered \/ WriteLive \/ Heartbeat \/ EndStream \/ Recover
    BY <2>4, BufferedInforms, LiveInforms, HeartbeatInforms, EndInforms, RecoverInforms
  <2> QED BY <1>3, <2>1, <2>2, <2>3, <2>4 DEF ClientStep
<1>4. CASE UNCHANGED vars
  BY <1>4, StutterInforms
<1> QED BY <1>2, <1>3, <1>4 DEF Next

LEMMA NoneToTell ==
  ASSUME NEW q, Len(q) = 0
  PROVE  ToSet(q) = {}
<1>1. \A i \in 1 .. 0 : FALSE
  OBVIOUS
<1> QED BY <1>1 DEF ToSet

\* When all is quiet only what is lost to the pod of the client still comes.
LEMMA QuietComes ==
  ASSUME BusQuiet, NEW e \in Committed, NEW q \in Pods, Coming(e, q)
  PROVE  news[e].pod # q /\ (news[e].st = "unpublished" \/ LostAtTail(e))
<1>1. e \in Events /\ news[e].st \notin {"none", "queued", "saving"} /\ listening[q]
  BY DEF BusQuiet, Committed
<1>2. ToSet(wire[q]) = {} /\ \A o \in Pods : ToSet(chain[q][o]) = {} /\ recv[q][o].parked = {}
  BY NoneToTell DEF BusQuiet
<1>3. ~Told(e, q) /\ ~Flies(e, q) /\ ~Queued(e)
  BY <1>1, <1>2 DEF Told, Flies, Queued
<1>4. TailLost(e, news) => LostAtTail(e)
  BY DEF TailLost, SentBelow, StreamOf, LostAtTail
<1> QED BY <1>1, <1>3, <1>4 DEF Coming

\* When nothing is under way, a client with a live stream knows every change,
\* but for the two losses that the bus cannot show a client of another pod: the
\* receive chains, the resets, the replay ring, the restored view and the
\* recovery leave no other hole.  No pause for an action of the page may come
\* before the stream is settled (handlePauseChange, reconnectRecoveryOpen).
THEOREM Sync == ASSUME "earlyPause" \notin Faults PROVE Spec => []InSync
<1> DEFINE I == IInv /\ Carried(Committed) /\ BusOrder /\ InformInv
<1>1. ASSUME Carried(Committed) PROVE Carried(Events)
  BY <1>1, CarriedWider DEF Committed
<1>2. Init => I
  BY <1>1, InitInv, InitCarried, InitOrdered, InitInforms
<1>3. I /\ [Next]_vars => I'
  <2> SUFFICES ASSUME I, [Next]_vars PROVE I'
    OBVIOUS
  <2>1. Carried(Events) /\ Links(Events)
    BY <1>1 DEF Carried
  <2>2. IInv' /\ Carried(Committed)'
    BY StepInv, CommittedCarries
  <2> QED BY <2>1, <2>2, StepOrdered, StepInforms
<1>4. I => InSync
  <2> SUFFICES ASSUME I, BusQuiet, ClientQuiet, NEW e \in Committed \ Trace, e \notin client.known
               PROVE  news[e].pod # conn.pod /\ (news[e].st = "unpublished" \/ LostAtTail(e))
    BY DEF InSync
  <2>1. conn.pod \in Pods /\ conn.phase = "live" /\ conn.buf = <<>>
    BY <1>1 DEF Carried, Sound, ClientQuiet
  <2>2. Shape(conn, client) /\ Covered(e, ComesTo(e), conn, client, sess)
    BY DEF InformInv, CoverInv, Committed
  <2>3. Piped(e, ComesTo(e), conn, client)
    BY <2>1, <2>2 DEF Covered, ResetQueued
  <2>4. ~Heard(e, conn)
    <3>1. Len(conn.buf) = 0 /\ \A i \in 1 .. 0 : FALSE
      BY <2>1
    <3> QED BY <3>1 DEF Heard
  <2>5. ~Seen(e, conn, client)
    BY <2>1, <2>2 DEF ClientQuiet, Seen, Known, InView, FirstHead, Shape, ViewShape
  <2>6. Coming(e, conn.pod)
    BY <2>3, <2>4, <2>5 DEF Piped, ComesTo
  <2> QED BY <2>1, <2>6, QuietComes
<1> QED BY <1>2, <1>3, <1>4, PTL DEF Spec
=============================================================================
