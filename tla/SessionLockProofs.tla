------------------------- MODULE SessionLockProofs -------------------------
(***************************************************************************)
(* The in-process session lock implements a fair queue for any number of   *)
(* calls and keys and any nesting of calls.                                *)
(*                                                                         *)
(* The inductive invariant is QueueInv. A step asks for at most one key    *)
(* and enters or releases at most one other; the lemmas treat each key by  *)
(* itself. On top of it LeaseInv says which leases the callback of a call  *)
(* finds in its context.                                                   *)
(***************************************************************************)
EXTENDS SessionLock, FiniteSetTheorems, TLAPS

-----------------------------------------------------------------------------
(* Sequences *)

LEMMA SeqFacts ==
  ASSUME NEW S, NEW q \in Seq(S)
  PROVE  /\ Len(q) \in Nat
         /\ \A i \in 1..Len(q) : q[i] \in S
         /\ q = <<>> <=> Len(q) = 0
OBVIOUS

LEMMA AppendFacts ==
  ASSUME NEW S, NEW q \in Seq(S), NEW c \in S
  PROVE  /\ Append(q, c) \in Seq(S)
         /\ Len(Append(q, c)) = Len(q) + 1
         /\ Append(q, c)[Len(q) + 1] = c
         /\ \A i \in 1..Len(q) : Append(q, c)[i] = q[i]
OBVIOUS

LEMMA TailFacts ==
  ASSUME NEW S, NEW q \in Seq(S), q # <<>>
  PROVE  /\ Tail(q) \in Seq(S)
         /\ Len(Tail(q)) = Len(q) - 1
         /\ \A i \in 1..(Len(q) - 1) : Tail(q)[i] = q[i + 1]
OBVIOUS

LEMMA LineIsSeq ==
  ASSUME TypeOK, NEW k \in Keys
  PROVE  /\ line[k] \in Seq(Calls)
         /\ Len(line[k]) \in Nat
         /\ \A i \in 1..Len(line[k]) : line[k][i] \in Calls
         /\ line[k] = <<>> <=> Len(line[k]) = 0
<1>1. line[k] \in Seq(Calls)
  BY DEF TypeOK
<1> QED BY <1>1, SeqFacts

-----------------------------------------------------------------------------
\* What Advance does to the queues: nothing, or one request for a key.
Asks(c, k) ==
  /\ pc' = [pc EXCEPT ![c] = "wait"]
  /\ at' = [at EXCEPT ![c] = k]
  /\ pred' = [pred EXCEPT ![c] = tail[k]]
  /\ tail' = [tail EXCEPT ![k] = c]
  /\ line' = [line EXCEPT ![k] = Append(@, c)]

Passes(c) ==
  /\ pc' = [pc EXCEPT ![c] = "run"]
  /\ UNCHANGED <<at, pred, tail, line>>

LEMMA AdvanceCases ==
  ASSUME NEW c, NEW rest, NEW owners, Advance(c, rest, owners)
  PROVE  Passes(c) \/ \E k \in rest : Asks(c, k)
BY DEF Advance, Passes, Asks

LEMMA KeysOfCall ==
  ASSUME CallsAssumption, NEW c \in Calls
  PROVE  KeysOf(c) \subseteq Keys
BY DEF CallsAssumption, KeysOf

\* One queue, taken apart.
ChainedAt(k) ==
  /\ \A c \in Calls : InLine(c, k) <=> \E i \in 1..Len(line[k]) : line[k][i] = c
  /\ \A i, j \in 1..Len(line[k]) : line[k][i] = line[k][j] => i = j
  /\ tail[k] = IF line[k] = <<>> THEN NoCall ELSE line[k][Len(line[k])]
  /\ \A i \in 2..Len(line[k]) : /\ k \notin own[line[k][i]]
                                /\ pred[line[k][i]] = line[k][i - 1]
  /\ line[k] # <<>> /\ k \notin own[line[k][1]] /\ pred[line[k][1]] # NoCall =>
       k \in left[pred[line[k][1]]]

LEMMA ChainedEach == Chained <=> \A k \in Keys : ChainedAt(k)
BY DEF Chained, ChainedAt

\* A call that owns a key is the first in its line, and alone.
LEMMA OwnerIsFirst ==
  ASSUME QueueInv, NEW c \in Calls, NEW k \in Keys, k \in own[c]
  PROVE  line[k] # <<>> /\ line[k][1] = c /\ line[k] \in Seq(Calls)
<1>1. ChainedAt(k) /\ line[k] \in Seq(Calls)
  BY ChainedEach DEF QueueInv, TypeOK
<1>2. PICK i \in 1..Len(line[k]) : line[k][i] = c
  BY <1>1 DEF ChainedAt, InLine
<1>3. i = 1
  BY <1>1, <1>2 DEF ChainedAt
<1> QED BY <1>1, <1>2, <1>3

\* So is a call whose predecessor has released the key.
LEMMA EntererIsFirst ==
  ASSUME QueueInv, CallsAssumption, NEW c \in Calls, pc[c] = "wait",
         pred[c] # NoCall => at[c] \in left[pred[c]]
  PROVE  /\ at[c] \in Keys
         /\ line[at[c]] # <<>> /\ line[at[c]][1] = c
         /\ \A d \in Calls : at[c] \notin own[d]
<1> DEFINE k == at[c]
<1>1. k \in Keys /\ k \in Nat /\ \A x \in own[c] : x < k
  BY DEF QueueInv, Progress, CallsAssumption
<1>2. k \notin own[c]
  BY <1>1
<1>3. ChainedAt(k) /\ line[k] \in Seq(Calls)
  BY <1>1, ChainedEach DEF QueueInv, TypeOK
<1>4. PICK i \in 1..Len(line[k]) : line[k][i] = c
  BY <1>3 DEF ChainedAt, InLine
<1>5. i = 1
  <2> SUFFICES ASSUME i # 1 PROVE FALSE
    OBVIOUS
  <2>1. i \in 2..Len(line[k]) /\ i - 1 \in 1..Len(line[k])
    BY <1>3
  <2>2. PICK p \in Calls : p = line[k][i - 1]
    BY <1>3, <2>1
  <2>3. pred[c] = p
    BY <1>3, <1>4, <2>1, <2>2 DEF ChainedAt
  <2>4. InLine(p, k)
    BY <1>3, <2>1, <2>2 DEF ChainedAt
  <2>5. k \in left[p]
    BY <2>3 DEF CallsAssumption
  <2> QED BY <2>4, <2>5 DEF InLine, QueueInv, Progress
<1>6. ASSUME NEW d \in Calls, k \in own[d] PROVE FALSE
  BY <1>1, <1>2, <1>4, <1>5, <1>6, OwnerIsFirst
<1> QED BY <1>1, <1>3, <1>4, <1>5, <1>6

-----------------------------------------------------------------------------
(* One queue under each kind of change *)

\* Only call c moves.
OthersRest(c) ==
  \A d \in Calls \ {c} : pc'[d] = pc[d] /\ at'[d] = at[d] /\ pred'[d] = pred[d]

\* Only c may gain or lose the key, and nobody takes back a release.
Keeps(c, k) ==
  /\ \A d \in Calls \ {c} : k \in own'[d] <=> k \in own[d]
  /\ \A d \in Calls : left[d] \subseteq left'[d]

LEMMA KeyKept ==
  ASSUME CallsAssumption, TypeOK, NEW k \in Keys, ChainedAt(k),
         NEW c \in Calls, OthersRest(c), Keeps(c, k),
         k \in own'[c] <=> k \in own[c],
         ~(pc[c] = "wait" /\ at[c] = k),
         ~(pc'[c] = "wait" /\ at'[c] = k),
         line'[k] = line[k], tail'[k] = tail[k]
  PROVE  ChainedAt(k)'
<1>1. /\ line[k] \in Seq(Calls) /\ Len(line[k]) \in Nat
      /\ \A i \in 1..Len(line[k]) : line[k][i] \in Calls
      /\ line[k] = <<>> <=> Len(line[k]) = 0
  BY LineIsSeq
<1>2. \A d \in Calls : InLine(d, k)' <=> InLine(d, k)
  BY DEF InLine, OthersRest, Keeps
<1>3. \A d \in Calls : k \in own'[d] <=> k \in own[d]
  BY DEF Keeps
<1>4. \A d \in Calls : InLine(d, k) /\ k \notin own[d] => pred'[d] = pred[d]
  BY DEF InLine, OthersRest
<1>5. \A i \in 2..Len(line[k]) : k \notin own'[line[k][i]]
                                /\ pred'[line[k][i]] = line[k][i - 1]
  <2> SUFFICES ASSUME NEW i \in 2..Len(line[k])
               PROVE  k \notin own'[line[k][i]] /\ pred'[line[k][i]] = line[k][i - 1]
    OBVIOUS
  <2>1. i \in 1..Len(line[k])
    BY <1>1
  <2>2. PICK d \in Calls : d = line[k][i]
    BY <1>1, <2>1
  <2>3. InLine(d, k)
    BY <2>1, <2>2 DEF ChainedAt
  <2>4. k \notin own[d] /\ pred[d] = line[k][i - 1]
    BY <2>2 DEF ChainedAt
  <2> QED BY <1>3, <1>4, <2>2, <2>3, <2>4
<1>6. line[k] # <<>> /\ k \notin own'[line[k][1]] /\ pred'[line[k][1]] # NoCall =>
        k \in left'[pred'[line[k][1]]]
  <2> SUFFICES ASSUME line[k] # <<>>, k \notin own'[line[k][1]],
                      pred'[line[k][1]] # NoCall
               PROVE  k \in left'[pred'[line[k][1]]]
    OBVIOUS
  <2>1. PICK d \in Calls : d = line[k][1] /\ InLine(d, k)
    BY <1>1 DEF ChainedAt
  <2>2. pred'[d] = pred[d] /\ pred[d] \in Calls
    BY <2>1, <1>3, <1>4 DEF TypeOK
  <2> QED BY <2>1, <2>2, <1>3 DEF ChainedAt, Keeps
<1> QED BY <1>1, <1>2, <1>5, <1>6 DEF ChainedAt

LEMMA KeyAsked ==
  ASSUME CallsAssumption, TypeOK, NEW k \in Keys, ChainedAt(k),
         NEW c \in Calls, OthersRest(c), Keeps(c, k),
         k \notin own[c], k \notin own'[c],
         ~(pc[c] = "wait" /\ at[c] = k),
         pc'[c] = "wait", at'[c] = k, pred'[c] = tail[k],
         line'[k] = Append(line[k], c), tail'[k] = c
  PROVE  ChainedAt(k)'
<1> DEFINE q == line[k]
           r == line'[k]
           n == Len(line[k])
<1>1. q \in Seq(Calls) /\ n \in Nat /\ \A i \in 1..n : q[i] \in Calls
  BY LineIsSeq
<1>2. r \in Seq(Calls) /\ Len(r) = n + 1 /\ r[n + 1] = c
      /\ \A i \in 1..n : r[i] = q[i]
  BY <1>1, AppendFacts
<1>3. r # <<>> /\ (q = <<>> <=> n = 0)
  <2>1. q = <<>> <=> n = 0
    BY LineIsSeq
  <2>2. r = <<>> <=> Len(r) = 0
    BY <1>2, SeqFacts
  <2>3. Len(r) # 0
    BY <1>1, <1>2
  <2> QED BY <2>1, <2>2, <2>3
<1>4. \A d \in Calls : InLine(d, k)' <=> InLine(d, k) \/ d = c
  BY DEF InLine, OthersRest, Keeps
<1>5. \A i \in 1..n : q[i] # c
  BY <1>1 DEF ChainedAt, InLine
<1>6. \A d \in Calls : k \in own'[d] <=> k \in own[d]
  BY DEF Keeps
<1>7. \A d \in Calls : d # c => pred'[d] = pred[d]
  BY DEF OthersRest
<1>8. pred'[c] = IF n = 0 THEN NoCall ELSE q[n]
  BY <1>3 DEF ChainedAt
<1>13. Len(r) = n + 1
  BY <1>2
<1> HIDE DEF q, r, n
<1>9. \A d \in Calls : InLine(d, k)' <=> \E i \in 1..Len(r) : r[i] = d
  <2>1. \A d \in Calls : InLine(d, k) <=> \E i \in 1..n : q[i] = d
    BY DEF ChainedAt, q, n
  <2>2. ASSUME NEW d \in Calls, NEW i \in 1..Len(r), r[i] = d
        PROVE  d = c \/ \E j \in 1..n : q[j] = d
    <3>1. i = n + 1 \/ i \in 1..n
      BY <1>1, <1>13
    <3> QED BY <3>1, <2>2, <1>2
  <2>3. ASSUME NEW d \in Calls, NEW j \in 1..n, q[j] = d
        PROVE  \E i \in 1..Len(r) : r[i] = d
    <3>1. j \in 1..Len(r) /\ r[j] = q[j]
      BY <1>1, <1>2, <1>13
    <3> QED BY <3>1, <2>3
  <2>4. \E i \in 1..Len(r) : r[i] = c
    <3>1. n + 1 \in 1..Len(r)
      BY <1>1, <1>13
    <3> QED BY <3>1, <1>2
  <2> QED BY <2>1, <2>2, <2>3, <2>4, <1>4
<1>10. \A i, j \in 1..Len(r) : r[i] = r[j] => i = j
  <2>1. \A i, j \in 1..n : q[i] = q[j] => i = j
    BY DEF ChainedAt, q, n
  <2> SUFFICES ASSUME NEW i \in 1..Len(r), NEW j \in 1..Len(r), r[i] = r[j]
               PROVE  i = j
    OBVIOUS
  <2>2. (i = n + 1 \/ i \in 1..n) /\ (j = n + 1 \/ j \in 1..n)
    BY <1>1, <1>13
  <2>3. CASE i \in 1..n /\ j \in 1..n
    <3>1. r[i] = q[i] /\ r[j] = q[j]
      BY <2>3, <1>2
    <3> QED BY <3>1, <2>1, <2>3
  <2>4. ASSUME NEW m \in 1..n, r[m] = r[n + 1] PROVE FALSE
    <3>1. q[m] = c
      BY <2>4, <1>2
    <3> QED BY <3>1, <1>5
  <2> QED BY <2>2, <2>3, <2>4
<1>11. \A i \in 2..Len(r) : k \notin own'[r[i]] /\ pred'[r[i]] = r[i - 1]
  <2> SUFFICES ASSUME NEW i \in 2..Len(r)
               PROVE  k \notin own'[r[i]] /\ pred'[r[i]] = r[i - 1]
    OBVIOUS
  <2>1. CASE i = n + 1
    <3>1. n # 0 /\ i - 1 = n /\ n \in 1..n
      BY <2>1, <1>1, <1>13
    <3> QED BY <3>1, <2>1, <1>2, <1>8
  <2>2. CASE i # n + 1
    <3>1. i \in 2..n /\ i \in 1..n /\ i - 1 \in 1..n
      BY <2>2, <1>1, <1>13
    <3>2. k \notin own[q[i]] /\ pred[q[i]] = q[i - 1]
      BY <3>1 DEF ChainedAt, q, n
    <3>3. q[i] \in Calls /\ q[i] # c /\ r[i] = q[i] /\ r[i - 1] = q[i - 1]
      BY <3>1, <1>1, <1>2, <1>5
    <3>4. k \notin own'[q[i]] /\ pred'[q[i]] = pred[q[i]]
      BY <3>2, <3>3, <1>6, <1>7
    <3> QED BY <3>2, <3>3, <3>4
  <2> QED BY <2>1, <2>2
<1>12. k \notin own'[r[1]] /\ pred'[r[1]] # NoCall => k \in left'[pred'[r[1]]]
  <2>1. CASE n = 0
    BY <2>1, <1>2, <1>8
  <2>2. CASE n # 0
    <3>1. 1 \in 1..n /\ r[1] = q[1] /\ q[1] \in Calls /\ q[1] # c /\ q # <<>>
      BY <2>2, <1>1, <1>2, <1>3, <1>5
    <3>2. pred'[q[1]] = pred[q[1]] /\ pred[q[1]] \in Calls \cup {NoCall}
      BY <3>1, <1>7 DEF TypeOK
    <3>3. k \notin own[q[1]] /\ pred[q[1]] # NoCall => k \in left[pred[q[1]]]
      BY <3>1 DEF ChainedAt, q
    <3>4. ASSUME k \notin own'[q[1]], pred'[q[1]] # NoCall
          PROVE  k \in left'[pred'[q[1]]]
      <4>1. PICK d \in Calls : d = pred[q[1]]
        BY <3>2, <3>4
      <4>2. k \in left[d]
        BY <3>1, <3>2, <3>3, <3>4, <4>1, <1>6
      <4>3. left[d] \subseteq left'[d]
        BY DEF Keeps
      <4> QED BY <3>2, <4>1, <4>2, <4>3
    <3> QED BY <3>1, <3>4
  <2> QED BY <2>1, <2>2
<1>14. r # <<>> /\ tail'[k] = r[Len(r)]
  BY <1>2, <1>3
<1> QED BY <1>9, <1>10, <1>11, <1>12, <1>14 DEF ChainedAt, r

LEMMA KeyEntered ==
  ASSUME CallsAssumption, TypeOK, NEW k \in Keys, ChainedAt(k),
         NEW c \in Calls, OthersRest(c), Keeps(c, k),
         pc[c] = "wait", at[c] = k, k \in own'[c],
         line[k] # <<>>, line[k][1] = c,
         line'[k] = line[k], tail'[k] = tail[k]
  PROVE  ChainedAt(k)'
<1>1. /\ line[k] \in Seq(Calls) /\ Len(line[k]) \in Nat
      /\ \A i \in 1..Len(line[k]) : line[k][i] \in Calls
      /\ line[k] = <<>> <=> Len(line[k]) = 0
  BY LineIsSeq
<1>2. \A d \in Calls : InLine(d, k)' <=> InLine(d, k)
  BY DEF InLine, OthersRest, Keeps
<1>3. \A i \in 2..Len(line[k]) : line[k][i] # c
  BY <1>1 DEF ChainedAt
<1>4. \A i \in 2..Len(line[k]) : k \notin own'[line[k][i]]
                                /\ pred'[line[k][i]] = line[k][i - 1]
  <2> SUFFICES ASSUME NEW i \in 2..Len(line[k])
               PROVE  k \notin own'[line[k][i]] /\ pred'[line[k][i]] = line[k][i - 1]
    OBVIOUS
  <2>1. PICK d \in Calls : d = line[k][i] /\ d # c
    BY <1>1, <1>3
  <2>2. k \notin own[d] /\ pred[d] = line[k][i - 1]
    BY <2>1 DEF ChainedAt
  <2>3. (k \in own'[d] <=> k \in own[d]) /\ pred'[d] = pred[d]
    BY <2>1 DEF OthersRest, Keeps
  <2> QED BY <2>1, <2>2, <2>3
<1> QED BY <1>1, <1>2, <1>4 DEF ChainedAt

LEMMA KeyReleased ==
  ASSUME CallsAssumption, TypeOK, NEW k \in Keys, ChainedAt(k),
         NEW c \in Calls, OthersRest(c), Keeps(c, k),
         line[k] # <<>>, line[k][1] = c,
         k \notin own'[c], k \in left'[c], ~(pc'[c] = "wait" /\ at'[c] = k),
         line'[k] = Tail(line[k]), tail'[k] = TailAfter(c, k)
  PROVE  ChainedAt(k)'
<1> DEFINE q == line[k]
           r == line'[k]
           n == Len(line[k])
<1>1. q \in Seq(Calls) /\ n \in Nat /\ n # 0 /\ \A i \in 1..n : q[i] \in Calls
  BY LineIsSeq
<1>2. r \in Seq(Calls) /\ Len(r) = n - 1 /\ \A i \in 1..(n - 1) : r[i] = q[i + 1]
  BY <1>1, TailFacts
<1>3. r = <<>> <=> n = 1
  <2>1. r = <<>> <=> Len(r) = 0
    BY <1>2, SeqFacts
  <2> QED BY <2>1, <1>1, <1>2
<1>4. \A i, j \in 1..n : q[i] = q[j] => i = j
  BY DEF ChainedAt
<1>5. \A i \in 2..n : i \in 1..n /\ q[i] # c
  <2>1. 1 \in 1..n /\ q[1] = c
    BY <1>1
  <2>2. ASSUME NEW i \in 2..n PROVE i \in 1..n /\ i # 1
    BY <1>1
  <2> QED BY <2>1, <2>2, <1>4
<1>6. \A i \in 2..n : k \notin own'[q[i]] /\ pred'[q[i]] = q[i - 1]
  <2> SUFFICES ASSUME NEW i \in 2..n
               PROVE  k \notin own'[q[i]] /\ pred'[q[i]] = q[i - 1]
    OBVIOUS
  <2>1. PICK d \in Calls : d = q[i] /\ d # c
    BY <1>1, <1>5
  <2>2. k \notin own[d] /\ pred[d] = q[i - 1]
    BY <2>1 DEF ChainedAt
  <2>3. (k \in own'[d] <=> k \in own[d]) /\ pred'[d] = pred[d]
    BY <2>1 DEF OthersRest, Keeps
  <2> QED BY <2>1, <2>2, <2>3
<1>7. tail[k] = q[n] /\ q[1] = c
  BY <1>1 DEF ChainedAt
<1>8. \A d \in Calls : InLine(d, k)' <=> InLine(d, k) /\ d # c
  BY DEF InLine, OthersRest, Keeps
<1>9. \A d \in Calls : InLine(d, k) <=> \E i \in 1..n : q[i] = d
  BY DEF ChainedAt
<1> HIDE DEF q, r, n
<1>10. \A d \in Calls : InLine(d, k)' <=> \E i \in 1..Len(r) : r[i] = d
  <2> SUFFICES ASSUME NEW d \in Calls
               PROVE  (d # c /\ \E i \in 1..n : q[i] = d) <=>
                      \E i \in 1..Len(r) : r[i] = d
    BY <1>8, <1>9
  <2>1. ASSUME d # c, NEW i \in 1..n, q[i] = d
        PROVE  \E j \in 1..Len(r) : r[j] = d
    <3>1. i - 1 \in 1..(n - 1) /\ (i - 1) + 1 = i
      BY <2>1, <1>1, <1>7
    <3> QED BY <3>1, <2>1, <1>2
  <2>2. ASSUME NEW j \in 1..Len(r), r[j] = d
        PROVE  d # c /\ \E i \in 1..n : q[i] = d
    <3>1. j + 1 \in 2..n /\ j + 1 \in 1..n /\ q[j + 1] = d
      BY <2>2, <1>1, <1>2
    <3> QED BY <3>1, <1>5
  <2> QED BY <2>1, <2>2
<1>11. \A i, j \in 1..Len(r) : r[i] = r[j] => i = j
  <2> SUFFICES ASSUME NEW i \in 1..Len(r), NEW j \in 1..Len(r), r[i] = r[j]
               PROVE  i = j
    OBVIOUS
  <2>1. i \in 1..(n - 1) /\ j \in 1..(n - 1)
    <3>1. Len(r) = n - 1
      BY <1>2
    <3> QED BY <3>1
  <2>2. /\ i + 1 \in 1..n /\ r[i] = q[i + 1]
        /\ j + 1 \in 1..n /\ r[j] = q[j + 1]
    <3>1. i + 1 \in 1..n /\ j + 1 \in 1..n
      BY <2>1, <1>1
    <3> QED BY <3>1, <2>1, <1>2
  <2>3. i + 1 = j + 1
    BY <2>2, <1>4
  <2> QED BY <2>1, <2>3
<1>12. tail'[k] = IF r = <<>> THEN NoCall ELSE r[Len(r)]
  <2>1. CASE n = 1
    BY <2>1, <1>3, <1>7 DEF TailAfter
  <2>2. CASE n # 1
    <3>1. n \in 2..n /\ q[n] # c /\ n - 1 \in 1..(n - 1) /\ (n - 1) + 1 = n
      BY <2>2, <1>1, <1>5
    <3> QED BY <3>1, <2>2, <1>2, <1>3, <1>7 DEF TailAfter
  <2> QED BY <2>1, <2>2
<1>13. \A i \in 2..Len(r) : k \notin own'[r[i]] /\ pred'[r[i]] = r[i - 1]
  <2> SUFFICES ASSUME NEW i \in 2..Len(r)
               PROVE  k \notin own'[r[i]] /\ pred'[r[i]] = r[i - 1]
    OBVIOUS
  <2>1. i + 1 \in 2..n /\ (i + 1) - 1 = i /\ r[i] = q[i + 1] /\ r[i - 1] = q[i]
    <3>1. i \in 1..(n - 1) /\ i - 1 \in 1..(n - 1) /\ (i - 1) + 1 = i
      BY <1>1, <1>2
    <3>2. i + 1 \in 2..n /\ (i + 1) - 1 = i
      BY <3>1, <1>1
    <3>3. r[i - 1] = q[(i - 1) + 1]
      BY <3>1, <1>2
    <3> QED BY <3>1, <3>2, <3>3, <1>2
  <2> QED BY <2>1, <1>6
<1>14. r # <<>> => pred'[r[1]] = c
  <2> SUFFICES ASSUME r # <<>> PROVE pred'[r[1]] = c
    OBVIOUS
  <2>1. 2 \in 2..n /\ 1 \in 1..(n - 1)
    BY <1>1, <1>3
  <2>2. r[1] = q[2]
    <3>1. r[1] = q[1 + 1]
      BY <2>1, <1>2
    <3> QED BY <3>1
  <2>3. pred'[q[2]] = q[2 - 1]
    BY <2>1, <1>6
  <2> QED BY <2>2, <2>3, <1>7
<1> QED BY <1>10, <1>11, <1>12, <1>13, <1>14 DEF ChainedAt, r
-----------------------------------------------------------------------------
(* The steps *)

LEMMA Initially ==
  ASSUME CallsAssumption, Init
  PROVE  QueueInv
<1>1. TypeOK
  BY DEF CallsAssumption, Init, TypeOK, NoContext, NoKey
<1>2. Progress
  BY DEF Init, Progress
<1>3. Chained
  BY DEF Init, Chained, InLine
<1> QED BY <1>1, <1>2, <1>3 DEF QueueInv

LEMMA AdvanceTypes ==
  ASSUME CallsAssumption, TypeOK, NEW c \in Calls, NEW rest \in SUBSET Keys,
         NEW owners, Advance(c, rest, owners),
         own' \in [Calls -> SUBSET Keys], left' \in [Calls -> SUBSET Keys],
         ctx' \in [Calls -> [Keys -> Calls \cup {NoCall}]]
  PROVE  TypeOK'
<1>1. CASE Passes(c)
  BY <1>1 DEF Passes, TypeOK
<1>2. ASSUME NEW k \in rest, Asks(c, k) PROVE TypeOK'
  <2>1. /\ pc' \in [Calls -> {"idle", "wait", "run", "unwind", "done", "busy"}]
        /\ at' \in [Calls -> Keys \cup {NoKey}]
        /\ tail' \in [Keys -> Calls \cup {NoCall}]
    BY <1>2 DEF Asks, TypeOK
  <2>2. pred' \in [Calls -> Calls \cup {NoCall}]
    BY <1>2 DEF Asks, TypeOK
  <2>3. line' \in [Keys -> Seq(Calls)]
    <3>1. line[k] \in Seq(Calls)
      BY DEF TypeOK
    <3>2. Append(line[k], c) \in Seq(Calls)
      BY <3>1, AppendFacts
    <3> QED BY <3>2, <1>2 DEF Asks, TypeOK
  <2> QED BY <2>1, <2>2, <2>3 DEF TypeOK
<1> QED BY <1>1, <1>2, AdvanceCases

LEMMA InheritedType ==
  ASSUME CallsAssumption, TypeOK, NEW c \in Calls
  PROVE  Inherited(c) \in [Keys -> Calls \cup {NoCall}]
BY DEF CallsAssumption, TypeOK, Inherited, NoContext

\* A call begins: it holds nothing yet.
LEMMA BeginStep ==
  ASSUME CallsAssumption, QueueInv, NEW c \in Calls, pc[c] = "idle",
         ctx' = [ctx EXCEPT ![c] = Inherited(c)],
         Advance(c, KeysOf(c), Inherited(c)), UNCHANGED <<own, left>>
  PROVE  QueueInv'
<1>1. TypeOK'
  <2>1. ctx' \in [Calls -> [Keys -> Calls \cup {NoCall}]]
    BY InheritedType DEF QueueInv, TypeOK
  <2>2. KeysOf(c) \in SUBSET Keys
    BY KeysOfCall
  <2> QED BY <2>1, <2>2, AdvanceTypes DEF QueueInv, TypeOK
<1>2. CASE Passes(c)
  <2>1. Progress'
    BY <1>2 DEF QueueInv, Progress, Passes, TypeOK
  <2>2. ASSUME NEW k \in Keys PROVE ChainedAt(k)'
    <3>1. OthersRest(c) /\ Keeps(c, k) /\ pc'[c] = "run"
      BY <1>2 DEF OthersRest, Keeps, Passes, QueueInv, TypeOK
    <3> QED BY <3>1, <1>2, KeyKept, ChainedEach DEF QueueInv, Passes
  <2> QED BY <1>1, <2>1, <2>2, ChainedEach DEF QueueInv, Chained, ChainedAt
<1>3. ASSUME NEW n \in KeysOf(c), Asks(c, n) PROVE QueueInv'
  <2>1. n \in Keys /\ own[c] = {} /\ left[c] = {}
    BY KeysOfCall DEF QueueInv, Progress
  <2>2. Progress'
    BY <1>3, <2>1 DEF QueueInv, Progress, Asks, TypeOK
  <2>3. ASSUME NEW k \in Keys PROVE ChainedAt(k)'
    <3>1. /\ OthersRest(c) /\ Keeps(c, k)
          /\ pc'[c] = "wait" /\ at'[c] = n /\ pred'[c] = tail[n]
      BY <1>3 DEF OthersRest, Keeps, Asks, QueueInv, TypeOK
    <3>2. ChainedAt(k) /\ TypeOK /\ k \notin own[c] /\ k \notin own'[c]
      BY <2>1, ChainedEach DEF QueueInv
    <3>3. CASE k = n
      <4>1. line'[k] = Append(line[k], c) /\ tail'[k] = c
        BY <1>3, <3>3, <2>1 DEF Asks, QueueInv, TypeOK
      <4> QED BY <3>1, <3>2, <3>3, <4>1, KeyAsked
    <3>4. CASE k # n
      <4>1. line'[k] = line[k] /\ tail'[k] = tail[k]
        BY <1>3, <3>4 DEF Asks, QueueInv, TypeOK
      <4> QED BY <3>1, <3>2, <3>4, <4>1, KeyKept
    <3> QED BY <3>3, <3>4
  <2> QED BY <1>1, <2>2, <2>3, ChainedEach DEF QueueInv, Chained, ChainedAt
<1> QED BY <1>2, <1>3, AdvanceCases

\* The queues as Enter finds them.
LEMMA EnterFacts ==
  ASSUME CallsAssumption, QueueInv, NEW c \in Calls, Enter(c)
  PROVE  /\ at[c] \in Keys /\ pc[c] = "wait" /\ left[c] = {}
         /\ line[at[c]] # <<>> /\ line[at[c]][1] = c
         /\ \A d \in Calls : at[c] \notin own[d]
         /\ \A x \in own[c] : x < at[c]
         /\ own' = [own EXCEPT ![c] = @ \cup {at[c]}]
         /\ UNCHANGED left
         /\ Passes(c) \/ \E n \in Keys : at[c] < n /\ Asks(c, n)
<1>1. pc[c] = "wait" /\ (pred[c] # NoCall => at[c] \in left[pred[c]])
  BY DEF Enter
<1>2. at[c] \in Keys /\ line[at[c]] # <<>> /\ line[at[c]][1] = c
      /\ \A d \in Calls : at[c] \notin own[d]
  BY <1>1, EntererIsFirst
<1>3. left[c] = {} /\ \A x \in own[c] : x < at[c]
  BY <1>1 DEF QueueInv, Progress
<1>4. Passes(c) \/ \E n \in {x \in KeysOf(c) : Precedes(c, at[c], x)} : Asks(c, n)
  BY AdvanceCases DEF Enter
<1>5. Passes(c) \/ \E n \in Keys : at[c] < n /\ Asks(c, n)
  BY <1>4, KeysOfCall DEF Precedes
<1> QED BY <1>1, <1>2, <1>3, <1>5 DEF Enter

LEMMA EnterStep ==
  ASSUME CallsAssumption, QueueInv, NEW c \in Calls, Enter(c)
  PROVE  QueueInv'
<1> DEFINE a == at[c]
<1>1. /\ a \in Keys /\ pc[c] = "wait" /\ left[c] = {}
      /\ line[a] # <<>> /\ line[a][1] = c
      /\ \A x \in own[c] : x < a
      /\ own' = [own EXCEPT ![c] = @ \cup {a}]
      /\ UNCHANGED left
  BY EnterFacts
<1>2. TypeOK'
  <2>1. own' \in [Calls -> SUBSET Keys] /\ left' \in [Calls -> SUBSET Keys]
    BY <1>1 DEF QueueInv, TypeOK
  <2>2. ctx' \in [Calls -> [Keys -> Calls \cup {NoCall}]]
    BY DEF QueueInv, TypeOK, Enter
  <2>3. {x \in KeysOf(c) : Precedes(c, a, x)} \in SUBSET Keys
    BY KeysOfCall
  <2>4. Advance(c, {x \in KeysOf(c) : Precedes(c, a, x)}, [ctx[c] EXCEPT ![a] = c])
    BY DEF Enter
  <2> QED BY <2>1, <2>2, <2>3, <2>4, AdvanceTypes DEF QueueInv
<1>3. ASSUME NEW k \in Keys, pc'[c] = "wait" => at'[c] # a,
             OthersRest(c)
      PROVE  /\ Keeps(c, k) /\ ChainedAt(k) /\ TypeOK
             /\ k # a => (k \in own'[c] <=> k \in own[c])
             /\ k = a => k \in own'[c]
  BY <1>1, ChainedEach DEF Keeps, QueueInv, TypeOK
<1> HIDE DEF a
<1>4. CASE Passes(c)
  <2>1. Progress'
    BY <1>1, <1>4 DEF QueueInv, Progress, Passes, TypeOK
  <2>2. ASSUME NEW k \in Keys PROVE ChainedAt(k)'
    <3>1. OthersRest(c) /\ pc'[c] = "run" /\ line'[k] = line[k] /\ tail'[k] = tail[k]
      BY <1>4 DEF OthersRest, Passes, QueueInv, TypeOK
    <3>2. CASE k = a
      BY <3>1, <3>2, <1>1, <1>3, KeyEntered DEF a
    <3>3. CASE k # a
      BY <3>1, <3>3, <1>1, <1>3, KeyKept DEF a
    <3> QED BY <3>2, <3>3
  <2> QED BY <1>2, <2>1, <2>2 DEF QueueInv, Chained, ChainedAt
<1>5. ASSUME NEW n \in Keys, a < n, Asks(c, n) PROVE QueueInv'
  <2>1. a \in Nat /\ n \in Nat /\ own[c] \subseteq Nat
    BY <1>1 DEF CallsAssumption, QueueInv, TypeOK
  <2>2. n # a /\ n \notin own[c]
    BY <1>1, <1>5, <2>1
  <2>3. /\ OthersRest(c)
        /\ pc'[c] = "wait" /\ at'[c] = n /\ pred'[c] = tail[n]
    BY <1>5 DEF OthersRest, Asks, QueueInv, TypeOK
  <2>4. Progress'
    <3> SUFFICES ASSUME NEW d \in Calls
                 PROVE  /\ pc'[d] \in {"idle", "busy", "done"} => own'[d] = {}
                        /\ pc'[d] # "unwind" /\ pc'[d] # "done" => left'[d] = {}
                        /\ own'[d] \cap left'[d] = {}
                        /\ pc'[d] = "wait" =>
                             at'[d] \in Keys /\ \A x \in own'[d] : x < at'[d]
      BY DEF Progress
    <3>1. CASE d = c
      <4>1. own'[c] = own[c] \cup {a} /\ left'[c] = {}
        BY <1>1 DEF QueueInv, TypeOK
      <4>2. \A x \in own'[c] : x < n
        BY <4>1, <1>1, <1>5, <2>1
      <4> QED BY <3>1, <4>1, <4>2, <2>3
    <3>2. CASE d # c
      BY <3>2, <1>1, <2>3 DEF QueueInv, TypeOK, Progress, OthersRest
    <3> QED BY <3>1, <3>2
  <2>5. ASSUME NEW k \in Keys PROVE ChainedAt(k)'
    <3>1. /\ Keeps(c, k) /\ ChainedAt(k) /\ TypeOK
          /\ k # a => (k \in own'[c] <=> k \in own[c])
          /\ k = a => k \in own'[c]
      BY <1>3, <2>2, <2>3
    <3>2. k # n => line'[k] = line[k] /\ tail'[k] = tail[k]
      BY <1>5 DEF Asks, QueueInv, TypeOK
    <3>3. CASE k = a
      BY <3>1, <3>2, <3>3, <2>2, <2>3, <1>1, KeyEntered DEF a
    <3>4. CASE k = n
      <4>1. line'[k] = Append(line[k], c) /\ tail'[k] = c
        BY <1>5, <3>4 DEF Asks, QueueInv, TypeOK
      <4>2. at[c] # k /\ k \notin own[c] /\ k \notin own'[c]
        BY <3>1, <3>4, <2>2 DEF a
      <4> QED BY <3>1, <3>4, <4>1, <4>2, <2>3, KeyAsked
    <3>5. CASE k # a /\ k # n
      BY <3>1, <3>2, <3>5, <2>3, <1>1, KeyKept DEF a
    <3> QED BY <3>3, <3>4, <3>5
  <2> QED BY <1>2, <2>4, <2>5 DEF QueueInv, Chained, ChainedAt
<1>6. Passes(c) \/ \E n \in Keys : a < n /\ Asks(c, n)
  BY EnterFacts DEF a
<1> QED BY <1>4, <1>5, <1>6

\* A probe gives up, or a function ends: the queues stay as they are.
LEMMA QuietStep ==
  ASSUME CallsAssumption, QueueInv, NEW c \in Calls, NEW to,
         \/ pc[c] = "idle" /\ to = "busy"
         \/ pc[c] = "run" /\ to = IF own[c] = {} THEN "done" ELSE "unwind",
         pc' = [pc EXCEPT ![c] = to],
         ctx' \in [Calls -> [Keys -> Calls \cup {NoCall}]],
         UNCHANGED <<at, pred, own, left, tail, line>>
  PROVE  QueueInv'
<1>1. to \in {"busy", "done", "unwind"} /\ pc[c] # "wait"
  OBVIOUS
<1>2. TypeOK'
  BY <1>1 DEF QueueInv, TypeOK
<1>3. OthersRest(c) /\ pc'[c] = to
  BY DEF OthersRest, QueueInv, TypeOK
<1>4. Progress'
  BY <1>1, <1>3 DEF QueueInv, Progress, TypeOK, OthersRest
<1>5. ASSUME NEW k \in Keys PROVE ChainedAt(k)'
  <2>1. Keeps(c, k) /\ ChainedAt(k) /\ TypeOK
    BY ChainedEach DEF Keeps, QueueInv
  <2> QED BY <1>1, <1>3, <2>1, KeyKept
<1> QED BY <1>2, <1>4, <1>5 DEF QueueInv, Chained, ChainedAt

LEMMA ReleaseStep ==
  ASSUME CallsAssumption, QueueInv, NEW c \in Calls, Release(c)
  PROVE  QueueInv'
<1>1. PICK n \in own[c] :
        /\ own' = [own EXCEPT ![c] = @ \ {n}]
        /\ left' = [left EXCEPT ![c] = @ \cup {n}]
        /\ tail' = [tail EXCEPT ![n] = TailAfter(c, n)]
        /\ line' = [line EXCEPT ![n] = Tail(@)]
        /\ pc' = [pc EXCEPT ![c] = IF own[c] = {n} THEN "done" ELSE "unwind"]
        /\ UNCHANGED <<at, pred, ctx>>
  BY DEF Release
<1>2. n \in Keys /\ line[n] # <<>> /\ line[n][1] = c /\ line[n] \in Seq(Calls)
      /\ pc[c] = "unwind"
  BY OwnerIsFirst DEF QueueInv, TypeOK, Release
<1>3. TypeOK'
  <2>1. Tail(line[n]) \in Seq(Calls)
    BY <1>2, TailFacts
  <2>2. line' \in [Keys -> Seq(Calls)]
    BY <1>1, <1>2, <2>1 DEF QueueInv, TypeOK
  <2>3. TailAfter(c, n) \in Calls \cup {NoCall}
    BY <1>2 DEF TailAfter, QueueInv, TypeOK
  <2>4. tail' \in [Keys -> Calls \cup {NoCall}]
    BY <1>1, <2>3 DEF QueueInv, TypeOK
  <2>5. own' \in [Calls -> SUBSET Keys] /\ left' \in [Calls -> SUBSET Keys]
    BY <1>1, <1>2 DEF QueueInv, TypeOK
  <2>6. pc' \in [Calls -> {"idle", "wait", "run", "unwind", "done", "busy"}]
    BY <1>1 DEF QueueInv, TypeOK
  <2> QED BY <1>1, <2>2, <2>4, <2>5, <2>6 DEF QueueInv, TypeOK
<1>4. OthersRest(c) /\ pc'[c] = IF own[c] = {n} THEN "done" ELSE "unwind"
  BY <1>1 DEF OthersRest, QueueInv, TypeOK
<1>5. Progress'
  <2>1. own'[c] = own[c] \ {n} /\ left'[c] = left[c] \cup {n}
    BY <1>1 DEF QueueInv, TypeOK
  <2>2. \A d \in Calls \ {c} : own'[d] = own[d] /\ left'[d] = left[d]
    BY <1>1 DEF QueueInv, TypeOK
  <2>3. pc'[c] \in {"done", "unwind"} /\ (pc'[c] = "done" => own'[c] = {})
    BY <1>4, <2>1
  <2> QED BY <1>4, <2>1, <2>2, <2>3 DEF QueueInv, Progress, OthersRest
<1>6. ASSUME NEW k \in Keys PROVE ChainedAt(k)'
  <2>1. Keeps(c, k) /\ ChainedAt(k) /\ TypeOK
    BY <1>1, ChainedEach DEF Keeps, QueueInv, TypeOK
  <2>2. pc'[c] # "wait" /\ pc[c] # "wait"
    BY <1>2, <1>4
  <2>3. CASE k = n
    <3>1. /\ k \notin own'[c] /\ k \in left'[c]
          /\ line'[k] = Tail(line[k]) /\ tail'[k] = TailAfter(c, k)
      BY <1>1, <2>3 DEF QueueInv, TypeOK
    <3> QED BY <1>2, <1>4, <2>1, <2>2, <2>3, <3>1, KeyReleased
  <2>4. CASE k # n
    <3>1. /\ k \in own'[c] <=> k \in own[c]
          /\ line'[k] = line[k] /\ tail'[k] = tail[k]
      BY <1>1, <2>4 DEF QueueInv, TypeOK
    <3> QED BY <1>4, <2>1, <2>2, <3>1, KeyKept
  <2> QED BY <2>3, <2>4
<1> QED BY <1>3, <1>5, <1>6 DEF QueueInv, Chained, ChainedAt

LEMMA StutterStep ==
  ASSUME QueueInv, UNCHANGED vars
  PROVE  QueueInv'
BY DEF QueueInv, vars, TypeOK, Progress, Chained, InLine

LEMMA NextStep ==
  ASSUME CallsAssumption, QueueInv, [Next]_vars
  PROVE  QueueInv'
<1>1. ASSUME NEW c \in Calls, WithLocks(c) PROVE QueueInv'
  BY <1>1, BeginStep DEF WithLocks
<1>2. ASSUME NEW c \in Calls, TryWithLock(c) PROVE QueueInv'
  <2>1. CASE Available(c, List[c][1])
    BY <1>2, <2>1, BeginStep DEF TryWithLock
  <2>2. CASE ~Available(c, List[c][1])
    <3>1. ctx' \in [Calls -> [Keys -> Calls \cup {NoCall}]]
      BY <1>2, InheritedType DEF TryWithLock, QueueInv, TypeOK
    <3> QED BY <1>2, <2>2, <3>1, QuietStep DEF TryWithLock
  <2> QED BY <2>1, <2>2
<1>3. ASSUME NEW c \in Calls, FnEnd(c) PROVE QueueInv'
  <2>1. ctx' \in [Calls -> [Keys -> Calls \cup {NoCall}]]
    BY <1>3 DEF FnEnd, QueueInv, TypeOK
  <2> QED BY <1>3, <2>1, QuietStep DEF FnEnd
<1> QED BY <1>1, <1>2, <1>3, EnterStep, ReleaseStep, StutterStep DEF Next, Step

\* The promise chains of the lock are queues, for every set of calls and keys
\* and every way in which calls are nested, awaited or left running.
THEOREM Queues == Spec => []QueueInv
<1>1. Init => QueueInv
  BY Initially, CallsAssumption
<1>2. QueueInv /\ [Next]_vars => QueueInv'
  BY NextStep, CallsAssumption
<1> QED BY <1>1, <1>2, PTL DEF Spec

-----------------------------------------------------------------------------
(* What the queues give *)

\* The map of tails has no entry for a key that nobody holds or waits for:
\* idle sessions leave nothing behind, and a probe told "busy" has an owner.
THEOREM LiveEntries == Spec => []EntryIsLive
<1>1. QueueInv => EntryIsLive
  <2> SUFFICES ASSUME QueueInv, NEW k \in Keys, tail[k] # NoCall
               PROVE  k \in own[tail[k]] \/ (pc[tail[k]] = "wait" /\ at[tail[k]] = k)
    BY DEF EntryIsLive
  <2>1. ChainedAt(k) /\ TypeOK
    BY ChainedEach DEF QueueInv
  <2>2. tail[k] = line[k][Len(line[k])] /\ line[k] # <<>>
    BY <2>1 DEF ChainedAt
  <2>3. Len(line[k]) \in 1..Len(line[k])
    BY <2>1, <2>2, LineIsSeq
  <2>4. tail[k] \in Calls
    BY <2>1 DEF TypeOK
  <2>5. InLine(tail[k], k)
    BY <2>1, <2>2, <2>3, <2>4 DEF ChainedAt
  <2> QED BY <2>5 DEF InLine
<1> QED BY <1>1, Queues, PTL

\* Of one key, a step serves the first in line, takes a request, or nothing.
LEMMA Unserved ==
  ASSUME NEW k \in Keys, line'[k] = line[k],
         \A d \in Calls : k \in own'[d] <=> k \in own[d]
  PROVE  Lease!Idle(k)
BY DEF Lease!Idle, Holders

LEMMA AskedServe ==
  ASSUME NEW k \in Keys, NEW c \in Calls, line'[k] = Append(line[k], c),
         \A d \in Calls : k \in own'[d] <=> k \in own[d]
  PROVE  Lease!Ask(k)
BY DEF Lease!Ask, Holders

LEMMA Served ==
  ASSUME CallsAssumption, QueueInv, Next, NEW k \in Keys
  PROVE  Lease!Idle(k) \/ Lease!Ask(k) \/ Lease!Grant(k) \/ Lease!Give(k)
<1>1. ASSUME NEW c \in Calls, Passes(c) \/ \E n \in Keys : Asks(c, n), UNCHANGED own
      PROVE  Lease!Idle(k) \/ Lease!Ask(k)
  <2>1. line'[k] = line[k] \/ line'[k] = Append(line[k], c)
    BY <1>1 DEF Passes, Asks, QueueInv, TypeOK
  <2> QED BY <1>1, <2>1, Unserved, AskedServe
<1>2. ASSUME NEW c \in Calls, WithLocks(c) PROVE Lease!Idle(k) \/ Lease!Ask(k)
  <2>1. Passes(c) \/ \E n \in Keys : Asks(c, n)
    BY <1>2, AdvanceCases, KeysOfCall DEF WithLocks
  <2> QED BY <1>1, <1>2, <2>1 DEF WithLocks
<1>3. ASSUME NEW c \in Calls, TryWithLock(c) PROVE Lease!Idle(k) \/ Lease!Ask(k)
  <2>1. CASE Available(c, List[c][1])
    <3>1. Passes(c) \/ \E n \in Keys : Asks(c, n)
      BY <1>3, <2>1, AdvanceCases, KeysOfCall DEF TryWithLock
    <3> QED BY <1>1, <1>3, <3>1 DEF TryWithLock
  <2>2. CASE ~Available(c, List[c][1])
    BY <1>3, <2>2, Unserved DEF TryWithLock
  <2> QED BY <2>1, <2>2
<1>4. ASSUME NEW c \in Calls, FnEnd(c) PROVE Lease!Idle(k)
  BY <1>4, Unserved DEF FnEnd
<1>5. ASSUME NEW c \in Calls, Enter(c)
      PROVE  Lease!Idle(k) \/ Lease!Ask(k) \/ Lease!Grant(k)
  <2>1. /\ at[c] \in Keys /\ line[at[c]] # <<>> /\ line[at[c]][1] = c
        /\ \A d \in Calls : at[c] \notin own[d]
        /\ own' = [own EXCEPT ![c] = @ \cup {at[c]}]
        /\ Passes(c) \/ \E n \in Keys : at[c] < n /\ Asks(c, n)
    BY <1>5, EnterFacts
  <2>2. CASE k = at[c]
    <3>1. line'[k] = line[k]
      BY <2>1, <2>2 DEF Passes, Asks, QueueInv, TypeOK, CallsAssumption
    <3>2. Holders[k] = {} /\ Holders'[k] = {c}
      BY <2>1, <2>2 DEF Holders, QueueInv, TypeOK
    <3>3. Head(line[k]) = c
      BY <2>1, <2>2
    <3> QED BY <2>1, <2>2, <3>1, <3>2, <3>3 DEF Lease!Grant
  <2>3. CASE k # at[c]
    <3>1. \A d \in Calls : k \in own'[d] <=> k \in own[d]
      BY <2>1, <2>3 DEF QueueInv, TypeOK
    <3>2. line'[k] = line[k] \/ line'[k] = Append(line[k], c)
      BY <2>1 DEF Passes, Asks, QueueInv, TypeOK
    <3> QED BY <3>1, <3>2, Unserved, AskedServe
  <2> QED BY <2>2, <2>3
<1>6. ASSUME NEW c \in Calls, Release(c) PROVE Lease!Idle(k) \/ Lease!Give(k)
  <2>1. PICK n \in own[c] : own' = [own EXCEPT ![c] = @ \ {n}]
                            /\ line' = [line EXCEPT ![n] = Tail(@)]
    BY <1>6 DEF Release
  <2>2. n \in Keys
    BY DEF QueueInv, TypeOK
  <2>3. CASE k = n
    <3>1. line[k] # <<>> /\ line[k][1] = c
      BY <2>1, <2>2, <2>3, OwnerIsFirst
    <3>2. \A d \in Calls : k \in own[d] <=> d = c
      <4>1. ASSUME NEW d \in Calls, k \in own[d] PROVE d = c
        BY <3>1, <4>1, OwnerIsFirst
      <4> QED BY <4>1, <2>1, <2>3
    <3>3. Holders[k] = {c} /\ Holders'[k] = {}
      BY <3>2, <2>1, <2>3 DEF Holders, QueueInv, TypeOK
    <3>4. line'[k] = Tail(line[k]) /\ Head(line[k]) = c
      BY <2>1, <2>2, <2>3, <3>1 DEF QueueInv, TypeOK
    <3> QED BY <3>1, <3>3, <3>4 DEF Lease!Give
  <2>4. CASE k # n
    <3>1. \A d \in Calls : k \in own'[d] <=> k \in own[d]
      BY <2>1, <2>4 DEF QueueInv, TypeOK
    <3>2. line'[k] = line[k]
      BY <2>1, <2>4 DEF QueueInv, TypeOK
    <3> QED BY <3>1, <3>2, Unserved
  <2> QED BY <2>3, <2>4
<1> QED BY <1>2, <1>3, <1>4, <1>5, <1>6 DEF Next, Step

\* The in-process lock implements the fair lease: one holder at a time, in the
\* order of asking, for every key.
THEOREM Implementation == Spec => ImplementsLease
<1>1. Init => Lease!Init
  BY DEF Init, Lease!Init, Holders
<1>2. QueueInv /\ [Next]_vars => [Lease!Next]_(Lease!vars)
  <2> SUFFICES ASSUME QueueInv, [Next]_vars PROVE [Lease!Next]_(Lease!vars)
    OBVIOUS
  <2>1. CASE Next
    BY <2>1, Served, CallsAssumption DEF Lease!Next
  <2>2. CASE UNCHANGED vars
    BY <2>2 DEF vars, Lease!vars, Holders
  <2> QED BY <2>1, <2>2
<1> QED BY <1>1, <1>2, Queues, PTL DEF Spec, ImplementsLease, Lease!Spec

-----------------------------------------------------------------------------
(* The leases a callback counts on *)

\* Tied is what its recursive definition says: the calls that have no branch
\* nobody awaits above them.
LEMMA TiedEquation ==
  ASSUME CallsAssumption, NEW c \in Calls
  PROVE  Tied[c] = (c \notin Detached /\ (Parent[c] = NoCall \/ Tied[Parent[c]]))
<1> DEFINE Closed(S) == \A x \in S : Parent[x] # NoCall => Parent[x] \in S
           Awaited == [x \in Calls |->
             \E S \in SUBSET (Calls \ Detached) : x \in S /\ Closed(S)]
           Eq(f) == f = [x \in Calls |->
             x \notin Detached /\ (Parent[x] = NoCall \/ f[Parent[x]])]
<1>1. ASSUME NEW x \in Calls
      PROVE  Awaited[x] = (x \notin Detached /\ (Parent[x] = NoCall \/ Awaited[Parent[x]]))
  <2>0. Parent[x] \in Calls \cup {NoCall}
    BY DEF CallsAssumption
  <2>1. ASSUME Awaited[x] PROVE x \notin Detached /\ (Parent[x] = NoCall \/ Awaited[Parent[x]])
    <3>1. PICK S \in SUBSET (Calls \ Detached) : x \in S /\ Closed(S)
      BY <2>1
    <3> QED BY <3>1, <2>0
  <2>2. ASSUME x \notin Detached, Parent[x] = NoCall PROVE Awaited[x]
    <3>1. {x} \in SUBSET (Calls \ Detached) /\ Closed({x})
      BY <2>2
    <3> QED BY <3>1
  <2>3. ASSUME x \notin Detached, Parent[x] \in Calls, Awaited[Parent[x]] PROVE Awaited[x]
    <3>1. PICK S \in SUBSET (Calls \ Detached) : Parent[x] \in S /\ Closed(S)
      BY <2>3
    <3>2. S \cup {x} \in SUBSET (Calls \ Detached) /\ Closed(S \cup {x})
      BY <2>3, <3>1
    <3> QED BY <3>2
  <2>4. Awaited[x] \in BOOLEAN
    OBVIOUS
  <2> HIDE DEF Awaited
  <2> QED BY <2>0, <2>1, <2>2, <2>3, <2>4
<1>2. Eq(Awaited)
  <2>1. Awaited = [x \in Calls |-> Awaited[x]]
    OBVIOUS
  <2> HIDE DEF Awaited
  <2> QED BY <2>1, <1>1
<1>3. Tied = CHOOSE f : Eq(f)
  BY DEF Tied
<1>4. Eq(Tied)
  <2> HIDE DEF Eq, Awaited
  <2> QED BY <1>2, <1>3
<1> QED BY <1>4

\* A call that is under way, all of whose callers await it.
Bound(c) == Tied[c] /\ pc[c] \in {"wait", "run"}

CallersRun ==
  \A c \in Calls \ Detached :
    Parent[c] # NoCall /\ pc[c] \in {"wait", "run", "unwind"} => pc[Parent[c]] = "run"

\* Whose lease a bound call finds in its context: a live one, its own or its
\* caller's.
LeasesLive ==
  \A c \in Calls, k \in Keys :
    Bound(c) /\ ctx[c][k] # NoCall =>
      /\ k \in own[ctx[c][k]]
      /\ pc[ctx[c][k]] \in {"wait", "run"}
      /\ ctx[c][k] = c \/ (Parent[c] # NoCall /\ ctx[Parent[c]][k] = ctx[c][k])

\* A call asks for its keys in order and passes over none that its context has
\* no lease of.
PassedBy(c) ==
  pc[c] = "wait" =>
    /\ at[c] \in KeysOf(c)
    /\ \A x \in KeysOf(c) : x < at[c] => ctx[c][x] # NoCall

KeysPassed == \A c \in Calls : PassedBy(c)

LeaseInv == CallersRun /\ LeasesLive /\ KeysPassed

LEMMA ParentType ==
  ASSUME CallsAssumption, NEW c \in Calls
  PROVE  NoCall \notin Calls /\ Parent[c] \in Calls \cup {NoCall}
BY DEF CallsAssumption

LEMMA BoundFacts ==
  ASSUME CallsAssumption, TypeOK, CallersRun, NEW c \in Calls, Tied[c]
  PROVE  /\ c \notin Detached
         /\ Parent[c] # NoCall => Parent[c] \in Calls /\ Tied[Parent[c]]
         /\ Parent[c] # NoCall /\ pc[c] \in {"wait", "run"} => pc[Parent[c]] = "run"
BY TiedEquation, ParentType DEF CallersRun

\* A call begins, or a probe gives up.
LEMMA BeginKeepsLeases ==
  ASSUME CallsAssumption, TypeOK, LeaseInv, NEW c \in Calls, pc[c] = "idle", Reached(c),
         NEW to \in {"wait", "run", "busy"}, pc' = [pc EXCEPT ![c] = to],
         ctx' = [ctx EXCEPT ![c] = Inherited(c)], own' = own
  PROVE  (CallersRun /\ LeasesLive)'
<1>1. /\ \A d \in Calls : pc'[d] = IF d = c THEN to ELSE pc[d]
      /\ \A d \in Calls : ctx'[d] = IF d = c THEN Inherited(c) ELSE ctx[d]
  BY DEF TypeOK
<1>2. c \notin Detached /\ Parent[c] # NoCall => pc[Parent[c]] = "run"
  BY DEF Reached
<1>3. CallersRun'
  BY <1>1, <1>2, ParentType DEF LeaseInv, CallersRun
<1>4. ASSUME NEW d \in Calls, NEW k \in Keys, Bound(d)', ctx'[d][k] # NoCall
      PROVE  /\ k \in own'[ctx'[d][k]]
             /\ pc'[ctx'[d][k]] \in {"wait", "run"}
             /\ ctx'[d][k] = d \/ (Parent[d] # NoCall /\ ctx'[Parent[d]][k] = ctx'[d][k])
  <2>1. Tied[d] /\ pc'[d] \in {"wait", "run"}
    BY <1>4 DEF Bound
  <2>2. CASE d = c
    <3>1. Parent[c] # NoCall /\ ctx'[c][k] = ctx[Parent[c]][k]
      BY <1>1, <1>4, <2>2 DEF Inherited, NoContext
    <3>2. Parent[c] \in Calls /\ Bound(Parent[c]) /\ Parent[c] # c
      BY <1>2, <2>1, <2>2, <3>1, BoundFacts DEF Bound, LeaseInv
    <3>3. ctx[Parent[c]][k] \in Calls
      BY <1>4, <2>2, <3>1, <3>2 DEF TypeOK
    <3> QED BY <1>1, <1>4, <2>2, <3>1, <3>2, <3>3 DEF LeaseInv, LeasesLive
  <2>3. CASE d # c
    <3>1. Bound(d) /\ ctx'[d] = ctx[d] /\ ctx[d][k] # NoCall /\ ctx[d][k] \in Calls
      BY <1>1, <1>4, <2>1, <2>3 DEF Bound, TypeOK
    <3>2. Parent[d] # NoCall => Parent[d] \in Calls /\ Parent[d] # c
      BY <2>1, <3>1, BoundFacts DEF LeaseInv, Bound
    <3> QED BY <1>1, <3>1, <3>2 DEF LeaseInv, LeasesLive
  <2> QED BY <2>2, <2>3
<1> QED BY <1>3, <1>4 DEF LeasesLive

LEMMA EnterKeepsLeases ==
  ASSUME CallsAssumption, TypeOK, LeaseInv, NEW c \in Calls, pc[c] = "wait", at[c] \in Keys,
         NEW to \in {"wait", "run"}, pc' = [pc EXCEPT ![c] = to],
         own' = [own EXCEPT ![c] = @ \cup {at[c]}],
         ctx' = [ctx EXCEPT ![c] = [ctx[c] EXCEPT ![at[c]] = c]]
  PROVE  (CallersRun /\ LeasesLive)'
<1>1. /\ \A d \in Calls : pc'[d] = IF d = c THEN to ELSE pc[d]
      /\ \A d \in Calls, k \in Keys :
           ctx'[d][k] = IF d = c /\ k = at[c] THEN c ELSE ctx[d][k]
      /\ \A d \in Calls : own[d] \subseteq own'[d]
      /\ at[c] \in own'[c]
  BY DEF TypeOK
<1>2. CallersRun'
  BY <1>1, ParentType DEF LeaseInv, CallersRun
<1>3. ASSUME NEW d \in Calls, NEW k \in Keys, Bound(d)', ctx'[d][k] # NoCall
      PROVE  /\ k \in own'[ctx'[d][k]]
             /\ pc'[ctx'[d][k]] \in {"wait", "run"}
             /\ ctx'[d][k] = d \/ (Parent[d] # NoCall /\ ctx'[Parent[d]][k] = ctx'[d][k])
  <2>1. Tied[d] /\ pc'[d] \in {"wait", "run"}
    BY <1>3 DEF Bound
  <2>2. CASE d = c /\ k = at[c]
    BY <1>1, <2>2
  <2>3. CASE ~(d = c /\ k = at[c])
    <3>1. Bound(d) /\ ctx'[d][k] = ctx[d][k] /\ ctx[d][k] # NoCall /\ ctx[d][k] \in Calls
      BY <1>1, <1>3, <2>1, <2>3 DEF Bound, TypeOK
    <3>2. Parent[d] # NoCall => Parent[d] \in Calls /\ Parent[d] # c
      BY <2>1, <3>1, BoundFacts DEF LeaseInv, Bound
    <3> QED BY <1>1, <3>1, <3>2 DEF LeaseInv, LeasesLive
  <2> QED BY <2>2, <2>3
<1> QED BY <1>2, <1>3 DEF LeasesLive

\* A function that ends has no awaited call left, so that no bound call counts
\* on a lease of its caller any more.
LEMMA FnEndKeepsLeases ==
  ASSUME CallsAssumption, TypeOK, LeaseInv, NEW o \in Calls, FnEnd(o)
  PROVE  (CallersRun /\ LeasesLive)'
<1>1. /\ pc[o] = "run" /\ ctx' = ctx /\ own' = own
      /\ \A d \in Calls : Parent[d] = o /\ d \notin Detached => pc[d] \in {"idle", "busy", "done"}
      /\ \A d \in Calls \ {o} : pc'[d] = pc[d]
      /\ pc'[o] \in {"done", "unwind"}
  BY DEF FnEnd, TypeOK
<1>2. CallersRun'
  <2> SUFFICES ASSUME NEW d \in Calls, d \notin Detached, Parent[d] # NoCall,
                      pc'[d] \in {"wait", "run", "unwind"}
               PROVE  pc'[Parent[d]] = "run"
    BY DEF CallersRun
  <2>1. pc[d] \in {"wait", "run", "unwind"}
    BY <1>1
  <2>2. pc[Parent[d]] = "run" /\ Parent[d] \in Calls
    BY <2>1, ParentType DEF LeaseInv, CallersRun
  <2> QED BY <1>1, <2>1, <2>2
<1>3. ASSUME NEW k \in Keys, NEW e \in Calls, Bound(e), e # o, ctx[e][k] = o PROVE FALSE
  <2> DEFINE S == {d \in Calls : Bound(d) /\ d # o /\ ctx[d][k] = o}
  <2>1. PICK d \in S : Parent[d] \notin S
    <3>1. S \in SUBSET Calls /\ S # {}
      BY <1>3
    <3> HIDE DEF S
    <3> QED BY <3>1 DEF CallsAssumption
  <2>2. Parent[d] # NoCall /\ ctx[Parent[d]][k] = o
    BY <2>1, ParentType DEF LeaseInv, LeasesLive
  <2>3. Parent[d] \in Calls /\ Bound(Parent[d]) /\ d \notin Detached
    BY <2>1, <2>2, BoundFacts DEF LeaseInv, Bound
  <2>4. Parent[d] # o
    BY <1>1, <2>1, <2>3 DEF Bound
  <2> QED BY <2>1, <2>2, <2>3, <2>4
<1>4. ASSUME NEW d \in Calls, NEW k \in Keys, Bound(d)', ctx'[d][k] # NoCall
      PROVE  /\ k \in own'[ctx'[d][k]]
             /\ pc'[ctx'[d][k]] \in {"wait", "run"}
             /\ ctx'[d][k] = d \/ (Parent[d] # NoCall /\ ctx'[Parent[d]][k] = ctx'[d][k])
  <2>0. Tied[d] /\ pc'[d] \in {"wait", "run"}
    BY <1>4 DEF Bound
  <2>1. d # o /\ Bound(d) /\ ctx[d][k] # NoCall /\ ctx[d][k] \in Calls
    BY <1>1, <1>4, <2>0 DEF Bound, TypeOK
  <2>2. ctx[d][k] # o
    BY <1>3, <2>1
  <2>3. /\ k \in own[ctx[d][k]] /\ pc[ctx[d][k]] \in {"wait", "run"}
        /\ ctx[d][k] = d \/ (Parent[d] # NoCall /\ ctx[Parent[d]][k] = ctx[d][k])
    BY <2>1 DEF LeaseInv, LeasesLive
  <2> QED BY <1>1, <2>1, <2>2, <2>3
<1> QED BY <1>2, <1>4 DEF LeasesLive

LEMMA ReleaseKeepsLeases ==
  ASSUME CallsAssumption, TypeOK, LeaseInv, NEW c \in Calls, Release(c)
  PROVE  (CallersRun /\ LeasesLive)'
<1>1. /\ pc[c] = "unwind" /\ ctx' = ctx
      /\ \A d \in Calls \ {c} : pc'[d] = pc[d] /\ own'[d] = own[d]
      /\ pc'[c] \in {"done", "unwind"}
  BY DEF Release, TypeOK
<1>2. CallersRun'
  <2> SUFFICES ASSUME NEW d \in Calls, d \notin Detached, Parent[d] # NoCall,
                      pc'[d] \in {"wait", "run", "unwind"}
               PROVE  pc'[Parent[d]] = "run"
    BY DEF CallersRun
  <2>1. pc[d] \in {"wait", "run", "unwind"}
    BY <1>1
  <2>2. pc[Parent[d]] = "run" /\ Parent[d] \in Calls
    BY <2>1, ParentType DEF LeaseInv, CallersRun
  <2> QED BY <1>1, <2>1, <2>2
<1>3. ASSUME NEW d \in Calls, NEW k \in Keys, Bound(d)', ctx'[d][k] # NoCall
      PROVE  /\ k \in own'[ctx'[d][k]]
             /\ pc'[ctx'[d][k]] \in {"wait", "run"}
             /\ ctx'[d][k] = d \/ (Parent[d] # NoCall /\ ctx'[Parent[d]][k] = ctx'[d][k])
  <2>0. Tied[d] /\ pc'[d] \in {"wait", "run"}
    BY <1>3 DEF Bound
  <2>1. d # c /\ Bound(d) /\ ctx[d][k] # NoCall /\ ctx[d][k] \in Calls
    BY <1>1, <1>3, <2>0 DEF Bound, TypeOK
  <2>2. ctx[d][k] # c
    BY <1>1, <2>1 DEF LeaseInv, LeasesLive
  <2>3. /\ k \in own[ctx[d][k]] /\ pc[ctx[d][k]] \in {"wait", "run"}
        /\ ctx[d][k] = d \/ (Parent[d] # NoCall /\ ctx[Parent[d]][k] = ctx[d][k])
    BY <2>1 DEF LeaseInv, LeasesLive
  <2> QED BY <1>1, <2>1, <2>2, <2>3
<1> QED BY <1>2, <1>3 DEF LeasesLive

LEMMA BeginPasses ==
  ASSUME CallsAssumption, TypeOK, LeaseInv, NEW c \in Calls, pc[c] = "idle",
         ctx' = [ctx EXCEPT ![c] = Inherited(c)], own' = own,
         Advance(c, KeysOf(c), Inherited(c))
  PROVE  /\ KeysPassed'
         /\ \/ pc' = [pc EXCEPT ![c] = "wait"]
            \/ /\ pc' = [pc EXCEPT ![c] = "run"]
               /\ \A k \in KeysOf(c) : k \in own'[ctx'[c][k]]
<1>0. ctx'[c] = Inherited(c) /\ \A d \in Calls \ {c} : ctx'[d] = ctx[d]
  BY DEF TypeOK
<1>1. CASE Passes(c) /\ {k \in KeysOf(c) : ~Live(Inherited(c), k)} = {}
  <2>1. \A d \in Calls : pc'[d] = (IF d = c THEN "run" ELSE pc[d]) /\ at'[d] = at[d]
    BY <1>1 DEF Passes, TypeOK
  <2>2. ASSUME NEW d \in Calls PROVE PassedBy(d)'
    <3>1. PassedBy(d)
      BY DEF LeaseInv, KeysPassed
    <3>2. CASE d = c
      BY <2>1, <3>2 DEF PassedBy
    <3>3. CASE d # c
      BY <1>0, <2>1, <3>1, <3>3 DEF PassedBy, KeysOf
    <3> QED BY <3>2, <3>3
  <2> QED BY <1>0, <1>1, <2>2 DEF Passes, Live, KeysPassed
<1>2. ASSUME NEW n \in KeysOf(c), Asks(c, n), ~Live(Inherited(c), n),
             \A x \in {k \in KeysOf(c) : ~Live(Inherited(c), k)} \ {n} : n < x
      PROVE  KeysPassed' /\ pc' = [pc EXCEPT ![c] = "wait"]
  <2>1. \A d \in Calls : /\ pc'[d] = IF d = c THEN "wait" ELSE pc[d]
                         /\ at'[d] = IF d = c THEN n ELSE at[d]
    BY <1>2 DEF Asks, TypeOK
  <2>2. ASSUME NEW x \in KeysOf(c), x < n PROVE ctx'[c][x] # NoCall
    <3>1. x \in Nat /\ n \in Nat
      BY KeysOfCall DEF CallsAssumption
    <3>2. Live(Inherited(c), x)
      BY <1>2, <2>2, <3>1
    <3> QED BY <1>0, <3>2 DEF Live
  <2>3. ASSUME NEW d \in Calls PROVE PassedBy(d)'
    <3>1. PassedBy(d)
      BY DEF LeaseInv, KeysPassed
    <3>2. CASE d = c
      BY <2>1, <2>2, <3>2 DEF PassedBy, KeysOf
    <3>3. CASE d # c
      BY <1>0, <2>1, <3>1, <3>3 DEF PassedBy, KeysOf
    <3> QED BY <3>2, <3>3
  <2> QED BY <1>2, <2>3 DEF Asks, KeysPassed
<1> QED BY <1>1, <1>2 DEF Advance, Passes, Asks, Precedes

LEMMA EnterPasses ==
  ASSUME CallsAssumption, QueueInv, LeaseInv, NEW c \in Calls, Enter(c)
  PROVE  /\ KeysPassed'
         /\ \/ pc' = [pc EXCEPT ![c] = "wait"]
            \/ /\ pc' = [pc EXCEPT ![c] = "run"]
               /\ \A x \in KeysOf(c) : at[c] < x => x \in own'[ctx'[c][x]]
<1> DEFINE a == at[c]
           owners == [ctx[c] EXCEPT ![a] = c]
           rest == {x \in KeysOf(c) : a < x}
<1>0. /\ pc[c] = "wait" /\ a \in Keys /\ TypeOK
      /\ ctx' = [ctx EXCEPT ![c] = owners]
      /\ own' = [own EXCEPT ![c] = @ \cup {a}]
      /\ Advance(c, rest, owners)
  BY EnterFacts DEF Enter, Precedes, QueueInv
<1>1. /\ ctx'[c] = owners /\ \A d \in Calls \ {c} : ctx'[d] = ctx[d]
      /\ owners[a] = c /\ \A k \in Keys \ {a} : owners[k] = ctx[c][k]
      /\ \A d \in Calls : own[d] \subseteq own'[d]
      /\ \A k \in Keys : owners[k] \in Calls \cup {NoCall}
  BY <1>0 DEF TypeOK
<1>2. KeysOf(c) \subseteq Keys /\ Keys \subseteq Nat /\ NoCall \notin Calls
  BY KeysOfCall DEF CallsAssumption
<1> HIDE DEF owners
<1>3. CASE Passes(c) /\ {k \in rest : ~Live(owners, k)} = {}
  <2>1. \A d \in Calls : pc'[d] = (IF d = c THEN "run" ELSE pc[d]) /\ at'[d] = at[d]
    BY <1>0, <1>3 DEF Passes, TypeOK
  <2>2. ASSUME NEW d \in Calls PROVE PassedBy(d)'
    <3>1. PassedBy(d)
      BY DEF LeaseInv, KeysPassed
    <3>2. CASE d = c
      BY <2>1, <3>2 DEF PassedBy
    <3>3. CASE d # c
      BY <1>1, <2>1, <3>1, <3>3 DEF PassedBy, KeysOf
    <3> QED BY <3>2, <3>3
  <2>3. ASSUME NEW x \in KeysOf(c), a < x PROVE x \in own'[ctx'[c][x]]
    <3>1. Live(owners, x)
      BY <1>3, <2>3
    <3> QED BY <1>1, <1>2, <3>1 DEF Live
  <2> QED BY <1>3, <2>2, <2>3 DEF Passes, KeysPassed
<1>4. ASSUME NEW n \in rest, Asks(c, n),
             \A x \in {k \in rest : ~Live(owners, k)} \ {n} : n < x
      PROVE  KeysPassed' /\ pc' = [pc EXCEPT ![c] = "wait"]
  <2>1. \A d \in Calls : /\ pc'[d] = IF d = c THEN "wait" ELSE pc[d]
                         /\ at'[d] = IF d = c THEN n ELSE at[d]
    BY <1>0, <1>4 DEF Asks, TypeOK
  <2>2. ASSUME NEW x \in KeysOf(c), x < n PROVE ctx'[c][x] # NoCall
    <3>1. x \in Nat /\ n \in Nat /\ a \in Nat /\ x \in Keys
      BY <1>0, <1>2
    <3>2. CASE x = a
      BY <1>1, <1>2, <3>2
    <3>3. CASE x < a
      <4>1. ctx[c][x] # NoCall
        BY <1>0, <3>3 DEF LeaseInv, KeysPassed, PassedBy
      <4>2. owners[x] = ctx[c][x]
        BY <1>0, <1>1, <3>1, <3>3
      <4> QED BY <1>1, <4>1, <4>2
    <3>4. CASE a < x
      <4>1. Live(owners, x)
        BY <1>4, <2>2, <3>1, <3>4
      <4> QED BY <1>1, <4>1 DEF Live
    <3> QED BY <3>1, <3>2, <3>3, <3>4
  <2>3. n \in KeysOf(c)
    OBVIOUS
  <2>4. ASSUME NEW d \in Calls PROVE PassedBy(d)'
    <3>1. PassedBy(d)
      BY DEF LeaseInv, KeysPassed
    <3>2. CASE d = c
      BY <2>1, <2>2, <2>3, <3>2 DEF PassedBy, KeysOf
    <3>3. CASE d # c
      BY <1>1, <2>1, <3>1, <3>3 DEF PassedBy, KeysOf
    <3> QED BY <3>2, <3>3
  <2> QED BY <1>4, <2>4 DEF Asks, KeysPassed
<1>5. Advance(c, rest, owners)
  BY <1>0
<1> HIDE DEF rest
<1> QED BY <1>3, <1>4, <1>5 DEF Advance, Passes, Asks, Precedes

\* A set of keys with one element has no other.
LEMMA OneKey ==
  ASSUME CallsAssumption, NEW c \in Calls, Cardinality(KeysOf(c)) = 1,
         NEW x \in KeysOf(c), NEW y \in KeysOf(c)
  PROVE  x = y
<1> DEFINE I == 1..Len(List[c])
<1>1. List[c] \in Seq(Keys)
  BY DEF CallsAssumption
<1>2. List[c] \in [I -> KeysOf(c)] /\ DOMAIN List[c] = I /\ Len(List[c]) \in Nat
  BY <1>1 DEF KeysOf
<1>3. List[c] \in Surjection(I, KeysOf(c))
  BY <1>2 DEF KeysOf, Surjection
<1>4. IsFiniteSet(I)
  BY <1>2, FS_Interval
<1>5. IsFiniteSet(KeysOf(c))
  <2> HIDE DEF I
  <2> QED BY <1>3, <1>4, FS_Surjection
<1>6. PICK z : KeysOf(c) = {z}
  BY <1>5, FS_Singleton
<1> QED BY <1>6

StartsLeased(c) ==
  /\ pc[c] # "run" /\ pc'[c] = "run"
  /\ Tied[c] \/ Cardinality(KeysOf(c)) = 1
  => \A k \in KeysOf(c) : k \in own'[ctx'[c][k]]

LEMMA LeaseStep ==
  ASSUME CallsAssumption, QueueInv, LeaseInv, [Next]_vars
  PROVE  LeaseInv' /\ \A c \in Calls : StartsLeased(c)
<1>0. TypeOK
  BY DEF QueueInv
<1>1. ASSUME NEW c \in Calls, WithLocks(c) \/ (TryWithLock(c) /\ Available(c, List[c][1]))
      PROVE  LeaseInv' /\ \A d \in Calls : StartsLeased(d)
  <2>1. /\ pc[c] = "idle" /\ Reached(c) /\ ctx' = [ctx EXCEPT ![c] = Inherited(c)]
        /\ own' = own /\ Advance(c, KeysOf(c), Inherited(c))
    BY <1>1 DEF WithLocks, TryWithLock
  <2>2. /\ KeysPassed'
        /\ \/ pc' = [pc EXCEPT ![c] = "wait"]
           \/ /\ pc' = [pc EXCEPT ![c] = "run"]
              /\ \A k \in KeysOf(c) : k \in own'[ctx'[c][k]]
    BY <1>0, <2>1, BeginPasses
  <2>3. (CallersRun /\ LeasesLive)'
    BY <1>0, <2>1, <2>2, BeginKeepsLeases
  <2>4. \A d \in Calls : StartsLeased(d)
    BY <1>0, <2>2 DEF StartsLeased, TypeOK
  <2> QED BY <2>2, <2>3, <2>4 DEF LeaseInv
<1>2. ASSUME NEW c \in Calls, TryWithLock(c), ~Available(c, List[c][1])
      PROVE  LeaseInv' /\ \A d \in Calls : StartsLeased(d)
  <2>1. /\ pc[c] = "idle" /\ Reached(c) /\ ctx' = [ctx EXCEPT ![c] = Inherited(c)]
        /\ own' = own /\ pc' = [pc EXCEPT ![c] = "busy"] /\ at' = at
    BY <1>2 DEF TryWithLock
  <2>2. (CallersRun /\ LeasesLive)'
    BY <1>0, <2>1, BeginKeepsLeases
  <2>3. /\ \A d \in Calls : pc'[d] = IF d = c THEN "busy" ELSE pc[d]
        /\ \A d \in Calls \ {c} : ctx'[d] = ctx[d]
    BY <1>0, <2>1 DEF TypeOK
  <2>4. KeysPassed'
    BY <2>1, <2>3 DEF LeaseInv, KeysPassed, PassedBy, KeysOf
  <2>5. \A d \in Calls : StartsLeased(d)
    BY <2>3 DEF StartsLeased
  <2> QED BY <2>2, <2>4, <2>5 DEF LeaseInv
<1>3. ASSUME NEW c \in Calls, Enter(c)
      PROVE  LeaseInv' /\ \A d \in Calls : StartsLeased(d)
  <2>1. /\ pc[c] = "wait" /\ at[c] \in Keys
        /\ own' = [own EXCEPT ![c] = @ \cup {at[c]}]
        /\ ctx' = [ctx EXCEPT ![c] = [ctx[c] EXCEPT ![at[c]] = c]]
    BY <1>3, EnterFacts DEF Enter
  <2>2. /\ KeysPassed'
        /\ \/ pc' = [pc EXCEPT ![c] = "wait"]
           \/ /\ pc' = [pc EXCEPT ![c] = "run"]
              /\ \A x \in KeysOf(c) : at[c] < x => x \in own'[ctx'[c][x]]
    BY <1>3, EnterPasses
  <2>3. (CallersRun /\ LeasesLive)'
    BY <1>0, <2>1, <2>2, EnterKeepsLeases
  <2>4. ctx'[c][at[c]] = c /\ at[c] \in own'[c]
    BY <1>0, <2>1 DEF TypeOK
  <2>5. KeysOf(c) \subseteq Keys /\ Keys \subseteq Nat /\ at[c] \in KeysOf(c)
    BY <2>1, KeysOfCall DEF CallsAssumption, LeaseInv, KeysPassed, PassedBy
  <2>6. ASSUME pc'[c] = "run", Tied[c], NEW x \in KeysOf(c) PROVE x \in own'[ctx'[c][x]]
    <3>1. x \in Nat /\ at[c] \in Nat /\ x \in Keys
      BY <2>1, <2>5
    <3>2. CASE at[c] < x
      BY <1>0, <2>2, <2>6, <3>2 DEF TypeOK
    <3>3. CASE x < at[c]
      <4>1. ctx[c][x] # NoCall /\ ctx'[c][x] = ctx[c][x] /\ ctx[c][x] \in Calls
        BY <1>0, <2>1, <3>1, <3>3 DEF TypeOK, LeaseInv, KeysPassed, PassedBy
      <4>2. x \in own[ctx[c][x]]
        BY <2>1, <2>6, <3>1, <4>1 DEF LeaseInv, LeasesLive, Bound
      <4> QED BY <1>0, <2>1, <4>1, <4>2 DEF TypeOK
    <3> QED BY <2>4, <3>1, <3>2, <3>3
  <2>7. ASSUME pc'[c] = "run", Cardinality(KeysOf(c)) = 1, NEW x \in KeysOf(c)
        PROVE  x \in own'[ctx'[c][x]]
    <3>1. x = at[c]
      BY <2>5, <2>7, OneKey
    <3> QED BY <3>1, <2>4
  <2>8. ASSUME NEW d \in Calls PROVE StartsLeased(d)
    <3>1. CASE d = c
      BY <2>6, <2>7, <3>1 DEF StartsLeased
    <3>2. CASE d # c
      BY <1>0, <2>2, <3>2 DEF StartsLeased, TypeOK
    <3> QED BY <3>1, <3>2
  <2> QED BY <2>2, <2>3, <2>8 DEF LeaseInv
<1>4. ASSUME NEW c \in Calls, FnEnd(c) \/ Release(c)
      PROVE  LeaseInv' /\ \A d \in Calls : StartsLeased(d)
  <2>1. (CallersRun /\ LeasesLive)'
    BY <1>0, <1>4, FnEndKeepsLeases, ReleaseKeepsLeases
  <2>2. /\ ctx' = ctx /\ at' = at
        /\ \A d \in Calls : pc'[d] = pc[d] \/ pc'[d] \in {"done", "unwind"}
    BY <1>0, <1>4 DEF FnEnd, Release, TypeOK
  <2>3. KeysPassed'
    BY <2>2 DEF LeaseInv, KeysPassed, PassedBy, KeysOf
  <2>4. \A d \in Calls : StartsLeased(d)
    BY <2>2 DEF StartsLeased
  <2> QED BY <2>1, <2>3, <2>4 DEF LeaseInv
<1>5. CASE UNCHANGED vars
  BY <1>5 DEF vars, LeaseInv, CallersRun, LeasesLive, KeysPassed, PassedBy, Bound, KeysOf, StartsLeased
<1> QED BY <1>1, <1>2, <1>3, <1>4, <1>5 DEF Next, Step

LEMMA InitLeases ==
  ASSUME Init
  PROVE  LeaseInv
BY DEF Init, LeaseInv, CallersRun, LeasesLive, KeysPassed, PassedBy, Bound

\* A caller's function starts only under a lease on each of its keys that is
\* live, its own or one it inherited: an owner's leases outlive the calls it
\* awaits (lockContext, owner.active in withLock and withLocks).
THEOREM UnderLease == Spec => StartsUnderLease
<1>1. Init => QueueInv /\ LeaseInv
  BY Initially, InitLeases, CallsAssumption
<1>2. QueueInv /\ LeaseInv /\ [Next]_vars => (QueueInv /\ LeaseInv)'
  BY NextStep, LeaseStep, CallsAssumption
<1>3. QueueInv /\ LeaseInv /\ [Next]_vars =>
        [\A c \in Calls :
           /\ pc[c] # "run" /\ pc'[c] = "run"
           /\ Tied[c] \/ Cardinality(KeysOf(c)) = 1
           => \A k \in KeysOf(c) : k \in own'[ctx'[c][k]]]_vars
  BY LeaseStep, CallsAssumption DEF StartsLeased
<1> QED BY <1>1, <1>2, <1>3, PTL DEF Spec, StartsUnderLease
=============================================================================
