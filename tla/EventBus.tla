------------------------------ MODULE EventBus ------------------------------
(***************************************************************************)
(* The event bus of packages/events, for one session, in every process     *)
(* ("pod") that serves it, and the transport between the pods.  A commit   *)
(* stores a change and then emits its event on the pod that committed it.  *)
(* The bus gives the event the next replay id of its own epoch, keeps it   *)
(* in a ring, tells the local subscribers, and mirrors it to the other     *)
(* pods through a per-session outbox: a small event travels in its frame,  *)
(* an oversized one as a reference that may leave only after its save.     *)
(* A receiver orders the frames of a (pod, session) by their transport     *)
(* sequence number and gives each a replay id of its own.                  *)
(*                                                                         *)
(* Whatever the bus cannot order or fetch must end in a reset: a new epoch *)
(* that every client of the pod is told about.                             *)
(*                                                                         *)
(* A call of a subscriber runs inside the step that tells it: EventStream  *)
(* conjoins the subscriber's reaction to the actions of this module.       *)
(***************************************************************************)
EXTENDS Integers, Sequences, FiniteSets, SequencesExt

CONSTANTS
  Pods,         \* the processes that serve the session
  NoPod,        \* the value of a pod that is not known
  Committers,   \* those that commit changes of it
  MaxEvents,    \* the commits, and so the events, of a behaviour
  Oversize,     \* the events whose frame exceeds MAX_TRANSPORT_INLINE_BYTES
  Trace,        \* the diagnostic events, which the ring does not keep
  RingMax,      \* RING_BUFFER_MAX
  OutboxMax,    \* OUTBOX_PENDING_MAX
  ParkedMax,    \* RECEIVE_PENDING_MAX
  Reorders,     \* whether the transport may deliver out of order
  Faults,       \* the faults a behaviour may meet
  MaxFaults     \* how many of them

Events == 1 .. MaxEvents

ASSUME BusConstants ==
  /\ NoPod \notin Pods
  /\ Committers \subseteq Pods
  /\ MaxEvents \in Nat \ {0}
  /\ Oversize \subseteq Events
  /\ Trace \subseteq Events
  /\ RingMax \in Nat \ {0}
  /\ OutboxMax \in Nat \ {0}
  /\ ParkedMax \in Nat \ {0}
  /\ Reorders \in BOOLEAN
  /\ MaxFaults \in Nat

\* The numbers of a finite set in their order, and the entries of q at the
\* places of such a set.  (SortSeq and SelectSeq, in a form to reason about.)
Ascending(I) ==
  CHOOSE s \in [1 .. Cardinality(I) -> I] : \A i, j \in DOMAIN s : i < j => s[i] < s[j]
Entries(q, I) == [i \in 1 .. Cardinality(I) |-> q[Ascending(I)[i]]]

VARIABLES
  sess,       \* replay state of the session on each pod
  outbox,     \* the frames each pod has still to publish
  wire,       \* the frames published and not yet delivered to each pod
  listening,  \* whether the LISTEN connection of each pod is up
  recv,       \* receive-ordering state of each pod for each origin
  chain,      \* the delivery chain of each pod for each origin
  news,       \* what became of each event
  faults      \* how many faults have happened

busVars == <<sess, outbox, wire, listening, recv, chain, news, faults>>

Fault(kind) == kind \in Faults /\ faults < MaxFaults /\ faults' = faults + 1

-----------------------------------------------------------------------------
(* Replay state.  "gen" counts the epochs the pod has minted; the current  *)
(* one is <<pod, gen>>, and the replay id of an event is <<pod, gen, seq>>. *)

Untracked(gen) == [tracked |-> FALSE, gen |-> gen, seq |-> 0, tseq |-> 0,
                   buf |-> <<>>, floor |-> 0, pins |-> 0]

Touch(s) ==
  IF s.tracked THEN s ELSE [Untracked(s.gen + 1) EXCEPT !.tracked = TRUE]

InvalidateUnpinned(s) == [Untracked(Touch(s).gen + 1) EXCEPT !.tracked = TRUE]
Invalidate(s) ==
  [Untracked(Touch(s).gen + 1) EXCEPT !.tracked = TRUE, !.pins = s.pins]

RetainOneMore(s, e) ==
  LET item == [seq |-> s.seq, ev |-> e]
  IN  IF e \in Trace THEN s
      ELSE IF Len(s.buf) <= RingMax THEN [s EXCEPT !.buf = Append(s.buf, item)]
      ELSE [s EXCEPT !.buf = Append(Tail(s.buf), item),
                     !.floor = Head(s.buf).seq]

\* The ring keeps the newest RingMax events; the floor is the newest it lost.
Retain(s, e) ==
  LET item == [seq |-> s.seq, ev |-> e]
  IN  IF e \in Trace THEN s
      ELSE IF Len(s.buf) < RingMax THEN [s EXCEPT !.buf = Append(s.buf, item)]
      ELSE [s EXCEPT !.buf = Append(Tail(s.buf), item),
                     !.floor = Head(s.buf).seq]

\* An event, local or remote, takes the next replay id.
Announce(s, e) == LET t == Touch(s) IN Retain([t EXCEPT !.seq = t.seq + 1], e)

Cursor(p, s) == [pod |-> p, gen |-> s.gen, seq |-> s.seq]

\* getEventsAfter: what a cursor of this pod can be bridged with.
ReplayAfter(s, seq) == Entries(s.buf, {i \in DOMAIN s.buf : s.buf[i].seq > seq})
ReplayGapAhead(s, seq) == ~s.tracked \/ seq > s.seq
ReplayGap(s, seq) == ~s.tracked \/ seq > s.seq \/ seq < s.floor

-----------------------------------------------------------------------------
(* Receive side.                                                           *)

NoStream == [pod |-> NoPod, gen |-> 0]
Opened(stream) == [stream |-> stream, expected |-> 1, parked |-> {}]
NoRecv == Opened(NoStream)

Deliver(frame) == [do |-> "deliver", ev |-> frame.ev, ref |-> frame.ref]
Reset == [do |-> "reset", ev |-> 0, ref |-> FALSE]

\* The frames, at most one of a number, in the order of their numbers.
Deliveries(frames) ==
  LET numbers == {f.seq : f \in frames}
  IN  [i \in 1 .. Cardinality(numbers) |->
         Deliver(CHOOSE f \in frames : f.seq = Ascending(numbers)[i])]

\* flushPending: everything parked is delivered in order, after a reset that
\* makes the skipped hole visible.
FlushTasks(r) == IF r.parked = {} THEN <<>> ELSE <<Reset>> \o Deliveries(r.parked)
Flushed(r) ==
  IF r.parked = {} THEN r
  ELSE [r EXCEPT !.parked = {},
                 !.expected = 1 + CHOOSE n \in {f.seq : f \in r.parked} :
                                    \A f \in r.parked : f.seq <= n]

\* The parked frames that the frame "seq" makes consecutive.
Consecutive(r, seq) ==
  {f \in r.parked : \A n \in seq + 1 .. f.seq : \E g \in r.parked : g.seq = n}

\* handleTransportFrame, on the state of the frame's stream: an old number is
\* dropped, the expected one is scheduled with the parked frames it frees, and
\* a later one is parked, unless that is one too many.
Reception(r, frame) ==
  LET freed == Consecutive(r, frame.seq)
      parked == [r EXCEPT !.parked = @ \cup {frame}]
  IN  CASE frame.seq < r.expected -> [r |-> r, tasks |-> <<>>]
        [] frame.seq = r.expected ->
             [r |-> [r EXCEPT !.expected = frame.seq + 1 + Cardinality(freed),
                              !.parked = @ \ freed],
              tasks |-> Deliveries({frame} \cup freed)]
        [] frame.seq > r.expected /\ Cardinality(parked.parked) <= ParkedMax ->
             [r |-> parked, tasks |-> <<>>]
        [] OTHER -> [r |-> Flushed(parked), tasks |-> FlushTasks(parked)]

-----------------------------------------------------------------------------
BusTypeOK ==
  /\ sess \in [Pods -> [tracked : BOOLEAN, gen : Nat, seq : Nat, tseq : Nat,
                        buf : Seq([seq : Nat, ev : Events]), floor : Nat,
                        pins : Nat]]
  /\ listening \in [Pods -> BOOLEAN]
  /\ news \in [Events -> [st : {"none", "queued", "saving", "sent", "lost", "unpublished"},
                          pod : Pods \cup {NoPod}, gen : Nat, tseq : Nat]]
  /\ faults \in 0 .. MaxFaults
  /\ DOMAIN outbox = Pods /\ DOMAIN wire = Pods
  /\ DOMAIN recv = Pods /\ DOMAIN chain = Pods

\* What getEventsAfter replays is a window: in the order of the ids, above the
\* floor below which it answers with a gap, never ahead of the head cursor, and
\* bounded (retain, invalidateReplay, the eviction of a session).
Window(s) ==
  /\ Len(s.buf) <= RingMax
  /\ s.floor <= s.seq
  /\ \A i \in DOMAIN s.buf :
       /\ s.floor < s.buf[i].seq /\ s.buf[i].seq <= s.seq
       /\ \A j \in DOMAIN s.buf : i < j => s.buf[i].seq < s.buf[j].seq
ReplayWindow == \A p \in Pods : Window(sess[p])

BusInitWith(s, n) ==
  /\ sess = s
  /\ outbox = [p \in Pods |-> <<>>]
  /\ wire = [p \in Pods |-> <<>>]
  /\ listening = [p \in Pods |-> TRUE]
  /\ recv = [p \in Pods |-> [o \in Pods |-> NoRecv]]
  /\ chain = [p \in Pods |-> [o \in Pods |-> <<>>]]
  /\ news = [e \in Events |-> [st |-> "none", pod |-> NoPod,
                               gen |-> 0, tseq |-> 0]]
  /\ faults = n

Fate(e, st) == news' = [news EXCEPT ![e].st = st]

\* The changes commit in the order of their events, each announced after its
\* commit.  (A reader between the two sees the change before its event.)
CommitNext(p, e) ==
  /\ p \in Committers
  /\ news[e].st = "none"
  /\ \A f \in Events : f < e => news[f].st # "none"

\* emit: id, ring and local subscribers, then a frame for the other pods.
\* Past the outbox cap the frame is dropped, but its number is taken.  Of an
\* oversized event the save starts, except of a trace, which has its journal.
Emit(p, e) ==
  LET t == Announce(sess[p], e)
      s == [t EXCEPT !.tseq = t.tseq + 1]
      frame == [pod |-> p, gen |-> s.gen, seq |-> s.tseq, ev |-> e,
                ref |-> e \in Oversize]
      room == Len(outbox[p]) < OutboxMax
      st == CASE ~room -> "lost"
              [] room /\ e \in Oversize \ Trace -> "saving"
              [] OTHER -> "queued"
  IN  /\ CommitNext(p, e)
      /\ sess' = [sess EXCEPT ![p] = s]
      /\ outbox' = IF room THEN [outbox EXCEPT ![p] = Append(@, frame)] ELSE outbox
      /\ news' = [news EXCEPT ![e] = [st |-> st, pod |-> p, gen |-> s.gen,
                                      tseq |-> s.tseq]]
      /\ UNCHANGED <<wire, listening, recv, chain, faults>>

\* The commit's events could not be published: flushPostCommit invalidates.
EmitFails(p, e) ==
  /\ CommitNext(p, e)
  /\ Fault("emit")
  /\ sess' = [sess EXCEPT ![p] = Invalidate(@)]
  /\ news' = [news EXCEPT ![e].st = "unpublished", ![e].pod = p]
  /\ UNCHANGED <<outbox, wire, listening, recv, chain>>

\* The save of an oversized event succeeds, or fails or is dropped.
SaveSettles(p, e) ==
  /\ news[e].st = "saving" /\ news[e].pod = p
  /\ \/ Fate(e, "queued") /\ UNCHANGED faults
     \/ Fault("save") /\ Fate(e, "lost")
  /\ UNCHANGED <<sess, outbox, wire, listening, recv, chain>>

\* The outbox publishes its first frame once its save has settled.  A frame
\* whose save failed is skipped, and so is one the transport rejects.
Publish(p) ==
  LET frame == Head(outbox[p]) IN
  /\ outbox[p] # <<>>
  /\ news[frame.ev].st # "saving"
  /\ outbox' = [outbox EXCEPT ![p] = Tail(@)]
  /\ \/ /\ news[frame.ev].st = "queued"
        /\ wire' = [q \in Pods |-> IF listening[q] /\ q # p
                                   THEN Append(wire[q], frame) ELSE wire[q]]
        /\ Fate(frame.ev, "sent")
        /\ UNCHANGED faults
     \/ news[frame.ev].st = "queued" /\ Fault("publish")
        /\ Fate(frame.ev, "lost") /\ UNCHANGED wire
     \/ news[frame.ev].st = "lost" /\ UNCHANGED <<wire, news, faults>>
  /\ UNCHANGED <<sess, listening, recv, chain>>

\* getReceiveState: a frame of a new stream retires the state of the old one.
Receive(p, i) ==
  LET frame == wire[p][i]
      o == frame.pod
      stream == [pod |-> o, gen |-> frame.gen]
      known == recv[p][o].stream = stream
      old == IF known THEN <<>> ELSE FlushTasks(recv[p][o])
      next == Reception(IF known THEN recv[p][o] ELSE Opened(stream), frame)
  IN  /\ i \in 1 .. Len(wire[p]) /\ (~Reorders => i = 1)
      /\ wire' = [wire EXCEPT ![p] = RemoveAt(@, i)]
      /\ recv' = [recv EXCEPT ![p][o] = next.r]
      /\ chain' = [chain EXCEPT ![p][o] = @ \o old \o next.tasks]
      /\ UNCHANGED <<sess, outbox, listening, news, faults>>

\* The timer of a hole, RECEIVE_GAP_FLUSH_MS after the first parked frame.
FlushTimer(p, o) ==
  /\ recv[p][o].parked # {}
  /\ recv' = [recv EXCEPT ![p][o] = Flushed(@)]
  /\ chain' = [chain EXCEPT ![p][o] = @ \o FlushTasks(recv[p][o])]
  /\ UNCHANGED <<sess, outbox, wire, listening, news, faults>>

\* The first task of a delivery chain is a frame that is delivered.
DeliverNext(p, o) ==
  LET task == Head(chain[p][o]) IN
  /\ chain[p][o] # <<>> /\ task.do = "deliver"
  /\ sess' = [sess EXCEPT ![p] = Announce(@, task.ev)]
  /\ chain' = [chain EXCEPT ![p][o] = Tail(@)]
  /\ UNCHANGED <<outbox, wire, listening, recv, news, faults>>

\* It is a reset, or a reference that can no longer be read.
ResetNext(p, o) ==
  LET task == Head(chain[p][o]) IN
  /\ chain[p][o] # <<>>
  /\ \/ task.do = "reset" /\ UNCHANGED faults
     \/ task.ref /\ task.ev \notin Trace /\ Fault("fetch")
  /\ sess' = [sess EXCEPT ![p] = Invalidate(@)]
  /\ chain' = [chain EXCEPT ![p][o] = Tail(@)]
  /\ UNCHANGED <<outbox, wire, listening, recv, news>>

\* A trace that cannot be read back is only logged.
SkipNext(p, o) ==
  LET task == Head(chain[p][o]) IN
  /\ chain[p][o] # <<>> /\ task.ref /\ task.ev \in Trace /\ Fault("fetch")
  /\ chain' = [chain EXCEPT ![p][o] = Tail(@)]
  /\ UNCHANGED <<sess, outbox, wire, listening, recv, news>>

\* The LISTEN connection breaks: what is on its way is lost.
Disconnect(p) ==
  /\ listening[p] /\ Fault("listen")
  /\ listening' = [listening EXCEPT ![p] = FALSE]
  /\ wire' = [wire EXCEPT ![p] = <<>>]
  /\ UNCHANGED <<sess, outbox, recv, chain, news>>

\* It listens again: the replay state of every tracked session is reset.
Reconnect(p) ==
  /\ ~listening[p]
  /\ listening' = [listening EXCEPT ![p] = TRUE]
  /\ sess' = [sess EXCEPT ![p] = IF @.tracked THEN Invalidate(@) ELSE @]
  /\ UNCHANGED <<outbox, wire, recv, chain, news, faults>>

\* Eviction of an unpinned session by age or by the session cap.
Evict(p) ==
  /\ sess[p].tracked /\ sess[p].pins = 0 /\ Fault("evict")
  /\ sess' = [sess EXCEPT ![p] = Untracked(@.gen)]
  /\ UNCHANGED <<outbox, wire, listening, recv, chain, news>>

\* Eviction of a receive state; the deliveries of an idle one have ended.
EvictReceive(p, o) ==
  /\ recv[p][o] # NoRecv /\ chain[p][o] = <<>> /\ Fault("evictReceive")
  /\ recv' = [recv EXCEPT ![p][o] = NoRecv]
  /\ chain' = [chain EXCEPT ![p][o] = FlushTasks(recv[p][o])]
  /\ UNCHANGED <<sess, outbox, wire, listening, news>>

\* headCursor, and the pin of a subscription, track an untracked session.
Track(p) == sess' = [sess EXCEPT ![p] = Touch(@)]
Pin(p) == sess' = [sess EXCEPT ![p] = [Touch(@) EXCEPT !.pins = Touch(sess[p]).pins + 1]]
Unpin(p) == sess' = [sess EXCEPT ![p].pins = @ - 1]
=============================================================================
