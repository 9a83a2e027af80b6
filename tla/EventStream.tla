----------------------------- MODULE EventStream -----------------------------
(***************************************************************************)
(* One web client of one session: the server side of its event stream      *)
(* (routes/api/subscribe.ts on the pod it reaches), and the client's       *)
(* cursor, restored view and recovery (apps/web).  It composes with        *)
(* EventBus: the stream hears, inside each step of the bus of its pod, the  *)
(* event or the reset that the step broadcasts.                            *)
(*                                                                         *)
(* A frame the server writes and the client's handling of it are one step: *)
(* the server learns nothing of what the client has received.              *)
(***************************************************************************)
EXTENDS EventBus

CONSTANTS
  QueueMax,      \* SSE_WRITE_QUEUE_MAX
  OpeningFaults  \* the faults already spent when the client opens the session

ASSUME StreamConstants ==
  QueueMax \in Nat \ {0} /\ OpeningFaults \in 0 .. MaxFaults

VARIABLES
  conn,    \* the server side of the client's stream
  client   \* what the client holds

vars == <<busVars, conn, client>>

NoCursor == [pod |-> NoPod, gen |-> 0, seq |-> 0]
HeadCursor(p) == Cursor(p, sess[p])

NoConn(silent) ==
  [phase |-> "none", pod |-> NoPod, cursor |-> NoCursor, hit |-> FALSE,
   todo |-> <<>>, buf |-> <<>>, sent |-> {}, high |-> NoCursor, ordered |-> TRUE,
   silent |-> silent]

\* A frame of the stream: a control frame, or the event of a replay id.
Control(do, cursor) == [do |-> do, id |-> cursor, ev |-> 0]
EventFrame(id, e) == [do |-> "event", id |-> id, ev |-> e]

Committed == {e \in Events : news[e].st # "none"}

-----------------------------------------------------------------------------
(* What the stream hears from the bus of its pod.  "buf" holds, in turn,   *)
(* the events of the watch, those buffered during the replay, and the      *)
(* queue of the live writer.                                               *)

Closing(c) == [c EXCEPT !.phase = "closing", !.todo = <<>>, !.buf = <<>>, !.sent = {}]

ResetQueued(c) == c.buf # <<>> /\ c.buf[Len(c.buf)].do = "reset"

Deaf(p) == conn.pod # p \/ conn.phase \in {"none", "closing"}

HearEventUnbounded(p, e) ==
  LET heard == [conn EXCEPT !.buf = Append(@, EventFrame(Cursor(p, sess'[p]), e))]
  IN  conn' = IF Deaf(p) THEN conn
              ELSE IF conn.phase = "watch" THEN heard
              ELSE IF e \in Trace \/ ResetQueued(conn) THEN conn
              ELSE heard

HearEvent(p, e) ==
  LET heard == [conn EXCEPT !.buf = Append(@, EventFrame(Cursor(p, sess'[p]), e))]
      full == Len(conn.buf) >= QueueMax
  IN  conn' = IF Deaf(p) THEN conn
              ELSE IF conn.phase = "watch"
                   THEN IF full THEN [conn EXCEPT !.hit = TRUE] ELSE heard
              ELSE IF e \in Trace \/ ResetQueued(conn) THEN conn
              ELSE IF full THEN Closing(conn) ELSE heard

\* While the replay runs, and when the queue is full, the stream closes; a
\* live one drops what is queued and writes a reset.
HearReset(p) ==
  conn' = IF Deaf(p) THEN conn
          ELSE IF conn.phase = "watch" THEN [conn EXCEPT !.hit = TRUE]
          ELSE IF conn.phase # "live" THEN Closing(conn)
          ELSE IF ResetQueued(conn) THEN conn
          ELSE IF Len(conn.buf) >= QueueMax THEN Closing(conn)
          ELSE [conn EXCEPT !.buf = <<Control("reset", NoCursor)>>]

HearNothing == conn' = conn

BusStep ==
  /\ client' = client
  /\ \/ \E p \in Pods, e \in Events :
          \/ Emit(p, e) /\ HearEvent(p, e)
          \/ EmitFails(p, e) /\ HearReset(p)
          \/ SaveSettles(p, e) /\ HearNothing
     \/ \E p \in Pods :
          \/ Publish(p) /\ HearNothing
          \/ \E i \in 1 .. Len(wire[p]) : Receive(p, i) /\ HearNothing
          \/ Disconnect(p) /\ HearNothing
          \/ Reconnect(p) /\ HearReset(p)
          \/ Evict(p) /\ HearNothing
     \/ \E p, o \in Pods :
          \/ FlushTimer(p, o) /\ HearNothing
          \/ DeliverNext(p, o) /\ HearEvent(p, Head(chain[p][o]).ev)
          \/ ResetNext(p, o) /\ HearReset(p)
          \/ SkipNext(p, o) /\ HearNothing
          \/ EvictReceive(p, o) /\ HearNothing

-----------------------------------------------------------------------------
(* The client.                                                             *)

NoBus == UNCHANGED <<outbox, wire, listening, recv, chain, news>>

\* The session view: the cursor is read before the snapshot it goes with.
ReadView(p) ==
  /\ client.view = "none"
  /\ Track(p)
  /\ client' = [client EXCEPT !.view = "read", !.viewCursor = Cursor(p, sess'[p]),
                              !.viewKnown = Committed]
  /\ NoBus /\ UNCHANGED <<faults, conn>>

\* checkSnapshotCursor: a first stream opened after the view was read.
Checked(c) ==
  IF c.viewChecked \/ c.view # "applied" \/ c.head = NoCursor THEN c
  ELSE [c EXCEPT !.viewChecked = TRUE,
                 !.recovering = @ \/ c.viewCursor.pod # c.head.pod
                                  \/ c.viewCursor.gen # c.head.gen
                                  \/ c.head.seq > c.viewCursor.seq]

ApplyView ==
  /\ client.view = "read"
  /\ client' = Checked([client EXCEPT !.view = "applied",
                                      !.known = @ \cup client.viewKnown])
  /\ NoBus /\ UNCHANGED <<sess, faults, conn>>

\* connect: a request with the client's cursor, or that of the view.
Connect(p) ==
  LET align == /\ client.last = NoCursor /\ client.view = "applied"
               /\ ~client.viewChecked
      last == IF align THEN client.viewCursor ELSE client.last
  IN  /\ conn.phase = "none"
      /\ client' = [client EXCEPT !.last = last,
                                  !.viewChecked = @ \/ align,
                                  !.noCursor = last = NoCursor]
      /\ conn' = [NoConn(conn.silent) EXCEPT !.phase = "watch", !.pod = p,
                                             !.cursor = last]
      /\ NoBus /\ UNCHANGED <<sess, faults>>

\* The request is authorised: pin, activate, and the response headers.  A
\* reset heard by the watch closes the stream.  A client that reconnects
\* reads everything again, unless it resumes silently after an action.
Activate ==
  /\ conn.phase = "watch"
  /\ Pin(conn.pod)
  /\ conn' =
       IF conn.hit THEN Closing(conn)
       ELSE [conn EXCEPT !.phase = "opening",
                         !.buf = Entries(@, {i \in DOMAIN @ : conn.buf[i].ev \notin Trace}),
                         !.todo = <<Control("connected",
                                            Cursor(conn.pod, sess'[conn.pod]))>>]
  /\ client' = IF conn.silent THEN client
               ELSE [client EXCEPT !.connected = TRUE,
                                   !.recovering = @ \/ client.connected,
                                   !.skipReset = client.connected]
  /\ NoBus /\ UNCHANGED faults

\* What the client does with a frame.
Received(frame) ==
  CASE frame.do = "connected" ->
         Checked([client EXCEPT
           !.last = IF @ = NoCursor THEN frame.id ELSE @,
           !.head = IF client.noCursor /\ @ = NoCursor THEN frame.id ELSE @,
           !.noCursor = FALSE])
    [] frame.do = "reset" ->
         [client EXCEPT !.last = frame.id, !.skipReset = FALSE,
                        !.recovering = @ \/ ~client.skipReset]
    [] frame.do = "event" ->
         [client EXCEPT !.last = frame.id, !.skipReset = FALSE,
                        !.known = @ \cup {frame.ev}]

Settled(c) == IF c.todo = <<>> /\ c.buf = <<>>
              THEN [c EXCEPT !.phase = "live", !.sent = {}] ELSE c

Later(id, than) == id.gen > than.gen \/ (id.gen = than.gen /\ id.seq > than.seq)

\* The stream after it wrote a frame.  Two fields are history, for InOrder:
\* the id of the last event it wrote, and whether ids have only grown.
Wrote(frame) ==
  IF frame.do # "event" THEN conn
  ELSE [conn EXCEPT !.high = frame.id, !.ordered = @ /\ Later(frame.id, conn.high)]

\* What a cursor is answered with: nothing without one, the retained events
\* after it, or a reset when the epoch changed or the ring cannot bridge it.
Answer(p, cursor) ==
  IF cursor = NoCursor THEN <<>>
  ELSE IF [pod |-> cursor.pod, gen |-> cursor.gen] # [pod |-> p, gen |-> sess[p].gen]
          \/ ReplayGap(sess[p], cursor.seq)
       THEN <<Control("reset", HeadCursor(p))>>
  ELSE LET items == ReplayAfter(sess[p], cursor.seq)
       IN  [i \in 1 .. Len(items) |->
              EventFrame([HeadCursor(p) EXCEPT !.seq = items[i].seq], items[i].ev)]

WriteConnected ==
  /\ conn.phase = "opening"
  /\ client' = Received(Head(conn.todo))
  /\ conn' = Settled([conn EXCEPT !.phase = "replay",
                                  !.todo = Answer(conn.pod, conn.cursor)])
  /\ NoBus /\ UNCHANGED <<sess, faults>>

SentId(frame) == IF frame.do = "event" THEN {frame.id} ELSE {}

WriteReplay ==
  /\ conn.phase = "replay" /\ conn.todo # <<>>
  /\ client' = Received(Head(conn.todo))
  /\ conn' = Settled([Wrote(Head(conn.todo)) EXCEPT !.todo = Tail(@),
                                  !.sent = @ \cup SentId(Head(conn.todo))])
  /\ NoBus /\ UNCHANGED <<sess, faults>>

WriteBufferedAgain ==
  /\ conn.phase = "replay" /\ conn.todo = <<>>
  /\ conn' = Settled([Wrote(Head(conn.buf)) EXCEPT !.buf = Tail(@)])
  /\ client' = Received(Head(conn.buf))
  /\ NoBus /\ UNCHANGED <<sess, faults>>

\* The events buffered during the replay, except those it already sent.
WriteBuffered ==
  /\ conn.phase = "replay" /\ conn.todo = <<>>
  /\ LET frame == Head(conn.buf) IN
     \/ /\ frame.id \in conn.sent
        /\ conn' = Settled([conn EXCEPT !.buf = Tail(@)])
        /\ UNCHANGED client
     \/ /\ frame.id \notin conn.sent
        /\ conn' = Settled([Wrote(frame) EXCEPT !.buf = Tail(@)])
        /\ client' = Received(frame)
  /\ NoBus /\ UNCHANGED <<sess, faults>>

WriteLive ==
  /\ conn.phase = "live" /\ conn.buf # <<>>
  /\ \/ /\ ResetQueued(conn)
        /\ client' = Received(Control("reset", HeadCursor(conn.pod)))
        /\ conn' = Closing(conn)
     \/ /\ ~ResetQueued(conn)
        /\ client' = Received(Head(conn.buf))
        /\ conn' = [Wrote(Head(conn.buf)) EXCEPT !.buf = Tail(@)]
  /\ NoBus /\ UNCHANGED <<sess, faults>>

\* A heartbeat of an idle stream, for the client the first frame after control.
Heartbeat ==
  /\ conn.phase = "live" /\ conn.buf = <<>> /\ client.skipReset
  /\ client' = [client EXCEPT !.skipReset = FALSE]
  /\ NoBus /\ UNCHANGED <<sess, faults, conn>>

\* The stream's cleanup releases its pin, and the client sees it end.
EndStream ==
  /\ conn.phase = "closing"
  /\ Unpin(conn.pod)
  /\ conn' = NoConn(FALSE)
  /\ NoBus /\ UNCHANGED <<faults, client>>

\* The client leaves its stream: the connection breaks, the tab is hidden,
\* or an action of the page takes its place (a silent resume, when the stream
\* was connected).  The pause for an action is early when it comes before the
\* stream has shown the client that a reset is no longer the one it recovers from.
Leave(silent) ==
  /\ conn.phase \in {"watch", "opening", "replay", "live"}
  /\ silent => client.connected /\ (conn.silent \/ conn.phase # "watch")
  /\ Fault(IF ~silent THEN "leave"
           ELSE IF conn.phase = "live" /\ ~client.skipReset THEN "pause"
           ELSE "earlyPause")
  /\ IF conn.phase = "watch" THEN UNCHANGED sess ELSE Unpin(conn.pod)
  /\ conn' = NoConn(silent)
  /\ client' = IF silent THEN client ELSE [client EXCEPT !.connected = TRUE]
  /\ NoBus

\* The recovery reads the committed state; live events that arrive during the
\* read are applied after it.
Recover ==
  /\ client.recovering
  /\ client' = [client EXCEPT !.recovering = FALSE, !.known = @ \cup Committed]
  /\ NoBus /\ UNCHANGED <<sess, faults, conn>>

NewClient ==
  [last |-> NoCursor, view |-> "none", viewCursor |-> NoCursor, viewKnown |-> {},
   viewChecked |-> FALSE, noCursor |-> FALSE, head |-> NoCursor,
   connected |-> FALSE, skipReset |-> FALSE, recovering |-> FALSE, known |-> {}]

\* A client that opens the session.
InitOpening ==
  /\ BusInitWith([p \in Pods |-> Untracked(0)], OpeningFaults)
  /\ conn = NoConn(FALSE) /\ client = NewClient

\* A client whose stream on pod p is live and aligned with its view, before
\* the first event: where InitOpening leads without a fault.
InitLive(p) ==
  LET here == [pod |-> p, gen |-> 1, seq |-> 0] IN
  /\ BusInitWith([q \in Pods |-> IF q = p THEN [Touch(Untracked(0)) EXCEPT !.pins = 1]
                                  ELSE Untracked(0)], 0)
  /\ conn = [NoConn(FALSE) EXCEPT !.phase = "live", !.pod = p, !.cursor = here]
  /\ client = [NewClient EXCEPT !.last = here, !.view = "applied", !.viewCursor = here,
                                !.viewChecked = TRUE, !.connected = TRUE]

Init == InitOpening \/ \E p \in Pods : InitLive(p)

ClientStep ==
  \/ \E p \in Pods : ReadView(p) \/ Connect(p)
  \/ ApplyView \/ Activate \/ WriteConnected \/ WriteReplay \/ WriteBuffered
  \/ WriteLive \/ Heartbeat \/ EndStream \/ Recover
  \/ \E silent \in BOOLEAN : Leave(silent)

Next == BusStep \/ ClientStep

Spec == Init /\ [][Next]_vars

-----------------------------------------------------------------------------
(* Properties.                                                             *)

TypeOK ==
  /\ BusTypeOK
  /\ conn.phase \in {"none", "watch", "opening", "replay", "live", "closing"}
  /\ conn.pod \in Pods \cup {NoPod}
  /\ Len(conn.buf) <= QueueMax
  /\ client.known \subseteq Committed

\* A subscription holds one pin of its session from its authorisation to the
\* end of its cleanup, whatever happened to the replay state in between; a pin
\* that is lost lets an active stream's epoch be evicted, one that is kept
\* exempts the session from eviction for ever (pin, invalidateReplay).
PinsMatch ==
  \A p \in Pods :
    sess[p].pins = IF conn.pod = p /\ conn.phase # "watch" THEN 1 ELSE 0

\* What a pod can replay is an ordered window above its floor, and that window
\* is kept from eviction by exactly the streams that are open.
ReplayInv == ReplayWindow /\ PinsMatch

\* On one stream the ids of events only grow, across the replay, the events
\* buffered meanwhile and live delivery, so that no event is applied
\* twice or over a later one (getEventsAfter, flushBuffered).
InOrder == conn.ordered

\* The state is well formed, and the one stream is in the order of its ids.
StreamInv == TypeOK /\ InOrder

BusQuiet ==
  /\ \A e \in Events : news[e].st \notin {"saving", "queued"}
  /\ \A p \in Pods : listening[p] /\ outbox[p] = <<>> /\ wire[p] = <<>>
  /\ \A p, o \in Pods : recv[p][o].parked = {} /\ chain[p][o] = <<>>

ClientQuiet ==
  /\ conn.phase = "live" /\ conn.buf = <<>>
  /\ client.view = "applied" /\ ~client.recovering

\* The frame of e was lost, and none of its stream came after it.
LostAtTail(e) ==
  /\ news[e].st = "lost"
  /\ \A f \in Events : (/\ news[f].st = "sent" /\ news[f].pod = news[e].pod
                        /\ news[f].gen = news[e].gen) => news[f].tseq < news[e].tseq

\* When nothing is under way, a client with a live stream knows every change:
\* it was told, or it has read it.  Two losses are out of the bus's reach for
\* a client of another pod: a commit whose events could not be emitted, and
\* a frame lost with no later one of its stream to reveal the hole.
InSync ==
  BusQuiet /\ ClientQuiet =>
    \A e \in Committed \ Trace :
      \/ e \in client.known
      \/ news[e].pod # conn.pod /\ (news[e].st = "unpublished" \/ LostAtTail(e))
=============================================================================
