------------------------------ MODULE Journal ------------------------------
(***************************************************************************)
(* The daemon's event journal (src/rc/journal.rs): it numbers the frames   *)
(* of every stream, keeps a bounded ring of them for viewers that come     *)
(* back, and persists how far each stream was numbered.  Around it stand   *)
(* its callers: the pump that records frames and flushes the watermark,    *)
(* the openings and retirements of sessions, session.subscribe, and a      *)
(* daemon that stops, or is killed, and starts again.                      *)
(*                                                                         *)
(* Of a frame only its identity matters: the daemon that recorded it and   *)
(* its sequence number.  A ring holds frames of the running daemon, so     *)
(* there the number is enough.                                             *)
(***************************************************************************)
EXTENDS Integers, Sequences, FiniteSets

CONSTANTS
    Sessions,     \* streams of sessions and of read-only watches
    Terminals,    \* "term:" streams, numbered and never retained
    Viewers,      \* clients that follow session streams through the hub
    RingCapacity, \* RING_CAPACITY
    ReplayCap,    \* REPLAY_CAP of session.subscribe
    MaxSeq,       \* bound: the highest number a stream is given
    MaxBoot       \* bound: starts of the daemon

Streams == Sessions \cup Terminals

ASSUME JournalConstants ==
    /\ RingCapacity \in Nat \ {0}
    /\ ReplayCap \in Nat \ {0}
    /\ MaxSeq \in Nat /\ MaxBoot \in Nat
    /\ Sessions \cap Terminals = {}

VARIABLES
    streams,   \* Journal::streams: the entry of each stream, see Absent
    dirty,     \* Journal::dirty
    watermark, \* watermark.json: the last number persisted, 0 for none
    live,      \* streams with a session or watch row in the daemon
    view,      \* view[v][s]: what viewer v knows of session stream s
    issued,    \* history: the highest number ever put on the wire, by stream
    boot,      \* history: which start of the daemon is running
    wire,      \* history: every frame put on the wire, by stream
    killed     \* history: a kill lost numbers that no flush had persisted

vars == <<streams, dirty, watermark, live, view, issued, boot, wire, killed>>

----------------------------------------------------------------------------
(* Streams *)

Stream == [exists : BOOLEAN, next : Nat, ring : Seq(Nat), retained : BOOLEAN]

\* A stream without an entry yet, and Stream::default.
Absent == [exists |-> FALSE, next |-> 0, ring |-> <<>>, retained |-> TRUE]

\* A frame of a stream: two daemons may number different frames alike.
Frame == [boot : Nat, seq : Nat]

Numbers(F) == {f.seq : f \in F}

\* What a viewer knows: it has a frame of, or was told it lost, every number
\* through `cursor`.  `on` while the hub fans the stream's live frames out to it.
View == [cursor : Nat, got : SUBSET Frame, gone : SUBSET Nat, on : BOOLEAN]

NewView == [cursor |-> 0, got |-> {}, gone |-> {}, on |-> FALSE]

\* Mutant: the ring forgets to drop its oldest frame at the right moment.
PushWithoutEviction(st) ==
    LET n == st.next + 1
    IN  [st EXCEPT !.next = n,
                   !.ring = IF st.retained /\ Len(st.ring) < RingCapacity
                            THEN Append(st.ring, n) ELSE st.ring]

\* Stream::push
Push(st) ==
    LET n    == st.next + 1
        kept == IF Len(st.ring) = RingCapacity THEN Tail(st.ring) ELSE st.ring
    IN  [exists   |-> st.exists,
         next     |-> n,
         ring     |-> IF st.retained THEN Append(kept, n) ELSE st.ring,
         retained |-> st.retained]

\* The entry Journal::record pushes to: a terminal stream stops retaining,
\* however its entry came into existence.
Recorded(s) ==
    LET st == streams[s]
    IN  [exists   |-> TRUE,
         next     |-> st.next,
         ring     |-> IF s \in Terminals THEN <<>> ELSE st.ring,
         retained |-> st.retained /\ s \notin Terminals]

----------------------------------------------------------------------------
(* The viewer's side of a live frame (the hub and the web client, external):
   the next frame extends what it has, a repeated number is dropped as a
   duplicate, and a frame past the next one makes it resubscribe. *)
Delivered(w, n) ==
    CASE n = w.cursor + 1 ->
             [w EXCEPT !.cursor = n, !.got = @ \cup {[boot |-> boot, seq |-> n]}]
      [] n > w.cursor + 1 -> [w EXCEPT !.on = FALSE]
      [] OTHER -> w

----------------------------------------------------------------------------
Init ==
    /\ streams = [s \in Streams |-> Absent]
    /\ dirty = FALSE
    /\ watermark = [s \in Streams |-> 0]
    /\ live = {}
    /\ view = [v \in Viewers |-> [s \in Sessions |-> NewView]]
    /\ issued = [s \in Streams |-> 0]
    /\ boot = 0
    /\ wire = [s \in Streams |-> {}]
    /\ killed = FALSE

\* The pump projects a frame of stream s (project_session_frame) and hands it
\* to the live lane, which drops it for whoever is not in `reached` when the
\* lane is full.  Trailing frames of a retired stream come this way too.
Record(s, reached) ==
    LET st == Push(Recorded(s))
    IN  /\ issued[s] < MaxSeq
        /\ streams[s].exists \/ s \in live
        /\ streams' = [streams EXCEPT ![s] = st]
        /\ dirty' = TRUE
        /\ issued' = [issued EXCEPT ![s] = IF st.next > @ THEN st.next ELSE @]
        /\ wire' = [wire EXCEPT ![s] = @ \cup {[boot |-> boot, seq |-> st.next]}]
        /\ view' = [v \in Viewers |-> [x \in Sessions |->
                      IF x = s /\ v \in reached /\ view[v][x].on
                      THEN Delivered(view[v][x], st.next) ELSE view[v][x]]]
        /\ UNCHANGED <<watermark, live, boot, killed>>

\* A session starts or is resumed, a watch or a terminal opens:
\* Journal::resume reopens the ring of a session stream that has an entry.
Open(s) ==
    /\ s \notin live
    /\ live' = live \cup {s}
    /\ streams' = IF s \in Terminals \/ ~streams[s].exists THEN streams
                  ELSE [streams EXCEPT ![s].retained = TRUE]
    /\ UNCHANGED <<dirty, watermark, view, issued, boot, wire, killed>>

\* The row of a session or watch goes: Journal::forget releases the ring and
\* keeps the numbering.  A closed terminal only loses its row.
Retire(s) ==
    /\ s \in live
    /\ live' = live \ {s}
    /\ streams' = IF s \in Sessions /\ streams[s].exists
                  THEN [streams EXCEPT ![s].ring = <<>>, ![s].retained = FALSE]
                  ELSE streams
    /\ dirty' = (dirty \/ s \in Sessions)
    /\ UNCHANGED <<watermark, view, issued, boot, wire, killed>>

----------------------------------------------------------------------------
(* session.subscribe *)

\* Stream::since: the frames of a ring past a number, in their order.
Since(ring, after) ==
    LET kept[i \in 0 .. Len(ring)] ==
          IF i = 0 THEN <<>>
          ELSE IF ring[i] > after THEN Append(kept[i - 1], ring[i]) ELSE kept[i - 1]
    IN  kept[Len(ring)]

\* Mutant: the replay starts one frame late.
ReplayPastNext(s, after) ==
    LET since == Since(streams[s].ring, after + 1)
        drop  == IF Len(since) > ReplayCap THEN Len(since) - ReplayCap ELSE 0
    IN  SubSeq(since, drop + 1, Len(since))

\* Journal::replay, cut to its last ReplayCap frames.
Replay(s, after) ==
    LET since == Since(streams[s].ring, after)
        drop  == IF Len(since) > ReplayCap THEN Len(since) - ReplayCap ELSE 0
    IN  SubSeq(since, drop + 1, Len(since))

\* Mutant: the viewer is answered as if nothing it lacks had been dropped.
FromSeqOptimistic(s, after, replay) == after + 1

\* Mutant: a viewer that lacks nothing is answered with what it has.
FromSeqBehind(s, after, replay) ==
    CASE replay /= <<>> -> Head(replay)
      [] replay = <<>> /\ after >= streams[s].next -> after
      [] OTHER -> streams[s].next + 1

\* Journal::from_seq
FromSeq(s, after, replay) ==
    CASE replay /= <<>> -> Head(replay)
      [] replay = <<>> /\ after >= streams[s].next -> after + 1
      [] OTHER -> streams[s].next + 1

\* Viewer v subscribes to stream s from its cursor: the frames it is sent, and
\* the from_seq it is answered with, below which frames are gone.
Subscribe(v, s) ==
    LET w      == view[v][s]
        replay == Replay(s, w.cursor)
        from   == FromSeq(s, w.cursor, replay)
    IN  /\ s \in live
        /\ ~w.on
        /\ view' = [view EXCEPT ![v][s] =
             [cursor |-> from + Len(replay) - 1,
              got    |-> w.got \cup {[boot |-> boot, seq |-> replay[i]] : i \in DOMAIN replay},
              gone   |-> w.gone \cup ((w.cursor + 1) .. (from - 1)),
              on     |-> TRUE]]
        /\ UNCHANGED <<streams, dirty, watermark, live, issued, boot, wire, killed>>

Disconnect(v, s) ==
    /\ view[v][s].on
    /\ view' = [view EXCEPT ![v][s].on = FALSE]
    /\ UNCHANGED <<streams, dirty, watermark, live, issued, boot, wire, killed>>

----------------------------------------------------------------------------
(* The watermark and restarts *)

Persisted == [s \in Streams |-> streams[s].next]

\* Journal::flush on the pump's tick; a failed write leaves it dirty.
Flush ==
    /\ dirty
    /\ watermark' = Persisted
    /\ dirty' = FALSE
    /\ UNCHANGED <<streams, live, view, issued, boot, wire, killed>>

\* Journal::restored from the watermark file `mark`.
Restored(mark) ==
    [s \in Streams |->
        [exists |-> mark[s] > 0, next |-> mark[s], ring |-> <<>>, retained |-> TRUE]]

\* The daemon's next start: rows, rings and subscriptions are gone.
StartsFrom(mark) ==
    /\ streams' = Restored(mark)
    /\ dirty' = FALSE
    /\ live' = {}
    /\ view' = [v \in Viewers |-> [s \in Sessions |-> [view[v][s] EXCEPT !.on = FALSE]]]
    /\ boot < MaxBoot
    /\ boot' = boot + 1
    /\ UNCHANGED <<issued, wire>>

\* Mutant: the shutdown skips the last flush.
StopWithoutFlush ==
    /\ StartsFrom(watermark)
    /\ UNCHANGED <<watermark, killed>>

\* `agit rc stop` and a start: the shutdown flushes last.
StopAndStart ==
    /\ watermark' = IF dirty THEN Persisted ELSE watermark
    /\ StartsFrom(watermark')
    /\ UNCHANGED killed

\* The daemon is killed between two flushes and started again.
KillAndStart ==
    /\ killed' = (killed \/ dirty)
    /\ UNCHANGED watermark
    /\ StartsFrom(watermark)

Next ==
    \/ \E s \in Streams : \E reached \in SUBSET Viewers : Record(s, reached)
    \/ \E s \in Streams : Open(s)
    \/ \E s \in Streams : Retire(s)
    \/ \E v \in Viewers, s \in Sessions : Subscribe(v, s)
    \/ \E v \in Viewers, s \in Sessions : Disconnect(v, s)
    \/ Flush
    \/ StopAndStart
    \/ KillAndStart

Spec == Init /\ [][Next]_vars

----------------------------------------------------------------------------
(* Properties *)

JournalTypeOK ==
    /\ streams \in [Streams -> Stream]
    /\ dirty \in BOOLEAN
    /\ watermark \in [Streams -> Nat]
    /\ live \subseteq Streams
    /\ issued \in [Streams -> Nat]
    /\ boot \in Nat
    /\ wire \in [Streams -> SUBSET Frame]
    /\ killed \in BOOLEAN

\* Every variable has its type.
TypeOK == JournalTypeOK /\ view \in [Viewers -> [Sessions -> View]]

\* The numbers in r are consecutive and end at m.
EndsAt(r, m) == \A i \in 1 .. Len(r) : r[i] = m - Len(r) + i

RingOK(st) ==
    /\ Len(st.ring) <= RingCapacity
    /\ EndsAt(st.ring, st.next)
    /\ st.ring /= <<>> => st.retained

\* A ring holds at most RingCapacity frames, consecutive and ending at the
\* stream's last number: what Stream::since and session.subscribe rely on when
\* they answer with a first sequence number and everything after it.
RingIsSuffix == \A s \in Streams : RingOK(streams[s])

\* The frames numbered through w's cursor that w neither received nor was told of.
Missed(w, s) ==
    {f \in wire[s] : f.seq <= w.cursor /\ f \notin w.got /\ f.seq \notin w.gone}

\* A closed page loses nothing silently, as long as no kill has lost numbers that
\* were not flushed: of the frames numbered through its cursor a viewer received
\* each, or was told that it is gone.  No number is ever both.
NoSilentHole ==
    \A v \in Viewers, s \in Sessions :
        LET w == view[v][s]
        IN  /\ ~killed => Missed(w, s) = {}
            /\ Numbers(w.got) \cap w.gone = {}

\* Even over kills between two flushes a viewer misses a frame in silence only
\* where Journal::restored numbered two frames alike: dropped live frames, cut
\* replays, evictions and retirements are always told.
MissedAreReissued ==
    \A v \in Viewers, s \in Sessions : \A f \in Missed(view[v][s], s) :
        \E g \in wire[s] : g /= f /\ g.seq = f.seq

\* A stream is never numbered below what it already put on the wire, restarts
\* included (the promise of Journal::restored): only a kill of a daemon with
\* unflushed numbers takes it back.
NumberingNeverFallsBack == ~killed => \A s \in Streams : streams[s].next = issued[s]

Held(s) == {streams[s].ring[i] : i \in DOMAIN streams[s].ring}

\* A frame a viewer is told is gone is no longer held: Journal::from_seq says of
\* a number above after + 1 that it "is answered only when they are".
GapsAreGone ==
    [][\A v \in Viewers, s \in Sessions :
         (view'[v][s].gone \ view[v][s].gone) \cap Held(s) = {}]_vars

\* What session.subscribe says is gone is no longer held, or older than the last
\* ReplayCap frames of the stream: the end of a turn is never reported lost while
\* the ring has it.
GapsAreOld ==
    [][\A v \in Viewers, s \in Sessions :
         \A n \in (view'[v][s].gone \ view[v][s].gone) \cap Held(s) :
             n <= streams[s].next - ReplayCap]_vars

=============================================================================
