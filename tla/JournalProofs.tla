--------------------------- MODULE JournalProofs ---------------------------
(***************************************************************************)
(* What the journal keeps for every ring size, number of streams and       *)
(* viewers, and every interleaving: its rings are gapless suffixes; until  *)
(* a kill loses numbers that were not flushed, no stream is ever numbered  *)
(* below what it already sent, and no viewer loses a frame in silence;     *)
(* after one, it does so only where a number was issued twice;             *)
(* and of the newest frames, as many as a replay may carry, none that the  *)
(* ring holds is reported gone.                                            *)
(***************************************************************************)
EXTENDS Journal, SequenceTheorems, WellFoundedInduction, TLAPS

----------------------------------------------------------------------------
(* Rings *)

\* Dropping the oldest frame leaves consecutive numbers ending where they did.
LEMMA TailEndsAt ==
    ASSUME NEW r \in Seq(Nat), r /= <<>>, NEW m \in Nat, EndsAt(r, m)
    PROVE  Tail(r) \in Seq(Nat) /\ Len(Tail(r)) = Len(r) - 1 /\ EndsAt(Tail(r), m)
  <1>1. Tail(r) \in Seq(Nat) /\ Len(Tail(r)) = Len(r) - 1
    OBVIOUS
  <1>2. \A i \in 1 .. Len(Tail(r)) : Tail(r)[i] = r[i + 1]
    OBVIOUS
  <1>3. ASSUME NEW i \in 1 .. Len(Tail(r))
        PROVE  Tail(r)[i] = m - Len(Tail(r)) + i
    <2>1. i + 1 \in 1 .. Len(r) /\ Len(r) \in Nat
      BY <1>1
    <2>2. r[i + 1] = m - Len(r) + (i + 1)
      BY <2>1 DEF EndsAt
    <2>. QED
      BY <1>1, <1>2, <2>1, <2>2
  <1>. QED
    BY <1>1, <1>3 DEF EndsAt

\* Appending the next number leaves consecutive numbers ending there.
LEMMA AppendEndsAt ==
    ASSUME NEW r \in Seq(Nat), NEW m \in Nat, EndsAt(r, m)
    PROVE  /\ Append(r, m + 1) \in Seq(Nat)
           /\ Len(Append(r, m + 1)) = Len(r) + 1
           /\ EndsAt(Append(r, m + 1), m + 1)
  <1>. DEFINE new == Append(r, m + 1)
  <1>1. new \in Seq(Nat) /\ Len(new) = Len(r) + 1 /\ Len(r) \in Nat
    OBVIOUS
  <1>2. new[Len(r) + 1] = m + 1 /\ \A i \in 1 .. Len(r) : new[i] = r[i]
    OBVIOUS
  <1>. HIDE DEF new
  <1>3. ASSUME NEW i \in 1 .. Len(new)
        PROVE  new[i] = (m + 1) - Len(new) + i
    <2>1. CASE i = Len(r) + 1
      BY <1>1, <1>2, <2>1
    <2>2. CASE i \in 1 .. Len(r)
      BY <1>1, <1>2, <2>2 DEF EndsAt
    <2>. QED
      BY <1>1, <2>1, <2>2
  <1>4. EndsAt(new, m + 1)
    BY <1>3 DEF EndsAt
  <1>. QED
    BY <1>1, <1>4 DEF new

\* An empty ring ends anywhere.
LEMMA EmptyEndsAt ==
    /\ <<>> \in Seq(Nat)
    /\ Len(<<>>) = 0
    /\ \A m \in Nat : EndsAt(<<>>, m)
  <1>1. <<>> \in Seq(Nat) /\ Len(<<>>) = 0
    OBVIOUS
  <1>2. 1 .. 0 = {}
    OBVIOUS
  <1>. QED
    BY <1>1, <1>2 DEF EndsAt

\* Stream::push numbers the next frame and keeps the ring a gapless suffix: the
\* frame is appended after its predecessor, and the oldest goes at capacity.
LEMMA PushKeepsRing ==
    ASSUME NEW st \in Stream, RingOK(st)
    PROVE  /\ Push(st) \in Stream
           /\ RingOK(Push(st))
           /\ Push(st).next = st.next + 1
  <1>1. /\ st.ring \in Seq(Nat) /\ st.next \in Nat /\ st.next + 1 \in Nat
        /\ st.exists \in BOOLEAN /\ st.retained \in BOOLEAN
    BY DEF Stream
  <1>2. RingCapacity \in Nat /\ RingCapacity > 0
    BY JournalConstants
  <1>3. Push(st).next = st.next + 1 /\ Push(st).retained = st.retained
    BY DEF Push
  <1>. DEFINE kept == IF Len(st.ring) = RingCapacity THEN Tail(st.ring) ELSE st.ring
              new == IF st.retained THEN Append(kept, st.next + 1) ELSE st.ring
  <1>4. Push(st).ring = new
    BY DEF Push
  <1>5. new \in Seq(Nat) /\ Len(new) <= RingCapacity /\ EndsAt(new, st.next + 1)
    <2>1. CASE ~st.retained
      <3>1. new = <<>>
        BY <2>1 DEF RingOK
      <3>2. 0 <= RingCapacity
        BY <1>2
      <3>. HIDE DEF new
      <3>. QED
        BY <1>1, <3>1, <3>2, EmptyEndsAt
    <2>2. CASE st.retained
      <3>1. kept \in Seq(Nat) /\ Len(kept) < RingCapacity /\ EndsAt(kept, st.next)
        <4>1. CASE Len(st.ring) = RingCapacity
          <5>1. st.ring /= <<>>
            BY <1>1, <1>2, <4>1
          <5>2. /\ Tail(st.ring) \in Seq(Nat)
                /\ Len(Tail(st.ring)) = Len(st.ring) - 1
                /\ EndsAt(Tail(st.ring), st.next)
            BY <1>1, <5>1, TailEndsAt DEF RingOK
          <5>3. Len(Tail(st.ring)) < RingCapacity
            BY <1>2, <4>1, <5>2
          <5>. QED
            BY <4>1, <5>2, <5>3
        <4>2. CASE Len(st.ring) /= RingCapacity
          <5>1. Len(st.ring) < RingCapacity
            BY <1>1, <1>2, <4>2 DEF RingOK
          <5>. QED
            BY <1>1, <4>2, <5>1 DEF RingOK
        <4>. QED
          BY <4>1, <4>2
      <3>. HIDE DEF kept
      <3>2. /\ Append(kept, st.next + 1) \in Seq(Nat)
            /\ Len(Append(kept, st.next + 1)) = Len(kept) + 1
            /\ EndsAt(Append(kept, st.next + 1), st.next + 1)
        BY <1>1, <3>1, AppendEndsAt
      <3>3. Len(Append(kept, st.next + 1)) <= RingCapacity
        BY <1>2, <3>1, <3>2
      <3>. QED
        BY <2>2, <3>2, <3>3
    <2>. QED
      BY <1>1, <2>1, <2>2
  <1>6. new /= <<>> => st.retained
    BY <1>1 DEF RingOK
  <1>7. Push(st) = [exists |-> st.exists, next |-> st.next + 1, ring |-> new,
                    retained |-> st.retained]
    BY DEF Push
  <1>. HIDE DEF new
  <1>8. Push(st) \in Stream
    BY <1>1, <1>5, <1>7 DEF Stream
  <1>9. RingOK(Push(st))
    BY <1>3, <1>4, <1>5, <1>6 DEF RingOK
  <1>. QED
    BY <1>3, <1>8, <1>9

\* Journal::record pushes to a stream whose ring is as it was, or empty for a
\* terminal, and whose numbering it has not touched yet.
LEMMA RecordedKeepsRing ==
    ASSUME JournalTypeOK, RingIsSuffix, NEW s \in Streams
    PROVE  /\ Recorded(s) \in Stream
           /\ RingOK(Recorded(s))
           /\ Recorded(s).next = streams[s].next
  <1>. DEFINE st == streams[s]
  <1>1. /\ st \in Stream /\ RingOK(st)
        /\ st.ring \in Seq(Nat) /\ st.next \in Nat /\ st.retained \in BOOLEAN
    BY DEF JournalTypeOK, RingIsSuffix, Stream
  <1>2. RingCapacity \in Nat /\ 0 <= RingCapacity
    BY JournalConstants
  <1>3. CASE s \in Terminals
    <2>1. Recorded(s) = [exists |-> TRUE, next |-> st.next, ring |-> <<>>, retained |-> FALSE]
      BY <1>1, <1>3 DEF Recorded
    <2>2. Recorded(s) \in Stream
      BY <1>1, <2>1, EmptyEndsAt DEF Stream
    <2>3. RingOK(Recorded(s))
      BY <1>1, <1>2, <2>1, EmptyEndsAt DEF RingOK
    <2>. QED
      BY <2>1, <2>2, <2>3
  <1>4. CASE s \notin Terminals
    <2>1. Recorded(s) = [exists |-> TRUE, next |-> st.next, ring |-> st.ring,
                         retained |-> st.retained]
      BY <1>1, <1>4 DEF Recorded
    <2>. HIDE DEF st
    <2>2. Recorded(s) \in Stream
      BY <1>1, <2>1 DEF Stream
    <2>3. RingOK(Recorded(s))
      BY <1>1, <2>1 DEF RingOK
    <2>. QED
      BY <2>1, <2>2, <2>3 DEF st
  <1>. QED
    BY <1>3, <1>4

\* Journal::restored gives every stream an empty ring and its persisted number.
LEMMA RestoredKeepsRing ==
    ASSUME NEW mark \in [Streams -> Nat]
    PROVE  /\ Restored(mark) \in [Streams -> Stream]
           /\ \A s \in Streams : RingOK(Restored(mark)[s]) /\ Restored(mark)[s].next = mark[s]
  <1>1. RingCapacity \in Nat /\ 0 <= RingCapacity
    BY JournalConstants
  <1>2. ASSUME NEW s \in Streams
        PROVE  /\ Restored(mark)[s] \in Stream
               /\ RingOK(Restored(mark)[s])
               /\ Restored(mark)[s].next = mark[s]
    <2>1. Restored(mark)[s] = [exists |-> mark[s] > 0, next |-> mark[s], ring |-> <<>>,
                               retained |-> TRUE]
      BY DEF Restored
    <2>2. mark[s] \in Nat /\ (mark[s] > 0) \in BOOLEAN
      OBVIOUS
    <2>3. Restored(mark)[s] \in Stream
      BY <2>1, <2>2, EmptyEndsAt DEF Stream
    <2>4. RingOK(Restored(mark)[s])
      BY <1>1, <2>1, <2>2, EmptyEndsAt DEF RingOK
    <2>. QED
      BY <2>1, <2>3, <2>4
  <1>3. Restored(mark) = [s \in Streams |-> Restored(mark)[s]]
    BY DEF Restored
  <1>. QED
    BY <1>2, <1>3

----------------------------------------------------------------------------
(* Every step keeps the rings *)

\* What the rings need from step to step.
RingInv == JournalTypeOK /\ RingIsSuffix

\* A number recorded: Record replaces one stream by its push.
LEMMA RecordKeepsRings ==
    ASSUME RingInv, NEW s \in Streams, NEW reached \in SUBSET Viewers, Record(s, reached)
    PROVE  RingInv' /\ streams'[s].next = streams[s].next + 1
                    /\ \A x \in Streams \ {s} : streams'[x] = streams[x]
  <1>. DEFINE st == Push(Recorded(s))
  <1>1. st \in Stream /\ RingOK(st) /\ st.next = streams[s].next + 1
    BY RecordedKeepsRing, PushKeepsRing DEF RingInv
  <1>2. st.next \in Nat
    BY <1>1 DEF Stream
  <1>3. streams' = [streams EXCEPT ![s] = st]
    BY DEF Record
  <1>4. /\ dirty' = TRUE /\ watermark' = watermark /\ live' = live /\ boot' = boot
        /\ issued' = [issued EXCEPT ![s] = IF st.next > @ THEN st.next ELSE @]
        /\ wire' = [wire EXCEPT ![s] = @ \cup {[boot |-> boot, seq |-> st.next]}]
        /\ killed' = killed
    BY DEF Record
  <1>. HIDE DEF st
  <1>5. JournalTypeOK'
    <2>1. [boot |-> boot, seq |-> st.next] \in Frame
      BY <1>2 DEF RingInv, JournalTypeOK, Frame
    <2>2. wire' \in [Streams -> SUBSET Frame]
      BY <1>4, <2>1 DEF RingInv, JournalTypeOK
    <2>. QED
      BY <1>1, <1>2, <1>3, <1>4, <2>2 DEF RingInv, JournalTypeOK
  <1>6. \A x \in Streams : streams'[x] = IF x = s THEN st ELSE streams[x]
    BY <1>3 DEF RingInv, JournalTypeOK
  <1>7. RingIsSuffix'
    BY <1>1, <1>6 DEF RingInv, RingIsSuffix
  <1>. QED
    BY <1>1, <1>5, <1>6, <1>7 DEF RingInv

\* Journal::resume only reopens a ring.
LEMMA OpenKeepsRings ==
    ASSUME RingInv, NEW s \in Streams, Open(s)
    PROVE  RingInv' /\ \A x \in Streams : streams'[x].next = streams[x].next
  <1>1. /\ live' \subseteq Streams
        /\ dirty' = dirty /\ watermark' = watermark /\ issued' = issued
        /\ boot' = boot /\ wire' = wire /\ killed' = killed
    BY DEF Open, RingInv, JournalTypeOK
  <1>2. ASSUME NEW x \in Streams
        PROVE  /\ streams'[x] \in Stream
               /\ RingOK(streams'[x])
               /\ streams'[x].next = streams[x].next
    <2>1. streams[x] \in Stream /\ RingOK(streams[x])
      BY DEF RingInv, JournalTypeOK, RingIsSuffix
    <2>2. CASE streams'[x] = streams[x]
      BY <2>1, <2>2
    <2>3. CASE streams'[x] = [streams[x] EXCEPT !.retained = TRUE]
      <3>1. /\ streams'[x] \in Stream
            /\ streams'[x].next = streams[x].next
            /\ streams'[x].ring = streams[x].ring
            /\ streams'[x].retained = TRUE
        BY <2>1, <2>3 DEF Stream
      <3>. QED
        BY <2>1, <3>1 DEF RingOK
    <2>4. streams'[x] = streams[x] \/ streams'[x] = [streams[x] EXCEPT !.retained = TRUE]
      BY DEF Open, RingInv, JournalTypeOK
    <2>. QED
      BY <2>2, <2>3, <2>4
  <1>3. streams' = [x \in Streams |-> streams'[x]]
    BY DEF Open, RingInv, JournalTypeOK
  <1>4. streams' \in [Streams -> Stream]
    BY <1>2, <1>3
  <1>5. JournalTypeOK'
    BY <1>1, <1>4 DEF RingInv, JournalTypeOK
  <1>. QED
    BY <1>2, <1>5 DEF RingInv, RingIsSuffix

\* Journal::forget empties a ring and leaves its number.
LEMMA RetireKeepsRings ==
    ASSUME RingInv, NEW s \in Streams, Retire(s)
    PROVE  RingInv' /\ \A x \in Streams : streams'[x].next = streams[x].next
  <1>1. /\ live' \subseteq Streams
        /\ dirty' \in BOOLEAN /\ watermark' = watermark /\ issued' = issued
        /\ boot' = boot /\ wire' = wire /\ killed' = killed
    BY DEF Retire, RingInv, JournalTypeOK
  <1>2. ASSUME NEW x \in Streams
        PROVE  /\ streams'[x] \in Stream
               /\ RingOK(streams'[x])
               /\ streams'[x].next = streams[x].next
    <2>1. streams[x] \in Stream /\ RingOK(streams[x])
      BY DEF RingInv, JournalTypeOK, RingIsSuffix
    <2>2. CASE streams'[x] = streams[x]
      BY <2>1, <2>2
    <2>3. CASE streams'[x] = [streams[x] EXCEPT !.ring = <<>>, !.retained = FALSE]
      <3>1. /\ streams'[x] \in Stream
            /\ streams'[x].next = streams[x].next
            /\ streams'[x].ring = <<>>
        BY <2>1, <2>3, EmptyEndsAt DEF Stream
      <3>2. streams'[x].next \in Nat
        BY <3>1 DEF Stream
      <3>3. RingCapacity \in Nat /\ 0 <= RingCapacity
        BY JournalConstants
      <3>. QED
        BY <3>1, <3>2, <3>3, EmptyEndsAt DEF RingOK
    <2>4. \/ streams'[x] = streams[x]
          \/ streams'[x] = [streams[x] EXCEPT !.ring = <<>>, !.retained = FALSE]
      BY DEF Retire, RingInv, JournalTypeOK
    <2>. QED
      BY <2>2, <2>3, <2>4
  <1>3. streams' = [x \in Streams |-> streams'[x]]
    BY DEF Retire, RingInv, JournalTypeOK
  <1>4. streams' \in [Streams -> Stream]
    BY <1>2, <1>3
  <1>5. JournalTypeOK'
    BY <1>1, <1>4 DEF RingInv, JournalTypeOK
  <1>. QED
    BY <1>2, <1>5 DEF RingInv, RingIsSuffix

\* A start takes every number from the watermark file.
LEMMA StartKeepsRings ==
    ASSUME RingInv, NEW mark \in [Streams -> Nat], StartsFrom(mark), watermark' = mark,
           killed' \in BOOLEAN
    PROVE  RingInv' /\ \A x \in Streams : streams'[x].next = mark[x]
  <1>1. /\ streams' = Restored(mark) /\ dirty' = FALSE /\ live' = {} /\ issued' = issued
        /\ boot' = boot + 1 /\ wire' = wire
    BY DEF StartsFrom
  <1>2. JournalTypeOK'
    <2>1. streams' \in [Streams -> Stream]
      BY <1>1, RestoredKeepsRing
    <2>2. boot' \in Nat
      BY <1>1 DEF RingInv, JournalTypeOK
    <2>. QED
      BY <1>1, <2>1, <2>2 DEF RingInv, JournalTypeOK
  <1>. QED
    BY <1>1, <1>2, RestoredKeepsRing DEF RingInv, RingIsSuffix

\* What a flush writes is a number for each stream.
LEMMA PersistedType ==
    ASSUME JournalTypeOK
    PROVE  Persisted \in [Streams -> Nat] /\ \A s \in Streams : Persisted[s] = streams[s].next
  BY DEF JournalTypeOK, Persisted, Stream

\* The start of a daemon after `agit rc stop`, and after a kill.
LEMMA StopKeepsRings ==
    ASSUME RingInv, StopAndStart
    PROVE  RingInv' /\ \A x \in Streams : streams'[x].next = watermark'[x]
  <1>1. watermark' \in [Streams -> Nat] /\ StartsFrom(watermark') /\ killed' \in BOOLEAN
    BY PersistedType DEF StopAndStart, RingInv, JournalTypeOK
  <1>. QED
    BY <1>1, StartKeepsRings

\* Nor does a kill between two flushes, whatever the watermark file says.
LEMMA KillKeepsRings ==
    ASSUME RingInv, KillAndStart
    PROVE  RingInv' /\ \A x \in Streams : streams'[x].next = watermark[x]
  <1>1. /\ watermark \in [Streams -> Nat] /\ watermark' = watermark /\ StartsFrom(watermark)
        /\ killed' \in BOOLEAN
    BY DEF KillAndStart, RingInv, JournalTypeOK
  <1>. QED
    BY <1>1, StartKeepsRings

\* The rings hold before the first frame.
LEMMA InitRings == Init => RingInv
  <1>. SUFFICES ASSUME Init PROVE RingInv
    OBVIOUS
  <1>1. Absent \in Stream /\ RingOK(Absent)
    <2>1. RingCapacity \in Nat /\ 0 <= RingCapacity
      BY JournalConstants
    <2>2. Absent \in Stream
      BY EmptyEndsAt DEF Absent, Stream
    <2>3. Absent.ring = <<>> /\ Absent.next = 0
      BY DEF Absent
    <2>. QED
      BY <2>1, <2>2, <2>3, EmptyEndsAt DEF RingOK
  <1>2. streams \in [Streams -> Stream] /\ \A s \in Streams : streams[s] = Absent
    BY <1>1 DEF Init
  <1>3. JournalTypeOK
    BY <1>2 DEF Init, JournalTypeOK
  <1>. QED
    BY <1>1, <1>2, <1>3 DEF RingInv, RingIsSuffix

\* Each step of the daemon and its viewers keeps them.
LEMMA NextRings == RingInv /\ [Next]_vars => RingInv'
  <1>. SUFFICES ASSUME RingInv, [Next]_vars PROVE RingInv'
    OBVIOUS
  <1>1. ASSUME NEW s \in Streams, NEW reached \in SUBSET Viewers, Record(s, reached)
        PROVE  RingInv'
    BY <1>1, RecordKeepsRings
  <1>2. ASSUME NEW s \in Streams, Open(s) PROVE RingInv'
    BY <1>2, OpenKeepsRings
  <1>3. ASSUME NEW s \in Streams, Retire(s) PROVE RingInv'
    BY <1>3, RetireKeepsRings
  <1>4. ASSUME UNCHANGED <<streams, dirty, watermark, live, issued, boot, wire, killed>>
        PROVE  RingInv'
    BY <1>4 DEF RingInv, JournalTypeOK, RingIsSuffix
  <1>5. ASSUME NEW v \in Viewers, NEW s \in Sessions, Subscribe(v, s) \/ Disconnect(v, s)
        PROVE  RingInv'
    BY <1>4, <1>5 DEF Subscribe, Disconnect
  <1>6. CASE Flush
    <2>1. watermark' \in [Streams -> Nat]
      BY <1>6, PersistedType DEF Flush, RingInv
    <2>. QED
      BY <1>6, <2>1 DEF Flush, RingInv, JournalTypeOK, RingIsSuffix
  <1>7. CASE StopAndStart
    BY <1>7, StopKeepsRings
  <1>8. CASE KillAndStart
    BY <1>8, KillKeepsRings
  <1>9. CASE UNCHANGED vars
    BY <1>4, <1>9 DEF vars
  <1>. QED
    BY <1>1, <1>2, <1>3, <1>5, <1>6, <1>7, <1>8, <1>9 DEF Next

\* Whatever the ring size, the streams and the order of frames, openings,
\* retirements, subscriptions and restarts (kills included), a ring holds a
\* gapless run of frames that ends at the stream's last number and never
\* exceeds RING_CAPACITY.
THEOREM RingsAreSuffixes == Spec => []RingIsSuffix
  <1>1. RingInv => RingIsSuffix
    BY DEF RingInv
  <1>. QED
    BY <1>1, InitRings, NextRings, PTL DEF Spec

\* The journal's own state keeps its types.
THEOREM JournalTypes == Spec => []JournalTypeOK
  <1>1. RingInv => JournalTypeOK
    BY DEF RingInv
  <1>. QED
    BY <1>1, InitRings, NextRings, PTL DEF Spec

----------------------------------------------------------------------------
(* The numbering *)

\* A journal that is not dirty has its numbers on disk: what makes a stop that
\* flushes only when dirty safe.
CleanIsPersisted == ~dirty => \A s \in Streams : watermark[s] = streams[s].next

NumberInv == RingInv /\ NumberingNeverFallsBack /\ CleanIsPersisted

\* Each step keeps every stream's number at the highest it sent, but a kill that
\* loses what was not flushed.
LEMMA NextNumbers == NumberInv /\ [Next]_vars => NumberInv'
  <1>. SUFFICES ASSUME NumberInv, [Next]_vars PROVE NumberInv'
    OBVIOUS
  <1>. USE DEF NumberInv
  <1>0. RingInv'
    BY NextRings
  <1>1. ASSUME NEW s \in Streams, NEW reached \in SUBSET Viewers, Record(s, reached)
        PROVE  NumberInv'
    <2>1. /\ streams'[s].next = streams[s].next + 1
          /\ \A x \in Streams \ {s} : streams'[x] = streams[x]
      BY <1>1, RecordKeepsRings
    <2>2. (~killed => issued[s] = streams[s].next) /\ streams[s].next \in Nat
      BY DEF NumberingNeverFallsBack, RingInv, JournalTypeOK, Stream
    <2>3. Push(Recorded(s)).next = streams'[s].next
      BY <1>1 DEF Record, RingInv, JournalTypeOK
    <2>4. issued' = [issued EXCEPT ![s] = IF streams'[s].next > issued[s]
                                          THEN streams'[s].next ELSE issued[s]]
      BY <1>1, <2>3 DEF Record
    <2>5. /\ ~killed => issued'[s] = streams'[s].next
          /\ \A x \in Streams \ {s} : issued'[x] = issued[x]
      BY <2>1, <2>2, <2>4 DEF RingInv, JournalTypeOK
    <2>6. NumberingNeverFallsBack'
      BY <1>1, <2>1, <2>5 DEF Record, NumberingNeverFallsBack
    <2>7. dirty'
      BY <1>1 DEF Record
    <2>. QED
      BY <1>0, <2>6, <2>7 DEF CleanIsPersisted
  <1>2. ASSUME NEW s \in Streams, Open(s) PROVE NumberInv'
    <2>1. \A x \in Streams : streams'[x].next = streams[x].next
      BY <1>2, OpenKeepsRings
    <2>. QED
      BY <1>0, <1>2, <2>1 DEF Open, NumberingNeverFallsBack, CleanIsPersisted
  <1>3. ASSUME NEW s \in Streams, Retire(s) PROVE NumberInv'
    <2>1. \A x \in Streams : streams'[x].next = streams[x].next
      BY <1>3, RetireKeepsRings
    <2>2. ~dirty' => ~dirty
      BY <1>3 DEF Retire
    <2>. QED
      BY <1>0, <1>3, <2>1, <2>2 DEF Retire, NumberingNeverFallsBack, CleanIsPersisted
  <1>4. ASSUME UNCHANGED <<streams, dirty, watermark, issued, killed>> PROVE NumberInv'
    BY <1>0, <1>4 DEF NumberingNeverFallsBack, CleanIsPersisted
  <1>5. ASSUME NEW v \in Viewers, NEW s \in Sessions, Subscribe(v, s) \/ Disconnect(v, s)
        PROVE  NumberInv'
    BY <1>4, <1>5 DEF Subscribe, Disconnect
  <1>6. CASE Flush
    <2>1. \A s \in Streams : watermark'[s] = streams[s].next
      BY <1>6, PersistedType DEF Flush, RingInv
    <2>. QED
      BY <1>0, <1>6, <2>1 DEF Flush, NumberingNeverFallsBack, CleanIsPersisted
  <1>7. CASE StopAndStart
    <2>1. \A s \in Streams : streams'[s].next = watermark'[s]
      BY <1>7, StopKeepsRings
    <2>2. \A s \in Streams : watermark'[s] = streams[s].next
      <3>1. CASE dirty
        BY <1>7, <3>1, PersistedType DEF StopAndStart, RingInv
      <3>2. CASE ~dirty
        BY <1>7, <3>2 DEF StopAndStart, CleanIsPersisted
      <3>. QED
        BY <3>1, <3>2
    <2>3. issued' = issued /\ killed' = killed
      BY <1>7 DEF StopAndStart, StartsFrom
    <2>. QED
      BY <1>0, <2>1, <2>2, <2>3 DEF NumberingNeverFallsBack, CleanIsPersisted
  <1>8. CASE KillAndStart
    <2>1. \A s \in Streams : streams'[s].next = watermark'[s] /\ watermark'[s] = watermark[s]
      BY <1>8, KillKeepsRings DEF KillAndStart
    <2>2. issued' = issued /\ (~killed' => ~killed /\ ~dirty)
      BY <1>8 DEF KillAndStart, StartsFrom
    <2>. QED
      BY <1>0, <2>1, <2>2 DEF NumberingNeverFallsBack, CleanIsPersisted
  <1>9. CASE UNCHANGED vars
    BY <1>4, <1>9 DEF vars
  <1>. QED
    BY <1>1, <1>2, <1>3, <1>5, <1>6, <1>7, <1>8, <1>9 DEF Next

\* Until a kill loses numbers that were not flushed, no number is issued twice: a
\* stream's numbering continues past everything it sent, over any number of stops,
\* kills right after a flush, retirements and reopenings.
THEOREM NumberingContinues == Spec => []NumberingNeverFallsBack
  <1>1. Init => NumberInv
    <2>1. ASSUME Init PROVE \A s \in Streams : streams[s].next = 0
      BY <2>1 DEF Init, Absent
    <2>. QED
      BY <2>1, InitRings DEF Init, NumberInv, NumberingNeverFallsBack, CleanIsPersisted
  <1>2. NumberInv /\ [Next]_vars => NumberInv'
    BY NextNumbers
  <1>3. NumberInv => NumberingNeverFallsBack
    BY DEF NumberInv
  <1>. QED
    BY <1>1, <1>2, <1>3, PTL DEF Spec

----------------------------------------------------------------------------
(* What a subscription replays *)

\* The part of a ring after its k-th frame, through the i-th.
LEMMA Slice ==
    ASSUME NEW ring \in Seq(Nat), NEW k \in Nat, NEW i \in Nat, k <= i, i <= Len(ring)
    PROVE  /\ SubSeq(ring, k + 1, i) \in Seq(Nat)
           /\ Len(SubSeq(ring, k + 1, i)) = i - k
           /\ \A j \in 1 .. i - k : SubSeq(ring, k + 1, i)[j] = ring[k + j]
  <1>. DEFINE m == k + 1
  <1>1. m \in Int /\ i \in Int
    OBVIOUS
  <1>2. \A j \in m .. i : ring[j] \in Nat
    OBVIOUS
  <1>3. i - m + 1 = i - k /\ \A j \in Int : m + j - 1 = k + j
    OBVIOUS
  <1>. HIDE DEF m
  <1>4. /\ SubSeq(ring, m, i) \in Seq(Nat)
        /\ Len(SubSeq(ring, m, i)) = IF m <= i THEN i - m + 1 ELSE 0
        /\ \A j \in 1 .. i - m + 1 : SubSeq(ring, m, i)[j] = ring[m + j - 1]
    BY ONLY <1>1, <1>2, SubSeqProperties
  <1>5. Len(SubSeq(ring, m, i)) = i - k
    <2>1. ~(m <= i) => i - k = 0
      BY DEF m
    <2>. QED
      BY <1>3, <1>4, <2>1
  <1>6. \A j \in 1 .. i - k : SubSeq(ring, m, i)[j] = ring[k + j]
    BY <1>3, <1>4
  <1>. QED
    BY <1>4, <1>5, <1>6 DEF m

\* Stream::since cuts an ordered ring once: after its k-th frame, the last one not
\* past the number asked for.
LEMMA SinceCuts ==
    ASSUME NEW ring \in Seq(Nat), NEW after \in Nat, NEW k \in 0 .. Len(ring),
           \A i \in 1 .. Len(ring) : ring[i] > after <=> i > k
    PROVE  Since(ring, after) = SubSeq(ring, k + 1, Len(ring))
  <1>. DEFINE N == Len(ring)
              P(i) == SubSeq(ring, k + 1, i)
              G == [i \in 0 .. N |-> P(i)]
              Step(f, i) == IF i = 0 THEN <<>>
                            ELSE IF ring[i] > after THEN Append(f[i - 1], ring[i]) ELSE f[i - 1]
              Rec(f) == f = [i \in 0 .. N |-> Step(f, i)]
              F == CHOOSE f : Rec(f)
  <1>1. N \in Nat /\ k \in Nat /\ \A i \in 1 .. N : ring[i] \in Nat
    OBVIOUS
  <1>2. \A i \in 0 .. N : i <= k => P(i) = <<>>
    BY <1>1, SubSeqEmpty
  <1>3. ASSUME NEW i \in 1 .. N, i > k
        PROVE  P(i) = Append(P(i - 1), ring[i])
    <2>1. /\ i \in Nat /\ k <= i /\ i <= Len(ring)
          /\ i - 1 \in Nat /\ k <= i - 1 /\ i - 1 <= Len(ring)
      BY <1>1, <1>3
    <2>2. /\ P(i) \in Seq(Nat) /\ Len(P(i)) = i - k
          /\ \A j \in 1 .. i - k : P(i)[j] = ring[k + j]
      BY <1>1, <2>1, Slice
    <2>3. /\ P(i - 1) \in Seq(Nat) /\ Len(P(i - 1)) = i - 1 - k
          /\ \A j \in 1 .. i - 1 - k : P(i - 1)[j] = ring[k + j]
      BY <1>1, <2>1, Slice
    <2>. HIDE DEF P
    <2>4. /\ Append(P(i - 1), ring[i]) \in Seq(Nat)
          /\ Len(Append(P(i - 1), ring[i])) = i - k
          /\ \A j \in 1 .. i - k : Append(P(i - 1), ring[i])[j] = ring[k + j]
      <3>1. PICK q, x : q = P(i - 1) /\ x = ring[i]
        OBVIOUS
      <3>2. q \in Seq(Nat) /\ x \in Nat /\ Len(q) = i - 1 - k /\ x = ring[k + (i - k)]
        BY <1>1, <2>3, <3>1
      <3>3. /\ Append(q, x) \in Seq(Nat) /\ Len(Append(q, x)) = Len(q) + 1
            /\ \A j \in 1 .. Len(q) : Append(q, x)[j] = q[j]
            /\ Append(q, x)[Len(q) + 1] = x
        BY <3>2, AppendProperties
      <3>4. \A j \in 1 .. i - k : Append(q, x)[j] = ring[k + j]
        <4>. SUFFICES ASSUME NEW j \in 1 .. i - k PROVE Append(q, x)[j] = ring[k + j]
          OBVIOUS
        <4>1. CASE j = i - k
          BY <1>1, <1>3, <3>2, <3>3, <4>1
        <4>2. CASE j \in 1 .. i - 1 - k
          BY <1>1, <2>3, <3>1, <3>2, <3>3, <4>2
        <4>3. i \in Int /\ k \in Int /\ j \in Int
          BY <1>1
        <4>4. j = i - k \/ j \in 1 .. i - 1 - k
          BY <4>3
        <4>. QED
          BY <4>1, <4>2, <4>4
      <3>5. Len(Append(q, x)) = i - k
        BY <1>1, <3>2, <3>3
      <3>. QED
        BY <3>1, <3>3, <3>4, <3>5
    <2>. QED
      BY <2>2, <2>4, SeqEqual
  <1>. HIDE DEF P, N
  <1>4. Rec(G)
    <2>1. ASSUME NEW i \in 0 .. N PROVE P(i) = Step(G, i)
      <3>. DEFINE before == G[i - 1]
      <3>1. CASE i = 0
        BY <1>1, <1>2, <3>1
      <3>2. CASE i \in 1 .. N /\ i > k
        <4>1. ring[i] > after /\ before = P(i - 1) /\ i # 0
          BY <1>1, <3>2 DEF N
        <4>2. Step(G, i) = Append(before, ring[i])
          BY <4>1
        <4>3. P(i) = Append(P(i - 1), ring[i])
          BY <1>3, <3>2
        <4>. HIDE DEF before, Step, G
        <4>. QED
          BY <4>1, <4>2, <4>3
      <3>3. CASE i \in 1 .. N /\ i <= k
        <4>1. ~(ring[i] > after) /\ G[i - 1] = P(i - 1) /\ P(i - 1) = <<>> /\ P(i) = <<>>
          BY <1>1, <1>2, <3>3 DEF N
        <4>. QED
          BY <1>1, <3>3, <4>1
      <3>. HIDE DEF G, Step
      <3>. QED
        BY <1>1, <3>1, <3>2, <3>3
    <2>. QED
      BY <2>1
  <1>5. Rec(F)
    <2>. HIDE DEF Rec
    <2>. QED
      BY <1>4
  <1>6. \A i \in 0 .. N : F[i] = Step(F, i) /\ G[i] = Step(G, i)
    <2>. HIDE DEF F, G, Step
    <2>. QED
      BY <1>4, <1>5
  <1>7. \A i \in 0 .. N : F[i] = G[i]
    <2>. DEFINE T == {i \in Nat : i \in 0 .. N /\ F[i] # G[i]}
                less == {ss \in Nat \X Nat : ss[1] < ss[2]}
    <2>. HIDE DEF F, G
    <2>. SUFFICES ASSUME T # {} PROVE FALSE
      BY <1>1
    <2>1. T \subseteq Nat /\ T # {}
      OBVIOUS
    <2>2. PICK m \in T : \A y \in T : ~(<<y, m>> \in less)
      <3>1. IsWellFoundedOn(less, Nat)
        BY NatLessThanWellFounded DEF OpToRel
      <3>. HIDE DEF T, less
      <3>. QED
        BY <2>1, <3>1, WFMin
    <2>3. m \in 0 .. N /\ m \in Nat /\ F[m] # G[m]
      BY <2>2
    <2>4. CASE m = 0
      BY <1>6, <2>3, <2>4
    <2>5. CASE m # 0
      <3>1. m - 1 \in 0 .. N /\ m - 1 \in Nat /\ <<m - 1, m>> \in less
        BY <1>1, <2>3, <2>5
      <3>2. F[m - 1] = G[m - 1]
        BY <2>2, <3>1
      <3>3. Step(F, m) = Step(G, m)
        BY <3>2
      <3>. QED
        BY <1>6, <2>3, <3>3
    <2>. QED
      BY <2>4, <2>5
  <1>8. Since(ring, after) = F[N]
    BY DEF Since, N
  <1>9. N \in 0 .. N /\ G[N] = P(N)
    BY <1>1
  <1>10. Since(ring, after) = P(N)
    <2>. HIDE DEF F, G
    <2>. QED
      BY <1>7, <1>8, <1>9
  <1>. QED
    BY <1>10 DEF P, N

\* What is left of consecutive numbers without their first d.
LEMMA SuffixEndsAt ==
    ASSUME NEW q \in Seq(Nat), NEW m \in Nat, EndsAt(q, m), NEW d \in 0 .. Len(q)
    PROVE  /\ SubSeq(q, d + 1, Len(q)) \in Seq(Nat)
           /\ Len(SubSeq(q, d + 1, Len(q))) = Len(q) - d
           /\ EndsAt(SubSeq(q, d + 1, Len(q)), m)
  <1>1. Len(q) \in Nat /\ d \in Nat /\ \A i \in d + 1 .. Len(q) : q[i] \in Nat
    OBVIOUS
  <1>2. PICK r, n : r = SubSeq(q, d + 1, Len(q)) /\ n = Len(q)
    OBVIOUS
  <1>3. r \in Seq(Nat) /\ Len(r) = n - d /\ \A i \in 1 .. n - d : r[i] = q[d + i]
    BY <1>1, <1>2, SubSeqProperties
  <1>4. n \in Nat /\ d \in Nat /\ \A i \in 1 .. n - d : q[d + i] = m - n + (d + i)
    BY <1>1, <1>2 DEF EndsAt
  <1>5. PICK l : l = Len(r)
    OBVIOUS
  <1>6. l = n - d /\ \A i \in 1 .. n - d : r[i] = m - n + (d + i)
    BY <1>3, <1>4, <1>5
  <1>7. \A i \in 1 .. l : r[i] = m - l + i
    BY <1>4, <1>6
  <1>8. EndsAt(r, m)
    BY <1>5, <1>7 DEF EndsAt
  <1>. QED
    BY <1>2, <1>3, <1>8

\* Of n consecutive numbers ending at m, the first k are those not past `after`.
CutAt(m, n, after, k) ==
    /\ k \in 0 .. n /\ \A i \in 1 .. n : (m - n + i > after) <=> (i > k)
    /\ k < n => after <= m - n + k
    /\ k = n => n = 0 \/ m <= after

\* There are such k.
LEMMA CutPoint ==
    ASSUME NEW m \in Nat, NEW n \in Nat, NEW after \in Nat, n <= m + 1
    PROVE  \E k : CutAt(m, n, after, k)
  <1>1. CASE after < m - n
    <2>1. CutAt(m, n, after, 0)
      BY <1>1 DEF CutAt
    <2>. QED
      BY <2>1
  <1>2. CASE after >= m
    <2>1. CutAt(m, n, after, n)
      BY <1>2 DEF CutAt
    <2>. QED
      BY <2>1
  <1>3. CASE after >= m - n /\ after < m
    <2>1. CutAt(m, n, after, after - (m - n))
      BY <1>3 DEF CutAt
    <2>. QED
      BY <2>1
  <1>. QED
    BY <1>1, <1>2, <1>3

\* Stream::since of a gapless ring: consecutive frames past the number asked for, to
\* the stream's last, and all that the ring holds past it.
LEMMA SinceFacts ==
    ASSUME NEW ring \in Seq(Nat), NEW m \in Nat, EndsAt(ring, m), NEW after \in Nat
    PROVE  /\ Since(ring, after) \in Seq(Nat) /\ EndsAt(Since(ring, after), m)
           /\ Len(Since(ring, after)) \in 0 .. Len(ring)
           /\ Len(Since(ring, after)) > 0 => after <= m - Len(Since(ring, after))
           /\ Len(Since(ring, after)) = 0 => ring = <<>> \/ m <= after
           /\ \A i \in 1 .. Len(ring) :
                 ring[i] > after => ring[i] > m - Len(Since(ring, after))
  <1>1. PICK n, q : n = Len(ring) /\ q = Since(ring, after)
    OBVIOUS
  <1>2. n \in Nat /\ (n = 0 => ring = <<>>) /\ \A i \in 1 .. n : ring[i] \in Nat
    BY <1>1
  <1>3. \A i \in 1 .. n : ring[i] = m - n + i
    BY <1>1 DEF EndsAt
  <1>4. n <= m + 1
    <2>1. CASE n > 0
      <3>1. ring[1] \in Nat /\ ring[1] = m - n + 1
        BY <1>2, <1>3, <2>1
      <3>. QED
        BY <1>2, <3>1
    <2>. QED
      BY <1>2, <2>1
  <1>13. PICK k : CutAt(m, n, after, k)
    BY <1>2, <1>4, CutPoint
  <1>5. /\ k \in 0 .. n /\ \A i \in 1 .. n : (m - n + i > after) <=> (i > k)
        /\ k < n => after <= m - n + k
        /\ k = n => n = 0 \/ m <= after
    BY <1>13 DEF CutAt
  <1>6. \A i \in 1 .. n : ring[i] > after <=> i > k
    BY <1>3, <1>5
  <1>7. q = SubSeq(ring, k + 1, Len(ring))
    BY <1>1, <1>5, <1>6, SinceCuts
  <1>8. q \in Seq(Nat) /\ Len(q) = Len(ring) - k /\ EndsAt(q, m)
    BY <1>1, <1>5, <1>7, SuffixEndsAt
  <1>9. PICK l : l = Len(q)
    OBVIOUS
  <1>10. l = n - k /\ k \in 0 .. n
    BY <1>1, <1>5, <1>8, <1>9
  <1>11. l \in 0 .. n /\ (l > 0 => after <= m - l) /\ (l = 0 => n = 0 \/ m <= after)
    BY <1>2, <1>5, <1>10
  <1>12. \A i \in 1 .. n : ring[i] > after => ring[i] > m - l
    BY <1>2, <1>3, <1>6, <1>10
  <1>. QED
    BY <1>1, <1>2, <1>8, <1>9, <1>11, <1>12

\* What session.subscribe replays: consecutive frames past the viewer's cursor, to
\* the stream's last; nothing only when nothing past the cursor is held; and all of
\* the last ReplayCap frames that is held past it.
LEMMA ReplayFacts ==
    ASSUME RingInv, NEW s \in Streams, NEW after \in Nat, NEW r, r = Replay(s, after),
           NEW m, m = streams[s].next, NEW ring, ring = streams[s].ring
    PROVE  /\ m \in Nat /\ r \in Seq(Nat) /\ Len(r) \in Nat /\ EndsAt(r, m) /\ ring \in Seq(Nat)
           /\ Len(r) > 0 => after <= m - Len(r)
           /\ Len(r) = 0 => ring = <<>> \/ m <= after
           /\ \A i \in 1 .. Len(ring) :
                 ring[i] > after /\ ring[i] > m - ReplayCap => ring[i] > m - Len(r)
  <1>1. /\ ring \in Seq(Nat) /\ m \in Nat /\ Len(ring) <= RingCapacity /\ EndsAt(ring, m)
    BY DEF RingInv, JournalTypeOK, RingIsSuffix, RingOK, Stream
  <1>2. PICK since, l, n : since = Since(ring, after) /\ l = Len(since) /\ n = Len(ring)
    OBVIOUS
  <1>3. /\ since \in Seq(Nat) /\ EndsAt(since, m) /\ l \in 0 .. n /\ n \in Nat
        /\ l > 0 => after <= m - l
        /\ l = 0 => ring = <<>> \/ m <= after
        /\ \A i \in 1 .. n : ring[i] > after => ring[i] > m - l
    <2>1. /\ Since(ring, after) \in Seq(Nat) /\ EndsAt(Since(ring, after), m)
          /\ Len(Since(ring, after)) \in 0 .. Len(ring)
          /\ Len(Since(ring, after)) > 0 => after <= m - Len(Since(ring, after))
          /\ Len(Since(ring, after)) = 0 => ring = <<>> \/ m <= after
          /\ \A i \in 1 .. Len(ring) :
                ring[i] > after => ring[i] > m - Len(Since(ring, after))
      BY <1>1, SinceFacts, Zenon
    <2>2. n \in Nat
      BY <1>1, <1>2
    <2>. QED
      BY <1>2, <2>1, <2>2, Zenon
  <1>4. PICK drop : drop = IF l > ReplayCap THEN l - ReplayCap ELSE 0
    OBVIOUS
  <1>5. ReplayCap \in Nat /\ ReplayCap > 0
    BY JournalConstants
  <1>6. drop \in 0 .. l /\ (l > 0 => drop < l) /\ (drop = 0 \/ l - drop = ReplayCap)
    BY <1>3, <1>4, <1>5
  <1>7. r = SubSeq(since, drop + 1, Len(since))
    BY <1>2, <1>4 DEF Replay
  <1>8. r \in Seq(Nat) /\ Len(r) = Len(since) - drop /\ EndsAt(r, m)
    <2>1. drop \in 0 .. Len(since)
      BY <1>2, <1>6
    <2>2. /\ SubSeq(since, drop + 1, Len(since)) \in Seq(Nat)
          /\ Len(SubSeq(since, drop + 1, Len(since))) = Len(since) - drop
          /\ EndsAt(SubSeq(since, drop + 1, Len(since)), m)
      BY <1>1, <1>3, <2>1, SuffixEndsAt, Zenon
    <2>. QED
      BY <1>7, <2>2, Zenon
  <1>9. PICK k : k = Len(r)
    OBVIOUS
  <1>10. k = l - drop
    BY <1>2, <1>8, <1>9
  <1>11. k \in Nat /\ (k > 0 => after <= m - k) /\ (k = 0 => ring = <<>> \/ m <= after)
    BY <1>1, <1>3, <1>6, <1>10
  <1>12. \A i \in 1 .. n : ring[i] > after /\ ring[i] > m - ReplayCap => ring[i] > m - k
    <2>1. CASE drop = 0
      BY <1>3, <1>10, <2>1
    <2>2. CASE l - drop = ReplayCap
      BY <1>10, <2>2
    <2>. QED
      BY <1>6, <2>1, <2>2
  <1>. QED
    BY <1>1, <1>2, <1>8, <1>9, <1>11, <1>12

----------------------------------------------------------------------------
(* What viewers know *)

\* One viewer of one stream: of each number through its cursor it has a frame or
\* was told that it is gone, and never both.
Honest(w) == /\ w \in View
             /\ Numbers(w.got) \cup w.gone = 1 .. w.cursor
             /\ Numbers(w.got) \cap w.gone = {}

\* A frame of the running daemon.
Now(n) == [boot |-> boot, seq |-> n]

\* What the rings hold was put on the wire by this daemon, and numbers start at 1.
WireInv ==
    \A s \in Streams : /\ \A i \in DOMAIN streams[s].ring : Now(streams[s].ring[i]) \in wire[s]
                       /\ \A f \in wire[s] : f.seq > 0

ViewInv == /\ RingInv /\ WireInv
           /\ view \in [Viewers -> [Sessions -> View]]
           /\ \A v \in Viewers, s \in Sessions : /\ Honest(view[v][s])
                                                /\ view[v][s].got \subseteq wire[s]

\* Stream::push keeps no frame but its own and those that were in the ring.
LEMMA PushHolds ==
    ASSUME NEW st \in Stream, NEW i \in DOMAIN Push(st).ring
    PROVE  \/ Push(st).ring[i] = st.next + 1
           \/ \E j \in DOMAIN st.ring : Push(st).ring[i] = st.ring[j]
  <1>1. st.ring \in Seq(Nat) /\ st.next \in Nat
    BY DEF Stream
  <1>2. PICK kept : kept = IF Len(st.ring) = RingCapacity THEN Tail(st.ring) ELSE st.ring
    OBVIOUS
  <1>3. Push(st).ring = IF st.retained THEN Append(kept, st.next + 1) ELSE st.ring
    BY <1>2 DEF Push
  <1>4. kept \in Seq(Nat) /\ \A k \in DOMAIN kept : \E j \in DOMAIN st.ring : kept[k] = st.ring[j]
    <2>1. CASE Len(st.ring) = RingCapacity
      <3>1. st.ring /= <<>>
        BY <1>1, <2>1, JournalConstants
      <3>2. /\ Tail(st.ring) \in Seq(Nat) /\ Len(Tail(st.ring)) = Len(st.ring) - 1
            /\ \A k \in 1 .. Len(Tail(st.ring)) : Tail(st.ring)[k] = st.ring[k + 1]
        BY <1>1, <3>1
      <3>3. kept = Tail(st.ring)
        BY <1>2, <2>1
      <3>4. ASSUME NEW k \in DOMAIN kept PROVE \E j \in DOMAIN st.ring : kept[k] = st.ring[j]
        <4>1. k \in 1 .. Len(Tail(st.ring)) /\ k + 1 \in DOMAIN st.ring
          BY <1>1, <3>2, <3>3, <3>4
        <4>. QED
          BY <3>2, <3>3, <4>1
      <3>. QED
        BY <3>2, <3>3, <3>4
    <2>2. CASE Len(st.ring) /= RingCapacity
      BY <1>1, <1>2, <2>2
    <2>. QED
      BY <2>1, <2>2
  <1>5. CASE st.retained
    <2>1. i \in 1 .. Len(kept) + 1
      BY <1>3, <1>4, <1>5
    <2>2. CASE i = Len(kept) + 1
      BY <1>1, <1>3, <1>4, <1>5, <2>2
    <2>3. CASE i \in 1 .. Len(kept)
      <3>1. Push(st).ring[i] = kept[i] /\ i \in DOMAIN kept
        BY <1>1, <1>3, <1>4, <1>5, <2>3
      <3>. QED
        BY <1>4, <3>1
    <2>. QED
      BY <1>4, <2>1, <2>2, <2>3
  <1>6. CASE ~st.retained
    BY <1>3, <1>6
  <1>. QED
    BY <1>5, <1>6

\* Each step keeps the rings within what is on the wire, which only grows.
LEMMA NextWire ==
    ASSUME RingInv, WireInv, [Next]_vars
    PROVE  WireInv' /\ \A s \in Streams : wire[s] \subseteq wire'[s]
  <1>. DEFINE Goal == WireInv' /\ \A s \in Streams : wire[s] \subseteq wire'[s]
  <1>. SUFFICES Goal
    OBVIOUS
  <1>1. ASSUME NEW s \in Streams, NEW reached \in SUBSET Viewers, Record(s, reached)
        PROVE  Goal
    <2>1. PICK old, st : old = Recorded(s) /\ st = Push(old)
      OBVIOUS
    <2>2. old \in Stream /\ RingOK(old) /\ old.next = streams[s].next
      BY <2>1, RecordedKeepsRing DEF RingInv
    <2>3. st.next = old.next + 1 /\ old.next \in Nat
      BY <2>1, <2>2, PushKeepsRing DEF Stream
    <2>4. boot' = boot /\ wire' = [wire EXCEPT ![s] = @ \cup {Now(st.next)}]
      BY <1>1, <2>1 DEF Record, Now
    <2>5. \A x \in Streams : streams'[x] = IF x = s THEN st ELSE streams[x]
      BY <1>1, <2>1 DEF Record, RingInv, JournalTypeOK
    <2>6. \A x \in Streams : wire'[x] = IF x = s THEN wire[s] \cup {Now(st.next)} ELSE wire[x]
      BY <2>4 DEF RingInv, JournalTypeOK
    <2>7. Now(st.next).seq > 0
      BY <2>3 DEF Now
    <2>8. \A j \in DOMAIN old.ring : Now(old.ring[j]) \in wire[s]
      <3>1. CASE s \in Terminals
        <4>1. old.ring = <<>>
          BY <2>1, <3>1 DEF Recorded
        <4>2. DOMAIN old.ring = {}
          BY <4>1
        <4>. QED
          BY <4>2
      <3>2. CASE s \notin Terminals
        <4>1. old.ring = streams[s].ring
          BY <2>1, <3>2 DEF Recorded
        <4>. QED
          BY <4>1 DEF WireInv
      <3>. QED
        BY <3>1, <3>2
    <2>9. \A i \in DOMAIN st.ring : Now(st.ring[i]) \in wire[s] \cup {Now(st.next)}
      <3>. SUFFICES ASSUME NEW i \in DOMAIN st.ring
                    PROVE  Now(st.ring[i]) \in wire[s] \cup {Now(st.next)}
        OBVIOUS
      <3>1. st.ring[i] = old.next + 1 \/ \E j \in DOMAIN old.ring : st.ring[i] = old.ring[j]
        BY <2>1, <2>2, PushHolds
      <3>. QED
        BY <2>3, <2>8, <3>1
    <2>10. \A n : Now(n)' = Now(n)
      BY <2>4 DEF Now
    <2>11. ASSUME NEW x \in Streams
           PROVE  /\ \A i \in DOMAIN streams'[x].ring : Now(streams'[x].ring[i]) \in wire'[x]
                  /\ \A f \in wire'[x] : f.seq > 0
      BY <2>5, <2>6, <2>7, <2>9 DEF WireInv
    <2>12. WireInv'
      BY <2>10, <2>11 DEF WireInv
    <2>. QED
      BY <2>6, <2>12
  <1>2. ASSUME boot' = boot, wire' = wire,
               \A x \in Streams : streams'[x].ring = streams[x].ring \/ streams'[x].ring = <<>>
        PROVE  Goal
    <2>1. \A n : Now(n)' = Now(n)
      BY <1>2 DEF Now
    <2>2. DOMAIN <<>> = {}
      OBVIOUS
    <2>. QED
      BY <1>2, <2>1, <2>2 DEF WireInv
  <1>3. ASSUME NEW s \in Streams, Open(s) PROVE Goal
    <2>1. \A x \in Streams : streams'[x].ring = streams[x].ring
      BY <1>3 DEF Open, RingInv, JournalTypeOK, Stream
    <2>. QED
      BY <1>2, <1>3, <2>1 DEF Open
  <1>4. ASSUME NEW s \in Streams, Retire(s) PROVE Goal
    <2>1. \A x \in Streams : streams'[x].ring = streams[x].ring \/ streams'[x].ring = <<>>
      BY <1>4 DEF Retire, RingInv, JournalTypeOK, Stream
    <2>. QED
      BY <1>2, <1>4, <2>1 DEF Retire
  <1>5. ASSUME NEW mark, StartsFrom(mark) PROVE Goal
    <2>1. wire' = wire /\ \A x \in Streams : streams'[x].ring = <<>>
      BY <1>5 DEF StartsFrom, Restored
    <2>2. DOMAIN <<>> = {}
      OBVIOUS
    <2>. QED
      BY <2>1, <2>2 DEF WireInv
  <1>6. ASSUME UNCHANGED <<streams, boot, wire>> PROVE Goal
    BY <1>2, <1>6
  <1>7. ASSUME NEW v \in Viewers, NEW s \in Sessions, Subscribe(v, s) \/ Disconnect(v, s)
        PROVE  Goal
    BY <1>6, <1>7 DEF Subscribe, Disconnect
  <1>8. CASE Flush
    BY <1>6, <1>8 DEF Flush
  <1>9. CASE StopAndStart
    BY <1>5, <1>9 DEF StopAndStart
  <1>10. CASE KillAndStart
    BY <1>5, <1>10 DEF KillAndStart
  <1>11. CASE UNCHANGED vars
    BY <1>6, <1>11 DEF vars
  <1>. HIDE DEF Goal
  <1>. QED
    BY <1>1, <1>3, <1>4, <1>7, <1>8, <1>9, <1>10, <1>11 DEF Next

\* A live frame extends what a viewer has by the next number only.
LEMMA DeliveredHonest ==
    ASSUME boot \in Nat, NEW w, Honest(w), NEW n \in Nat
    PROVE  /\ Honest(Delivered(w, n)) /\ Delivered(w, n).gone = w.gone
           /\ Delivered(w, n).got \subseteq w.got \cup {Now(n)}
  <1>1. w \in View /\ w.cursor \in Nat /\ w.got \subseteq Frame /\ w.gone \subseteq Nat
    BY DEF Honest, View
  <1>2. CASE n = w.cursor + 1
    <2>1. Delivered(w, n) = [w EXCEPT !.cursor = n, !.got = @ \cup {Now(n)}]
      BY <1>2 DEF Delivered, Now
    <2>2. PICK new : new = w.got \cup {Now(n)}
      OBVIOUS
    <2>3. new \in SUBSET Frame /\ Numbers(new) = Numbers(w.got) \cup {n}
      <3>1. Now(n) \in Frame /\ Now(n).seq = n
        BY DEF Now, Frame
      <3>2. \A x : x \in Numbers(new) <=> x \in Numbers(w.got) \/ x \in {n}
        BY <2>2, <3>1 DEF Numbers
      <3>. QED
        BY <1>1, <2>2, <3>1, <3>2
    <2>4. /\ Delivered(w, n) \in View /\ Delivered(w, n).cursor = n
          /\ Delivered(w, n).got = new /\ Delivered(w, n).gone = w.gone
      BY <1>1, <2>1, <2>2, <2>3 DEF View
    <2>5. 1 .. n = 1 .. w.cursor \cup {n} /\ n \notin 1 .. w.cursor
      BY <1>1, <1>2
    <2>6. n \notin w.gone
      BY <2>5 DEF Honest
    <2>. QED
      BY <2>2, <2>3, <2>4, <2>5, <2>6 DEF Honest
  <1>3. CASE n > w.cursor + 1
    <2>1. Delivered(w, n) = [w EXCEPT !.on = FALSE]
      BY <1>1, <1>3 DEF Delivered
    <2>2. /\ Delivered(w, n) \in View /\ Delivered(w, n).cursor = w.cursor
          /\ Delivered(w, n).got = w.got /\ Delivered(w, n).gone = w.gone
      BY <1>1, <2>1 DEF View
    <2>. QED
      BY <2>2 DEF Honest
  <1>4. CASE ~(n = w.cursor + 1) /\ ~(n > w.cursor + 1)
    <2>1. Delivered(w, n) = w
      BY <1>4 DEF Delivered
    <2>. QED
      BY <2>1
  <1>. QED
    BY <1>2, <1>3, <1>4

\* Journal::from_seq is where the replay begins, past the viewer's cursor; and what
\* is held between the two is older than the last ReplayCap frames.
LEMMA FromSeqFacts ==
    ASSUME RingInv, NEW s \in Streams, NEW c \in Nat, NEW r, r = Replay(s, c),
           NEW f, f = FromSeq(s, c, r), NEW ring, ring = streams[s].ring
    PROVE  /\ f \in Nat /\ f > c /\ Len(r) \in Nat
           /\ {r[i] : i \in DOMAIN r} = f .. f + Len(r) - 1
           /\ \A i \in DOMAIN ring :
                 ring[i] \in c + 1 .. f - 1 => ring[i] <= streams[s].next - ReplayCap
  <1>1. PICK m, l, n : m = streams[s].next /\ l = Len(r) /\ n = Len(ring)
    OBVIOUS
  <1>2. /\ m \in Nat /\ r \in Seq(Nat) /\ l \in Nat /\ EndsAt(r, m) /\ ring \in Seq(Nat)
        /\ l > 0 => c <= m - l
        /\ l = 0 => ring = <<>> \/ m <= c
        /\ \A i \in 1 .. n : ring[i] > c /\ ring[i] > m - ReplayCap => ring[i] > m - l
    <2>1. /\ m \in Nat /\ r \in Seq(Nat) /\ Len(r) \in Nat /\ EndsAt(r, m) /\ ring \in Seq(Nat)
          /\ Len(r) > 0 => c <= m - Len(r)
          /\ Len(r) = 0 => ring = <<>> \/ m <= c
          /\ \A i \in 1 .. Len(ring) :
                ring[i] > c /\ ring[i] > m - ReplayCap => ring[i] > m - Len(r)
      <3>1. m = streams[s].next
        BY <1>1
      <3>. QED
        BY <3>1, ReplayFacts, SMTT(30)
    <2>. QED
      BY <1>1, <2>1, Zenon
  <1>3. n \in Nat /\ DOMAIN ring = 1 .. n /\ DOMAIN r = 1 .. l /\ (r = <<>> <=> l = 0)
    BY <1>1, <1>2
  <1>4. \A i \in 1 .. l : r[i] = m - l + i
    BY <1>1, <1>2 DEF EndsAt
  <1>5. EndsAt(ring, m)
    BY <1>1 DEF RingInv, RingIsSuffix, RingOK
  <1>6. \A i \in 1 .. n : ring[i] = m - n + i
    BY <1>1, <1>5 DEF EndsAt
  <1>7. CASE l > 0
    <2>1. r[1] = m - l + 1 /\ r /= <<>>
      BY <1>2, <1>3, <1>4, <1>7
    <2>2. Head(r) = r[1]
      BY <1>2, <2>1
    <2>3. f = Head(r)
      BY <2>1 DEF FromSeq
    <2>4. f = m - l + 1
      BY <2>1, <2>2, <2>3
    <2>5. f \in Nat /\ f > c /\ f + l - 1 = m
      BY <1>2, <1>7, <2>4
    <2>6. {r[i] : i \in DOMAIN r} = f .. f + l - 1
      <3>1. \A i \in 1 .. l : r[i] \in f .. f + l - 1
        BY <1>2, <1>4, <2>4
      <3>2. \A x \in f .. f + l - 1 : x - (m - l) \in 1 .. l /\ r[x - (m - l)] = x
        BY <1>2, <1>4, <2>4
      <3>. QED
        BY <1>3, <3>1, <3>2
    <2>7. \A x \in c + 1 .. f - 1 : x > c /\ ~(x > m - l)
      BY <1>2, <2>4, <2>5
    <2>8. \A i \in 1 .. n : ring[i] \in c + 1 .. f - 1 => ~(ring[i] > m - ReplayCap)
      BY <1>2, <2>7, Zenon
    <2>9. \A i \in 1 .. n : ring[i] \in Int
      BY <1>2, <1>3, <1>6
    <2>10. \A i \in 1 .. n : ring[i] \in c + 1 .. f - 1 => ring[i] <= m - ReplayCap
      BY <1>2, <2>8, <2>9, JournalConstants
    <2>. QED
      BY <1>1, <1>2, <1>3, <2>5, <2>6, <2>10, Zenon
  <1>8. CASE l = 0
    <2>1. r = <<>>
      BY <1>3, <1>8
    <2>2. f = IF c >= m THEN c + 1 ELSE m + 1
      BY <1>1, <2>1 DEF FromSeq
    <2>3. f \in Nat /\ f > c /\ f .. f + l - 1 = {}
      BY <1>2, <1>8, <2>2
    <2>4. {r[i] : i \in DOMAIN r} = {}
      <3>1. DOMAIN r = {}
        BY <1>3, <1>8
      <3>. QED
        BY <3>1
    <2>5. CASE ring = <<>>
      <3>1. n = 0
        BY <1>1, <2>5
      <3>2. \A i \in DOMAIN ring : ring[i] \notin c + 1 .. f - 1
        <4>1. DOMAIN ring = {}
          BY <1>3, <3>1
        <4>. QED
          BY <4>1
      <3>. QED
        BY <1>1, <1>2, <2>3, <2>4, <3>2, Zenon
    <2>6. CASE m <= c
      <3>1. \A i \in 1 .. n : ring[i] \notin c + 1 .. f - 1
        BY <1>2, <1>3, <1>6, <2>6
      <3>. QED
        BY <1>1, <1>2, <1>3, <2>3, <2>4, <3>1, Zenon
    <2>. QED
      BY <1>2, <1>8, <2>5, <2>6
  <1>. QED
    BY <1>2, <1>7, <1>8

\* session.subscribe leaves a viewer with each frame through its new cursor, or
\* told that it is gone.
LEMMA SubscribedHonest ==
    ASSUME boot \in Nat, NEW w, Honest(w), NEW f \in Nat, f > w.cursor, NEW l \in Nat,
           NEW sent, sent = f .. f + l - 1
    PROVE  Honest([cursor |-> f + l - 1,
                   got    |-> w.got \cup {Now(n) : n \in sent},
                   gone   |-> w.gone \cup ((w.cursor + 1) .. (f - 1)),
                   on     |-> TRUE])
  <1>1. PICK c, has, gone : c = w.cursor /\ has = Numbers(w.got) /\ gone = w.gone
    OBVIOUS
  <1>2. c \in Nat /\ w.got \in SUBSET Frame /\ gone \subseteq Nat /\ f > c
    BY <1>1 DEF Honest, View
  <1>3. has \cup gone = 1 .. c /\ has \cap gone = {}
    BY <1>1 DEF Honest
  <1>4. PICK got : got = w.got \cup {Now(n) : n \in sent}
    OBVIOUS
  <1>5. f + l - 1 \in Nat /\ sent \subseteq Nat /\ (c + 1) .. (f - 1) \subseteq Nat
    BY <1>2
  <1>6. got \in SUBSET Frame /\ Numbers(got) = has \cup sent
    <2>1. \A n \in sent : Now(n) \in Frame /\ Now(n).seq = n
      BY <1>5 DEF Now, Frame
    <2>2. \A x : x \in Numbers(got) <=> x \in Numbers(w.got) \/ x \in sent
      BY <1>4, <2>1 DEF Numbers
    <2>. QED
      BY <1>1, <1>2, <1>4, <2>1, <2>2
  <1>7. \A x : /\ x \in 1 .. f + l - 1 <=> x \in 1 .. c \/ x \in (c + 1) .. (f - 1) \/ x \in sent
               /\ ~(x \in 1 .. c /\ x \in sent)
               /\ ~(x \in 1 .. c /\ x \in (c + 1) .. (f - 1))
               /\ ~(x \in sent /\ x \in (c + 1) .. (f - 1))
    BY <1>2
  <1>8. PICK lost : lost = (c + 1) .. (f - 1)
    OBVIOUS
  <1>9. (has \cup sent) \cup (gone \cup lost) = 1 .. f + l - 1
    BY <1>3, <1>7, <1>8
  <1>10. (has \cup sent) \cap (gone \cup lost) = {}
    BY <1>3, <1>7, <1>8
  <1>11. PICK new : new = [cursor |-> f + l - 1, got |-> got, gone |-> gone \cup lost, on |-> TRUE]
    OBVIOUS
  <1>12. new.cursor = f + l - 1 /\ new.got = got /\ new.gone = gone \cup lost /\ new \in View
    BY <1>2, <1>5, <1>6, <1>8, <1>11 DEF View
  <1>13. Honest(new)
    BY <1>6, <1>9, <1>10, <1>12 DEF Honest
  <1>. QED
    BY <1>1, <1>4, <1>8, <1>11, <1>13

\* A viewer that goes off a stream keeps what it knows.
LEMMA OffHonest ==
    ASSUME NEW w, Honest(w)
    PROVE  /\ Honest([w EXCEPT !.on = FALSE])
           /\ [w EXCEPT !.on = FALSE].gone = w.gone /\ [w EXCEPT !.on = FALSE].got = w.got
  <1>1. PICK x : x = [w EXCEPT !.on = FALSE]
    OBVIOUS
  <1>2. x \in View /\ x.cursor = w.cursor /\ x.got = w.got /\ x.gone = w.gone
    BY <1>1 DEF Honest, View
  <1>3. Honest(x)
    BY <1>2 DEF Honest
  <1>. QED
    BY <1>1, <1>2, <1>3

\* What every step does to what one viewer knows of one stream: it stays honest, only
\* that viewer's own subscription tells it that frames are gone, and it receives only
\* what was put on the wire.
HonestStep(v, s) ==
    /\ Honest(view'[v][s])
    /\ view'[v][s].gone = view[v][s].gone \/ Subscribe(v, s)
    /\ view'[v][s].got \subseteq view[v][s].got \cup wire'[s]

\* A frame recorded, delivered to those that follow it and that the lane reached.
LEMMA RecordKeepsViews ==
    ASSUME ViewInv, NEW z \in Streams, NEW reached \in SUBSET Viewers, Record(z, reached)
    PROVE  /\ view' \in [Viewers -> [Sessions -> View]]
           /\ \A v \in Viewers, s \in Sessions : HonestStep(v, s)
  <1>1. PICK n : n = Push(Recorded(z)).next
    OBVIOUS
  <1>2. n \in Nat
    <2>1. RingInv
      BY DEF ViewInv
    <2>2. Push(Recorded(z)) \in Stream
      BY <2>1, RecordedKeepsRing, PushKeepsRing DEF RingInv
    <2>. QED
      BY <1>1, <2>2 DEF Stream
  <1>3. view' = [v \in Viewers |-> [x \in Sessions |->
                   IF x = z /\ v \in reached /\ view[v][x].on
                   THEN Delivered(view[v][x], n) ELSE view[v][x]]]
    BY <1>1 DEF Record
  <1>4. ASSUME NEW v \in Viewers, NEW s \in Sessions PROVE HonestStep(v, s)
    <2>1. Honest(view[v][s])
      BY DEF ViewInv
    <2>2. view'[v][s] = view[v][s] \/ (s = z /\ view'[v][s] = Delivered(view[v][s], n))
      BY <1>3
    <2>3. /\ Honest(Delivered(view[v][s], n)) /\ Delivered(view[v][s], n).gone = view[v][s].gone
          /\ Delivered(view[v][s], n).got \subseteq view[v][s].got \cup {Now(n)}
      BY <1>2, <2>1, DeliveredHonest DEF ViewInv, RingInv, JournalTypeOK
    <2>4. CASE view'[v][s] = view[v][s]
      BY <2>1, <2>4 DEF HonestStep
    <2>5. CASE s = z /\ view'[v][s] = Delivered(view[v][s], n)
      <3>1. Now(n) \in wire'[s]
        BY <1>1, <2>5 DEF Record, Now, ViewInv, RingInv, JournalTypeOK
      <3>. QED
        BY <2>3, <2>5, <3>1 DEF HonestStep
    <2>. QED
      BY <2>2, <2>4, <2>5
  <1>5. \A v \in Viewers, s \in Sessions : view'[v][s] \in View
    BY <1>4 DEF HonestStep, Honest
  <1>. QED
    BY <1>3, <1>4, <1>5

\* What is replayed is in the ring: both are gapless runs that end at the stream's
\* last number, and the replay is no longer than the ring.
LEMMA ReplayHeld ==
    ASSUME RingInv, NEW s \in Streams, NEW after \in Nat, NEW r, r = Replay(s, after),
           NEW i \in DOMAIN r
    PROVE  \E j \in DOMAIN streams[s].ring : r[i] = streams[s].ring[j]
  <1>1. PICK m, ring, since : m = streams[s].next /\ ring = streams[s].ring /\ since = Since(ring, after)
    OBVIOUS
  <1>2. ring \in Seq(Nat) /\ m \in Nat /\ EndsAt(ring, m)
    BY <1>1 DEF RingInv, JournalTypeOK, RingIsSuffix, RingOK, Stream
  <1>3. r \in Seq(Nat) /\ EndsAt(r, m)
    BY <1>1, ReplayFacts
  <1>4. since \in Seq(Nat) /\ Len(since) \in 0 .. Len(ring)
    BY <1>1, <1>2, SinceFacts
  <1>5. Len(r) \in Nat /\ Len(ring) \in Nat /\ Len(r) <= Len(ring)
    <2>1. PICK drop : drop = IF Len(since) > ReplayCap THEN Len(since) - ReplayCap ELSE 0
      OBVIOUS
    <2>2. r = SubSeq(since, drop + 1, Len(since))
      BY <1>1, <2>1 DEF Replay
    <2>3. drop \in Nat /\ drop <= Len(since)
      BY <1>4, <2>1, JournalConstants
    <2>4. Len(r) = Len(since) - drop
      <3>1. Len(since) \in Nat /\ Len(since) <= Len(since) /\ since \in Seq(Nat)
        BY <1>2, <1>4, <2>3
      <3>2. Len(SubSeq(since, drop + 1, Len(since))) = Len(since) - drop
        BY <2>3, <3>1, Slice
      <3>. QED
        BY <2>2, <3>2
    <2>. QED
      BY <1>2, <1>4, <2>3, <2>4
  <1>6. i \in 1 .. Len(r)
    BY <1>3
  <1>7. r[i] = m - Len(r) + i
    BY <1>3, <1>6 DEF EndsAt
  <1>8. i + (Len(ring) - Len(r)) \in 1 .. Len(ring)
    BY <1>5, <1>6
  <1>9. ring[i + (Len(ring) - Len(r))] = r[i]
    BY <1>2, <1>5, <1>7, <1>8 DEF EndsAt
  <1>. QED
    BY <1>1, <1>2, <1>8, <1>9

\* A viewer subscribes: it is sent a run of frames that begins where it was told.
LEMMA SubscribeKeepsViews ==
    ASSUME ViewInv, NEW x \in Viewers, NEW z \in Sessions, Subscribe(x, z)
    PROVE  /\ view' \in [Viewers -> [Sessions -> View]]
           /\ \A v \in Viewers, s \in Sessions : HonestStep(v, s)
  <1>1. PICK w, r, f : w = view[x][z] /\ r = Replay(z, w.cursor) /\ f = FromSeq(z, w.cursor, r)
    OBVIOUS
  <1>2. Honest(w) /\ w.cursor \in Nat /\ RingInv /\ z \in Streams /\ boot \in Nat
    BY <1>1 DEF ViewInv, Honest, View, Streams, RingInv, JournalTypeOK
  <1>3. PICK l, sent : l = Len(r) /\ sent = {r[i] : i \in DOMAIN r}
    OBVIOUS
  <1>4. f \in Nat /\ f > w.cursor /\ l \in Nat /\ sent = f .. f + l - 1
    BY <1>1, <1>2, <1>3, FromSeqFacts
  <1>5. PICK new : new = [cursor |-> f + l - 1,
                          got    |-> w.got \cup {Now(n) : n \in sent},
                          gone   |-> w.gone \cup ((w.cursor + 1) .. (f - 1)),
                          on     |-> TRUE]
    OBVIOUS
  <1>6. Honest(new)
    BY <1>2, <1>4, <1>5, SubscribedHonest
  <1>7. view' = [view EXCEPT ![x][z] = new] /\ wire' = wire
    <2>1. {Now(n) : n \in sent} = {[boot |-> boot, seq |-> r[i]] : i \in DOMAIN r}
      BY <1>3 DEF Now
    <2>2. view' = [view EXCEPT ![x][z] =
                     [cursor |-> f + Len(r) - 1,
                      got    |-> w.got \cup {[boot |-> boot, seq |-> r[i]] : i \in DOMAIN r},
                      gone   |-> w.gone \cup ((w.cursor + 1) .. (f - 1)),
                      on     |-> TRUE]]
      BY <1>1, Zenon DEF Subscribe
    <2>3. wire' = wire
      BY DEF Subscribe
    <2>. QED
      BY <1>3, <1>5, <2>1, <2>2, <2>3, Zenon
  <1>8. new \in View
    BY <1>6 DEF Honest
  <1>9. view' \in [Viewers -> [Sessions -> View]]
    BY <1>7, <1>8 DEF ViewInv
  <1>10. ASSUME NEW v \in Viewers, NEW s \in Sessions PROVE HonestStep(v, s)
    <2>1. Honest(view[v][s])
      BY DEF ViewInv
    <2>2. view'[v][s] = IF v = x /\ s = z THEN new ELSE view[v][s]
      BY <1>7 DEF ViewInv
    <2>3. CASE v = x /\ s = z
      <3>1. {Now(n) : n \in sent} \subseteq wire[z]
        <4>1. \A i \in DOMAIN r : \E j \in DOMAIN streams[z].ring : r[i] = streams[z].ring[j]
          BY <1>1, <1>2, ReplayHeld
        <4>2. \A j \in DOMAIN streams[z].ring : Now(streams[z].ring[j]) \in wire[z]
          BY <1>2 DEF ViewInv, WireInv
        <4>. QED
          BY <1>3, <4>1, <4>2
      <3>2. new.got \subseteq view[v][s].got \cup wire'[s]
        BY <1>1, <1>5, <1>7, <2>3, <3>1
      <3>3. Subscribe(v, s) /\ view'[v][s] = new
        BY <2>2, <2>3
      <3>. QED
        BY <1>6, <3>2, <3>3 DEF HonestStep
    <2>4. CASE ~(v = x /\ s = z)
      BY <2>1, <2>2, <2>4 DEF HonestStep
    <2>. QED
      BY <2>3, <2>4
  <1>. QED
    BY <1>9, <1>10

\* Each step of the daemon and its viewers.
LEMMA NextViews ==
    ASSUME ViewInv, [Next]_vars
    PROVE  /\ view' \in [Viewers -> [Sessions -> View]]
           /\ \A v \in Viewers, s \in Sessions : HonestStep(v, s)
  <1>. DEFINE Goal == /\ view' \in [Viewers -> [Sessions -> View]]
                      /\ \A v \in Viewers, s \in Sessions : HonestStep(v, s)
  <1>. SUFFICES Goal
    OBVIOUS
  <1>1. ASSUME NEW s \in Streams, NEW reached \in SUBSET Viewers, Record(s, reached)
        PROVE  Goal
    BY <1>1, RecordKeepsViews
  <1>2. ASSUME NEW v \in Viewers, NEW s \in Sessions, Subscribe(v, s) PROVE Goal
    BY <1>2, SubscribeKeepsViews
  <1>3. ASSUME UNCHANGED view PROVE Goal
    BY <1>3 DEF ViewInv, HonestStep
  <1>4. ASSUME NEW x \in Viewers, NEW z \in Sessions, Disconnect(x, z) PROVE Goal
    <2>1. PICK off : off = [view[x][z] EXCEPT !.on = FALSE]
      OBVIOUS
    <2>2. Honest(off) /\ off.gone = view[x][z].gone /\ off.got = view[x][z].got
      BY <2>1, OffHonest DEF ViewInv
    <2>3. view' = [view EXCEPT ![x][z] = off]
      BY <1>4, <2>1 DEF Disconnect, ViewInv
    <2>4. off \in View
      BY <2>2 DEF Honest
    <2>5. view' \in [Viewers -> [Sessions -> View]]
      BY <2>3, <2>4 DEF ViewInv
    <2>6. ASSUME NEW v \in Viewers, NEW s \in Sessions PROVE HonestStep(v, s)
      <3>1. view'[v][s] = IF v = x /\ s = z THEN off ELSE view[v][s]
        BY <2>3 DEF ViewInv
      <3>. QED
        BY <2>2, <3>1 DEF HonestStep, ViewInv
    <2>. QED
      BY <2>5, <2>6
  <1>5. ASSUME NEW mark, StartsFrom(mark) PROVE Goal
    <2>1. view' = [v \in Viewers |-> [s \in Sessions |-> [view[v][s] EXCEPT !.on = FALSE]]]
      BY <1>5 DEF StartsFrom
    <2>2. ASSUME NEW v \in Viewers, NEW s \in Sessions PROVE HonestStep(v, s)
      <3>1. view'[v][s] = [view[v][s] EXCEPT !.on = FALSE]
        BY <2>1
      <3>2. Honest(view[v][s])
        BY DEF ViewInv
      <3>. QED
        BY <3>1, <3>2, OffHonest DEF HonestStep
    <2>3. \A v \in Viewers, s \in Sessions : view'[v][s] \in View
      BY <2>2 DEF HonestStep, Honest
    <2>. QED
      BY <2>1, <2>2, <2>3
  <1>6. ASSUME NEW s \in Streams, Open(s) \/ Retire(s) PROVE Goal
    BY <1>3, <1>6 DEF Open, Retire
  <1>7. CASE Flush
    BY <1>3, <1>7 DEF Flush
  <1>8. CASE StopAndStart
    BY <1>5, <1>8 DEF StopAndStart
  <1>9. CASE KillAndStart
    BY <1>5, <1>9 DEF KillAndStart
  <1>10. CASE UNCHANGED vars
    BY <1>3, <1>10 DEF vars
  <1>. HIDE DEF Goal
  <1>. QED
    BY <1>1, <1>2, <1>4, <1>6, <1>7, <1>8, <1>9, <1>10 DEF Next
\* ViewInv holds from the start and each step keeps it.
LEMMA ViewsHold == Spec => []ViewInv
  <1>1. Init => ViewInv
    <2>. SUFFICES ASSUME Init PROVE ViewInv
      OBVIOUS
    <2>1. NewView \in View
      BY DEF NewView, View
    <2>2. Honest(NewView)
      <3>1. 1 .. 0 = {}
        OBVIOUS
      <3>2. NewView.cursor = 0 /\ NewView.got = {} /\ NewView.gone = {}
        BY DEF NewView
      <3>3. Numbers({}) = {}
        BY DEF Numbers
      <3>. QED
        BY <2>1, <3>1, <3>2, <3>3 DEF Honest
    <2>3. /\ view \in [Viewers -> [Sessions -> View]]
          /\ \A v \in Viewers, s \in Sessions : view[v][s] = NewView
      BY <2>1 DEF Init
    <2>4. WireInv
      <3>1. \A s \in Streams : streams[s].ring = <<>> /\ wire[s] = {}
        BY DEF Init, Absent
      <3>2. DOMAIN <<>> = {}
        OBVIOUS
      <3>. QED
        BY <3>1, <3>2 DEF WireInv
    <2>5. NewView.got = {}
      BY DEF NewView
    <2>. QED
      BY <2>2, <2>3, <2>4, <2>5, InitRings DEF ViewInv
  <1>2. ViewInv /\ [Next]_vars => ViewInv'
    <2>. SUFFICES ASSUME ViewInv, [Next]_vars PROVE ViewInv'
      OBVIOUS
    <2>1. RingInv'
      BY NextRings DEF ViewInv
    <2>2. view' \in [Viewers -> [Sessions -> View]]
      BY NextViews
    <2>3. WireInv' /\ \A s \in Streams : wire[s] \subseteq wire'[s]
      BY NextWire DEF ViewInv
    <2>4. \A v \in Viewers, s \in Sessions : Honest(view[v][s])'
      BY NextViews DEF HonestStep, Honest
    <2>5. ASSUME NEW v \in Viewers, NEW s \in Sessions PROVE view'[v][s].got \subseteq wire'[s]
      <3>1. view'[v][s].got \subseteq view[v][s].got \cup wire'[s]
        BY NextViews DEF HonestStep
      <3>2. view[v][s].got \subseteq wire[s] /\ s \in Streams
        BY DEF ViewInv, Streams
      <3>. QED
        BY <2>3, <3>1, <3>2
    <2>. QED
      BY <2>1, <2>2, <2>3, <2>4, <2>5 DEF ViewInv
  <1>. QED
    BY <1>1, <1>2, PTL DEF Spec

\* Every variable of the journal and of its viewers keeps its type.
THEOREM TypeCorrect == Spec => []TypeOK
  <1>1. ViewInv => TypeOK
    BY DEF ViewInv, RingInv, TypeOK
  <1>. QED
    BY <1>1, ViewsHold, PTL

\* What a viewer misses in silence was numbered like a frame it has.
LEMMA MissedIsTwice ==
    ASSUME ViewInv, NEW v \in Viewers, NEW s \in Sessions, NEW f \in Missed(view[v][s], s)
    PROVE  \E g \in wire[s] : g /= f /\ g.seq = f.seq
  <1>1. PICK w : w = view[v][s]
    OBVIOUS
  <1>2. /\ Honest(w) /\ w.got \subseteq wire[s] /\ s \in Streams
        /\ f \in wire[s] /\ f.seq <= w.cursor /\ f \notin w.got /\ f.seq \notin w.gone
    BY <1>1 DEF ViewInv, Missed, Streams
  <1>3. f.seq \in Nat /\ f.seq > 0 /\ w.cursor \in Nat
    BY <1>2 DEF ViewInv, WireInv, RingInv, JournalTypeOK, Frame, Honest, View
  <1>4. f.seq \in 1 .. w.cursor
    BY <1>2, <1>3
  <1>5. f.seq \in Numbers(w.got)
    BY <1>2, <1>4 DEF Honest
  <1>6. PICK g \in w.got : g.seq = f.seq
    BY <1>5 DEF Numbers
  <1>. QED
    BY <1>2, <1>6

\* For any ring size, replay cap, dropped live frames, retirements, restarts and
\* kills, a viewer misses a frame in silence only where Journal::restored went back
\* and its number was given to two frames.
THEOREM MissedOnlyReissued == Spec => []MissedAreReissued
  <1>1. ViewInv => MissedAreReissued
    BY MissedIsTwice DEF MissedAreReissued
  <1>. QED
    BY <1>1, ViewsHold, PTL

\* Until such a kill no number was given to two frames, and none past the stream's
\* last.
NumberedOnce ==
    ~killed => \A s \in Streams : /\ \A f \in wire[s] : f.seq <= streams[s].next
                                  /\ \A f, g \in wire[s] : f.seq = g.seq => f = g

\* Numbers that only grow are given once.
LEMMA NextNumberedOnce ==
    ASSUME NumberInv, NumberedOnce, [Next]_vars
    PROVE  NumberedOnce'
  <1>. SUFFICES ASSUME ~killed' PROVE NumberedOnce'
    BY DEF NumberedOnce
  <1>0. RingInv
    BY DEF NumberInv
  <1>1. ASSUME NEW s \in Streams, NEW reached \in SUBSET Viewers, Record(s, reached)
        PROVE  NumberedOnce'
    <2>1. PICK f : f = [boot |-> boot, seq |-> streams[s].next + 1]
      OBVIOUS
    <2>2. /\ streams'[s].next = streams[s].next + 1
          /\ \A x \in Streams \ {s} : streams'[x] = streams[x]
      BY <1>0, <1>1, RecordKeepsRings
    <2>3. Push(Recorded(s)).next = streams'[s].next
      BY <1>0, <1>1 DEF Record, RingInv, JournalTypeOK
    <2>4. \A x \in Streams : wire'[x] = IF x = s THEN wire[s] \cup {f} ELSE wire[x]
      BY <1>0, <1>1, <2>1, <2>2, <2>3 DEF Record, RingInv, JournalTypeOK
    <2>5. /\ streams[s].next \in Nat /\ f.seq = streams[s].next + 1
          /\ \A g \in wire[s] : g.seq \in Nat
      BY <1>0, <2>1 DEF RingInv, JournalTypeOK, Stream, Frame
    <2>0. ~killed
      BY <1>1 DEF Record
    <2>6. \A g \in wire[s] : g.seq <= streams[s].next /\ g.seq <= streams'[s].next /\ g.seq /= f.seq
      BY <2>0, <2>2, <2>5 DEF NumberedOnce
    <2>7. f.seq <= streams'[s].next
      BY <2>2, <2>5
    <2>. QED
      BY <2>0, <2>2, <2>4, <2>6, <2>7 DEF NumberedOnce
  <1>2. ASSUME ~killed, wire' = wire, \A s \in Streams : streams'[s].next = streams[s].next
        PROVE  NumberedOnce'
    BY <1>2 DEF NumberedOnce
  <1>3. ASSUME NEW s \in Streams, Open(s) PROVE NumberedOnce'
    <2>1. \A x \in Streams : streams'[x].next = streams[x].next
      BY <1>0, <1>3, OpenKeepsRings
    <2>. QED
      BY <1>2, <1>3, <2>1 DEF Open
  <1>4. ASSUME NEW s \in Streams, Retire(s) PROVE NumberedOnce'
    <2>1. \A x \in Streams : streams'[x].next = streams[x].next
      BY <1>0, <1>4, RetireKeepsRings
    <2>. QED
      BY <1>2, <1>4, <2>1 DEF Retire
  <1>5. ASSUME NEW v \in Viewers, NEW s \in Sessions, Subscribe(v, s) \/ Disconnect(v, s)
        PROVE  NumberedOnce'
    BY <1>2, <1>5 DEF Subscribe, Disconnect
  <1>6. CASE Flush
    BY <1>2, <1>6 DEF Flush
  <1>7. CASE StopAndStart
    <2>1. NumberInv'
      BY NextNumbers
    <2>2. issued' = issued /\ wire' = wire /\ ~killed
      BY <1>7 DEF StopAndStart, StartsFrom
    <2>3. \A s \in Streams : streams'[s].next = streams[s].next
      BY <2>1, <2>2 DEF NumberInv, NumberingNeverFallsBack
    <2>. QED
      BY <1>2, <2>2, <2>3
  <1>8. CASE KillAndStart
    <2>1. NumberInv'
      BY NextNumbers
    <2>2. issued' = issued /\ wire' = wire /\ ~killed
      BY <1>8 DEF KillAndStart, StartsFrom
    <2>3. \A s \in Streams : streams'[s].next = streams[s].next
      BY <2>1, <2>2 DEF NumberInv, NumberingNeverFallsBack
    <2>. QED
      BY <1>2, <2>2, <2>3
  <1>9. CASE UNCHANGED vars
    BY <1>2, <1>9 DEF vars
  <1>. QED
    BY <1>1, <1>3, <1>4, <1>5, <1>6, <1>7, <1>8, <1>9 DEF Next

\* Until a kill loses numbers that were not flushed, nothing a stream carried is lost
\* in silence: each frame through a viewer's cursor was received, or the answer to one
\* of its subscriptions said that it is gone; and no number is ever both.
THEOREM NoHoleIsSilent == Spec => []NoSilentHole
  <1>1. Init => NumberInv /\ NumberedOnce
    <2>. SUFFICES ASSUME Init PROVE NumberInv /\ NumberedOnce
      OBVIOUS
    <2>1. \A s \in Streams : streams[s].next = 0 /\ wire[s] = {}
      BY DEF Init, Absent
    <2>. QED
      BY <2>1, InitRings
      DEF Init, NumberInv, NumberingNeverFallsBack, CleanIsPersisted, NumberedOnce
  <1>2. (NumberInv /\ NumberedOnce) /\ [Next]_vars => (NumberInv /\ NumberedOnce)'
    BY NextNumbers, NextNumberedOnce
  <1>3. ViewInv /\ NumberedOnce => NoSilentHole
    <2>. SUFFICES ASSUME ViewInv, NumberedOnce, NEW v \in Viewers, NEW s \in Sessions
                  PROVE  /\ ~killed => Missed(view[v][s], s) = {}
                         /\ Numbers(view[v][s].got) \cap view[v][s].gone = {}
      BY DEF NoSilentHole
    <2>1. Numbers(view[v][s].got) \cap view[v][s].gone = {}
      BY DEF ViewInv, Honest
    <2>2. ASSUME ~killed, NEW f \in Missed(view[v][s], s) PROVE FALSE
      <3>1. PICK g \in wire[s] : g /= f /\ g.seq = f.seq
        BY MissedIsTwice
      <3>2. f \in wire[s] /\ s \in Streams
        BY DEF Missed, Streams
      <3>. QED
        BY <2>2, <3>1, <3>2 DEF NumberedOnce
    <2>. QED
      BY <2>1, <2>2
  <1>. QED
    BY <1>1, <1>2, <1>3, ViewsHold, PTL DEF Spec

\* For any ring size and replay cap, a subscription's answer reports of the frames
\* the ring holds only such as gone that are older than the last ReplayCap.
THEOREM GoneIsOld == Spec => GapsAreOld
  <1>. DEFINE Told == \A v \in Viewers, s \in Sessions :
                        \A n \in (view'[v][s].gone \ view[v][s].gone) \cap Held(s) :
                            n <= streams[s].next - ReplayCap
  <1>1. ViewInv /\ [Next]_vars => [Told]_vars
    <2>. SUFFICES ASSUME ViewInv, [Next]_vars,
                         NEW v \in Viewers, NEW s \in Sessions,
                         NEW n \in (view'[v][s].gone \ view[v][s].gone) \cap Held(s)
                  PROVE  n <= streams[s].next - ReplayCap
      OBVIOUS
    <2>1. Subscribe(v, s)
      BY NextViews DEF HonestStep
    <2>2. PICK w, r, f : w = view[v][s] /\ r = Replay(s, w.cursor) /\ f = FromSeq(s, w.cursor, r)
      OBVIOUS
    <2>3. w.cursor \in Nat /\ RingInv /\ s \in Streams
      BY <2>2 DEF ViewInv, Honest, View, Streams
    <2>4. \A i \in DOMAIN streams[s].ring :
              streams[s].ring[i] \in w.cursor + 1 .. f - 1 =>
                  streams[s].ring[i] <= streams[s].next - ReplayCap
      BY <2>2, <2>3, FromSeqFacts
    <2>5. view'[v][s].gone = w.gone \cup ((w.cursor + 1) .. (f - 1))
      <3>1. PICK new : /\ new.gone = w.gone \cup ((w.cursor + 1) .. (f - 1))
                       /\ view' = [view EXCEPT ![v][s] = new]
        BY <2>1, <2>2 DEF Subscribe
      <3>2. view'[v][s] = new
        BY <3>1 DEF ViewInv
      <3>. QED
        BY <3>1, <3>2
    <2>6. n \in (w.cursor + 1) .. (f - 1)
      BY <2>2, <2>5
    <2>7. PICK i \in DOMAIN streams[s].ring : n = streams[s].ring[i]
      BY DEF Held
    <2>. QED
      BY <2>4, <2>6, <2>7
  <1>. QED
    BY <1>1, ViewsHold, PTL DEF Spec, GapsAreOld

=============================================================================
