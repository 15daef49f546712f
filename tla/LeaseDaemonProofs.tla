------------------------- MODULE LeaseDaemonProofs -------------------------
(***************************************************************************)
(* Proofs about the lease handover: every variable keeps its type, a       *)
(* failed release holds, and a waiting terminal is kept.                   *)
(***************************************************************************)
EXTENDS LeaseDaemon, TLAPS

----------------------------------------------------------------------------
(* The inductive invariants *)

\* A terminal's entry names it and was judged; a headless one is being released.
EntryOK(e) ==
    /\ e.kind \in {"tui", "web"} => e.term /= None /\ e.state \in {"held", "stale"}
    /\ e.kind = "headless" => e.state \in {"releasing", "release_failed"}

Good(L) == L \in Leases /\ (L.lease /= None => EntryOK(L.lease))

SupInv ==
    /\ sup \in Supervisor
    /\ sup.phase = "none" => sup.gen = 0 /\ ~sup.alive /\ ~sup.writes
    /\ sup.phase /= "none" => sup.gen \in Writers
    /\ sup.writes => doc.written > 0

QueueTypes ==
    /\ cmds \in Seq({"turn", "shutdown"}) /\ Len(cmds) <= MaxQueue
    /\ frames \in Seq(Frames) /\ Len(frames) <= MaxQueue
    /\ notes \in Seq(Notes) /\ Len(notes) <= MaxQueue

TypeInv ==
    /\ Good(leases) /\ Good(file)
    /\ now \in 0..MaxClock
    /\ term \in [Terminals -> TermState]
    /\ doc \in [written : 0..MaxRecords, resumed : SUBSET Records]
    /\ row \in Row \cup {None}
    /\ open \in Writers \cup {None}
    /\ SupInv
    /\ QueueTypes
    /\ up \in BOOLEAN

HistoryType == overtaken \in BOOLEAN

\* The notes come in the order of the generations; the latest one's first note is
\* that of its reaping, and it is "released" only when its process is gone.
NoteInv ==
    /\ \A i \in 1..Len(notes) :
          /\ notes[i].gen <= sup.gen
          /\ \A j \in i..Len(notes) : notes[i].gen <= notes[j].gen
          /\ notes[i].gen = sup.gen => sup.phase \in {"settling", "done"}
          /\ notes[i].gen = sup.gen /\ notes[i].kind = "released" => ~sup.alive
    /\ ~up => notes = <<>> /\ sup.phase \in {"none", "done"}

\* A headless writer's entry is on file as it is in memory; of a release that failed
\* in the latest generation, no note of an earlier one is left to be read.
FailInv ==
    /\ ByHeadless(leases.lease) => file.lease = leases.lease
    /\ Failed(leases) /\ leases.lease.writer = sup.gen =>
          \A i \in 1..Len(notes) : notes[i].gen = sup.gen

IInv == TypeInv /\ NoteInv /\ FailInv

\* A terminal the lease names: its holder, or who waits for it.
Names(lease, t) == Holds(lease, t) \/ Awaits(lease, t)

----------------------------------------------------------------------------
(* The operators of Lease *)

World0(w) == w.now \in Int

\* Good states are kept by what marks a writer's output.
LEMMA OutputGood ==
    ASSUME NEW L, Good(L), NEW w, World0(w)
    PROVE  /\ Good(RecordOutput(L, w)) /\ RecordOutput(L, w).lease = L.lease
           /\ Good(RecordUnobservedOutput(L, w)) /\ RecordUnobservedOutput(L, w).lease = L.lease
           /\ Good(WriterTurnStarted(L)) /\ WriterTurnStarted(L).lease = L.lease
BY DEF Good, Leases, World0, RecordOutput, RecordUnobservedOutput, WriterTurnStarted

\* Good states are kept by a reported record.
LEMMA ReportGood ==
    ASSUME NEW L, Good(L), NEW leaf \in Records
    PROVE  Good(WriterReported(L, leaf)) /\ WriterReported(L, leaf).lease = L.lease
BY DEF Good, Leases, WriterReported

\* A terminal is judged held or stale.
LEMMA JudgedTwoWays ==
    ASSUME NEW L, NEW t, NEW loaded, NEW w
    PROVE  /\ Judge(L, t, loaded, w) \in {"held", "stale"}
           /\ ByBranch(L, t, loaded, w) \in {"held", "stale"}
<1>1. ByBranch(L, t, loaded, w) \in {"held", "stale"}
  BY DEF ByBranch
<1>2. CASE JudgedByBranch(L, t)
  BY <1>1, <1>2 DEF Judge
<1>3. CASE ~JudgedByBranch(L, t)
  BY <1>1, <1>3 DEF Judge
<1> QED BY <1>2, <1>3

\* A new entry is a terminal's, judged, or a headless writer's, being released.
LEMMA SetLeaseGood ==
    ASSUME NEW L, Good(L), NEW kind, NEW t, NEW state,
           \/ kind \in {"tui", "web"} /\ t \in Terminal /\ state \in {"held", "stale"}
           \/ kind = "headless" /\ t = None /\ state \in {"releasing", "release_failed"}
    PROVE  LET S == SetLease(L, kind, t, state)
           IN  /\ Good(S)
               /\ S.lease /= None /\ S.lease.kind = kind /\ S.lease.term = t
               /\ S.lease.state = state /\ S.lease.next = None /\ S.lease.writer = None
<1> DEFINE e == [epoch |-> L.epoch + 1, kind |-> kind, term |-> t,
                 state |-> state, next |-> None, deadline |-> None,
                 writer |-> None, loaded |-> None]
           S == SetLease(L, kind, t, state)
<1>1. e \in Entry
  BY DEF Good, Leases, Entry
<1>2. None \notin Entry
  BY NoneIsNoRecord
<1>3. S = [L EXCEPT !.epoch = @ + 1, !.lease = e]
  BY DEF SetLease
<1> HIDE DEF e, S
<1>6. L \in Leases /\ L.epoch + 1 \in Nat
  BY DEF Good, Leases
<1>4. S \in Leases /\ S.lease = e
  BY <1>1, <1>3, <1>6 DEF Leases
<1>5. EntryOK(e)
  BY NoneIsNoRecord DEF EntryOK, e
<1> QED BY <1>1, <1>2, <1>4, <1>5 DEF Good, e, S

\* A field of the entry is overwritten by a value of its type.
LEMMA EntryField ==
    ASSUME NEW L, Good(L), L.lease /= None,
           NEW x \in Loaded \cup {None}, NEW y \in Terminal \cup {None},
           NEW z \in Writers \cup {None}, NEW d \in Int \cup {None}
    PROVE  /\ L.lease \in Entry
           /\ [L.lease EXCEPT !.loaded = x] \in Entry
           /\ [L.lease EXCEPT !.next = y, !.loaded = x] \in Entry
           /\ [L.lease EXCEPT !.term = y, !.loaded = x] \in Entry
           /\ [L.lease EXCEPT !.next = y, !.loaded = x, !.deadline = d, !.writer = z] \in Entry
           /\ [L.lease EXCEPT !.next = y, !.writer = z, !.loaded = x] \in Entry
           /\ [L.lease EXCEPT !.kind = "tui"] \in Entry
<1>1. L.lease \in Entry
  BY DEF Good, Leases
<1> DEFINE e == L.lease
<1> HIDE DEF e
<1>2. e \in Entry
  BY <1>1 DEF e
<1>3. [e EXCEPT !.loaded = x] \in Entry
  BY <1>2 DEF Entry
<1>4. [e EXCEPT !.next = y, !.loaded = x] \in Entry
  BY <1>2 DEF Entry
<1>5. [e EXCEPT !.term = y, !.loaded = x] \in Entry
  BY <1>2 DEF Entry
<1>6. [e EXCEPT !.next = y, !.loaded = x, !.deadline = d, !.writer = z] \in Entry
  BY <1>2 DEF Entry
<1>7. [e EXCEPT !.next = y, !.writer = z, !.loaded = x] \in Entry
  BY <1>2 DEF Entry
<1>8. [e EXCEPT !.kind = "tui"] \in Entry
  BY <1>2 DEF Entry
<1> QED BY <1>1, <1>2, <1>3, <1>4, <1>5, <1>6, <1>7, <1>8 DEF e

\* The lease handed to a terminal is held by it alone.
LEMMA HandToGood ==
    ASSUME NEW L, Good(L), NEW t \in Terminal, NEW loaded \in Loaded \cup {None},
           NEW state \in {"held", "stale"}
    PROVE  LET H == HandTo(L, t, loaded, state)
           IN  /\ Good(H) /\ ~Failed(H)
               /\ Holds(H.lease, t.pid)
<1> DEFINE S == SetLease(L, "tui", t, state)
           H == HandTo(L, t, loaded, state)
<1>1. /\ Good(S) /\ S.lease /= None /\ S.lease.kind = "tui" /\ S.lease.term = t
      /\ S.lease.state = state
  BY SetLeaseGood
<1>2. H = [S EXCEPT !.lease.loaded = loaded]
  BY DEF HandTo
<1>3. [S.lease EXCEPT !.loaded = loaded] \in Entry /\ S.lease \in Entry
  BY <1>1, EntryField
<1> HIDE DEF S, H
<1>4. H \in Leases /\ H.lease = [S.lease EXCEPT !.loaded = loaded]
  BY <1>1, <1>2, <1>3 DEF Good, Leases
<1>5. H.lease.kind = "tui" /\ H.lease.term = t /\ H.lease.state = state /\ H.lease /= None
  BY <1>1, <1>3, <1>4, NoneIsNoRecord DEF Entry
<1> QED
  BY <1>4, <1>5, NoneIsNoRecord
  DEF Good, EntryOK, Failed, Holds, ByTerminal, H

\* Granting hands the lease over.
LEMMA GrantGood ==
    ASSUME NEW L, Good(L), NEW t \in Terminal, NEW loaded \in Loaded \cup {None}, NEW w
    PROVE  LET G == Grant(L, t, loaded, w)
           IN  /\ Good(G) /\ ~Failed(G)
               /\ Holds(G.lease, t.pid)
BY JudgedTwoWays, HandToGood DEF Grant

\* A terminal that holds or awaits the lease takes nobody's place by asking again.
LEMMA ReopenedGood ==
    ASSUME NEW L, Good(L), NEW t \in Terminal, NEW loaded \in Loaded \cup {None}, NEW w,
           Names(L.lease, t.pid)
    PROVE  LET R == Reopened(L, t, loaded, w)
           IN  /\ Good(R)
               /\ \A p : Awaits(L.lease, p) => Awaits(R.lease, p)
               /\ Failed(R) <=> Failed(L)
               /\ Failed(L) => R.lease.writer = L.lease.writer
<1> DEFINE old    == L.lease
           named  == IF loaded /= None THEN loaded ELSE old.loaded
           base   == IF Holds(old, t.pid) THEN old.term ELSE old.next
           plugin == [base EXCEPT !.plugin = @ \/ t.plugin]
           known  == IF Holds(old, t.pid)
                     THEN [L EXCEPT !.lease.term = plugin, !.lease.loaded = named]
                     ELSE [L EXCEPT !.lease.next = plugin, !.lease.loaded = named]
           judged == ByBranch(known, plugin, named, w)
           again  == /\ Holds(old, t.pid)
                     /\ old.state \in {"held", "stale"}
                     /\ JudgedByBranch(known, plugin)
                     /\ judged /= old.state
           R == Reopened(L, t, loaded, w)
<1>1. old /= None /\ old \in Entry /\ EntryOK(old)
  BY DEF Good, Leases, Names, Holds, Awaits, ByTerminal, ByHeadless
<1>2. named \in Loaded \cup {None}
  BY <1>1 DEF Entry
<1>3. base \in Terminal /\ base.pid = t.pid
  BY <1>1 DEF Names, Holds, Awaits, ByTerminal, ByHeadless, Entry, EntryOK
<1>4. plugin \in Terminal /\ plugin.pid = t.pid
  BY <1>3 DEF Terminal
<1>5. judged \in {"held", "stale"}
  BY JudgedTwoWays
<1>6. R = IF again
          THEN [SetLease(known, old.kind, plugin, judged) EXCEPT !.lease.loaded = named]
          ELSE known
  BY DEF Reopened
<1> HIDE DEF named, plugin, base, R, judged
<1>7. CASE Holds(old, t.pid)
  <2>1. known = [L EXCEPT !.lease.term = plugin, !.lease.loaded = named]
    BY <1>7
  <2>2. old.kind \in {"tui", "web"} /\ old.term.pid = t.pid /\ ~Failed(L)
    BY <1>1, <1>7 DEF Holds, ByTerminal, EntryOK, Failed
  <2>3. [old EXCEPT !.term = plugin, !.loaded = named] \in Entry
    BY <1>1, <1>2, <1>4, EntryField
  <2> HIDE DEF known, old
  <2>4. known \in Leases /\ known.lease = [old EXCEPT !.term = plugin, !.loaded = named]
    BY <2>1, <2>3 DEF Good, Leases, old
  <2>5. /\ known.lease /= None /\ known.lease.kind = old.kind /\ known.lease.term = plugin
        /\ known.lease.state = old.state
    BY <1>1, <2>3, <2>4, NoneIsNoRecord DEF Entry
  <2>6. Good(known)
    BY <1>1, <2>2, <2>4, <2>5, <1>4, NoneIsNoRecord DEF Good, EntryOK
  <2>7. ASSUME NEW M, Good(M), M.lease /= None, M.lease.kind = old.kind, M.lease.term = plugin,
               R = M
        PROVE  /\ Good(R) /\ ~Failed(R)
               /\ \A p : Awaits(L.lease, p) => Awaits(R.lease, p)
    BY <2>7, <2>2, <1>1, <1>4
    DEF Good, EntryOK, Failed, Names, Holds, Awaits, ByTerminal, ByHeadless, old
  <2>8. CASE again
    <3> DEFINE S == SetLease(known, old.kind, plugin, judged)
    <3>1. /\ Good(S) /\ S.lease /= None /\ S.lease.kind = old.kind /\ S.lease.term = plugin
          /\ S.lease.state = judged
      BY <2>6, <2>2, <1>4, <1>5, SetLeaseGood
    <3>2. R = [S EXCEPT !.lease.loaded = named]
      BY <1>6, <2>8
    <3>3. [S.lease EXCEPT !.loaded = named] \in Entry /\ S.lease \in Entry
      BY <3>1, <1>2, EntryField
    <3> HIDE DEF S
    <3>4. R \in Leases /\ R.lease = [S.lease EXCEPT !.loaded = named]
      BY <3>1, <3>2, <3>3 DEF Good, Leases
    <3>5. /\ R.lease /= None /\ R.lease.kind = old.kind /\ R.lease.term = plugin
          /\ R.lease.state = judged
      BY <3>1, <3>3, <3>4, NoneIsNoRecord DEF Entry
    <3>6. Good(R)
      BY <3>4, <3>5, <1>4, <1>5, <2>2, NoneIsNoRecord DEF Good, EntryOK
    <3> QED BY <2>7, <3>5, <3>6, <2>2 DEF R
  <2>9. CASE ~again
    BY <2>9, <1>6, <2>5, <2>6, <2>7, <2>2 DEF R
  <2> QED BY <2>8, <2>9
<1>8. CASE ~Holds(old, t.pid)
  <2>1. known = [L EXCEPT !.lease.next = plugin, !.lease.loaded = named] /\ R = known
    BY <1>6, <1>8
  <2>2. old.kind = "headless" /\ old.next /= None /\ old.next.pid = t.pid
    BY <1>1, <1>8 DEF Names, Awaits, ByHeadless
  <2>3. [old EXCEPT !.next = plugin, !.loaded = named] \in Entry
    BY <1>1, <1>2, <1>4, EntryField
  <2> HIDE DEF known, old
  <2>4. R \in Leases /\ R.lease = [old EXCEPT !.next = plugin, !.loaded = named]
    BY <2>1, <2>3 DEF Good, Leases, old
  <2>5. /\ R.lease /= None /\ R.lease.kind = old.kind /\ R.lease.next = plugin
        /\ R.lease.state = old.state /\ R.lease.writer = old.writer
    BY <1>1, <2>3, <2>4, NoneIsNoRecord DEF Entry
  <2>6. Good(R)
    BY <1>1, <2>2, <2>4, <2>5 DEF Good, EntryOK
  <2> QED
    BY <2>6, <2>5, <2>2, <1>1, <1>4, NoneIsNoRecord
    DEF Failed, Names, Holds, Awaits, ByTerminal, ByHeadless, old, R
<1> QED BY <1>7, <1>8

\* A terminal that comes to a failed release takes a place nobody has.
LEMMA QueuedGood ==
    ASSUME NEW L, Good(L), NEW t \in Terminal, NEW loaded \in Loaded \cup {None}, Failed(L)
    PROVE  LET Q == Queued(L, t, loaded)
           IN  /\ Good(Q) /\ Failed(Q) /\ Q.lease.writer = L.lease.writer
               /\ \A p : Awaits(L.lease, p) => Awaits(Q.lease, p)
<1> DEFINE Q == Queued(L, t, loaded)
           old == L.lease
<1>1. /\ old /= None /\ old \in Entry /\ EntryOK(old) /\ old.kind = "headless"
      /\ old.state = "release_failed"
  BY DEF Good, Leases, Failed, EntryOK, Entry
<1>2. CASE old.next = None
  <2>1. Q = [L EXCEPT !.lease.next = t, !.lease.loaded = loaded]
    BY <1>2 DEF Queued
  <2>2. [old EXCEPT !.next = t, !.loaded = loaded] \in Entry
    BY <1>1, EntryField
  <2> HIDE DEF Q, old
  <2>3. Q \in Leases /\ Q.lease = [old EXCEPT !.next = t, !.loaded = loaded]
    BY <2>1, <2>2 DEF Good, Leases, old
  <2>4. /\ Q.lease /= None /\ Q.lease.kind = "headless" /\ Q.lease.next = t
        /\ Q.lease.state = "release_failed" /\ Q.lease.writer = old.writer
    BY <1>1, <2>2, <2>3, NoneIsNoRecord DEF Entry
  <2> QED
    BY <1>2, <2>3, <2>4 DEF Good, EntryOK, Failed, Awaits, ByHeadless, old, Q
<1>3. CASE old.next /= None
  <2>1. Q = L
    BY <1>3 DEF Queued
  <2> QED BY <2>1
<1> QED BY <1>2, <1>3

\* A running writer that is asked to release holds the lease for the terminal.
LEMMA ReleasedGood ==
    ASSUME NEW L, Good(L), NEW t \in Terminal, NEW loaded \in Loaded \cup {None},
           NEW writer \in Writers \cup {None}, NEW w, World0(w)
    PROVE  LET R == Released(L, t, loaded, writer, w)
           IN  /\ Good(R) /\ ~Failed(R)
               /\ Awaits(R.lease, t.pid)
<1> DEFINE S == SetLease(L, "headless", None, "releasing")
           R == Released(L, t, loaded, writer, w)
           d == w.now + Deadline
<1>0. d \in Int
  BY LeaseConstants DEF World0
<1>1. /\ Good(S) /\ S.lease /= None /\ S.lease.kind = "headless" /\ S.lease.term = None
      /\ S.lease.state = "releasing"
  BY SetLeaseGood
<1>2. R = [S EXCEPT !.lease.next = t, !.lease.loaded = loaded, !.lease.deadline = d,
                    !.lease.writer = writer]
  BY DEF Released
<1> HIDE DEF d
<1>3. /\ [S.lease EXCEPT !.next = t, !.loaded = loaded, !.deadline = d, !.writer = writer]
           \in Entry
      /\ S.lease \in Entry
  BY <1>0, <1>1, EntryField
<1> HIDE DEF S, R
<1>4. /\ R \in Leases
      /\ R.lease = [S.lease EXCEPT !.next = t, !.loaded = loaded, !.deadline = d,
                                   !.writer = writer]
  BY <1>1, <1>2, <1>3 DEF Good, Leases
<1>6. R.lease /= None
  BY <1>3, <1>4, NoneIsNoRecord
<1>5. R.lease.kind = "headless" /\ R.lease.next = t /\ R.lease.state = "releasing"
  BY <1>1, <1>3, <1>4 DEF Entry
<1> QED
  BY <1>4, <1>5, <1>6, NoneIsNoRecord
  DEF Good, EntryOK, Failed, Awaits, ByHeadless, R

\* From L to O, a failed release keeps its writer and who waits for it; otherwise
\* whoever waits waits on, or terminal t has the lease or waits for it.
OpenedKeeps(L, O, t) ==
    /\ Good(O)
    /\ Failed(O) <=> Failed(L)
    /\ Failed(L) => O.lease.writer = L.lease.writer
    /\ \A p : Awaits(L.lease, p) =>
                  Awaits(O.lease, p) \/ (~Failed(L) /\ Names(O.lease, t.pid))

\* That is what opening the conversation does.
LEMMA OpenedGood ==
    ASSUME NEW L, Good(L), NEW t \in Terminal, NEW loaded \in Loaded \cup {None},
           NEW headless \in BOOLEAN, NEW writer \in Writers \cup {None}, NEW w, World0(w)
    PROVE  OpenedKeeps(L, Opened(L, t, loaded, headless, writer, w), t)
<1> DEFINE O == Opened(L, t, loaded, headless, writer, w)
<1>1. CASE Names(L.lease, t.pid)
  <2>1. O = Reopened(L, t, loaded, w)
    BY <1>1 DEF Opened, Names
  <2> HIDE DEF O
  <2> QED BY <1>1, <2>1, ReopenedGood DEF O, OpenedKeeps
<1>2. CASE ~Names(L.lease, t.pid) /\ Failed(L)
  <2>1. O = Queued(L, t, loaded)
    BY <1>2 DEF Opened, Names, Failed
  <2> HIDE DEF O
  <2> QED BY <1>2, <2>1, QueuedGood DEF O, OpenedKeeps
<1>3. CASE ~Names(L.lease, t.pid) /\ ~Failed(L) /\ headless
  <2>1. O = Released(L, t, loaded, writer, w)
    BY <1>3 DEF Opened, Names, Failed
  <2> HIDE DEF O
  <2> QED BY <1>3, <2>1, ReleasedGood DEF O, OpenedKeeps, Names
<1>4. CASE ~Names(L.lease, t.pid) /\ ~Failed(L) /\ ~headless
  <2>1. O = Grant(L, t, loaded, w)
    BY <1>4 DEF Opened, Names, Failed
  <2> HIDE DEF O
  <2> QED BY <1>4, <2>1, GrantGood DEF O, OpenedKeeps, Names
<1> QED BY <1>1, <1>2, <1>3, <1>4

\* Forgetting the lease names nobody.
LEMMA NoLeaseGood ==
    ASSUME NEW L, Good(L)
    PROVE  LET N == [L EXCEPT !.lease = None]
           IN  Good(N) /\ N.lease = None /\ ~Failed(N)
<1> DEFINE N == [L EXCEPT !.lease = None]
<1>1. N \in Leases /\ N.lease = None
  BY DEF Good, Leases
<1> HIDE DEF N
<1> QED BY <1>1 DEF Good, Failed, N

\* A headless entry is being released to a terminal, or to nobody.
LEMMA HeadlessEntry ==
    ASSUME NEW L, Good(L), ByHeadless(L.lease)
    PROVE  /\ L.lease \in Entry /\ L.lease.next \in Terminal \cup {None}
           /\ L.lease.loaded \in Loaded \cup {None} /\ L.lease.writer \in Writers \cup {None}
           /\ \A p : Awaits(L.lease, p) => L.lease.next /= None /\ L.lease.next.pid = p
<1>1. L.lease \in Entry
  BY DEF Good, Leases, ByHeadless
<1> DEFINE e == L.lease
<1> HIDE DEF e
<1>2. /\ e.next \in Terminal \cup {None} /\ e.loaded \in Loaded \cup {None}
      /\ e.writer \in Writers \cup {None}
  BY <1>1 DEF Entry, e
<1> QED BY <1>1, <1>2 DEF Awaits, e

\* The end of a headless writer passes the lease to who waits.
LEMMA HeadlessEndedGood ==
    ASSUME NEW L, Good(L), NEW w
    PROVE  LET H == HeadlessEnded(L, w)
           IN  Good(H) /\ ~Failed(H) /\ \A p : Awaits(L.lease, p) => Holds(H.lease, p)
<1> DEFINE H == HeadlessEnded(L, w)
<1>1. CASE ~ByHeadless(L.lease)
  <2>1. H = L
    BY <1>1 DEF HeadlessEnded
  <2>2. ~Failed(L)
    BY <1>1 DEF Failed, ByHeadless, Good, EntryOK, Leases, Entry
  <2> QED BY <1>1, <2>1, <2>2 DEF Awaits
<1>2. CASE ByHeadless(L.lease) /\ L.lease.next /= None
  <2>1. H = Grant(L, L.lease.next, L.lease.loaded, w)
    BY <1>2 DEF HeadlessEnded
  <2> HIDE DEF H
  <2> QED BY <1>2, <2>1, HeadlessEntry, GrantGood DEF H
<1>3. CASE ByHeadless(L.lease) /\ L.lease.next = None
  <2>1. H = [L EXCEPT !.lease = None]
    BY <1>3 DEF HeadlessEnded
  <2> HIDE DEF H
  <2> QED BY <1>3, <2>1, NoLeaseGood DEF H, Awaits
<1> QED BY <1>1, <1>2, <1>3

\* So does one that ended unobserved.
LEMMA EndedUnobservedGood ==
    ASSUME NEW L, Good(L), ByHeadless(L.lease), NEW w, World0(w)
    PROVE  LET E == EndedUnobserved(L, w)
           IN  /\ Good(E) /\ ~Failed(E)
               /\ \A p \in w.alive : Awaits(L.lease, p) => Holds(E.lease, p)
               /\ E.lease = None \/ E.lease.state = "stale"
               /\ ~ByHeadless(E.lease)
<1> DEFINE E == EndedUnobserved(L, w)
           S == RecordUnobservedOutput(L, w)
<1>1. Good(S)
  BY OutputGood
<1>2. CASE L.lease.next /= None /\ L.lease.next.pid \in w.alive
  <2>1. E = HandTo(S, L.lease.next, L.lease.loaded, "stale")
    BY <1>2 DEF EndedUnobserved
  <2>2. E.lease.state = "stale"
    <3>1. E.lease = [SetLease(S, "tui", L.lease.next, "stale").lease
                        EXCEPT !.loaded = L.lease.loaded]
      BY <1>1, <2>1, SetLeaseGood, HeadlessEntry, <1>2 DEF HandTo, Good, Leases
    <3>2. /\ SetLease(S, "tui", L.lease.next, "stale").lease.state = "stale"
          /\ SetLease(S, "tui", L.lease.next, "stale").lease \in Entry
      BY <1>1, SetLeaseGood, HeadlessEntry, <1>2 DEF Good, Leases
    <3> HIDE DEF E, S
    <3> QED BY <3>1, <3>2 DEF Entry
  <2> HIDE DEF E, S
  <2>3. Good(E) /\ ~Failed(E) /\ Holds(E.lease, L.lease.next.pid)
    BY <1>1, <1>2, <2>1, HeadlessEntry, HandToGood
  <2>4. \A p : Awaits(L.lease, p) => p = L.lease.next.pid
    BY HeadlessEntry
  <2> QED BY <2>2, <2>3, <2>4 DEF E, Holds, ByTerminal, ByHeadless
<1>3. CASE ~(L.lease.next /= None /\ L.lease.next.pid \in w.alive)
  <2>1. E = [S EXCEPT !.lease = None]
    BY <1>3 DEF EndedUnobserved
  <2> HIDE DEF E, S
  <2> QED BY <1>1, <1>3, <2>1, NoLeaseGood, HeadlessEntry DEF E, ByHeadless
<1> QED BY <1>2, <1>3

\* A release that failed stays failed; whoever holds the lease waits then.
LEMMA ReleaseFailedGood ==
    ASSUME NEW L, Good(L), NEW writer \in Writers \cup {None}
    PROVE  LET F == ReleaseFailed(L, writer)
           IN  /\ Good(F) /\ Failed(F)
               /\ \A p : Awaits(L.lease, p) => Awaits(F.lease, p)
               /\ F.lease.writer = IF Failed(L) THEN L.lease.writer ELSE writer
<1> DEFINE F == ReleaseFailed(L, writer)
           old == L.lease
           next == CASE ByHeadless(old) -> old.next
                     [] ByTerminal(old) -> old.term
                     [] OTHER -> None
           loaded == IF old = None THEN None ELSE old.loaded
           S == SetLease(L, "headless", None, "release_failed")
<1>0. Failed(L) <=> ByHeadless(old) /\ old.state = "release_failed"
  BY DEF Failed, ByHeadless, Good, EntryOK, Leases, Entry
<1>1. CASE Failed(L)
  <2>1. F = L
    BY <1>0, <1>1 DEF ReleaseFailed
  <2> QED BY <1>1, <2>1
<1>2. CASE ~Failed(L)
  <2>1. F = [S EXCEPT !.leaf = None, !.lease.next = next, !.lease.writer = writer,
                      !.lease.loaded = loaded]
    BY <1>0, <1>2 DEF ReleaseFailed
  <2>2. old \in Entry \cup {None}
    BY DEF Good, Leases
  <2>3. /\ next \in Terminal \cup {None}
        /\ \A p : Awaits(old, p) => next /= None /\ next.pid = p
    <3>1. CASE ByHeadless(old)
      <4>1. next = old.next
        BY <3>1 DEF ByHeadless, ByTerminal
      <4> QED BY <3>1, <4>1, HeadlessEntry
    <3>2. CASE ~ByHeadless(old) /\ ByTerminal(old)
      <4>1. next = old.term
        BY <3>2
      <4>2. old.term \in Terminal \cup {None}
        BY <3>2, <2>2 DEF ByTerminal, Entry
      <4> QED BY <3>2, <4>1, <4>2 DEF ByTerminal, EntryOK, Good, Awaits
    <3>3. CASE ~ByHeadless(old) /\ ~ByTerminal(old)
      BY <3>3 DEF Awaits
    <3> QED BY <3>1, <3>2, <3>3
  <2>4. loaded \in Loaded \cup {None}
    BY <2>2 DEF Entry
  <2>5. /\ Good(S) /\ S.lease /= None /\ S.lease.kind = "headless"
        /\ S.lease.state = "release_failed"
    BY SetLeaseGood
  <2> HIDE DEF F, S, next, loaded, old
  <2>6. /\ [S.lease EXCEPT !.next = next, !.writer = writer, !.loaded = loaded] \in Entry
        /\ S.lease \in Entry
    BY <2>3, <2>4, <2>5, EntryField
  <2>7. /\ F \in Leases
        /\ F.lease = [S.lease EXCEPT !.next = next, !.writer = writer, !.loaded = loaded]
    BY <2>1, <2>5, <2>6 DEF Good, Leases
  <2>8. F.lease /= None
    BY <2>6, <2>7, NoneIsNoRecord
  <2>9. /\ F.lease.kind = "headless" /\ F.lease.next = next
        /\ F.lease.state = "release_failed" /\ F.lease.writer = writer
    BY <2>5, <2>6, <2>7 DEF Entry
  <2>10. \A p : Awaits(old, p) => Awaits(F.lease, p)
    BY <2>3, <2>8, <2>9 DEF Awaits, ByHeadless
  <2>11. Good(F) /\ Failed(F)
    BY <2>7, <2>8, <2>9 DEF Good, EntryOK, Failed
  <2> QED BY <1>2, <2>9, <2>10, <2>11 DEF F, old
<1> QED BY <1>1, <1>2

\* A tick lifts a release only from a writer whose recorded process is gone, and one
\* that has not failed only when the row is gone too.
LEMMA LiftGood ==
    ASSUME NEW L, Good(L), NEW w, World0(w), NEW kept \in BOOLEAN
    PROVE  LET X == LiftUnobservedReleases(LiftGoneWriters(L, w), kept, w)
           IN  /\ Good(X)
               /\ \A p \in w.alive : Awaits(L.lease, p) =>
                                        Awaits(X.lease, p) \/ Holds(X.lease, p)
               /\ Failed(X) => X = L
               /\ X /= L => /\ ByHeadless(L.lease) /\ WriterGone(L.lease, w)
                            /\ Failed(L) \/ ~kept
<1> DEFINE G == LiftGoneWriters(L, w)
           X == LiftUnobservedReleases(G, kept, w)
<1>0. Failed(L) => ByHeadless(L.lease)
  BY DEF Failed, ByHeadless, Good, EntryOK, Leases, Entry
<1>1. CASE Failed(L) /\ WriterGone(L.lease, w)
  <2>1. G = EndedUnobserved(L, w)
    BY <1>1 DEF LiftGoneWriters, Failed
  <2>2. /\ Good(G) /\ ~Failed(G) /\ (G.lease = None \/ G.lease.state = "stale")
        /\ \A p \in w.alive : Awaits(L.lease, p) => Holds(G.lease, p)
    BY <1>0, <1>1, <2>1, EndedUnobservedGood
  <2> HIDE DEF G
  <2>3. X = G
    BY <2>2 DEF LiftUnobservedReleases, IsOverdue
  <2> QED BY <1>0, <1>1, <2>2, <2>3 DEF G
<1>2. CASE ~(Failed(L) /\ WriterGone(L.lease, w)) /\ IsOverdue(L.lease, w) /\ ~kept
             /\ WriterGone(L.lease, w)
  <2>1. G = L
    BY <1>2 DEF LiftGoneWriters, Failed
  <2>2. X = EndedUnobserved(L, w)
    BY <1>2, <2>1 DEF LiftUnobservedReleases
  <2>3. ByHeadless(L.lease)
    BY <1>2 DEF IsOverdue, ByHeadless, Good, EntryOK, Leases, Entry
  <2> HIDE DEF G, X
  <2> QED BY <1>2, <2>2, <2>3, EndedUnobservedGood DEF X, G
<1>3. CASE /\ ~(Failed(L) /\ WriterGone(L.lease, w))
           /\ ~(IsOverdue(L.lease, w) /\ ~kept /\ WriterGone(L.lease, w))
  <2>1. G = L
    BY <1>3 DEF LiftGoneWriters, Failed
  <2>2. X = L
    BY <1>3, <2>1 DEF LiftUnobservedReleases
  <2> QED BY <2>2
<1> QED BY <1>1, <1>2, <1>3

\* A turn in a terminal changes what the holder runs under, never who holds.
LEMMA TurnStartedGood ==
    ASSUME NEW L, Good(L), NEW remote
    PROVE  LET T == TurnStarted(L, remote)
           IN  /\ Good(T)
               /\ ByHeadless(T.lease) \/ ByHeadless(L.lease) => T = L
               /\ Failed(T) \/ Failed(L) => T = L
<1> DEFINE T == TurnStarted(L, remote)
           old == L.lease
           swap(kind) == [SetLease(L, kind, old.term, "held") EXCEPT !.lease.loaded = old.loaded]
<1>1. T = L \/ /\ old /= None /\ old.state = "held" /\ old.kind \in {"tui", "web"}
               /\ \E kind \in {"tui", "web"} : T = swap(kind)
  BY DEF TurnStarted
<1>2. ASSUME NEW kind \in {"tui", "web"}, old /= None, old.state = "held",
             old.kind \in {"tui", "web"}, T = swap(kind)
      PROVE  /\ Good(T) /\ ~Failed(T) /\ ~Failed(L)
             /\ ~ByHeadless(T.lease) /\ ~ByHeadless(L.lease)
  <2> DEFINE S == SetLease(L, kind, old.term, "held")
  <2>1. old \in Entry /\ EntryOK(old)
    BY <1>2 DEF Good, Leases
  <2>2. old.term \in Terminal /\ old.loaded \in Loaded \cup {None}
    BY <1>2, <2>1 DEF Entry, EntryOK
  <2>3. /\ Good(S) /\ S.lease /= None /\ S.lease.kind = kind /\ S.lease.term = old.term
        /\ S.lease.state = "held"
    BY <2>2, SetLeaseGood
  <2>4. T = [S EXCEPT !.lease.loaded = old.loaded]
    BY <1>2
  <2>5. [S.lease EXCEPT !.loaded = old.loaded] \in Entry /\ S.lease \in Entry
    BY <2>2, <2>3, EntryField
  <2> HIDE DEF S, T
  <2>6. T \in Leases /\ T.lease = [S.lease EXCEPT !.loaded = old.loaded]
    BY <2>3, <2>4, <2>5 DEF Good, Leases
  <2>7. T.lease /= None
    BY <2>5, <2>6, NoneIsNoRecord
  <2>8. T.lease.kind = kind /\ T.lease.term = old.term /\ T.lease.state = "held"
    BY <2>3, <2>5, <2>6 DEF Entry
  <2>9. Good(T) /\ ~Failed(T) /\ ~Failed(L)
    BY <1>2, <2>2, <2>6, <2>7, <2>8, NoneIsNoRecord DEF Good, EntryOK, Failed
  <2> QED
    BY <1>2, <2>8, <2>9 DEF ByHeadless
<1> HIDE DEF T, swap
<1> QED BY <1>1, <1>2 DEF T

\* A start keeps a failed release exactly while its recorded writer runs.
LEMMA LoadGood ==
    ASSUME NEW L, Good(L), NEW w, World0(w)
    PROVE  LET D == Load(L, w)
           IN  /\ Good(D)
               /\ \A p \in w.alive : Awaits(L.lease, p) =>
                                        Awaits(D.lease, p) \/ Holds(D.lease, p)
               /\ ByHeadless(D.lease) => D = L
               /\ Failed(D) => D = L /\ L.lease.writer /= None /\ L.lease.writer \in w.alive
               /\ Failed(L) /\ L.lease.writer /= None /\ L.lease.writer \in w.alive => D = L
<1> DEFINE D == Load(L, w)
           old == L.lease
           runs == /\ old.state = "release_failed" /\ old.writer /= None
                   /\ old.writer \in w.alive
<1>0. Failed(L) <=> ByHeadless(old) /\ old.state = "release_failed"
  BY DEF Failed, ByHeadless, Good, EntryOK, Leases, Entry
<1>1. CASE ByHeadless(old) /\ runs
  <2>1. D = L
    BY <1>1 DEF Load, ByHeadless, ByTerminal
  <2> QED BY <1>1, <2>1
<1>2. CASE ByHeadless(old) /\ ~runs
  <2>1. D = EndedUnobserved(L, w)
    BY <1>2 DEF Load, ByHeadless, ByTerminal
  <2> HIDE DEF D
  <2> QED BY <1>0, <1>2, <2>1, EndedUnobservedGood DEF D
<1>3. CASE ~ByHeadless(old) /\ ByTerminal(old) /\ old.term.pid \in w.alive
  <2>1. D = [L EXCEPT !.lease.kind = "tui"]
    BY <1>3 DEF Load
  <2>2. old \in Entry /\ EntryOK(old) /\ [old EXCEPT !.kind = "tui"] \in Entry
    BY <1>3, EntryField DEF Good, ByTerminal
  <2> HIDE DEF D, old
  <2>3. D \in Leases /\ D.lease = [old EXCEPT !.kind = "tui"]
    BY <2>1, <2>2 DEF Good, Leases, old
  <2>4. D.lease /= None
    BY <2>2, <2>3, NoneIsNoRecord
  <2>5. D.lease.kind = "tui" /\ D.lease.term = old.term /\ D.lease.state = old.state
    BY <2>2, <2>3 DEF Entry
  <2>6. Good(D) /\ ~Failed(D)
    BY <1>3, <2>2, <2>3, <2>4, <2>5 DEF Good, EntryOK, Failed, ByTerminal
  <2>7. ~ByHeadless(D.lease) /\ \A p : ~Awaits(old, p)
    BY <1>3, <2>5 DEF Awaits, ByHeadless
  <2> QED BY <1>0, <1>3, <2>6, <2>7 DEF D, old
<1>4. CASE ~ByHeadless(old) /\ ByTerminal(old) /\ old.term.pid \notin w.alive
  <2>1. D = [L EXCEPT !.lease = None]
    BY <1>4 DEF Load
  <2> HIDE DEF D
  <2> QED BY <1>0, <1>4, <2>1, NoLeaseGood DEF D, ByHeadless, Awaits
<1>5. CASE ~ByHeadless(old) /\ ~ByTerminal(old)
  <2>1. D = L
    BY <1>5 DEF Load
  <2> QED BY <1>0, <1>5, <2>1
<1> QED BY <1>1, <1>2, <1>3, <1>4, <1>5

----------------------------------------------------------------------------
(* The daemon: what its handlers do to the lease *)

\* The world an operation looks at has the wall clock's time.
LEMMA WorldIs ==
    ASSUME TypeInv, NEW readable
    PROVE  /\ World0(World(readable))
           /\ World(readable).alive = AliveTerminals \cup AliveWriters
BY DaemonConstants DEF TypeInv, World0, World

\* A command sent finds room, or is not queued.
LEMMA SendTyped ==
    ASSUME TypeInv, NEW c \in {"turn", "shutdown"}, Send(c) \/ cmds' = cmds
    PROVE  /\ cmds' \in Seq({"turn", "shutdown"}) /\ Len(cmds') <= MaxQueue
           /\ cmds' = cmds \/ Serving
<1>1. CASE cmds' = cmds
  BY <1>1 DEF TypeInv, QueueTypes
<1>2. CASE cmds' /= cmds
  <2>1. Serving /\ Len(cmds) < MaxQueue /\ cmds' = Append(cmds, c)
    BY <1>2 DEF Send
  <2> QED BY <2>1, DaemonConstants DEF TypeInv, QueueTypes
<1> QED BY <1>1, <1>2

\* What a terminal's opening does to the lease: OpenedGood, saved.
LEMMA OpenedStep ==
    ASSUME TypeInv, NEW t \in Terminals, NEW plugin \in BOOLEAN,
           NEW loaded \in Loaded \cup {None}, TerminalOpened(t, plugin, loaded)
    PROVE  /\ Good(leases') /\ file' = leases'
           /\ \A p : Awaits(leases.lease, p) =>
                  Awaits(leases'.lease, p) \/ (~Failed(leases) /\ Names(leases'.lease, t))
           /\ Failed(leases') <=> Failed(leases)
           /\ Failed(leases) => leases'.lease.writer = leases.lease.writer
           /\ cmds' \in Seq({"turn", "shutdown"}) /\ Len(cmds') <= MaxQueue
           /\ cmds' = cmds \/ Serving
<1>0. PICK h \in BOOLEAN : h = HeadlessWriter
  BY DEF HeadlessWriter
<1> DEFINE writer == IF HeadlessWriter /\ sup.bound THEN row.gen ELSE None
           me == [pid |-> t, plugin |-> plugin]
<1>1. PICK readable \in BOOLEAN :
         /\ leases' = Opened(leases, me, loaded, h, writer, World(readable))
         /\ file' = leases'
         /\ Send("shutdown") \/ cmds' = cmds
  BY <1>0 DEF TerminalOpened, Saved
<1>2. writer \in Writers \cup {None}
  BY DEF TypeInv, HeadlessWriter, Row
<1>3. me \in Terminal /\ me.pid = t
  BY DEF Terminal
<1> DEFINE w == World(readable)
           O == Opened(leases, me, loaded, h, writer, w)
<1>4. Good(leases) /\ World0(w)
  BY WorldIs DEF TypeInv
<1>6. /\ cmds' \in Seq({"turn", "shutdown"}) /\ Len(cmds') <= MaxQueue
      /\ cmds' = cmds \/ Serving
  BY <1>1, SendTyped
<1>7. leases' = O /\ file' = O
  BY <1>1
<1> HIDE DEF writer, me, w
<1>5. OpenedKeeps(leases, O, me)
  BY <1>2, <1>3, <1>4, OpenedGood
<1> HIDE DEF O
<1> QED BY <1>0, <1>3, <1>5, <1>6, <1>7 DEF OpenedKeeps

\* A frame leaves the lease to who has it.
LEMMA ObservedGood ==
    ASSUME TypeInv, NEW kind
    PROVE  Good(Observed(leases, kind)) /\ Observed(leases, kind).lease = leases.lease
<1> DEFINE w == World(TRUE)
<1>1. Good(leases) /\ World0(w)
  BY WorldIs DEF TypeInv
<1>2. /\ Good(RecordOutput(leases, w)) /\ RecordOutput(leases, w).lease = leases.lease
      /\ Good(RecordUnobservedOutput(leases, w))
      /\ RecordUnobservedOutput(leases, w).lease = leases.lease
  BY <1>1, OutputGood
<1>3. /\ Good(WriterTurnStarted(RecordOutput(leases, w)))
      /\ WriterTurnStarted(RecordOutput(leases, w)).lease = leases.lease
  BY <1>1, <1>2, OutputGood
<1> HIDE DEF w
<1>4. Observed(leases, kind) \in
         {WriterTurnStarted(RecordOutput(leases, w)), RecordOutput(leases, w),
          RecordUnobservedOutput(leases, w), leases}
  BY DEF Observed, w
<1> QED BY <1>1, <1>2, <1>3, <1>4

\* A released writer's note ends its hold of the lease.
LEMMA WriterReleasedGood ==
    ASSUME TypeInv, NEW n, NEW readable
    PROVE  LET R == WriterReleased(leases, n, readable)
           IN  Good(R) /\ ~Failed(R) /\ \A p : Awaits(leases.lease, p) => Holds(R.lease, p)
<1> DEFINE w == World(readable)
           M == IF n.inTurn THEN RecordUnobservedOutput(leases, w) ELSE leases
<1>1. Good(leases) /\ World0(w)
  BY WorldIs DEF TypeInv
<1>2. Good(M) /\ M.lease = leases.lease
  BY <1>1, OutputGood
<1> HIDE DEF M, w
<1>3. /\ Good(HeadlessEnded(M, w)) /\ ~Failed(HeadlessEnded(M, w))
      /\ \A p : Awaits(M.lease, p) => Holds(HeadlessEnded(M, w).lease, p)
  BY <1>2, HeadlessEndedGood
<1> QED BY <1>2, <1>3 DEF WriterReleased, M, w

----------------------------------------------------------------------------
(* Types *)

\* The initial state has its types.
LEMMA TypeInit == Init => TypeInv
<1> SUFFICES ASSUME Init PROVE TypeInv
  OBVIOUS
<1>1. Good(NoLeases)
  BY DEF Good, NoLeases, Leases
<1>2. SupInv
  BY DEF Init, SupInv, Supervisor
<1>3. QueueTypes
  BY DaemonConstants DEF Init, QueueTypes
<1>4. term \in [Terminals -> TermState]
  BY DEF Init, TermState
<1> QED BY <1>1, <1>2, <1>3, <1>4, DaemonConstants DEF Init, TypeInv

\* Terminals keep the types.
LEMMA TypeTerminals ==
    ASSUME TypeInv, NEW t \in Terminals,
           \/ StartTerminal(t) \/ LoadTranscript(t) \/ Type(t) \/ SwitchAway(t)
           \/ ExitTerminal(t)
    PROVE  TypeInv'
<1>1. term' \in [Terminals -> TermState]
  <2>1. term[t] \in TermState
    BY DEF TypeInv
  <2>7. now \in Nat /\ doc.written \in Nat /\ doc.resumed \in SUBSET Records /\ up \in BOOLEAN
    BY DaemonConstants DEF TypeInv
  <2>2. CASE StartTerminal(t)
    <3> DEFINE e == [term[t] EXCEPT !.proc = "up", !.started = now]
    <3>1. e \in TermState
      BY <2>1, <2>7 DEF TermState
    <3>2. term' = [term EXCEPT ![t] = e]
      BY <2>2 DEF StartTerminal
    <3> HIDE DEF e
    <3> QED BY <3>1, <3>2 DEF TypeInv
  <2>3. CASE LoadTranscript(t)
    <3> DEFINE e == [term[t] EXCEPT !.on = TRUE, !.hook = up, !.disk = FALSE,
                                    !.seen = doc.written, !.branch = doc.resumed]
    <3>1. e \in TermState
      BY <2>1, <2>7 DEF TermState
    <3>2. term' = [term EXCEPT ![t] = e]
      BY <2>3 DEF LoadTranscript
    <3> HIDE DEF e
    <3> QED BY <3>1, <3>2 DEF TypeInv
  <2>4. CASE Type(t)
    BY <2>1, <2>4 DEF TypeInv, Type, Typed, TermState
  <2>5. CASE SwitchAway(t)
    BY <2>1, <2>5 DEF TypeInv, SwitchAway, TermState
  <2>6. CASE ExitTerminal(t)
    BY <2>1, <2>6 DEF TypeInv, ExitTerminal, TermState
  <2> QED BY <2>2, <2>3, <2>4, <2>5, <2>6
<1>2. /\ doc' \in [written : 0..MaxRecords, resumed : SUBSET Records]
      /\ doc'.written = doc.written
  BY DEF TypeInv, TermState, StartTerminal, LoadTranscript, Type, Typed, SwitchAway, ExitTerminal
<1>3. UNCHANGED <<leases, file, now, row, open, sup, cmds, frames, notes, up>>
  BY DEF StartTerminal, LoadTranscript, Type, SwitchAway, ExitTerminal
<1>4. SupInv' /\ QueueTypes'
  BY <1>2, <1>3 DEF TypeInv, SupInv, QueueTypes
<1> QED BY <1>1, <1>2, <1>3, <1>4 DEF TypeInv, Good

\* Announcements and shared turns keep the types.
LEMMA TypeOpened ==
    ASSUME TypeInv, NEW t \in Terminals,
           \/ HookAnnounces(t) \/ PluginAnnounces(t)
           \/ \E remote \in BOOLEAN : SharedTurn(t, remote)
    PROVE  TypeInv'
<1>0. term[t] \in TermState
  BY DEF TypeInv
<1>1. CASE HookAnnounces(t)
  <2>1. term' \in [Terminals -> TermState]
    BY <1>0, <1>1 DEF TypeInv, HookAnnounces, TermState
  <2>2. /\ Good(leases') /\ Good(file')
        /\ cmds' \in Seq({"turn", "shutdown"}) /\ Len(cmds') <= MaxQueue
    <3>1. CASE TerminalOpened(t, FALSE, None)
      BY <3>1, OpenedStep
    <3>2. CASE UNCHANGED <<leases, file, cmds>>
      BY <3>2 DEF TypeInv, QueueTypes
    <3> QED BY <1>1, <3>1, <3>2 DEF HookAnnounces
  <2>3. UNCHANGED <<now, doc, row, open, sup, frames, notes, up>>
    BY <1>1 DEF HookAnnounces
  <2>4. SupInv' /\ QueueTypes'
    BY <2>2, <2>3 DEF TypeInv, SupInv, QueueTypes
  <2> QED BY <2>1, <2>2, <2>3, <2>4 DEF TypeInv
<1>2. CASE PluginAnnounces(t)
  <2>1. PICK loaded \in {None, [branch |-> term[t].branch]} : TerminalOpened(t, TRUE, loaded)
    BY <1>2 DEF PluginAnnounces
  <2>2. loaded \in Loaded \cup {None}
    BY <1>0 DEF TermState, Loaded
  <2>3. /\ Good(leases') /\ Good(file')
        /\ cmds' \in Seq({"turn", "shutdown"}) /\ Len(cmds') <= MaxQueue
    BY <2>1, <2>2, OpenedStep
  <2>4. UNCHANGED <<now, term, doc, row, open, sup, frames, notes, up>>
    BY <1>2 DEF PluginAnnounces
  <2>5. SupInv' /\ QueueTypes'
    BY <2>3, <2>4 DEF TypeInv, SupInv, QueueTypes
  <2> QED BY <2>3, <2>4, <2>5 DEF TypeInv
<1>3. ASSUME NEW remote \in BOOLEAN, SharedTurn(t, remote) PROVE TypeInv'
  <2>1. Good(leases') /\ Good(file')
    BY <1>3, TurnStartedGood DEF TypeInv, SharedTurn, Saved
  <2>2. term' \in [Terminals -> TermState]
    BY <1>0, <1>3 DEF TypeInv, SharedTurn, Typed, TermState
  <2>3. /\ doc' \in [written : 0..MaxRecords, resumed : SUBSET Records]
        /\ doc'.written = doc.written
    BY <1>0, <1>3 DEF TypeInv, TermState, SharedTurn, Typed
  <2>4. UNCHANGED <<now, row, open, sup, cmds, frames, notes, up>>
    BY <1>3 DEF SharedTurn
  <2>5. SupInv' /\ QueueTypes'
    BY <2>3, <2>4 DEF TypeInv, SupInv, QueueTypes
  <2> QED BY <2>1, <2>2, <2>3, <2>4, <2>5 DEF TypeInv
<1> QED BY <1>1, <1>2, <1>3

\* The supervisor's fields.
LEMMA SupFields ==
    ASSUME TypeInv
    PROVE  /\ sup.gen \in Nat /\ sup.alive \in BOOLEAN /\ sup.bound \in BOOLEAN
           /\ sup.inTurn \in BOOLEAN /\ sup.writes \in BOOLEAN
           /\ sup.branch \in SUBSET Records
           /\ sup.phase \in {"none", "opening", "launched", "idle", "turn", "stopping",
                              "settling", "done"}
           /\ sup.phase /= "none" => sup.gen \in Writers
           /\ sup.writes => doc.written > 0
           /\ doc.written \in Nat /\ doc.written <= MaxRecords /\ doc.resumed \in SUBSET Records
           /\ sup = [gen |-> sup.gen, phase |-> sup.phase, alive |-> sup.alive,
                     bound |-> sup.bound, inTurn |-> sup.inTurn, writes |-> sup.writes,
                     branch |-> sup.branch]
BY DaemonConstants DEF TypeInv, SupInv, Supervisor

\* Appending to a queue that has room, and taking its head, keep its type.
LEMMA QueueKept ==
    ASSUME NEW S, NEW q \in Seq(S), Len(q) <= MaxQueue
    PROVE  /\ \A x \in S : Len(q) < MaxQueue =>
                 Append(q, x) \in Seq(S) /\ Len(Append(q, x)) <= MaxQueue
           /\ q /= <<>> => /\ Tail(q) \in Seq(S) /\ Len(Tail(q)) <= MaxQueue
                           /\ Head(q) \in S
BY DaemonConstants

\* Steps around the supervisor's command queue keep the types.
LEMMA TypeCommands ==
    ASSUME TypeInv,
           WebTurn \/ RefuseTurn
           \/ PrepareOpening \/ OpeningStep
           \/ (\E prompt \in BOOLEAN : FinishSpawn(prompt))
    PROVE  TypeInv'
<1>1. CASE WebTurn
  <2>1. /\ cmds' \in Seq({"turn", "shutdown"}) /\ Len(cmds') <= MaxQueue
        /\ UNCHANGED <<leases, file, now, term, doc, row, open, sup, frames, notes, up>>
    BY <1>1, SendTyped DEF WebTurn
  <2>2. SupInv' /\ QueueTypes'
    BY <2>1 DEF TypeInv, SupInv, QueueTypes
  <2> QED BY <2>1, <2>2 DEF TypeInv
<1>2. CASE RefuseTurn
  <2>1. /\ cmds' \in Seq({"turn", "shutdown"}) /\ Len(cmds') <= MaxQueue
        /\ UNCHANGED <<leases, file, now, term, doc, row, open, sup, frames, notes, up>>
    BY <1>2, QueueKept DEF RefuseTurn, TypeInv, QueueTypes
  <2>2. SupInv' /\ QueueTypes'
    BY <2>1 DEF TypeInv, SupInv, QueueTypes
  <2> QED BY <2>1, <2>2 DEF TypeInv
<1>0. sup \in Supervisor
  BY DEF TypeInv, SupInv
<1>4. CASE PrepareOpening \/ OpeningStep
  <2>1. UNCHANGED <<leases, file, now, term, doc, row, open, cmds, frames, notes, up>>
    BY <1>4 DEF PrepareOpening, OpeningStep, Launch, OpeningFails
  <2>2. sup' \in Supervisor /\ sup'.phase /= "none" /\ sup'.gen \in Writers
        /\ (sup'.writes => sup.writes)
    <3>1. CASE PrepareOpening
      BY <3>1, DaemonConstants DEF PrepareOpening, Supervisor
    <3>2. ASSUME NEW bound \in BoundWriters, Launch(bound) PROVE <2>2
      <4>1. bound \in BOOLEAN /\ doc.resumed \in SUBSET Records
        BY SupFields, DaemonConstants
      <4> QED BY <1>0, <3>2, <4>1, SupFields DEF Launch, Supervisor
    <3>3. CASE OpeningFails
      BY <1>0, <3>3, SupFields DEF OpeningFails, Supervisor
    <3> QED BY <1>4, <3>1, <3>2, <3>3 DEF OpeningStep
  <2>3. SupInv' /\ QueueTypes'
    BY <2>1, <2>2 DEF TypeInv, SupInv, QueueTypes
  <2> QED BY <2>1, <2>3 DEF TypeInv
<1>3. ASSUME NEW prompt \in BOOLEAN, FinishSpawn(prompt)
      PROVE  TypeInv'
  <2>2. UNCHANGED <<leases, file, now, term, doc, open, frames, notes, up>>
    BY <1>3 DEF FinishSpawn
  <2>3. /\ sup' \in Supervisor /\ sup'.phase = "idle" /\ sup'.gen \in Writers
        /\ (sup'.writes => sup.writes) /\ row' \in Row
    BY <1>0, <1>3, SupFields DEF FinishSpawn, Supervisor, Row
  <2>4. cmds' \in Seq({"turn", "shutdown"}) /\ Len(cmds') <= MaxQueue
    <3>1. cmds' = <<>> \/ cmds' = <<"turn">>
      BY <1>3 DEF FinishSpawn
    <3>2. <<"turn">> \in Seq({"turn", "shutdown"}) /\ Len(<<"turn">>) = 1
      OBVIOUS
    <3>3. <<>> \in Seq({"turn", "shutdown"}) /\ Len(<<>>) = 0
      OBVIOUS
    <3>4. MaxQueue \in Nat /\ MaxQueue >= 1
      BY DaemonConstants
    <3>5. CASE cmds' = <<>>
      BY <3>3, <3>4, <3>5
    <3>6. CASE cmds' = <<"turn">>
      BY <3>2, <3>4, <3>6
    <3> QED BY <3>1, <3>5, <3>6
  <2>5. SupInv' /\ QueueTypes'
    BY <2>2, <2>3, <2>4 DEF TypeInv, SupInv, QueueTypes
  <2> QED BY <2>2, <2>3, <2>5 DEF TypeInv
<1> QED BY <1>1, <1>2, <1>3, <1>4

\* Steps that write to the transcript keep the types.
LEMMA TypeWrites ==
    ASSUME TypeInv, BeginTurn \/ Write \/ ReportLeaf
    PROVE  TypeInv'
<1>1. ASSUME NEW phase \in {"opening", "launched", "idle", "turn", "stopping", "settling", "done"},
             Append1(phase),
             sup.phase /= "none"
      PROVE  /\ doc' \in [written : 0..MaxRecords, resumed : SUBSET Records]
             /\ SupInv' /\ sup'.gen = sup.gen
  <2> DEFINE branch == sup.branch \cup {doc.written + 1}
  <2>1. /\ doc' = [written |-> doc.written + 1, resumed |-> branch]
        /\ sup' = [sup EXCEPT !.branch = branch, !.phase = phase, !.writes = TRUE]
        /\ doc.written < MaxRecords
    BY <1>1 DEF Append1
  <2>2. branch \in SUBSET Records /\ doc.written + 1 \in 0..MaxRecords /\ doc.written + 1 > 0
    BY <2>1, SupFields, DaemonConstants DEF Records
  <2> HIDE DEF branch
  <2>3. sup' \in Supervisor /\ sup'.gen = sup.gen /\ sup'.phase = phase
    BY <2>1, <2>2 DEF TypeInv, SupInv, Supervisor
  <2> QED BY <1>1, <2>1, <2>2, <2>3, SupFields DEF SupInv
<1>2. CASE BeginTurn
  <2>1. SupInv' /\ doc' \in [written : 0..MaxRecords, resumed : SUBSET Records]
    BY <1>1, <1>2 DEF BeginTurn
  <2>2. [gen |-> sup.gen, kind |-> "started"] \in Frames
    BY <1>2, SupFields DEF BeginTurn, Frames
  <2>3. UNCHANGED <<leases, file, now, term, row, open, notes, up>>
    BY <1>2 DEF BeginTurn
  <2>4. QueueTypes'
    BY <1>2, <2>2, <2>3, QueueKept DEF BeginTurn, TypeInv, QueueTypes
  <2> QED BY <2>1, <2>3, <2>4 DEF TypeInv
<1>3. CASE Write
  <2>1. sup.phase \in {"opening", "launched", "idle", "turn", "stopping", "settling", "done"}
    BY <1>3, SupFields DEF Write, TypeInv, SupInv
  <2>2. SupInv' /\ doc' \in [written : 0..MaxRecords, resumed : SUBSET Records]
    BY <1>1, <1>3, <2>1 DEF Write
  <2>3. UNCHANGED <<leases, file, now, term, row, open, cmds, frames, notes, up>>
    BY <1>3 DEF Write
  <2>4. QueueTypes'
    BY <2>3 DEF TypeInv, QueueTypes
  <2> QED BY <2>2, <2>3, <2>4 DEF TypeInv
<1>4. CASE ReportLeaf
  <2>1. doc.written \in Records
    BY <1>4, SupFields DEF ReportLeaf, Records
  <2>2. Good(leases') /\ Good(file')
    BY <1>4, <2>1, ReportGood DEF ReportLeaf, Saved, TypeInv
  <2>3. UNCHANGED <<now, term, doc, row, open, cmds, frames, notes, up>>
    BY <1>4 DEF ReportLeaf
  <2>4. sup' \in Supervisor /\ sup'.phase = sup.phase /\ sup'.gen = sup.gen /\ ~sup'.writes
        /\ sup'.alive = sup.alive
    BY <1>4 DEF ReportLeaf, TypeInv, SupInv, Supervisor
  <2>5. SupInv' /\ QueueTypes'
    BY <2>3, <2>4 DEF TypeInv, SupInv, QueueTypes
  <2> QED BY <2>2, <2>3, <2>5 DEF TypeInv
<1> QED BY <1>2, <1>3, <1>4

\* The end of a turn, and of a supervisor, keep the types.
LEMMA TypeStops ==
    ASSUME TypeInv,
           \/ CompleteTurn \/ TakeShutdown \/ HarnessExits \/ (\E ok \in BOOLEAN : Reap(ok))
           \/ Settle \/ Panic \/ OrphanExits
    PROVE  TypeInv'
<1>1. UNCHANGED <<leases, file, now, term, doc, row, open, up>>
  BY DEF CompleteTurn, TakeShutdown, HarnessExits, Stopping, Reap, Settle, Panic, OrphanExits
<1> DEFINE Kept == /\ sup' \in Supervisor /\ sup'.gen = sup.gen
                   /\ sup.phase /= "none" /\ sup'.phase /= "none"
                   /\ sup'.writes => sup.writes
<1>2. Kept
  <2>0. sup \in Supervisor
    BY DEF TypeInv, SupInv
  <2>1. CASE CompleteTurn
    BY <2>0, <2>1 DEF CompleteTurn, Supervisor
  <2>2. ASSUME NEW alive \in BOOLEAN, Stopping(alive), Serving
        PROVE  Kept
    BY <2>0, <2>2 DEF Stopping, Supervisor, Serving
  <2>3. ASSUME NEW ok \in BOOLEAN, Reap(ok) PROVE Kept
    BY <2>0, <2>3 DEF Reap, Supervisor
  <2>4. CASE Settle
    BY <2>0, <2>4 DEF Settle, Supervisor
  <2>5. CASE Panic
    BY <2>0, <2>5 DEF Panic, Serving, Supervisor
  <2>6. CASE OrphanExits
    BY <2>0, <2>6 DEF OrphanExits, Supervisor
  <2> QED BY <2>1, <2>2, <2>3, <2>4, <2>5, <2>6 DEF TakeShutdown, HarnessExits
<1>3. SupInv'
  BY <1>1, <1>2 DEF TypeInv, SupInv
<1>4. QueueTypes'
  <2>0. sup.gen \in Writers /\ sup.inTurn \in BOOLEAN /\ sup.bound \in BOOLEAN
    BY <1>2, SupFields
  <2>1. /\ [gen |-> sup.gen, kind |-> "completed"] \in Frames
        /\ [gen |-> sup.gen, kind |-> "ended"] \in Frames
    BY <2>0 DEF Frames
  <2>2. /\ \A k \in {"released", "not_released"} :
              [gen |-> sup.gen, inTurn |-> sup.inTurn, kind |-> k, bound |-> sup.bound] \in Notes
        /\ [gen |-> sup.gen, kind |-> "ended", inTurn |-> FALSE, bound |-> FALSE] \in Notes
    BY <2>0 DEF Notes
  <2>3. CASE CompleteTurn
    BY <2>1, <2>3, QueueKept DEF CompleteTurn, TypeInv, QueueTypes
  <2>4. ASSUME NEW alive \in BOOLEAN, Stopping(alive) PROVE QueueTypes'
    <3>1. <<>> \in Seq({"turn", "shutdown"}) /\ Len(<<>>) <= MaxQueue
      BY DaemonConstants
    <3> QED BY <2>1, <2>4, <3>1, QueueKept DEF Stopping, TypeInv, QueueTypes
  <2>5. ASSUME NEW ok \in BOOLEAN, Reap(ok) PROVE QueueTypes'
    <3> DEFINE k == IF ok THEN "released" ELSE "not_released"
               n == [gen |-> sup.gen, inTurn |-> sup.inTurn, kind |-> k, bound |-> sup.bound]
    <3>1. n \in Notes
      BY <2>2
    <3>2. notes' = Append(notes, n) /\ Len(notes) < MaxQueue /\ UNCHANGED <<cmds, frames>>
      BY <2>5 DEF Reap
    <3> HIDE DEF n
    <3> QED BY <3>1, <3>2, QueueKept DEF TypeInv, QueueTypes
  <2>6. CASE Settle
    BY <2>2, <2>6, QueueKept DEF Settle, TypeInv, QueueTypes
  <2>7. CASE Panic
    <3>1. <<>> \in Seq({"turn", "shutdown"}) /\ Len(<<>>) <= MaxQueue
      BY DaemonConstants
    <3> QED BY <2>7, <3>1 DEF Panic, TypeInv, QueueTypes
  <2>8. CASE OrphanExits
    BY <2>8 DEF OrphanExits, TypeInv, QueueTypes
  <2> QED BY <2>3, <2>4, <2>5, <2>6, <2>7, <2>8 DEF TakeShutdown, HarnessExits
<1> QED BY <1>1, <1>3, <1>4 DEF TypeInv

\* A frame projected keeps the types, and the lease with who has it.
LEMMA FrameStep ==
    ASSUME TypeInv, TakeFrame
    PROVE  /\ TypeInv'
           /\ leases'.lease = leases.lease
           /\ file' = file \/ file' = leases'
           /\ cmds' = cmds \/ Serving
<1> DEFINE f == Head(frames)
<1>1. f \in Frames /\ frames' = Tail(frames) /\ frames' \in Seq(Frames) /\ Len(frames') <= MaxQueue
  BY QueueKept DEF TakeFrame, TypeInv, QueueTypes
<1>2. UNCHANGED <<now, term, doc, sup, notes, up>>
  BY DEF TakeFrame
<1>3. CASE f.gen /= sup.gen \/ row = None
  <2>1. UNCHANGED <<leases, file, row, open, cmds>>
    BY <1>3 DEF TakeFrame
  <2>2. SupInv' /\ QueueTypes'
    BY <1>1, <1>2, <2>1 DEF TypeInv, SupInv, QueueTypes
  <2> QED BY <1>1, <1>2, <2>1, <2>2 DEF TypeInv
<1>4. CASE ~(f.gen /= sup.gen \/ row = None)
  <2>1. leases' = Observed(leases, f.kind) /\ (file' = leases' \/ file' = file)
    BY <1>4 DEF TakeFrame, Saved
  <2>2. Good(leases') /\ leases'.lease = leases.lease
    BY <2>1, ObservedGood
  <2>3. row \in Row /\ row' = [row EXCEPT !.status = StatusAfter(f.kind)]
    BY <1>4 DEF TakeFrame, TypeInv
  <2>4. row' \in Row
    BY <2>3 DEF Row, StatusAfter
  <2>5. open' \in Writers \cup {None}
    BY <1>4, <1>1 DEF TakeFrame, TypeInv, Frames
  <2>6. Send("shutdown") \/ cmds' = cmds
    BY <1>4 DEF TakeFrame
  <2>7. cmds' \in Seq({"turn", "shutdown"}) /\ Len(cmds') <= MaxQueue /\ (cmds' = cmds \/ Serving)
    BY <2>6, SendTyped
  <2>8. SupInv' /\ QueueTypes'
    BY <1>1, <1>2, <2>7 DEF TypeInv, SupInv, QueueTypes
  <2> QED BY <1>2, <2>1, <2>2, <2>4, <2>5, <2>7, <2>8 DEF TypeInv
<1> QED BY <1>3, <1>4

\* What a note does to the lease; the row's end or mark.
LEMMA NoteLease ==
    ASSUME TypeInv, TakeNote, Head(notes) \in Notes
    PROVE  /\ Good(leases') /\ Good(file')
           /\ \A p : Awaits(leases.lease, p) =>
                        Awaits(leases'.lease, p) \/ Holds(leases'.lease, p)
           /\ \/ file' = leases'
              \/ file' = file /\ leases'.lease = leases.lease
           /\ \/ leases' = leases
              \/ /\ Head(notes).kind = "released" /\ ~OlderRow(Head(notes).gen)
                 /\ ~Failed(leases')
              \/ /\ Head(notes).kind = "not_released" /\ ~OlderRow(Head(notes).gen)
                 /\ Failed(leases')
                 /\ leases'.lease.writer =
                       IF Failed(leases) THEN leases.lease.writer
                       ELSE IF Head(notes).bound THEN Head(notes).gen ELSE None
<1> DEFINE n == Head(notes)
<1>0. Good(leases) /\ Good(file)
  BY DEF TypeInv
<1>1. CASE n.kind = "ended"
  BY <1>0, <1>1 DEF TakeNote
<1>2. CASE n.kind /= "ended"
  <2>1. /\ IF OlderRow(n.gen) THEN UNCHANGED leases
           ELSE IF n.kind = "released"
           THEN \E readable \in BOOLEAN : leases' = WriterReleased(leases, n, readable)
           ELSE leases' = NotReleased(leases, n)
        /\ IF leases'.epoch > leases.epoch \/ leases'.lease /= leases.lease
           THEN file' = leases' ELSE file' = file
    BY <1>2 DEF TakeNote, Saved
  <2>2. \/ file' = leases'
        \/ file' = file /\ leases'.lease = leases.lease
    BY <2>1
  <2>3. CASE OlderRow(n.gen)
    BY <1>0, <2>1, <2>2, <2>3
  <2>4. CASE ~OlderRow(n.gen) /\ n.kind = "released"
    <3>1. PICK readable \in BOOLEAN : leases' = WriterReleased(leases, n, readable)
      BY <2>1, <2>4
    <3>2. /\ Good(leases') /\ ~Failed(leases')
          /\ \A p : Awaits(leases.lease, p) => Holds(leases'.lease, p)
      BY <3>1, WriterReleasedGood
    <3> QED BY <1>0, <2>2, <2>4, <3>2
  <2>5. CASE ~OlderRow(n.gen) /\ n.kind = "not_released"
    <3> DEFINE writer == IF n.bound THEN n.gen ELSE None
    <3>1. writer \in Writers \cup {None}
      BY DEF Notes
    <3>2. leases' = ReleaseFailed(leases, writer)
      BY <2>1, <2>5 DEF NotReleased
    <3> HIDE DEF writer
    <3>3. /\ Good(leases') /\ Failed(leases')
          /\ \A p : Awaits(leases.lease, p) => Awaits(leases'.lease, p)
          /\ leases'.lease.writer = IF Failed(leases) THEN leases.lease.writer ELSE writer
      BY <1>0, <3>1, <3>2, ReleaseFailedGood
    <3> QED BY <1>0, <2>2, <2>5, <3>3 DEF writer
  <2> QED BY <1>2, <2>3, <2>4, <2>5 DEF Notes
<1> QED BY <1>1, <1>2

\* A note read keeps the types.
LEMMA TypeNote ==
    ASSUME TypeInv, TakeNote
    PROVE  TypeInv'
<1> DEFINE n == Head(notes)
<1>1. n \in Notes /\ notes' = Tail(notes) /\ notes' \in Seq(Notes) /\ Len(notes') <= MaxQueue
  BY QueueKept DEF TakeNote, TypeInv, QueueTypes
<1>2. UNCHANGED <<now, term, doc, open, sup, cmds, frames, up>>
  BY DEF TakeNote
<1>3. Good(leases') /\ Good(file')
  BY <1>1, NoteLease
<1>4. row' \in Row \cup {None}
  BY DEF TakeNote, RowEnds, TypeInv, Row
<1>5. SupInv' /\ QueueTypes'
  BY <1>1, <1>2 DEF TypeInv, SupInv, QueueTypes
<1> QED BY <1>2, <1>3, <1>4, <1>5 DEF TypeInv

\* What a tick does to the lease.
LEMMA TickLease ==
    ASSUME TypeInv, Tick
    PROVE  /\ Good(leases') /\ Good(file')
           /\ \A p \in AliveTerminals : Awaits(leases.lease, p) =>
                        Awaits(leases'.lease, p) \/ Holds(leases'.lease, p)
           /\ Failed(leases') => leases' = leases
           /\ (leases' = leases /\ file' = file) \/ file' = leases'
           /\ leases' /= leases =>
                 /\ ByHeadless(leases.lease) /\ leases.lease.writer /= None
                 /\ leases.lease.writer \notin AliveWriters
                 /\ Failed(leases) \/ row' = None
<1>1. PICK kept \in BOOLEAN : kept = (row' /= None)
  OBVIOUS
<1> DEFINE w == World(TRUE)
           X == LiftUnobservedReleases(LiftGoneWriters(leases, w), kept, w)
<1>2. leases' = X
  BY <1>1 DEF Tick, Lifted
<1>3. (leases' = leases /\ file' = file) \/ file' = leases'
  BY DEF Tick, Saved
<1>4. Good(leases) /\ Good(file) /\ World0(w) /\ w.alive = AliveTerminals \cup AliveWriters
  BY WorldIs DEF TypeInv
<1> HIDE DEF w
<1>5. /\ Good(X)
      /\ \A p \in w.alive : Awaits(leases.lease, p) =>
                               Awaits(X.lease, p) \/ Holds(X.lease, p)
      /\ Failed(X) => X = leases
      /\ X /= leases => /\ ByHeadless(leases.lease) /\ WriterGone(leases.lease, w)
                        /\ Failed(leases) \/ ~kept
  BY <1>4, LiftGood
<1> HIDE DEF X
<1> QED BY <1>1, <1>2, <1>3, <1>4, <1>5 DEF WriterGone

\* A tick keeps the types.
LEMMA TypeTick ==
    ASSUME TypeInv, Tick
    PROVE  TypeInv' /\ (cmds' = cmds \/ Serving)
<1>1. Good(leases') /\ Good(file')
  BY TickLease
<1>2. UNCHANGED <<now, term, doc, open, sup, notes, up>>
  BY DEF Tick
<1>3. row' \in Row \cup {None}
  BY DEF Tick, RowEnds, Retired, TypeInv, Row
<1>4. frames' \in Seq(Frames) /\ Len(frames') <= MaxQueue
  <2>1. CASE Retired
    <3>1. [gen |-> row.gen, kind |-> "ended"] \in Frames
      BY <2>1 DEF Retired, TypeInv, Row, Frames
    <3> QED BY <2>1, <3>1, QueueKept DEF Tick, TypeInv, QueueTypes
  <2>2. CASE ~Retired
    BY <2>2 DEF Tick, TypeInv, QueueTypes
  <2> QED BY <2>1, <2>2
<1>5. cmds' \in Seq({"turn", "shutdown"}) /\ Len(cmds') <= MaxQueue /\ (cmds' = cmds \/ Serving)
  <2>1. Send("shutdown") \/ cmds' = cmds
    BY DEF Tick
  <2> QED BY <2>1, SendTyped
<1>6. SupInv' /\ QueueTypes'
  BY <1>2, <1>4, <1>5 DEF TypeInv, SupInv, QueueTypes
<1> QED BY <1>1, <1>2, <1>3, <1>5, <1>6 DEF TypeInv

\* What a restart does to the lease.
LEMMA RestartLease ==
    ASSUME TypeInv, Restart
    PROVE  /\ Good(leases')
           /\ \A p \in AliveTerminals : Awaits(file.lease, p) =>
                        Awaits(leases'.lease, p) \/ Holds(leases'.lease, p)
           /\ ByHeadless(leases'.lease) => leases' = file
           /\ Failed(file) /\ sup.alive /\ file.lease.writer = sup.gen => leases' = file
<1> DEFINE w == World(TRUE)
<1>1. leases' = Load(file, w)
  BY DEF Restart
<1>2. Good(file) /\ World0(w) /\ w.alive = AliveTerminals \cup AliveWriters
  BY WorldIs DEF TypeInv
<1> HIDE DEF w
<1>3. /\ Good(leases')
      /\ \A p \in w.alive : Awaits(file.lease, p) =>
                               Awaits(leases'.lease, p) \/ Holds(leases'.lease, p)
      /\ ByHeadless(leases'.lease) => leases' = file
      /\ Failed(file) /\ file.lease.writer /= None /\ file.lease.writer \in w.alive
            => leases' = file
  BY <1>1, <1>2, LoadGood
<1>5. sup.gen /= None
  BY LeaseConstants, SupFields
<1>6. sup.alive => sup.gen \in AliveWriters
  BY DEF AliveWriters
<1> QED BY <1>2, <1>3, <1>5, <1>6

\* Time, a crash, a restart and the removal of a row keep the types.
LEMMA TypeRest ==
    ASSUME TypeInv, ClockTick \/ Crash \/ Restart \/ RemoveRow
    PROVE  TypeInv'
<1>1. CASE ClockTick
  <2>1. now' \in 0..MaxClock
    BY <1>1, DaemonConstants DEF ClockTick, TypeInv
  <2> QED BY <1>1, <2>1 DEF ClockTick, TypeInv, SupInv, QueueTypes
<1>2. CASE Crash
  <2>1. sup' \in Supervisor /\ sup'.gen = sup.gen /\ sup'.writes = sup.writes
        /\ (sup'.phase = "none" <=> sup.phase = "none") /\ (sup'.alive => sup.alive)
    <3>1. sup \in Supervisor
      BY DEF TypeInv, SupInv
    <3> QED BY <1>2, <3>1 DEF Crash, Supervisor
  <2>2. term' \in [Terminals -> TermState]
    <3>1. term' = [t \in Terminals |-> [term[t] EXCEPT !.hook = FALSE]]
      BY <1>2 DEF Crash
    <3>2. \A t \in Terminals : term[t] \in TermState
      BY DEF TypeInv
    <3>3. \A r \in TermState : [r EXCEPT !.hook = FALSE] \in TermState
      BY DEF TermState
    <3> QED BY <3>1, <3>2, <3>3
  <2>3. QueueTypes'
    BY <1>2, DaemonConstants DEF Crash, QueueTypes
  <2>4. SupInv'
    BY <1>2, <2>1 DEF Crash, TypeInv, SupInv
  <2> QED BY <1>2, <2>2, <2>3, <2>4 DEF Crash, TypeInv
<1>3. CASE Restart
  <2>1. Good(leases')
    BY <1>3, RestartLease
  <2>2. sup' \in Supervisor /\ sup'.gen = sup.gen /\ sup'.writes = sup.writes
        /\ sup'.phase = sup.phase /\ (sup'.alive => sup.alive)
    <3>1. sup \in Supervisor
      BY DEF TypeInv, SupInv
    <3> QED BY <1>3, <3>1 DEF Restart, Supervisor
  <2>3. SupInv' /\ QueueTypes'
    BY <1>3, <2>2 DEF Restart, TypeInv, SupInv, QueueTypes
  <2> QED BY <1>3, <2>1, <2>3 DEF Restart, TypeInv
<1>4. CASE RemoveRow
  BY <1>4 DEF RemoveRow, TypeInv, SupInv, QueueTypes
<1> QED BY <1>1, <1>2, <1>3, <1>4

\* Every step keeps the types.
LEMMA TypeStep == TypeInv /\ [Next]_vars => TypeInv'
<1> SUFFICES ASSUME TypeInv, [Next]_vars PROVE TypeInv'
  OBVIOUS
<1>1. CASE UNCHANGED vars
  BY <1>1 DEF vars, TypeInv, SupInv, QueueTypes
<1>2. CASE Next
  BY <1>2, TypeTerminals, TypeOpened, TypeCommands, TypeWrites, TypeStops, FrameStep, TypeNote,
     TypeTick, TypeRest
  DEF Next, SupervisorStep
<1> QED BY <1>1, <1>2

\* The conversation's lease, its file, the terminals, the transcript, the supervisor
\* and its queues keep their types, whatever fails: a terminal's entry always names
\* it, and a writer reports only records that exist.
THEOREM TypeCorrect == Spec => []TypeOK
<1>1. TypeInv /\ HistoryType => TypeOK
  BY DEF HistoryType, TypeInv, TypeOK, Good, SupInv, QueueTypes
<1>2. Init => HistoryType
  BY DEF Init, HistoryType
<1>3. HistoryType /\ [Next]_vars => HistoryType'
  <2> SUFFICES ASSUME HistoryType, [Next]_vars PROVE overtaken' \in BOOLEAN
    BY DEF HistoryType
  <2>1. CASE TakeNote \/ Tick
    BY <2>1 DEF TakeNote, Tick
  <2>2. CASE UNCHANGED overtaken
    BY <2>2 DEF HistoryType
  <2> QED
    BY <2>1, <2>2
    DEF vars, Next, OpeningStep, SupervisorStep, StartTerminal, LoadTranscript, Type, SwitchAway,
        ExitTerminal, HookAnnounces, PluginAnnounces, SharedTurn, PrepareOpening, Launch,
        OpeningFails, FinishSpawn, WebTurn, BeginTurn, RefuseTurn, TakeShutdown, Settle, Reap,
        Write, ReportLeaf, CompleteTurn, HarnessExits, Stopping, Panic, OrphanExits, TakeFrame,
        RemoveRow, ClockTick, Crash, Restart
<1> QED BY <1>1, <1>2, <1>3, TypeInit, TypeStep, PTL DEF Spec

----------------------------------------------------------------------------
(* The order of the notes; what is on file *)

\* Steps that leave the notes alone and do not bring the latest process back.
LEMMA NotesKept ==
    ASSUME NoteInv, UNCHANGED <<notes, up>>, sup'.gen = sup.gen,
           sup.phase \in {"settling", "done"} => sup'.phase \in {"settling", "done"},
           sup'.alive => sup.alive \/ sup.phase \notin {"settling", "done"},
           ~up => sup'.phase \in {"none", "done"}
    PROVE  NoteInv'
<1>1. ASSUME NEW i \in 1..Len(notes')
      PROVE  /\ notes'[i].gen <= sup'.gen
             /\ \A j \in i..Len(notes') : notes'[i].gen <= notes'[j].gen
             /\ notes'[i].gen = sup'.gen => sup'.phase \in {"settling", "done"}
             /\ notes'[i].gen = sup'.gen /\ notes'[i].kind = "released" => ~sup'.alive
  BY <1>1 DEF NoteInv
<1>2. ~up' => notes' = <<>> /\ sup'.phase \in {"none", "done"}
  BY DEF NoteInv
<1> QED BY <1>1, <1>2 DEF NoteInv

\* Steps that leave the notes alone and keep a failed release.
LEMMA FailKept ==
    ASSUME FailInv, UNCHANGED notes, sup'.gen = sup.gen,
           ByHeadless(leases'.lease) => file'.lease = leases'.lease,
           Failed(leases') => Failed(leases) /\ leases'.lease.writer = leases.lease.writer
    PROVE  FailInv'
BY DEF FailInv

\* Steps that keep the entry of the lease.
LEMMA FailSame ==
    ASSUME FailInv, UNCHANGED notes, sup'.gen = sup.gen, leases'.lease = leases.lease,
           file'.lease = file.lease \/ file' = leases'
    PROVE  FailInv'
BY FailKept DEF FailInv, Failed

\* A terminal that announces itself, and how.
LEMMA Announced ==
    ASSUME TypeInv, NEW t \in Terminals, HookAnnounces(t) \/ PluginAnnounces(t)
    PROVE  \/ UNCHANGED <<leases, file>>
           \/ \E plugin \in BOOLEAN, loaded \in Loaded \cup {None} :
                 TerminalOpened(t, plugin, loaded)
<1>1. CASE HookAnnounces(t)
  BY <1>1 DEF HookAnnounces
<1>2. CASE PluginAnnounces(t)
  <2>1. PICK loaded \in {None, [branch |-> term[t].branch]} : TerminalOpened(t, TRUE, loaded)
    BY <1>2 DEF PluginAnnounces
  <2>2. loaded \in Loaded \cup {None}
    BY DEF TypeInv, TermState, Loaded
  <2> QED BY <2>1, <2>2
<1> QED BY <1>1, <1>2

\* Terminals, their announcements and turns.
LEMMA InvTerminals ==
    ASSUME IInv, NEW t \in Terminals,
           \/ StartTerminal(t) \/ LoadTranscript(t) \/ Type(t) \/ SwitchAway(t)
           \/ ExitTerminal(t) \/ HookAnnounces(t) \/ PluginAnnounces(t)
           \/ \E remote \in BOOLEAN : SharedTurn(t, remote)
    PROVE  NoteInv' /\ FailInv'
<1> USE DEF IInv
<1>1. UNCHANGED <<sup, notes, up>>
  BY DEF StartTerminal, LoadTranscript, Type, SwitchAway, ExitTerminal, HookAnnounces,
         PluginAnnounces, SharedTurn
<1>2. NoteInv'
  BY <1>1, NotesKept DEF NoteInv
<1>3. CASE UNCHANGED <<leases, file>>
  BY <1>1, <1>2, <1>3, FailSame
<1>4. CASE HookAnnounces(t) \/ PluginAnnounces(t)
  <2>1. ASSUME NEW plugin \in BOOLEAN, NEW loaded \in Loaded \cup {None},
               TerminalOpened(t, plugin, loaded)
        PROVE  FailInv'
    BY <1>1, <2>1, OpenedStep, FailKept
  <2> QED BY <1>2, <1>3, <1>4, <2>1, Announced
<1>5. ASSUME NEW remote \in BOOLEAN, SharedTurn(t, remote)
      PROVE  FailInv'
  <2>1. /\ leases' = TurnStarted(leases, remote)
        /\ file' = leases' \/ (leases' = leases /\ file' = file)
    BY <1>5 DEF SharedTurn, Saved
  <2>2. Failed(leases') => leases' = leases
    BY <2>1, TurnStartedGood DEF TypeInv
  <2>3. ByHeadless(leases'.lease) => file'.lease = leases'.lease
    BY <2>1 DEF FailInv
  <2> QED BY <1>1, <2>2, <2>3, FailKept
<1> QED
  BY <1>2, <1>3, <1>4, <1>5 DEF StartTerminal, LoadTranscript, Type, SwitchAway, ExitTerminal

\* A new generation: nothing was sent by it, and no release has failed.
LEMMA InvPrepare ==
    ASSUME IInv, PrepareOpening
    PROVE  NoteInv' /\ FailInv'
<1> USE DEF IInv
<1>1. /\ up /\ UNCHANGED <<leases, file, notes, up>> /\ ~Failed(leases)
      /\ sup'.gen = sup.gen + 1
  BY DEF PrepareOpening, MayResume, Failed
<1>2. sup.gen \in Nat
  BY SupFields
<1>3. ASSUME NEW i \in 1..Len(notes) PROVE notes[i].gen \in Nat
  <2>1. notes[i] \in Notes
    BY <1>3 DEF TypeInv, QueueTypes
  <2> QED BY <2>1, DaemonConstants DEF Notes
<1>4. ASSUME NEW i \in 1..Len(notes')
      PROVE  /\ notes'[i].gen <= sup'.gen /\ notes'[i].gen /= sup'.gen
             /\ \A j \in i..Len(notes') : notes'[i].gen <= notes'[j].gen
  BY <1>1, <1>2, <1>3, <1>4 DEF NoteInv
<1>5. NoteInv'
  BY <1>1, <1>4 DEF NoteInv
<1>6. FailInv'
  BY <1>1 DEF FailInv
<1> QED BY <1>5, <1>6

\* The supervisor's steps without a note.
LEMMA InvSupervisor ==
    ASSUME IInv,
           \/ OpeningStep \/ (\E prompt \in BOOLEAN : FinishSpawn(prompt))
           \/ WebTurn \/ RefuseTurn \/ BeginTurn \/ Write \/ ReportLeaf \/ CompleteTurn
           \/ TakeShutdown \/ HarnessExits \/ Panic \/ OrphanExits
    PROVE  NoteInv' /\ FailInv'
<1> USE DEF IInv
<1>0. sup \in Supervisor
  BY DEF TypeInv, SupInv
<1>1. UNCHANGED <<notes, up>>
  BY DEF OpeningStep, Launch, OpeningFails, FinishSpawn, WebTurn, RefuseTurn, BeginTurn, Write,
         ReportLeaf, CompleteTurn, TakeShutdown, HarnessExits, Stopping, Panic, OrphanExits
<1>2. /\ sup'.gen = sup.gen
      /\ sup.phase \in {"settling", "done"} => sup'.phase \in {"settling", "done"}
      /\ sup'.alive => sup.alive \/ sup.phase \notin {"settling", "done"}
      /\ sup'.phase = sup.phase \/ sup.phase \notin {"none", "done"}
  <2>1. CASE OpeningStep \/ \E prompt \in BOOLEAN : FinishSpawn(prompt)
    BY <1>0, <2>1 DEF OpeningStep, Launch, OpeningFails, FinishSpawn, Supervisor
  <2>2. CASE WebTurn \/ RefuseTurn
    BY <2>2 DEF WebTurn, RefuseTurn
  <2>3. CASE BeginTurn \/ Write \/ ReportLeaf \/ CompleteTurn
    BY <1>0, <2>3 DEF BeginTurn, Write, ReportLeaf, CompleteTurn, Append1, Supervisor
  <2>4. ASSUME NEW alive \in BOOLEAN, Stopping(alive), Serving
        PROVE  /\ sup'.gen = sup.gen /\ sup'.phase = "stopping" /\ sup'.alive = alive
               /\ sup.phase \in {"idle", "turn"}
    BY <1>0, <2>4 DEF Stopping, Supervisor, Serving
  <2>5. CASE HarnessExits
    BY <2>4, <2>5 DEF HarnessExits
  <2>6. CASE TakeShutdown
    BY <2>4, <2>6 DEF TakeShutdown
  <2>7. CASE Panic
    BY <1>0, <2>7 DEF Panic, Serving, Supervisor
  <2>8. CASE OrphanExits
    BY <1>0, <2>8 DEF OrphanExits, Supervisor
  <2> QED BY <2>1, <2>2, <2>3, <2>5, <2>6, <2>7, <2>8
<1>3. NoteInv'
  BY <1>1, <1>2, NotesKept DEF NoteInv
<1>4. leases'.lease = leases.lease /\ (file'.lease = file.lease \/ file' = leases')
  <2>1. CASE ReportLeaf
    <3>1. doc.written \in Records
      BY <2>1, SupFields DEF ReportLeaf, Records
    <3> QED BY <2>1, <3>1, ReportGood DEF ReportLeaf, Saved, TypeInv
  <2>2. CASE UNCHANGED <<leases, file>>
    BY <2>2
  <2> QED
    BY <2>1, <2>2
    DEF OpeningStep, Launch, OpeningFails, FinishSpawn, WebTurn, RefuseTurn, BeginTurn, Write,
        CompleteTurn, TakeShutdown, HarnessExits, Stopping, Panic, OrphanExits
<1> QED BY <1>1, <1>2, <1>3, <1>4, FailSame

\* A supervisor's note of its reaping, and of its end.
LEMMA InvSent ==
    ASSUME IInv, (\E ok \in BOOLEAN : Reap(ok)) \/ Settle
    PROVE  NoteInv' /\ FailInv'
<1> USE DEF IInv
<1>0. sup \in Supervisor /\ notes \in Seq(Notes)
  BY DEF TypeInv, SupInv, QueueTypes
<1>1. PICK n :
         /\ notes' = Append(notes, n) /\ n.gen = sup.gen
         /\ n.kind = "released" => ~sup'.alive
  <2>1. ASSUME NEW ok \in BOOLEAN, Reap(ok)
        PROVE  \E n : /\ notes' = Append(notes, n) /\ n.gen = sup.gen
                      /\ n.kind = "released" => ~sup'.alive
    <3> DEFINE n == [gen |-> sup.gen, inTurn |-> sup.inTurn,
                     kind |-> IF ok THEN "released" ELSE "not_released",
                     bound |-> sup.bound]
    <3>1. notes' = Append(notes, n) /\ (ok => ~sup'.alive)
      BY <1>0, <2>1 DEF Reap, Supervisor
    <3>2. n.gen = sup.gen /\ (n.kind = "released" => ok)
      OBVIOUS
    <3> QED BY <3>1, <3>2
  <2>2. CASE Settle
    <3> DEFINE n == [gen |-> sup.gen, kind |-> "ended", inTurn |-> FALSE, bound |-> FALSE]
    <3>1. notes' = Append(notes, n)
      BY <2>2 DEF Settle
    <3>2. n.gen = sup.gen /\ n.kind = "ended"
      OBVIOUS
    <3> QED BY <3>1, <3>2
  <2> QED BY <2>1, <2>2
<1>2. /\ sup'.gen = sup.gen /\ sup'.phase \in {"settling", "done"} /\ UNCHANGED up
      /\ (sup'.alive => sup.alive) /\ UNCHANGED <<leases, file>>
      /\ sup.phase \in {"stopping", "settling"}
  BY <1>0 DEF Reap, Settle, Supervisor
<1>3. up
  BY <1>2 DEF NoteInv
<1>4. /\ Len(notes') = Len(notes) + 1 /\ Len(notes) \in Nat /\ notes'[Len(notes) + 1] = n
      /\ \A i \in 1..Len(notes) : notes'[i] = notes[i]
  BY <1>0, <1>1
<1>5. sup.gen \in Nat
  BY SupFields
<1>6. ASSUME NEW i \in 1..Len(notes')
      PROVE  /\ notes'[i].gen <= sup'.gen
             /\ \A j \in i..Len(notes') : notes'[i].gen <= notes'[j].gen
             /\ notes'[i].gen = sup'.gen /\ notes'[i].kind = "released" => ~sup'.alive
  <2>1. CASE i = Len(notes) + 1
    BY <1>1, <1>2, <1>4, <1>5, <2>1
  <2>2. CASE i \in 1..Len(notes)
    <3>1. /\ notes'[i].gen <= sup'.gen
          /\ notes'[i].gen = sup'.gen /\ notes'[i].kind = "released" => ~sup'.alive
      BY <1>2, <1>4, <2>2 DEF NoteInv
    <3>2. ASSUME NEW j \in i..Len(notes') PROVE notes'[i].gen <= notes'[j].gen
      <4>1. CASE j = Len(notes) + 1
        BY <1>1, <1>2, <1>4, <3>1, <4>1
      <4>2. CASE j /= Len(notes) + 1
        <5>1. j \in i..Len(notes) /\ j \in 1..Len(notes)
          BY <1>4, <2>2, <3>2, <4>2
        <5> QED BY <1>4, <2>2, <5>1 DEF NoteInv
      <4> QED BY <4>1, <4>2
    <3> QED BY <3>1, <3>2
  <2> QED BY <1>4, <1>6, <2>1, <2>2
<1>7. NoteInv'
  BY <1>2, <1>3, <1>6 DEF NoteInv
<1>8. FailInv'
  <2>1. ByHeadless(leases'.lease) => file'.lease = leases'.lease
    BY <1>2 DEF FailInv
  <2>2. ASSUME Failed(leases'), leases'.lease.writer = sup'.gen, NEW i \in 1..Len(notes')
        PROVE  notes'[i].gen = sup'.gen
    <3>1. CASE i = Len(notes) + 1
      BY <1>1, <1>2, <1>4, <3>1
    <3>2. CASE i \in 1..Len(notes)
      BY <1>2, <1>4, <2>2, <3>2 DEF FailInv
    <3> QED BY <1>4, <2>2, <3>1, <3>2
  <2> QED BY <2>1, <2>2 DEF FailInv
<1> QED BY <1>7, <1>8

\* A note taken from the front: what is left was sent after it.
LEMMA InvNote ==
    ASSUME IInv, TakeNote
    PROVE  NoteInv' /\ FailInv'
<1> USE DEF IInv
<1> DEFINE n == Head(notes)
<1>0. /\ notes /= <<>> /\ up /\ notes' = Tail(notes) /\ UNCHANGED <<sup, up>>
      /\ notes \in Seq(Notes)
  BY DEF TakeNote, TypeInv, QueueTypes
<1>1. /\ n = notes[1] /\ n \in Notes /\ 1 \in 1..Len(notes)
      /\ Len(notes') = Len(notes) - 1 /\ Len(notes) \in Nat
      /\ \A i \in 1..Len(notes') : notes'[i] = notes[i + 1] /\ i + 1 \in 1..Len(notes)
  BY <1>0
<1>2. ASSUME NEW i \in 1..Len(notes')
      PROVE  /\ notes'[i].gen <= sup'.gen /\ n.gen <= notes'[i].gen
             /\ \A j \in i..Len(notes') : notes'[i].gen <= notes'[j].gen
             /\ notes'[i].gen = sup'.gen => sup'.phase \in {"settling", "done"}
             /\ notes'[i].gen = sup'.gen /\ notes'[i].kind = "released" => ~sup'.alive
  <2> DEFINE k == i + 1
  <2>1. notes'[i] = notes[k] /\ k \in 1..Len(notes) /\ k \in 1..Len(notes)
    BY <1>1
  <2>2. ASSUME NEW j \in i..Len(notes') PROVE notes'[i].gen <= notes'[j].gen
    <3>1. notes'[j] = notes[j + 1] /\ j + 1 \in k..Len(notes)
      BY <1>1, <2>2
    <3> HIDE DEF k
    <3> QED BY <2>1, <3>1 DEF NoteInv
  <2> HIDE DEF k
  <2> QED BY <1>0, <1>1, <2>1, <2>2 DEF NoteInv
<1>3. NoteInv'
  BY <1>0, <1>2 DEF NoteInv
<1>4. /\ \/ file' = leases'
         \/ file' = file /\ leases'.lease = leases.lease
      /\ Failed(leases') =>
            \/ Failed(leases) /\ leases'.lease.writer = leases.lease.writer
            \/ leases'.lease.writer \in {n.gen, None}
  BY <1>1, NoteLease
<1>5. ByHeadless(leases'.lease) => file'.lease = leases'.lease
  BY <1>4 DEF FailInv
<1>6. ASSUME Failed(leases'), leases'.lease.writer = sup'.gen, NEW i \in 1..Len(notes')
      PROVE  notes'[i].gen = sup'.gen
  <2>1. CASE Failed(leases) /\ leases'.lease.writer = leases.lease.writer
    BY <1>0, <1>1, <1>6, <2>1 DEF FailInv
  <2>2. CASE leases'.lease.writer = n.gen
    <3>1. sup'.gen \in Nat /\ notes'[i] \in Notes
      BY <1>0, <1>1, SupFields
    <3>2. notes'[i].gen \in Nat /\ n.gen \in Nat
      BY <1>1, <3>1, DaemonConstants DEF Notes
    <3> QED BY <1>2, <1>6, <2>2, <3>1, <3>2
  <2>3. CASE leases'.lease.writer = None
    BY <1>0, <1>6, <2>3, SupFields, LeaseConstants
  <2> QED BY <1>4, <1>6, <2>1, <2>2, <2>3
<1> QED BY <1>3, <1>5, <1>6 DEF FailInv

\* Frames, the tick, time, a crash, a restart and the removal of a row.
LEMMA InvRest ==
    ASSUME IInv, TakeFrame \/ RemoveRow \/ Tick \/ ClockTick \/ Crash \/ Restart
    PROVE  NoteInv' /\ FailInv'
<1> USE DEF IInv
<1>0. sup \in Supervisor
  BY DEF TypeInv, SupInv
<1>1. CASE TakeFrame \/ RemoveRow \/ Tick \/ ClockTick
  <2>1. UNCHANGED <<sup, notes, up>>
    BY <1>1 DEF TakeFrame, RemoveRow, Tick, ClockTick
  <2>2. NoteInv'
    BY <2>1, NotesKept DEF NoteInv
  <2>3. CASE TakeFrame
    BY <2>1, <2>2, <2>3, FrameStep, FailSame
  <2>4. CASE Tick
    <3>1. ByHeadless(leases'.lease) => file'.lease = leases'.lease
      BY <2>4, TickLease DEF FailInv
    <3>2. Failed(leases') => leases' = leases
      BY <2>4, TickLease
    <3> QED BY <2>1, <2>2, <3>1, <3>2, FailKept
  <2>5. CASE RemoveRow \/ ClockTick
    BY <2>1, <2>2, <2>5, FailSame DEF RemoveRow, ClockTick
  <2> QED BY <1>1, <2>3, <2>4, <2>5
<1>2. CASE Crash
  <2>1. /\ notes' = <<>> /\ UNCHANGED <<leases, file>> /\ sup'.phase \in {"none", "done"}
    BY <1>0, <1>2 DEF Crash, Supervisor
  <2> QED BY <2>1 DEF NoteInv, FailInv
<1>3. CASE Restart
  <2>1. ~up /\ UNCHANGED <<file, notes>>
    BY <1>3 DEF Restart
  <2>2. notes' = <<>> /\ up'
    BY <1>3, <2>1 DEF NoteInv, Restart
  <2>3. ByHeadless(leases'.lease) => leases' = file
    BY <1>3, RestartLease
  <2> QED BY <2>1, <2>2, <2>3 DEF NoteInv, FailInv
<1> QED BY <1>1, <1>2, <1>3

\* The whole invariant is inductive.
LEMMA InvStep == IInv /\ [Next]_vars => IInv'
<1> SUFFICES ASSUME IInv, [Next]_vars PROVE IInv'
  OBVIOUS
<1>1. TypeInv'
  BY TypeStep DEF IInv
<1>2. CASE UNCHANGED vars
  BY <1>1, <1>2, NotesKept, FailSame DEF vars, IInv, NoteInv
<1>3. CASE Next
  <2>1. NoteInv' /\ FailInv'
    BY <1>3, InvTerminals, InvPrepare, InvSupervisor, InvSent, InvNote, InvRest
    DEF Next, SupervisorStep
  <2> QED BY <1>1, <2>1 DEF IInv
<1> QED BY <1>2, <1>3

\* The initial state has it.
LEMMA InvInit == Init => IInv
<1> SUFFICES ASSUME Init PROVE IInv
  OBVIOUS
<1>1. TypeInv
  BY TypeInit
<1>2. NoteInv
  BY DEF Init, NoteInv
<1>3. FailInv
  BY DEF Init, NoLeases, FailInv, Failed
<1> QED BY <1>1, <1>2, <1>3 DEF IInv

----------------------------------------------------------------------------
(* A failed release holds, a waiter is kept *)

\* A step that moves the lease is an announcement, a turn in a terminal, a note, the
\* tick or a restart.
LEMMA LeaseMoves ==
    ASSUME TypeInv, [Next]_vars, leases'.lease /= leases.lease
    PROVE  \/ \E t \in Terminals : HookAnnounces(t) \/ PluginAnnounces(t)
           \/ \E t \in Terminals : \E remote \in BOOLEAN : SharedTurn(t, remote)
           \/ TakeNote \/ Tick \/ Restart
<1>1. CASE UNCHANGED leases
  BY <1>1
<1>2. CASE ReportLeaf
  <2>1. doc.written \in Records
    BY <1>2, SupFields DEF ReportLeaf, Records
  <2> QED BY <1>2, <2>1, ReportGood DEF ReportLeaf, TypeInv
<1>3. CASE TakeFrame
  BY <1>3, FrameStep
<1> QED
  BY <1>1, <1>2, <1>3
  DEF vars, Next, OpeningStep, SupervisorStep, StartTerminal, LoadTranscript, Type, SwitchAway,
      ExitTerminal, PrepareOpening, Launch, OpeningFails, FinishSpawn, WebTurn, BeginTurn,
      RefuseTurn, TakeShutdown, Settle, Reap, Write, CompleteTurn, HarnessExits, Stopping, Panic,
      OrphanExits, RemoveRow, ClockTick, Crash

FailedStays ==
    Failed(leases) /\ ~Failed(leases') /\ leases.lease.writer /= None =>
        ~(sup.alive /\ sup.gen = leases.lease.writer)

\* A step ends a failed release only when its recorded process is gone.
LEMMA FailedStep == IInv /\ [Next]_vars => FailedStays
<1> SUFFICES ASSUME IInv, [Next]_vars, Failed(leases), ~Failed(leases'),
                    leases.lease.writer /= None, sup.alive, sup.gen = leases.lease.writer
             PROVE  FALSE
  BY DEF FailedStays
<1>0. TypeInv /\ leases'.lease /= leases.lease
  BY DEF IInv, Failed
<1>1. ASSUME NEW t \in Terminals, HookAnnounces(t) \/ PluginAnnounces(t) PROVE FALSE
  BY <1>0, <1>1, Announced, OpenedStep
<1>2. ASSUME NEW t \in Terminals, NEW remote \in BOOLEAN, SharedTurn(t, remote) PROVE FALSE
  BY <1>0, <1>2, TurnStartedGood DEF SharedTurn, TypeInv
<1>3. CASE TakeNote
  <2>1. notes /= <<>> /\ notes \in Seq(Notes)
    BY <1>0, <1>3 DEF TakeNote, TypeInv, QueueTypes
  <2>2. Head(notes) = notes[1] /\ 1 \in 1..Len(notes) /\ Head(notes) \in Notes
    BY <2>1
  <2>3. Head(notes).gen = sup.gen
    BY <2>2 DEF IInv, FailInv
  <2>4. Head(notes).kind /= "released"
    BY <2>2, <2>3 DEF IInv, NoteInv
  <2> QED BY <1>0, <1>3, <2>2, <2>4, NoteLease
<1>4. CASE Tick
  BY <1>0, <1>4, TickLease DEF AliveWriters
<1>5. CASE Restart
  <2>1. ByHeadless(leases.lease)
    BY <1>0 DEF TypeInv, Good, EntryOK, Leases, Entry, Failed, ByHeadless
  <2>2. file.lease = leases.lease
    BY <2>1 DEF IInv, FailInv
  <2>3. Failed(file)
    BY <2>2 DEF Failed
  <2> QED BY <1>0, <1>5, <2>2, <2>3, RestartLease
<1> QED BY <1>0, <1>1, <1>2, <1>3, <1>4, <1>5, LeaseMoves

\* A release that failed stays with its writer until the recorded process is gone:
\* whoever opens, types or asks again, whatever crashes or panics, in whichever order
\* the pump takes frames, notes and ticks.
THEOREM FailedReleaseKept == Spec => FailedReleaseHolds
<1>1. IInv /\ [Next]_vars => [FailedStays]_vars
  BY FailedStep
<1>2. FailedReleaseHolds <=> [][FailedStays]_vars
  BY PTL DEF FailedReleaseHolds, FailedStays
<1> QED BY <1>1, <1>2, InvInit, InvStep, PTL DEF Spec

WaiterStays ==
    \A t \in Terminals :
        Awaits(leases.lease, t) /\ term[t].proc = "up" =>
            \/ Awaits(leases'.lease, t) \/ Holds(leases'.lease, t)
            \/ /\ ~Failed(leases)
               /\ \E u \in Terminals : Awaits(leases'.lease, u) \/ Holds(leases'.lease, u)

\* A step that moves the lease leaves a running waiter waiting, hands it the lease, or
\* gives its place, in a release that has not failed, to the terminal that opens.
LEMMA WaiterStep == IInv /\ [Next]_vars => WaiterStays
<1> SUFFICES ASSUME IInv, [Next]_vars, NEW t \in Terminals, Awaits(leases.lease, t),
                    term[t].proc = "up", leases'.lease /= leases.lease
             PROVE  \/ Awaits(leases'.lease, t) \/ Holds(leases'.lease, t)
                    \/ /\ ~Failed(leases)
                       /\ \E u \in Terminals :
                             Awaits(leases'.lease, u) \/ Holds(leases'.lease, u)
  BY DEF WaiterStays
<1>0. TypeInv /\ t \in AliveTerminals
  BY DEF IInv, AliveTerminals
<1>1. ASSUME NEW u \in Terminals, HookAnnounces(u) \/ PluginAnnounces(u)
      PROVE  \/ Awaits(leases'.lease, t)
             \/ ~Failed(leases) /\ (Awaits(leases'.lease, u) \/ Holds(leases'.lease, u))
  BY <1>0, <1>1, Announced, OpenedStep DEF Names
<1>2. ASSUME NEW u \in Terminals, NEW remote \in BOOLEAN, SharedTurn(u, remote) PROVE FALSE
  BY <1>0, <1>2, TurnStartedGood DEF SharedTurn, TypeInv, Awaits
<1>3. CASE TakeNote
  <2>1. notes /= <<>> /\ notes \in Seq(Notes)
    BY <1>0, <1>3 DEF TakeNote, TypeInv, QueueTypes
  <2>2. Head(notes) \in Notes
    BY <2>1
  <2> QED BY <1>0, <1>3, <2>2, NoteLease
<1>4. CASE Tick
  BY <1>0, <1>4, TickLease
<1>5. CASE Restart
  <2>1. file.lease = leases.lease
    BY DEF IInv, FailInv, Awaits
  <2> QED BY <1>0, <1>5, <2>1, RestartLease
<1> QED BY <1>0, <1>1, <1>2, <1>3, <1>4, <1>5, LeaseMoves

\* A terminal waiting for a headless writer is never forgotten while it runs: through
\* releases that fail or that nobody observes, panics, crashes and restarts, it waits on
\* or takes the lease, and loses its place only to a terminal that opens the conversation
\* before the release is over.
THEOREM WaiterKept == Spec => WaiterIsKept
<1>1. IInv /\ [Next]_vars => [WaiterStays]_vars
  BY WaiterStep
<1>2. WaiterIsKept <=> [][WaiterStays]_vars
  BY PTL DEF WaiterIsKept, WaiterStays
<1> QED BY <1>1, <1>2, InvInit, InvStep, PTL DEF Spec

=============================================================================
