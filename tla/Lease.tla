------------------------------- MODULE Lease -------------------------------
(***************************************************************************)
(* The one-writer lease of one Claude Code conversation (src/rc/lease.rs)  *)
(* as operators on its state: who holds the conversation, whether the      *)
(* holder may write, and how a terminal that takes it over is judged.      *)
(* Conversations share nothing but the epoch counter and the caps on       *)
(* remembered conversations, so one is modelled.                           *)
(*                                                                         *)
(* The state L is a record:                                                *)
(*   lease   the entry of Leases::threads, or None                         *)
(*   output  Leases::output: when the headless writer last showed output   *)
(*   leaf    Leases::writer_leaf: the last record it reported, or None     *)
(*   ran     Leases::headless_ran names the conversation                   *)
(*   epoch   Leases::epoch                                                 *)
(* and w, the world an operation looks at, is a record:                    *)
(*   now       the wall clock                                              *)
(*   started   when each terminal process started                          *)
(*   alive     the terminals and headless writers whose process runs       *)
(*   disk      terminals whose newest record is in the transcript          *)
(*   resumed   the headless records on the branch `claude --resume` takes  *)
(*   readable  whether the transcript can be read within its limit         *)
(***************************************************************************)
EXTENDS Integers

CONSTANTS
    None,      \* Option::None
    Terminals, \* terminal processes, by pid and start time
    Writers,   \* headless writer processes, by pid and start time
    Margin,    \* START_MARGIN_MS
    Memory,    \* OUTPUT_MEMORY_MS
    Deadline   \* RELEASE_DEADLINE_MS

ASSUME LeaseConstants ==
    /\ Margin \in Nat /\ Memory \in Nat /\ Deadline \in Nat
    /\ None \notin Terminals /\ None \notin Writers
    /\ None \notin Int
    /\ Terminals \cap Writers = {}   \* a process is one or the other

----------------------------------------------------------------------------
(* Types *)

Records == Nat \ {0}   \* the headless writers' records, in writing order

Terminal == [pid : Terminals, plugin : BOOLEAN]

\* The branch a terminal's plugin named: the headless records on it.
Loaded == [branch : SUBSET Records]

Entry ==
    [epoch : Nat,
     kind : {"tui", "web", "headless"},
     term : Terminal \cup {None},             \* of a tui or web holder
     state : {"held", "releasing", "release_failed", "stale"},
     next : Terminal \cup {None},
     deadline : Int \cup {None},
     writer : Writers \cup {None},
     loaded : Loaded \cup {None}]

Leases ==
    [lease : Entry \cup {None},
     output : Int \cup {None},
     leaf : Records \cup {None},
     ran : BOOLEAN,
     epoch : Nat]

ASSUME NoneIsNoRecord == None \notin Terminal \cup Loaded \cup Entry

NoLeases == [lease |-> None, output |-> None, leaf |-> None, ran |-> FALSE, epoch |-> 0]

----------------------------------------------------------------------------
(* What the headless writer shows *)

RecordOutput(L, w) == [L EXCEPT !.output = w.now, !.ran = TRUE]

RecordUnobservedOutput(L, w) == [RecordOutput(L, w) EXCEPT !.leaf = None]

WriterTurnStarted(L) == [L EXCEPT !.leaf = None]

WriterReported(L, leaf) == [L EXCEPT !.leaf = leaf, !.ran = TRUE]

----------------------------------------------------------------------------
(* Judging a terminal *)

OutputSinceStart(L, pid, w) ==
    L.output = None \/ L.output >= w.started[pid] - Margin


Stale(L, pid, w) ==
    /\ L.output /= None
    /\ L.output >= w.started[pid] - Margin
    /\ w.now - L.output <= Memory

\* descends: the terminal's branch against the writer's last record.  Until its
\* own record is on disk, only the branch Claude Code would resume is known.
Branch(loaded, leaf, pid, w) ==
    CASE ~w.readable -> "unknown"
      [] w.readable /\ pid \in w.disk ->
            IF leaf \in loaded.branch THEN "holds" ELSE "lacks"
      [] OTHER -> IF leaf \in w.resumed THEN "resumed_holds" ELSE "resumed_lacks"

JudgedByBranch(L, t) == t.plugin /\ (L.ran \/ L.leaf /= None)

ByBranch(L, t, loaded, w) ==
    IF /\ L.leaf /= None
       /\ loaded /= None
       /\ \/ Branch(loaded, L.leaf, t.pid, w) = "holds"
          \/ /\ Branch(loaded, L.leaf, t.pid, w) = "resumed_holds"
             /\ ~OutputSinceStart(L, t.pid, w)
    THEN "held" ELSE "stale"

Judge(L, t, loaded, w) ==
    CASE JudgedByBranch(L, t) -> ByBranch(L, t, loaded, w)
      [] ~JudgedByBranch(L, t) /\ Stale(L, t.pid, w) -> "stale"
      [] OTHER -> "held"

----------------------------------------------------------------------------
(* Moving the lease *)

SetLease(L, kind, t, state) ==
    [L EXCEPT !.epoch = @ + 1,
              !.lease = [epoch |-> L.epoch + 1, kind |-> kind, term |-> t,
                         state |-> state, next |-> None, deadline |-> None,
                         writer |-> None, loaded |-> None]]

\* The lease passes to terminal t, which named `loaded`, in the given state.
HandTo(L, t, loaded, state) ==
    [SetLease(L, "tui", t, state) EXCEPT !.lease.loaded = loaded]

Grant(L, t, loaded, w) == HandTo(L, t, loaded, Judge(L, t, loaded, w))

ByTerminal(lease) == lease /= None /\ lease.kind \in {"tui", "web"}
ByHeadless(lease) == lease /= None /\ lease.kind = "headless"

Holds(lease, pid)  == ByTerminal(lease) /\ lease.term.pid = pid
Awaits(lease, pid) == ByHeadless(lease) /\ lease.next /= None /\ lease.next.pid = pid

\* A terminal already holding or awaiting the lease announces itself again:
\* only the branch it names is judged, and only while it holds the lease.
Reopened(L, t, loaded, w) ==
    LET old    == L.lease
        named  == IF loaded /= None THEN loaded ELSE old.loaded
        plugin == [(IF Holds(old, t.pid) THEN old.term ELSE old.next)
                      EXCEPT !.plugin = @ \/ t.plugin]
        known  == IF Holds(old, t.pid)
                  THEN [L EXCEPT !.lease.term = plugin, !.lease.loaded = named]
                  ELSE [L EXCEPT !.lease.next = plugin, !.lease.loaded = named]
        judged == ByBranch(known, plugin, named, w)
    IN  IF /\ Holds(old, t.pid)
           /\ old.state \in {"held", "stale"}
           /\ JudgedByBranch(known, plugin)
           /\ judged /= old.state
        THEN [SetLease(known, old.kind, plugin, judged) EXCEPT !.lease.loaded = named]
        ELSE known

\* The lease is with a writer whose release failed: the first terminal to open
\* the conversation becomes the one that takes over.
Queued(L, t, loaded) ==
    IF L.lease.next = None
    THEN [L EXCEPT !.lease.next = t, !.lease.loaded = loaded] ELSE L

\* A running headless writer is asked to hand over to terminal t at its turn
\* boundary, within the deadline; `writer` is its process when known.
Released(L, t, loaded, writer, w) ==
    [SetLease(L, "headless", None, "releasing")
        EXCEPT !.lease.next = t, !.lease.loaded = loaded,
               !.lease.deadline = w.now + Deadline, !.lease.writer = writer]

\* Leases::opened, and the daemon's release_writer after it: terminal t loaded
\* the conversation, `headless` when a headless writer runs it.
Opened(L, t, loaded, headless, writer, w) ==
    CASE Holds(L.lease, t.pid) \/ Awaits(L.lease, t.pid) -> Reopened(L, t, loaded, w)
      [] /\ ~(Holds(L.lease, t.pid) \/ Awaits(L.lease, t.pid))
         /\ L.lease /= None /\ L.lease.state = "release_failed" -> Queued(L, t, loaded)
      [] OTHER -> IF headless THEN Released(L, t, loaded, writer, w)
                  ELSE Grant(L, t, loaded, w)

\* The headless writer ended: whoever waits takes the conversation.
HeadlessEnded(L, w) ==
    CASE ~ByHeadless(L.lease) -> L
      [] ByHeadless(L.lease) /\ L.lease.next /= None ->
            Grant(L, L.lease.next, L.lease.loaded, w)
      [] OTHER -> [L EXCEPT !.lease = None]

\* Mutant: a release that fails forgets who waits for it.
ReleaseFailedAlone(L, writer) ==
    [SetLease(L, "headless", None, "release_failed") EXCEPT !.leaf = None, !.lease.writer = writer]

\* The headless writer ended and its process may still run.
ReleaseFailed(L, writer) ==
    LET old  == L.lease
        next == CASE ByHeadless(old) -> old.next
                  [] ByTerminal(old) -> old.term
                  [] OTHER -> None
    IN  IF ByHeadless(old) /\ old.state = "release_failed" THEN L
        ELSE [SetLease(L, "headless", None, "release_failed")
                 EXCEPT !.leaf = None, !.lease.next = next, !.lease.writer = writer,
                        !.lease.loaded = IF old = None THEN None ELSE old.loaded]

\* A writer that ended unobserved may have written until now: a waiting
\* terminal takes the conversation as stale, or the lease ends.
EndedUnobserved(L, w) ==
    LET seen == RecordUnobservedOutput(L, w)
    IN  IF L.lease.next /= None /\ L.lease.next.pid \in w.alive
        THEN HandTo(seen, L.lease.next, L.lease.loaded, "stale")
        ELSE [seen EXCEPT !.lease = None]

WriterGone(lease, w) == lease.writer /= None /\ lease.writer \notin w.alive

LiftGoneWriters(L, w) ==
    IF L.lease /= None /\ L.lease.state = "release_failed" /\ WriterGone(L.lease, w)
    THEN EndedUnobserved(L, w) ELSE L


IsOverdue(lease, w) ==
    /\ lease /= None /\ lease.state = "releasing"
    /\ lease.deadline /= None /\ w.now >= lease.deadline

\* Mutant: a handover whose writer went unobserved waits on.
LiftNone(L, row, w) == L

\* `row`: the daemon still has a session row for the writer.
LiftUnobservedReleases(L, row, w) ==
    IF IsOverdue(L.lease, w) /\ ~row /\ WriterGone(L.lease, w)
    THEN EndedUnobserved(L, w) ELSE L

\* A turn started in the holding terminal: web input runs under the web's
\* lease, typing takes it back.
TurnStarted(L, remote) ==
    LET old  == L.lease
        swap(kind) == [SetLease(L, kind, old.term, "held") EXCEPT !.lease.loaded = old.loaded]
    IN  CASE old = None -> L
          [] old /= None /\ old.state = "held" /\ old.kind = "tui"
                /\ remote /\ old.term.plugin -> swap("web")
          [] old /= None /\ old.state = "held" /\ old.kind = "web" /\ ~remote -> swap("tui")
          [] OTHER -> L

\* Mutant: a start takes every headless writer for gone.
LoadAlone(L, w) ==
    IF ByHeadless(L.lease) THEN EndedUnobserved(L, w)
    ELSE IF ByTerminal(L.lease) THEN [L EXCEPT !.lease.kind = "tui"] ELSE L

\* Leases::load at the daemon's start: expire with no headless writer left, and
\* a web holder back to its terminal.
Load(L, w) ==
    LET old == L.lease
    IN  CASE /\ ByHeadless(old) /\ old.state = "release_failed"
             /\ old.writer /= None /\ old.writer \in w.alive -> L
          [] /\ ByHeadless(old)
             /\ ~(old.state = "release_failed" /\ old.writer /= None
                    /\ old.writer \in w.alive) -> EndedUnobserved(L, w)
          [] ByTerminal(old) ->
                IF old.term.pid \in w.alive THEN [L EXCEPT !.lease.kind = "tui"]
                ELSE [L EXCEPT !.lease = None]
          [] OTHER -> L

=============================================================================
