---------------------------- MODULE LeaseDaemon ----------------------------
(***************************************************************************)
(* One conversation handed between the daemon's headless writer and the    *)
(* terminals that open it (src/rc/daemon/leases.rs, the lease parts of     *)
(* daemon/projection.rs, and the end of Supervisor::run).                  *)
(*                                                                         *)
(* The processes: terminals, which load the transcript, announce           *)
(* themselves and type; the supervisor of the current headless generation  *)
(* with its harness process; and the daemon, which reads the supervisor's  *)
(* frames and notes from two queues in any order, keeps the lease, and     *)
(* saves it to a file that a restart loads.                                *)
(***************************************************************************)
EXTENDS Lease, Sequences, FiniteSets

CONSTANTS
    Plugged,     \* terminals that run the AgentGit plugin
    BoundWriters,\* whether a writer's process is reported: a subset of BOOLEAN
    Faults,      \* subset of FaultKinds
    MaxClock,    \* bound: last clock tick
    MaxRecords,  \* bound: records the headless writers append
    MaxQueue,    \* bound: commands, frames or notes waiting
    MaxEpoch     \* bound: epochs given out to terminals opening and typing

FaultKinds ==
    {"crash",  \* the daemon dies
     "panic"}  \* a supervisor's task panics

ASSUME DaemonConstants ==
    /\ Faults \subseteq FaultKinds
    /\ Plugged \subseteq Terminals
    /\ BoundWriters \subseteq BOOLEAN
    /\ Writers \subseteq Nat \ {0} /\ Terminals \subseteq Nat   \* process ids
    /\ MaxClock \in Nat /\ MaxRecords \in Nat /\ MaxQueue \in Nat \ {0} /\ MaxEpoch \in Nat

VARIABLES
    leases, \* Daemon::leases
    file,   \* leases.json
    now,    \* the wall clock
    term,   \* the terminal processes
    doc,    \* the transcript: records written, branch `--resume` takes
    row,    \* the daemon's session row of the conversation, or None
    open,   \* the writer process the roster names for its open turn, or None
    sup,    \* the supervisor of the latest generation and its harness
    cmds,   \* its command queue
    frames, \* its frames, on the way to the pump
    notes,  \* its notes, on the way to the pump
    up,     \* the daemon runs
    overtaken \* history: a note, or the tick, went ahead of frames or notes
              \* sent before it

vars == <<leases, file, now, term, doc, row, open, sup, cmds, frames, notes, up, overtaken>>

TermState ==
    [proc : {"off", "up", "gone"},
     on : BOOLEAN,          \* Claude Code's registry names the conversation for it
     hook : BOOLEAN,        \* its SessionStart hook has yet to announce it
     started : Nat,
     seen : Nat,            \* records the transcript held when it loaded it
     branch : SUBSET Records,
     disk : BOOLEAN]        \* its newest record is in the transcript

Row == [gen : Writers, status : {"idle", "running", "ended"}, ended : BOOLEAN,
        released : BOOLEAN]

ASSUME NoneIsNoRow == None \notin Row

Supervisor ==
    [gen : Nat,             \* 0 before the first
     phase : {"none", "opening", "launched", "idle", "turn", "stopping", "settling", "done"},
     alive : BOOLEAN,       \* its harness process runs
     bound : BOOLEAN,       \* that process is known to the daemon
     inTurn : BOOLEAN,      \* stopped inside a turn
     writes : BOOLEAN,      \* the harness has not finished a turn it began
     branch : SUBSET Records]

Frames == [gen : Writers, kind : {"started", "completed", "ended"}]
Notes  == [gen : Writers, kind : {"released", "not_released", "ended"},
           inTurn : BOOLEAN, bound : BOOLEAN]

Serving == sup.phase \in {"idle", "turn"}   \* the supervisor takes commands

AliveTerminals == {t \in Terminals : term[t].proc = "up"}
AliveWriters   == IF sup.alive THEN {sup.gen} ELSE {}

\* What a lease operation sees; `readable` is the transcript's.
World(readable) ==
    [now |-> now, started |-> [t \in Terminals |-> term[t].started],
     alive |-> AliveTerminals \cup AliveWriters,
     disk |-> {t \in Terminals : term[t].disk},
     resumed |-> doc.resumed, readable |-> readable]

Init ==
    /\ leases = NoLeases
    /\ file = NoLeases
    /\ now = 0
    /\ term = [t \in Terminals |->
                 [proc |-> "off", on |-> FALSE, hook |-> FALSE, started |-> 0, seen |-> 0,
                  branch |-> {}, disk |-> FALSE]]
    /\ doc = [written |-> 0, resumed |-> {}]
    /\ row = None
    /\ open = None
    /\ sup = [gen |-> 0, phase |-> "none", alive |-> FALSE, bound |-> FALSE,
              inTurn |-> FALSE, writes |-> FALSE, branch |-> {}]
    /\ cmds = <<>> /\ frames = <<>> /\ notes = <<>>
    /\ up = TRUE
    /\ overtaken = FALSE

Saved == file' = leases'

Send(command) ==
    cmds' = IF Len(cmds) < MaxQueue /\ Serving
            THEN Append(cmds, command) ELSE cmds

----------------------------------------------------------------------------
(* Terminals and the transcript (external: Claude Code and the person) *)

StartTerminal(t) ==
    /\ term[t].proc = "off"
    /\ term' = [term EXCEPT ![t].proc = "up", ![t].started = now]
    /\ UNCHANGED <<leases, file, now, doc, row, open, sup, cmds, frames, notes, up, overtaken>>

\* It loads the branch `claude --resume` takes, at startup or when the person
\* switches to the conversation; its SessionStart hook runs next
\* (and does not ask again when it finds no daemon).
LoadTranscript(t) ==
    /\ term[t].proc = "up" /\ ~term[t].on
    /\ term' = [term EXCEPT ![t].on = TRUE, ![t].hook = up, ![t].disk = FALSE,
                            ![t].seen = doc.written, ![t].branch = doc.resumed]
    /\ UNCHANGED <<leases, file, now, doc, row, open, sup, cmds, frames, notes, up, overtaken>>

\* Anything typed, held back by the plugin or not, makes this terminal's branch
\* the one resumed next.
Typed(t) ==
    /\ term[t].proc = "up" /\ term[t].on
    /\ term' = [term EXCEPT ![t].disk = TRUE]
    /\ doc' = [doc EXCEPT !.resumed = term[t].branch]

Type(t) ==
    /\ Typed(t)
    /\ UNCHANGED <<leases, file, now, row, open, sup, cmds, frames, notes, up, overtaken>>

SwitchAway(t) ==
    /\ term[t].on /\ ~term[t].hook
    /\ term' = [term EXCEPT ![t].on = FALSE]
    /\ UNCHANGED <<leases, file, now, doc, row, open, sup, cmds, frames, notes, up, overtaken>>

ExitTerminal(t) ==
    /\ term[t].proc = "up"
    /\ term' = [term EXCEPT ![t].proc = "gone", ![t].on = FALSE, ![t].hook = FALSE,
                            ![t].seen = 0, ![t].branch = {}]
    /\ UNCHANGED <<leases, file, now, doc, row, open, sup, cmds, frames, notes, up, overtaken>>

----------------------------------------------------------------------------
(* The daemon: terminals *)

\* Daemon::headless_writer
HeadlessWriter == row /= None /\ ~row.ended /\ ~row.released

\* Daemon::terminal_opened: t loaded the conversation, with the plugin or
\* without, naming its branch or not.
TerminalOpened(t, plugin, loaded) ==
    \E readable \in BOOLEAN :
        LET writer  == IF HeadlessWriter /\ sup.bound THEN row.gen ELSE None
            opened  == Opened(leases, [pid |-> t, plugin |-> plugin], loaded,
                              HeadlessWriter, writer, World(readable))
            release == opened.lease.state = "releasing"
                         /\ opened.epoch > leases.epoch
        IN  /\ HeadlessWriter => now + Deadline <= MaxClock
            /\ opened.epoch <= MaxEpoch
            /\ leases' = opened
            /\ IF release /\ row.status = "idle" THEN Send("shutdown") ELSE UNCHANGED cmds
            /\ Saved

\* known_conversation: the roster keeps every conversation the daemon ran.
Known == leases.lease /= None \/ sup.gen > 0

\* The SessionStart hook of terminal t announces it, once for each load.
HookAnnounces(t) ==
    /\ up /\ term[t].on /\ term[t].hook
    /\ term' = [term EXCEPT ![t].hook = FALSE]
    /\ IF Known THEN TerminalOpened(t, FALSE, None)
       ELSE UNCHANGED <<leases, file, cmds>>
    /\ UNCHANGED <<now, doc, row, open, sup, frames, notes, up, overtaken>>

\* Terminal t started before u; process ids decide between equal start times.
Earlier(t, u) ==
    \/ term[t].started < term[u].started
    \/ term[t].started = term[u].started /\ t < u

\* Registration::live: the process speaks for the conversation when no terminal
\* that started earlier names it, and no headless writer but the one its lease
\* is handed over from.
Registered(t) ==
    /\ term[t].on /\ ~term[t].hook
    /\ \A other \in Terminals \ {t} : term[other].on => Earlier(t, other)
    /\ sup.alive => /\ ByHeadless(file.lease)
                    /\ file.lease.state \in {"releasing", "release_failed"}
                    /\ file.lease.writer = sup.gen

\* The plugin of terminal t asks for the lease, and asks again while it waits.
PluginAnnounces(t) ==
    /\ up /\ t \in Plugged /\ Registered(t) /\ Known
    /\ \E loaded \in {None, [branch |-> term[t].branch]} : TerminalOpened(t, TRUE, loaded)
    /\ UNCHANGED <<now, term, doc, row, open, sup, frames, notes, up, overtaken>>

\* Daemon::lease_refusal: web input is refused unless the lease is Held.
WebRefused == leases.lease /= None /\ leases.lease.state /= "held"

\* A turn in a terminal whose plugin the daemon shares: typed there, or web
\* input run there, which the daemon refuses unless the lease is Held.
SharedTurn(t, remote) ==
    /\ up /\ t \in Plugged /\ Registered(t) /\ row = None
    /\ remote => ~WebRefused
    /\ Typed(t)
    /\ leases' = TurnStarted(leases, remote)
    /\ leases'.epoch <= MaxEpoch
    /\ IF leases' /= leases THEN Saved ELSE UNCHANGED file
    /\ UNCHANGED <<now, row, open, sup, cmds, frames, notes, up, overtaken>>

----------------------------------------------------------------------------
(* The headless writer: its supervisor and harness *)

\* No process names the conversation (session_is_live, native_writer_active).
NobodyRuns == ~sup.alive /\ \A t \in Terminals : ~term[t].on

\* A web resume may open a writer: no row, no opening, no process naming the
\* conversation, no failed release.
MayResume ==
    /\ row = None /\ NobodyRuns /\ sup.phase \in {"none", "done"}
    /\ ~(leases.lease /= None /\ leases.lease.state = "release_failed")

\* prepare_opening, under the daemon's lock: the next generation is reserved.
\* The reservation keeps other openings out; headless_writer does not look at it.
PrepareOpening ==
    /\ up /\ MayResume
    /\ sup.gen + 1 \in Writers
    /\ sup' = [gen |-> sup.gen + 1, phase |-> "opening", alive |-> FALSE, bound |-> FALSE,
               inTurn |-> FALSE, writes |-> FALSE, branch |-> {}]
    /\ UNCHANGED <<leases, file, now, term, doc, row, open, cmds, frames, notes, up, overtaken>>

\* AnyDriver::launch, without the lock: the harness starts unless a terminal has
\* the conversation by now.
Launch(bound) ==
    /\ up /\ sup.phase = "opening" /\ NobodyRuns
    /\ sup' = [sup EXCEPT !.phase = "launched", !.alive = TRUE, !.bound = bound,
                          !.branch = doc.resumed]
    /\ UNCHANGED <<leases, file, now, term, doc, row, open, cmds, frames, notes, up, overtaken>>

\* The launch fails, times out or joins a terminal instead; the reservation is
\* released once what was started has exited.
OpeningFails ==
    /\ up /\ sup.phase \in {"opening", "launched"}
    /\ sup' = [sup EXCEPT !.phase = "done", !.alive = FALSE]
    /\ UNCHANGED <<leases, file, now, term, doc, row, open, cmds, frames, notes, up, overtaken>>

\* Daemon::finish_spawn: the row of the new generation, its first turn the prompt.
FinishSpawn(prompt) ==
    /\ up /\ sup.phase = "launched"
    /\ sup' = [sup EXCEPT !.phase = "idle"]
    /\ row' = [gen |-> sup.gen, status |-> "idle", ended |-> FALSE, released |-> FALSE]
    /\ cmds' = IF prompt THEN <<"turn">> ELSE <<>>
    /\ UNCHANGED <<leases, file, now, term, doc, open, frames, notes, up, overtaken>>

\* turn.start from the web.
WebTurn ==
    /\ up /\ row /= None /\ ~row.ended
    /\ ~WebRefused
    /\ Len(cmds) < MaxQueue
    /\ Send("turn")
    /\ UNCHANGED <<leases, file, now, term, doc, row, open, sup, frames, notes, up, overtaken>>

\* The harness appends a record, and is what `--resume` takes from then on.
Append1(phase) ==
    /\ doc.written < MaxRecords
    /\ LET branch == sup.branch \cup {doc.written + 1}
       IN  /\ doc' = [written |-> doc.written + 1, resumed |-> branch]
           /\ sup' = [sup EXCEPT !.branch = branch, !.phase = phase, !.writes = TRUE]

\* The supervisor takes a turn: the prompt is written, the frame queued.
BeginTurn ==
    /\ sup.phase = "idle" /\ cmds /= <<>> /\ Head(cmds) = "turn"
    /\ Len(frames) < MaxQueue
    /\ Append1("turn")
    /\ cmds' = Tail(cmds)
    /\ frames' = Append(frames, [gen |-> sup.gen, kind |-> "started"])
    /\ UNCHANGED <<leases, file, now, term, row, open, notes, up, overtaken>>

\* A turn sent while one runs, or that the harness turns down, is refused.
RefuseTurn ==
    /\ Serving /\ cmds /= <<>> /\ Head(cmds) = "turn"
    /\ cmds' = Tail(cmds)
    /\ UNCHANGED <<leases, file, now, term, doc, row, open, sup, frames, notes, up, overtaken>>

\* Inside a turn, or still exiting, the harness writes.
Write ==
    /\ sup.alive /\ sup.writes
    /\ Append1(sup.phase)
    /\ UNCHANGED <<leases, file, now, term, row, open, cmds, frames, notes, up, overtaken>>

\* Mutant: the report names the record before the turn's last.
ReportPreviousLeaf ==
    /\ up /\ sup.phase = "turn" /\ sup.writes /\ HeadlessWriter
    /\ sup' = [sup EXCEPT !.writes = FALSE]
    /\ leases' = WriterReported(leases, doc.written - 1)
    /\ Saved
    /\ UNCHANGED <<now, term, doc, row, open, cmds, frames, notes, up, overtaken>>

\* The writer's plugin reports the turn's last record (Daemon::writer_leaf).
ReportLeaf ==
    /\ up /\ sup.phase = "turn" /\ sup.writes
    /\ sup' = [sup EXCEPT !.writes = FALSE]
    /\ IF HeadlessWriter
       THEN /\ leases' = WriterReported(leases, doc.written)
            /\ Saved
       ELSE UNCHANGED <<leases, file>>
    /\ UNCHANGED <<now, term, doc, row, open, cmds, frames, notes, up, overtaken>>

\* The turn ends, its report made or lost.
CompleteTurn ==
    /\ sup.phase = "turn"
    /\ Len(frames) < MaxQueue
    /\ sup' = [sup EXCEPT !.phase = "idle", !.writes = FALSE]
    /\ frames' = Append(frames, [gen |-> sup.gen, kind |-> "completed"])
    /\ UNCHANGED <<leases, file, now, term, doc, row, open, cmds, notes, up, overtaken>>

\* The supervisor stops, told to or because the harness exited on its own.
Stopping(alive) ==
    /\ Len(frames) < MaxQueue
    /\ sup' = [sup EXCEPT !.phase = "stopping", !.alive = alive,
                          !.inTurn = sup.phase = "turn"]
    /\ frames' = Append(frames, [gen |-> sup.gen, kind |-> "ended"])
    /\ cmds' = <<>>
    /\ UNCHANGED <<leases, file, now, term, doc, row, open, notes, up, overtaken>>

\* Inside a turn the turn is interrupted first: it ends within its grace (then
\* CompleteTurn comes first, no other command being taken) or is cut here.
TakeShutdown ==
    /\ Serving
    /\ cmds /= <<>> /\ Head(cmds) = "shutdown"
    /\ Stopping(TRUE)

HarnessExits ==
    /\ Serving
    /\ Stopping(FALSE)

\* driver.shutdown: the process tree is reaped, or the cleanup fails and the
\* process may run on.
Reap(ok) ==
    /\ sup.phase = "stopping"
    /\ Len(notes) < MaxQueue
    /\ ok \/ sup.alive
    /\ sup' = [sup EXCEPT !.phase = "settling", !.alive = IF ok THEN FALSE ELSE @]
    /\ notes' = Append(notes, [gen |-> sup.gen, inTurn |-> sup.inTurn,
                               kind |-> IF ok THEN "released" ELSE "not_released",
                               bound |-> sup.bound])
    /\ UNCHANGED <<leases, file, now, term, doc, row, open, cmds, frames, up, overtaken>>

\* The exit settlement is over.
Settle ==
    /\ sup.phase = "settling"
    /\ Len(notes) < MaxQueue
    /\ sup' = [sup EXCEPT !.phase = "done"]
    /\ notes' = Append(notes, [gen |-> sup.gen, kind |-> "ended", inTurn |-> FALSE,
                               bound |-> FALSE])
    /\ UNCHANGED <<leases, file, now, term, doc, row, open, cmds, frames, up, overtaken>>

\* The supervisor's task panics: dropping the harness kills its process group,
\* and no note follows.
Panic ==
    /\ "panic" \in Faults
    /\ Serving \/ sup.phase = "stopping"
    /\ sup' = [sup EXCEPT !.phase = "done", !.alive = FALSE,
                          !.inTurn = @ \/ sup.phase = "turn"]
    /\ cmds' = <<>>
    /\ UNCHANGED <<leases, file, now, term, doc, row, open, frames, notes, up, overtaken>>

\* A process whose cleanup failed, or that a dead daemon left behind, exits.
OrphanExits ==
    /\ sup.alive /\ sup.phase \in {"settling", "done"}
    /\ sup' = [sup EXCEPT !.alive = FALSE]
    /\ UNCHANGED <<leases, file, now, term, doc, row, open, cmds, frames, notes, up, overtaken>>

----------------------------------------------------------------------------
(* The daemon: what the supervisor says *)

\* Daemon::observe_lease_frame: output is marked, and the last record is
\* unknown from a turn's start to its report.
Observed(L, kind) ==
    CASE kind = "started" -> WriterTurnStarted(RecordOutput(L, World(TRUE)))
      [] kind = "completed" -> RecordOutput(L, World(TRUE))
      [] kind = "ended" /\ row.status = "running" -> RecordUnobservedOutput(L, World(TRUE))
      [] OTHER -> L

StatusAfter(kind) ==
    CASE kind = "started" -> "running" [] kind = "completed" -> "idle" [] OTHER -> "ended"

\* The pump projects a frame of the latest generation; without a row it says
\* nothing of a conversation.  The status a supervisor reports with a turn's
\* start and end is one frame with it; the roster's open turn follows both.
TakeFrame ==
    /\ up /\ frames /= <<>>
    /\ frames' = Tail(frames)
    /\ LET f == Head(frames)
       IN  IF f.gen /= sup.gen \/ row = None
           THEN UNCHANGED <<leases, file, row, open, cmds>>
           ELSE /\ leases' = Observed(leases, f.kind)
                /\ row' = [row EXCEPT !.status = StatusAfter(f.kind)]
                /\ open' = CASE f.kind = "started" -> IF sup.bound THEN f.gen ELSE None
                             [] f.kind = "completed" -> None
                             [] OTHER -> open
                /\ IF f.kind = "started" THEN Saved ELSE UNCHANGED file
                /\ IF f.kind = "completed" /\ leases.lease /= None
                        /\ leases.lease.state = "releasing"
                   THEN Send("shutdown") ELSE UNCHANGED cmds
    /\ UNCHANGED <<now, term, doc, sup, notes, up, overtaken>>

OlderRow(gen) == row /= None /\ row.gen /= gen

\* lease_release_failed
NotReleased(L, n) == ReleaseFailed(L, IF n.bound THEN n.gen ELSE None)

\* lease_writer_released
WriterReleased(L, n, readable) ==
    HeadlessEnded(IF n.inTurn THEN RecordUnobservedOutput(L, World(readable)) ELSE L,
                  World(readable))

\* The row of an ended supervisor goes, or stays marked while a request to it is
\* still being answered.
RowEnds == row' \in {None, [row EXCEPT !.ended = TRUE, !.status = "ended"]}

\* Its last request is answered.
RemoveRow ==
    /\ up /\ row /= None /\ row.ended
    /\ row' = None
    /\ UNCHANGED <<leases, file, now, term, doc, open, sup, cmds, frames, notes, up, overtaken>>

\* on_session_note: a reaped, or not reaped, writer, or its supervisor's end.  The
\* pump's select may take it before the frames that its supervisor sent earlier.
TakeNote ==
    /\ up /\ notes /= <<>>
    /\ overtaken' = (overtaken \/ frames /= <<>>)
    /\ notes' = Tail(notes)
    /\ LET n == Head(notes)
       IN  \/ /\ n.kind = "ended"
              /\ IF row /= None /\ row.gen = n.gen THEN RowEnds ELSE UNCHANGED row
              /\ UNCHANGED <<leases, file>>
           \/ /\ n.kind /= "ended"
              /\ row' = IF row /= None /\ row.gen = n.gen
                        THEN [row EXCEPT !.released = TRUE] ELSE row
              /\ IF OlderRow(n.gen) THEN UNCHANGED leases
                 ELSE IF n.kind = "released"
                 THEN \E readable \in BOOLEAN : leases' = WriterReleased(leases, n, readable)
                 ELSE leases' = NotReleased(leases, n)
              /\ IF leases'.epoch > leases.epoch \/ leases'.lease /= leases.lease
                 THEN Saved ELSE UNCHANGED file
    /\ UNCHANGED <<now, term, doc, open, sup, cmds, frames, up>>

\* The pump's tick: rows of supervisors that ended without a note are retired
\* (reconcile_finished_sessions), then enforce_lease_deadlines.
Retired == row /= None /\ sup.phase = "done" /\ ~row.ended

Lifted(kept) ==
    LET w == World(TRUE) IN LiftUnobservedReleases(LiftGoneWriters(leases, w), kept, w)

Tick ==
    /\ up
    /\ Retired => Len(frames) < MaxQueue
    /\ IF Retired THEN RowEnds ELSE UNCHANGED row
    /\ frames' = IF Retired THEN Append(frames, [gen |-> row.gen, kind |-> "ended"])
                 ELSE frames
    /\ leases' = Lifted(row' /= None)
    /\ IF leases' /= leases THEN Saved ELSE UNCHANGED file
    /\ IF IsOverdue(leases'.lease, World(TRUE)) /\ row' /= None
       THEN Send("shutdown") ELSE UNCHANGED cmds
    /\ overtaken' = (overtaken \/ (Retired /\ (frames /= <<>> \/ notes /= <<>>)))
    /\ UNCHANGED <<now, term, doc, open, sup, notes, up>>

----------------------------------------------------------------------------
(* Time, crashes *)

\* A clock tick is minutes.  What takes seconds at most does not wait for one:
\* hooks, queues, the pump's tick, launching (LAUNCH_TIMEOUT) and reaping
\* (SHUTDOWN_GRACE_MS).
Pending ==
    \/ frames /= <<>> \/ notes /= <<>> \/ cmds /= <<>>
    \/ sup.phase \in {"opening", "launched", "stopping"}
    \/ \E t \in Terminals : term[t].hook
    \/ up /\ \/ Retired
             \/ Lifted(row /= None) /= leases
             \/ IsOverdue(leases.lease, World(TRUE)) /\ row /= None /\ Serving

ClockTick ==
    /\ now < MaxClock
    /\ ~Pending
    /\ now' = now + 1
    /\ UNCHANGED <<leases, file, term, doc, row, open, sup, cmds, frames, notes, up, overtaken>>

\* The daemon dies.  A harness may outlive it; a hook that finds no daemon does
\* not ask again.
Crash ==
    /\ "crash" \in Faults /\ up
    /\ up' = FALSE
    /\ row' = None /\ cmds' = <<>> /\ frames' = <<>> /\ notes' = <<>>
    /\ \E alive \in {FALSE, sup.alive} :
         sup' = [sup EXCEPT !.phase = IF @ = "none" THEN @ ELSE "done", !.alive = alive,
                            !.inTurn = @ \/ sup.phase = "turn"]
    /\ term' = [t \in Terminals |-> [term[t] EXCEPT !.hook = FALSE]]
    /\ UNCHANGED <<leases, file, now, doc, open, overtaken>>

\* The next start loads the lease file, and does not save what it expired; then
\* recover_open_turns ends the process its roster names for a turn left open.  One
\* that cannot be told or will not exit runs on, and its turn stays open.
Restart ==
    /\ ~up
    /\ up' = TRUE
    /\ leases' = Load(file, World(TRUE))
    /\ open' \in {None, open}
    /\ sup' \in {[sup EXCEPT !.alive = @ /\ open /= sup.gen]}
                 \cup (IF open' = open THEN {sup} ELSE {})
    /\ UNCHANGED <<file, now, term, doc, row, cmds, frames, notes, overtaken>>

OpeningStep == (\E bound \in BoundWriters : Launch(bound)) \/ OpeningFails

SupervisorStep ==
    BeginTurn \/ RefuseTurn \/ TakeShutdown \/ Settle \/ (\E ok \in BOOLEAN : Reap(ok))

Next ==
    \/ \E t \in Terminals : StartTerminal(t)
    \/ \E t \in Terminals : LoadTranscript(t)
    \/ \E t \in Terminals : Type(t)
    \/ \E t \in Terminals : SwitchAway(t)
    \/ \E t \in Terminals : ExitTerminal(t)
    \/ \E t \in Terminals : HookAnnounces(t)
    \/ \E t \in Terminals : PluginAnnounces(t)
    \/ \E t \in Terminals : \E remote \in BOOLEAN : SharedTurn(t, remote)
    \/ PrepareOpening
    \/ OpeningStep
    \/ \E prompt \in BOOLEAN : FinishSpawn(prompt)
    \/ WebTurn
    \/ SupervisorStep
    \/ Write
    \/ ReportLeaf
    \/ CompleteTurn
    \/ HarnessExits
    \/ Panic
    \/ OrphanExits
    \/ TakeFrame
    \/ TakeNote
    \/ RemoveRow
    \/ Tick
    \/ ClockTick
    \/ Crash
    \/ Restart

Spec == Init /\ [][Next]_vars

\* Tasks and timers of a running daemon proceed, the clock too, and a daemon that
\* died is started again.  Nobody has to type, exit or open anything, and a turn
\* need never end.  The clock is strongly fair: terminals switching back and forth
\* do not stop time.
Fairness ==
    /\ WF_vars(SupervisorStep) /\ WF_vars(OpeningStep)
    /\ WF_vars(TakeFrame) /\ WF_vars(TakeNote) /\ WF_vars(Tick)
    /\ WF_vars(RemoveRow) /\ SF_vars(ClockTick) /\ WF_vars(Restart)
    /\ \A t \in Terminals : WF_vars(HookAnnounces(t))

FairSpec == Spec /\ Fairness

----------------------------------------------------------------------------
(* Properties *)

\* The type of every variable.
TypeOK ==
    /\ leases \in Leases /\ file \in Leases
    /\ now \in 0..MaxClock
    /\ term \in [Terminals -> TermState]
    /\ doc.written \in 0..MaxRecords /\ doc.resumed \subseteq Records
    /\ row \in Row \cup {None}
    /\ open \in Writers \cup {None}
    /\ sup \in Supervisor
    /\ cmds \in Seq({"turn", "shutdown"}) /\ Len(cmds) <= MaxQueue
    /\ frames \in Seq(Frames) /\ Len(frames) <= MaxQueue
    /\ notes \in Seq(Notes) /\ Len(notes) <= MaxQueue
    /\ up \in BOOLEAN /\ overtaken \in BOOLEAN

\* The headless harness may still append to the transcript.
MayWrite == sup.alive /\ (Serving \/ sup.writes)

Held(L, t) == Holds(L.lease, t) /\ L.lease.state = "held"

\* One writer per conversation: once a terminal that runs the conversation has
\* been told it holds the lease, no headless writer can write to it, whatever was
\* queued, reaped, lost in a crash or left running by one.
OneWriter ==
    \A t \in Terminals : up /\ Held(leases, t) /\ term[t].on /\ ~term[t].hook => ~MayWrite

\* Terminal t loaded everything the headless writers wrote: the last record is on
\* its branch, or it loaded the transcript after that record.
Current(t) == doc.written = 0 \/ doc.written \in term[t].branch \/ term[t].seen = doc.written

\* Terminals of the conversation that are granted the lease in a step.
Granted ==
    {t \in Terminals : Held(leases', t) /\ ~Held(leases, t) /\ term'[t].on}

\* A terminal of the conversation is granted the lease as Held only when it loaded
\* everything the headless writers wrote: a terminal that waited for a writer is
\* "judged against everything that writer produced".
GrantedIsCurrent == [][\A t \in Granted : Current(t)']_vars


Failed(L) == L.lease /= None /\ L.lease.state = "release_failed"

\* A conversation whose writer could not be reaped stays with that writer until
\* the recorded process is gone, over restarts, late notes and other terminals.
FailedReleaseHolds ==
    [][Failed(leases) /\ ~Failed(leases') /\ leases.lease.writer /= None =>
          ~(sup.alive /\ sup.gen = leases.lease.writer)]_vars

\* "A failed release whose writer is unknown waits for a daemon restart."
UnknownWaitsForRestart ==
    [][Failed(leases) /\ ~Failed(leases') /\ leases.lease.writer = None => ~up]_vars

\* A terminal that waits for a headless writer is never forgotten while it runs:
\* through a release that fails, one that nobody observes, a panic or a restart it
\* waits on or takes the lease.  Only another terminal that opens the conversation
\* before the release is over takes its place.
WaiterIsKept ==
    [][\A t \in Terminals :
          Awaits(leases.lease, t) /\ term[t].proc = "up" =>
             \/ Awaits(leases'.lease, t) \/ Holds(leases'.lease, t)
             \/ /\ ~Failed(leases)
                /\ \E u \in Terminals : Awaits(leases'.lease, u) \/ Holds(leases'.lease, u)]_vars

\* The task of a writer whose process was never recorded is gone without a word:
\* nothing can tell that process dead, and only a restart gives up on it.
LostUnrecorded ==
    /\ row = None /\ sup.phase = "done" /\ frames = <<>> /\ notes = <<>>
    /\ leases.lease.writer = None

=============================================================================
