----------------------------- MODULE DangerArm -----------------------------
(***************************************************************************)
(* A permission-mode change sent to a running session, and the mark of     *)
(* sessions that ran without permission checks (src/rc/ticket.rs,          *)
(* src/rc/daemon/guard.rs, session_rpc.rs, src/rc/supervisor/mod.rs).      *)
(*                                                                         *)
(* The daemon marks the session durably before it queues an unchecked      *)
(* mode, and takes the mark back when the instruction provably had no      *)
(* effect.  The caller's wait is bounded; whether a queued instruction is  *)
(* executed or withdrawn is decided by one compare-and-swap on its ticket. *)
(***************************************************************************)
EXTENDS Integers, Sequences, FiniteSets

CONSTANTS
    None,      \* Option::None
    Requests,  \* session.setPermissionMode requests
    Sharing,   \* subset of BOOLEAN: is the session's harness shared with native clients?
    Faults,    \* subset of {"native", "reject", "crash"}
    QueueCap,  \* capacity of the session's command queue
    MaxGen,    \* bound: generations of the session
    MaxNotes   \* bound: notes and frames waiting

ASSUME DangerConstants ==
    /\ Sharing \subseteq BOOLEAN
    /\ Faults \subseteq {"native", "reject", "crash"}
    /\ QueueCap \in Nat \ {0} /\ MaxGen \in Nat \ {0} /\ MaxNotes \in Nat \ {0}
    /\ None \notin Nat /\ None \notin Requests

VARIABLES
    row,     \* the session's Live row, or None
    roster,  \* ever_dangerous of its roster row, in memory
    disk,    \* ... and in the file
    gate,    \* the request holding the row's rpc_gate, or None
    cell,    \* Ticket::state of each request
    reply,   \* what its oneshot channel holds
    queue,   \* the session's command queue
    sup,     \* the supervisor of the latest generation
    notes,   \* its notes to the daemon
    frames,  \* its SESSION_PERMISSION_MODE frames
    answer,  \* what each caller was told
    started, \* history: requests handed to the harness
    ran,     \* history: an unchecked mode took effect, or may have
    kept     \* history: a mark was kept though nothing took effect: its withdrawal
             \* could not be saved, or the daemon died before it

ledger == <<row, roster, disk>>
ticket == <<cell, reply>>
vars == <<ledger, gate, ticket, queue, sup, notes, frames, answer, started, ran, kept>>

Modes == {"checked", "unchecked"}
Observed == Modes \cup {"unknown"}   \* the mode a harness reports
Dangerous(mode) == mode /= "checked"

Row == [gen : Nat, dangerous : BOOLEAN, arm : Nat, ended : BOOLEAN]
Command == [id : Requests, mode : Modes, armed : Nat \cup {None}]
Gate == [id : Requests, mode : Modes, armed : Nat \cup {None}, gen : Nat,
         stage : {"prepared", "waiting", "taken", "stuck"}]
Outcomes == {"applied", "refused", "unknown"}
Supervisor ==
    [gen : Nat,
     phase : {"running", "barrier", "acked", "done"},
     shared : BOOLEAN,               \* Driver::shared_executor
     cmd : Command \cup {None},      \* the instruction it took
     mode : Observed,                \* of a barrier
     outcome : Outcomes \cup {None}] \* that follows the barrier
Notes == [kind : {"disarm", "settings", "ended"}, gen : Nat, arm : Nat \cup {None},
          mode : Observed]

ASSUME NoneIsNoRecord == None \notin Row \cup Command \cup Gate

Disarm(gen, arm) == [kind |-> "disarm", gen |-> gen, arm |-> arm, mode |-> "checked"]
Settings(gen, mode) == [kind |-> "settings", gen |-> gen, arm |-> None, mode |-> mode]
Ended(gen) == [kind |-> "ended", gen |-> gen, arm |-> None, mode |-> "checked"]

Init ==
    /\ row = [gen |-> 1, dangerous |-> FALSE, arm |-> 0, ended |-> FALSE]
    /\ roster = FALSE /\ disk = FALSE
    /\ gate = None
    /\ cell = [id \in Requests |-> "new"]
    /\ reply = [id \in Requests |-> "open"]
    /\ queue = <<>>
    /\ \E shared \in Sharing :
          sup = [gen |-> 1, phase |-> "running", shared |-> shared, cmd |-> None,
                 mode |-> "checked", outcome |-> None]
    /\ notes = <<>> /\ frames = <<>>
    /\ answer = [id \in Requests |-> "none"]
    /\ started = {} /\ ran = FALSE /\ kept = FALSE

----------------------------------------------------------------------------
(* The ticket *)

\* Mutant: asked a second time, an abandoned ticket reads as taken.
AbandonOnce(c) ==
    IF c = "queued" THEN [cell |-> "abandoned", never |-> TRUE]
    ELSE [cell |-> c, never |-> FALSE]

\* Receipt::abandon: the cell after it, and whether the instruction never ran.
Abandon(c) ==
    IF c \in {"queued", "abandoned"} THEN [cell |-> "abandoned", never |-> TRUE]
    ELSE [cell |-> c, never |-> FALSE]

\* Ticket::accept, with the request's authority still admitting it or not.
Accepts(c, admitted) == admitted /\ c = "queued"

----------------------------------------------------------------------------
(* The daemon: arming and disarming *)

\* Daemon::persist_session_state: the roster row's mark, which the save that
\* follows writes; a failed save leaves the file as it was.
Marked(r, ever) == ever \/ r.dangerous

\* Saves one preparation makes: the row is refreshed, and an unchecked mode armed.
SavesNeeded(mode) == IF Dangerous(mode) THEN 2 ELSE 1

Queued(id, mode) ==
    /\ cell' = [cell EXCEPT ![id] = "queued"]
    /\ gate' = [id |-> id, mode |-> mode, gen |-> row.gen, stage |-> "prepared",
                armed |-> IF Dangerous(mode) /\ ~roster THEN row.arm + 1 ELSE None]

\* Mutant: the instruction is queued whether or not the mark could be saved.
PrepareUnsaved(id, mode, saves) ==
    /\ row /= None /\ ~row.ended /\ gate = None /\ cell[id] = "new"
    /\ row' = [row EXCEPT !.dangerous = @ \/ Dangerous(mode),
                          !.arm = IF Dangerous(mode) THEN @ + 1 ELSE @]
    /\ roster' = row'.dangerous
    /\ disk' = IF saves = SavesNeeded(mode) THEN roster' ELSE disk
    /\ Queued(id, mode)
    /\ UNCHANGED <<answer, reply, queue, sup, notes, frames, started, ran, kept>>

\* session.setPermissionMode, its first "saves" saves succeeding.  The gate is
\* taken, the roster row refreshed (require_durable_guard_row), and an unchecked
\* mode armed: marked in memory and on disk before anything is queued, or rolled
\* back and refused (arm_danger_before_loosening).
Prepare(id, mode, saves) ==
    /\ row /= None /\ ~row.ended /\ gate = None /\ cell[id] = "new"
    /\ saves <= SavesNeeded(mode)
    /\ IF saves < SavesNeeded(mode)
       THEN /\ answer' = [answer EXCEPT ![id] = "not_sent"]
            /\ cell' = [cell EXCEPT ![id] = "abandoned"]
            /\ roster' = Marked(row, roster)
            /\ disk' = IF saves = 0 THEN disk ELSE roster'
            /\ UNCHANGED <<row, gate>>
       ELSE /\ row' = [row EXCEPT !.dangerous = @ \/ Dangerous(mode),
                                  !.arm = IF Dangerous(mode) THEN @ + 1 ELSE @]
            /\ roster' = Marked(row', roster)
            /\ disk' = roster'
            /\ Queued(id, mode)
            /\ UNCHANGED answer
    /\ UNCHANGED <<reply, queue, sup, notes, frames, started, ran, kept>>

\* Mutant: any withdrawal clears the mark, whatever was armed since.
DisarmAnyArm(arm, ended) ==
    IF row /= None
    THEN /\ row' = IF ended THEN None ELSE [row EXCEPT !.dangerous = FALSE]
         /\ roster' = FALSE /\ disk' = FALSE
         /\ UNCHANGED kept
    ELSE UNCHANGED <<row, roster, disk, kept>>

\* Daemon::disarm_danger, and the removal of an ended row that goes with the
\* completion of its last request.
DisarmDanger(arm, ended) ==
    /\ row' = IF row = None \/ ended THEN None
              ELSE [row EXCEPT !.dangerous = @ /\ row.arm /= arm]
    /\ IF row /= None /\ row.arm = arm
       THEN /\ roster' = FALSE
            /\ \/ disk' = FALSE /\ UNCHANGED kept
               \/ UNCHANGED disk /\ kept' = TRUE
       ELSE UNCHANGED <<roster, disk, kept>>

----------------------------------------------------------------------------
(* The daemon: one request's worker *)

\* The request still belongs to the row's generation.
Mine == row /= None /\ row.gen = gate.gen

Answered(what) ==
    /\ answer' = [answer EXCEPT ![gate.id] = what]
    /\ gate' = None

\* Mutant: a withdrawn instruction leaves its mark.
WithdrawnStaysArmed ==
    /\ Answered("not_sent")
    /\ cell' = [cell EXCEPT ![gate.id] = Abandon(@).cell]
    /\ row' = IF Mine /\ row.ended THEN None ELSE row
    /\ UNCHANGED <<roster, disk, kept>>

\* The completion of an instruction that never ran: its arm is rolled back, its
\* receipt dropped, its gate released and the caller told it was not sent.
Withdrawn ==
    /\ Answered("not_sent")
    /\ cell' = [cell EXCEPT ![gate.id] = Abandon(@).cell]
    /\ IF Mine THEN DisarmDanger(gate.armed, row.ended)
       ELSE UNCHANGED <<row, roster, disk, kept>>

\* Mutant: the queue has no bound.
EnqueueUnbounded ==
    /\ gate /= None /\ gate.stage = "prepared"
    /\ sup.gen = gate.gen /\ sup.phase /= "done"
    /\ queue' = Append(queue, [id |-> gate.id, mode |-> gate.mode, armed |-> gate.armed])
    /\ gate' = [gate EXCEPT !.stage = "waiting"]
    /\ UNCHANGED <<ledger, ticket, sup, notes, frames, answer, started, ran, kept>>

\* enqueue_within: a permit is reserved first, so a command is queued or was not.
Enqueue ==
    /\ gate /= None /\ gate.stage = "prepared"
    /\ sup.gen = gate.gen /\ sup.phase /= "done" /\ Len(queue) < QueueCap
    /\ queue' = Append(queue, [id |-> gate.id, mode |-> gate.mode, armed |-> gate.armed])
    /\ gate' = [gate EXCEPT !.stage = "waiting"]
    /\ UNCHANGED <<ledger, ticket, sup, notes, frames, answer, started, ran, kept>>

\* The session is gone, its queue stays full for the whole wait, or the daemon stops.
EnqueueFails ==
    /\ gate /= None /\ gate.stage = "prepared"
    /\ Withdrawn
    /\ UNCHANGED <<reply, queue, sup, notes, frames, started, ran>>

\* Mutant: the wait runs out and the gate is released over a taken instruction.
TimeoutReleases ==
    /\ gate /= None /\ gate.stage = "waiting" /\ reply[gate.id] = "open"
    /\ IF Abandon(cell[gate.id]).never
       THEN Withdrawn
       ELSE Answered("unknown") /\ UNCHANGED <<ledger, cell, kept>>
    /\ UNCHANGED <<reply, queue, sup, notes, frames, started, ran>>

\* The wait runs out, or the daemon stops (reply_within_state): abandon, and ask
\* again whether the arm is to be taken back.  What was taken is waited for.
Timeout ==
    /\ gate /= None /\ gate.stage = "waiting" /\ reply[gate.id] = "open"
    /\ LET first == Abandon(cell[gate.id])
       IN  IF first.never
           THEN IF Abandon(first.cell).never THEN Withdrawn
                ELSE /\ gate' = [gate EXCEPT !.stage = "stuck"]
                     /\ cell' = [cell EXCEPT ![gate.id] = first.cell]
                     /\ UNCHANGED <<ledger, answer, kept>>
           ELSE /\ gate' = [gate EXCEPT !.stage = "taken"]
                /\ UNCHANGED <<ledger, cell, answer, kept>>
    /\ UNCHANGED <<reply, queue, sup, notes, frames, started, ran>>

\* A receipt that closes or fails without a typed outcome: withdrawn when its
\* ticket was never taken; otherwise the gate is kept until the daemon stops.
NoOutcome ==
    /\ gate /= None /\ gate.stage \in {"waiting", "taken"}
    /\ reply[gate.id] \in {"closed", "error"}
    /\ IF Abandon(cell[gate.id]).never /\ gate.stage = "waiting" THEN Withdrawn
       ELSE /\ gate' = [gate EXCEPT !.stage = "stuck"]
            /\ UNCHANGED <<ledger, cell, answer, kept>>
    /\ UNCHANGED <<reply, queue, sup, notes, frames, started, ran>>

\* Mutant: an unknown outcome is reported as safe to retry.
OutcomeSafeToRetry ==
    /\ gate /= None /\ gate.stage \in {"waiting", "taken"}
    /\ reply[gate.id] \in Outcomes
    /\ Answered(IF reply[gate.id] = "unknown" THEN "not_sent" ELSE reply[gate.id])
    /\ row' = IF Mine /\ (row.ended \/ reply[gate.id] = "unknown") THEN None ELSE row
    /\ UNCHANGED <<roster, disk, kept, ticket, queue, sup, notes, frames, started, ran>>

\* project_permission_mode_outcome and complete_session_rpc_on_lane.  A failing
\* save is retried with the gate held.
Outcome ==
    /\ gate /= None /\ gate.stage \in {"waiting", "taken"}
    /\ reply[gate.id] \in Outcomes
    /\ LET what  == reply[gate.id]
           r     == [row EXCEPT !.dangerous = @ \/ (what = "applied" /\ Dangerous(gate.mode))]
           ended == row.ended \/ (what = "unknown" /\ ~sup.shared)
       IN  /\ Answered(what)
           /\ IF what = "refused" /\ Mine THEN DisarmDanger(gate.armed, row.ended)
              ELSE IF Mine /\ ~(sup.shared /\ what /= "refused")
              THEN /\ row' = IF ended THEN None ELSE r
                   /\ roster' = Marked(r, roster)
                   /\ disk' = roster'
                   /\ UNCHANGED kept
              ELSE /\ row' = IF Mine /\ row.ended THEN None ELSE row
                   /\ UNCHANGED <<roster, disk, kept>>
    /\ UNCHANGED <<ticket, queue, sup, notes, frames, started, ran>>

----------------------------------------------------------------------------
(* The supervisor *)

Idle == sup.phase = "running" /\ sup.cmd = None
Room == Len(notes) < MaxNotes /\ Len(frames) < MaxNotes

\* A ticket dropped without an answer closes its caller's channel.
Dropped(id) == IF reply[id] = "open" THEN "closed" ELSE reply[id]

Disarmed(cmd) ==
    notes' = IF cmd.armed = None THEN notes ELSE Append(notes, Disarm(sup.gen, cmd.armed))

\* Mutant: whatever is dequeued is executed.
TakeAlways(admitted) ==
    /\ Idle /\ queue /= <<>> /\ Room
    /\ LET cmd == Head(queue)
       IN  /\ sup' = [sup EXCEPT !.cmd = cmd]
           /\ cell' = [cell EXCEPT ![cmd.id] = "taken"]
           /\ UNCHANGED <<notes, reply>>
    /\ queue' = Tail(queue)
    /\ UNCHANGED <<ledger, gate, frames, answer, started, ran, kept>>

\* A command is dequeued: it is executed only if its ticket is won.
Take(admitted) ==
    /\ Idle /\ queue /= <<>> /\ Room
    /\ LET cmd == Head(queue)
       IN  IF Accepts(cell[cmd.id], admitted)
           THEN /\ sup' = [sup EXCEPT !.cmd = cmd]
                /\ cell' = [cell EXCEPT ![cmd.id] = "taken"]
                /\ UNCHANGED <<notes, reply>>
           ELSE /\ cell' = [cell EXCEPT ![cmd.id] = Abandon(@).cell]
                /\ reply' = [reply EXCEPT ![cmd.id] = Dropped(cmd.id)]
                /\ Disarmed(cmd)
                /\ UNCHANGED sup
    /\ queue' = Tail(queue)
    /\ UNCHANGED <<ledger, gate, frames, answer, started, ran, kept>>

Executing == sup.phase = "running" /\ sup.cmd /= None

Done == [sup EXCEPT !.cmd = None]

\* reject_fallback_instruction: after the take, the caller's authority is gone or
\* native control cannot be had; nothing reaches the harness.
Reject ==
    /\ "reject" \in Faults
    /\ Executing /\ Room
    /\ Disarmed(sup.cmd)
    /\ reply' = [reply EXCEPT ![sup.cmd.id] = "error"]
    /\ sup' = Done
    /\ UNCHANGED <<ledger, gate, cell, queue, frames, answer, started, ran, kept>>

\* driver.set_permission_mode refuses.
Refused ==
    /\ Executing /\ Room
    /\ Disarmed(sup.cmd)
    /\ reply' = [reply EXCEPT ![sup.cmd.id] = "refused"]
    /\ started' = started \cup {sup.cmd.id}
    /\ sup' = Done
    /\ UNCHANGED <<ledger, gate, cell, queue, frames, answer, ran, kept>>

\* The harness confirms.  With a shared harness the daemon records the mode, and
\* acknowledges, before the instruction is answered.
Applied ==
    /\ Executing /\ Room
    /\ started' = started \cup {sup.cmd.id}
    /\ ran' = (ran \/ Dangerous(sup.cmd.mode))
    /\ IF sup.shared
       THEN /\ sup' = [sup EXCEPT !.phase = "barrier", !.mode = sup.cmd.mode,
                                  !.outcome = "applied"]
            /\ notes' = Append(notes, Settings(sup.gen, sup.cmd.mode))
            /\ UNCHANGED <<reply, frames>>
       ELSE /\ reply' = [reply EXCEPT ![sup.cmd.id] = "applied"]
            /\ frames' = Append(frames, sup.cmd.mode)
            /\ sup' = Done
            /\ UNCHANGED notes
    /\ UNCHANGED <<ledger, gate, cell, queue, answer, kept>>

\* The outcome is unknown: the harness is ended (the commands left in the queue
\* go with it), or, when it is shared, its mode is recorded as unknown.
Unknown ==
    /\ Executing /\ Room
    /\ started' = started \cup {sup.cmd.id}
    /\ ran' = (ran \/ Dangerous(sup.cmd.mode))
    /\ IF sup.shared
       THEN /\ sup' = [sup EXCEPT !.phase = "barrier", !.mode = "unknown",
                                  !.outcome = "unknown"]
            /\ notes' = Append(notes, Settings(sup.gen, "unknown"))
            /\ UNCHANGED <<reply, queue>>
       ELSE /\ sup' = [Done EXCEPT !.phase = "done"]
            /\ notes' = Append(notes, Ended(sup.gen))
            /\ reply' = [id \in Requests |->
                  IF id = sup.cmd.id THEN "unknown"
                  ELSE IF \E i \in DOMAIN queue : queue[i].id = id THEN Dropped(id)
                  ELSE reply[id]]
            /\ queue' = <<>>
    /\ UNCHANGED <<ledger, gate, cell, frames, answer, kept>>

\* SettingsUpdated: another client changed the shared harness's mode.
NativeChange(mode) ==
    /\ "native" \in Faults /\ sup.shared
    /\ Idle /\ Room
    /\ sup' = [sup EXCEPT !.phase = "barrier", !.mode = mode, !.outcome = None]
    /\ notes' = Append(notes, Settings(sup.gen, mode))
    /\ UNCHANGED <<ledger, gate, ticket, queue, frames, answer, started, ran, kept>>

\* The barrier is acknowledged: the mode is broadcast and the instruction answered.
AfterBarrier ==
    /\ sup.phase = "acked" /\ Len(frames) < MaxNotes
    /\ frames' = Append(frames, sup.mode)
    /\ reply' = IF sup.cmd = None THEN reply
                ELSE [reply EXCEPT ![sup.cmd.id] = sup.outcome]
    /\ sup' = [Done EXCEPT !.phase = "running", !.outcome = None]
    /\ UNCHANGED <<ledger, gate, cell, queue, notes, answer, started, ran, kept>>

\* The session ends; commands left in its queue are dropped.
SupervisorExits ==
    /\ Idle /\ Room
    /\ sup' = [sup EXCEPT !.phase = "done"]
    /\ notes' = Append(notes, Ended(sup.gen))
    /\ reply' = [id \in Requests |->
          IF \E i \in DOMAIN queue : queue[i].id = id THEN Dropped(id) ELSE reply[id]]
    /\ queue' = <<>>
    /\ UNCHANGED <<ledger, gate, cell, frames, answer, started, ran, kept>>

----------------------------------------------------------------------------
(* The daemon: notes and frames *)

\* Mutant: a note is applied to whatever generation the session has now.
TakeNoteAnyGeneration ==
    /\ notes /= <<>> /\ Head(notes).kind = "disarm"
    /\ notes' = Tail(notes)
    /\ DisarmDanger(Head(notes).arm, FALSE)
    /\ UNCHANGED <<gate, ticket, queue, sup, frames, answer, started, ran>>

TakeDisarm ==
    /\ notes /= <<>> /\ Head(notes).kind = "disarm"
    /\ notes' = Tail(notes)
    /\ IF row /= None /\ row.gen = Head(notes).gen
       THEN DisarmDanger(Head(notes).arm, FALSE)
       ELSE UNCHANGED <<row, roster, disk, kept>>
    /\ UNCHANGED <<gate, ticket, queue, sup, frames, answer, started, ran>>

\* observe_native_settings: recorded durably, then acknowledged; a failed save
\* makes the supervisor ask again.
TakeSettings ==
    /\ notes /= <<>> /\ Head(notes).kind = "settings"
    /\ row /= None /\ row.gen = Head(notes).gen /\ ~row.ended
    /\ notes' = Tail(notes)
    /\ row' = [row EXCEPT !.dangerous = @ \/ Dangerous(Head(notes).mode)]
    /\ roster' = Marked(row', roster)
    /\ disk' = roster'
    /\ ran' = (ran \/ Dangerous(Head(notes).mode))
    /\ sup' = [sup EXCEPT !.phase = "acked"]
    /\ UNCHANGED <<gate, ticket, queue, frames, answer, started, kept>>

\* The row goes, unless a request still holds its gate.
TakeEnded ==
    /\ notes /= <<>> /\ Head(notes).kind = "ended"
    /\ notes' = Tail(notes)
    /\ row' = IF row = None \/ row.gen /= Head(notes).gen THEN row
              ELSE IF gate = None THEN None
              ELSE [row EXCEPT !.ended = TRUE]
    /\ UNCHANGED <<roster, disk, gate, ticket, queue, sup, frames, answer, started, ran, kept>>

\* observe_permission_mode on a SESSION_PERMISSION_MODE frame; a failed save is
\* only logged.
TakeFrame(saved) ==
    /\ frames /= <<>>
    /\ frames' = Tail(frames)
    /\ IF row = None THEN UNCHANGED <<row, roster, disk>>
       ELSE /\ row' = [row EXCEPT !.dangerous = @ \/ Dangerous(Head(frames))]
            /\ roster' = Marked(row', roster)
            /\ disk' = IF saved THEN roster' ELSE disk
    /\ UNCHANGED <<gate, ticket, queue, sup, notes, answer, started, ran, kept>>

----------------------------------------------------------------------------
(* Generations and restarts *)

\* The session is resumed: the next generation starts with the mark its roster
\* row, or its transcript, carries, written before the launch.
Resume(transcript) ==
    /\ row = None /\ sup.phase = "done" /\ sup.gen < MaxGen
    /\ transcript => ran
    /\ row' = [gen |-> sup.gen + 1, dangerous |-> roster \/ transcript, arm |-> 0,
               ended |-> FALSE]
    /\ roster' = (roster \/ transcript)
    /\ disk' = IF transcript /\ ~roster THEN TRUE ELSE disk
    /\ sup' = [gen |-> sup.gen + 1, phase |-> "running", shared |-> sup.shared,
               cmd |-> None, mode |-> "checked", outcome |-> None]
    /\ UNCHANGED <<gate, ticket, queue, notes, frames, answer, started, ran, kept>>

\* A save for another session writes the whole roster, this row included.
SaveAnother ==
    /\ disk /= roster
    /\ disk' = roster
    /\ UNCHANGED <<row, roster, gate, ticket, queue, sup, notes, frames, answer, started,
                   ran, kept>>

\* The daemon is killed and started again: only the file is left.
CrashAndRestart ==
    /\ "crash" \in Faults /\ sup.gen < MaxGen
    /\ row' = None
    /\ roster' = disk
    /\ gate' = None
    /\ answer' = IF gate = None THEN answer ELSE [answer EXCEPT ![gate.id] = "lost"]
    /\ kept' = (kept \/ gate /= None)
    /\ sup' = [Done EXCEPT !.phase = "done", !.outcome = None]
    /\ queue' = <<>> /\ notes' = <<>> /\ frames' = <<>>
    /\ UNCHANGED <<disk, ticket, started, ran>>

WorkerStep == Enqueue \/ EnqueueFails \/ Timeout \/ NoOutcome \/ Outcome

Execute == Refused \/ Applied \/ Unknown

Next ==
    \/ \E id \in Requests, mode \in Modes, saves \in 0..2 : Prepare(id, mode, saves)
    \/ WorkerStep
    \/ \E admitted \in BOOLEAN : Take(admitted)
    \/ Reject
    \/ Execute
    \/ \E mode \in Observed : NativeChange(mode)
    \/ AfterBarrier
    \/ SupervisorExits
    \/ TakeDisarm
    \/ TakeSettings
    \/ TakeEnded
    \/ \E saved \in BOOLEAN : TakeFrame(saved)
    \/ \E transcript \in BOOLEAN : Resume(transcript)
    \/ SaveAnother
    \/ CrashAndRestart

Spec == Init /\ [][Next]_vars

\* The worker of a request, the supervisor and the pump proceed; a harness that
\* was asked answers, or its deadline does.
Fairness ==
    /\ WF_vars(WorkerStep)
    /\ WF_vars(\E admitted \in BOOLEAN : Take(admitted))
    /\ WF_vars(Execute) /\ WF_vars(AfterBarrier)
    /\ WF_vars(TakeDisarm) /\ WF_vars(TakeSettings) /\ WF_vars(TakeEnded)
    /\ WF_vars(\E saved \in BOOLEAN : TakeFrame(saved))

FairSpec == Spec /\ Fairness

----------------------------------------------------------------------------
(* Properties *)

\* The type of every variable.
TypeOK ==
    /\ row \in Row \cup {None}
    /\ roster \in BOOLEAN /\ disk \in BOOLEAN
    /\ gate \in Gate \cup {None}
    /\ cell \in [Requests -> {"new", "queued", "taken", "abandoned"}]
    /\ reply \in [Requests -> {"open", "closed", "error"} \cup Outcomes]
    /\ queue \in Seq(Command) /\ Len(queue) <= QueueCap
    /\ sup \in Supervisor
    /\ notes \in Seq(Notes) /\ Len(notes) <= MaxNotes
    /\ frames \in Seq(Observed) /\ Len(frames) <= MaxNotes
    /\ answer \in [Requests -> {"none", "not_sent", "lost"} \cup Outcomes]
    /\ started \subseteq Requests
    /\ ran \in BOOLEAN /\ kept \in BOOLEAN

NotSent == {id \in Requests : answer[id] = "not_sent"}

Promise == INSTANCE Instruction WITH ran <- started, withdrawn <- NotSent

\* No instruction is both executed and reported as never run, however the caller's
\* timeout, the take, the loss of authority, the end of the session
\* and a crash interleave (the promise of rc::ticket).
ImplementsInstruction == Promise!Spec

\* A session in which an unchecked mode took effect, or may have, is marked in
\* memory and on disk, in every generation: no withdrawal of another instruction,
\* in whatever order its notes arrive, takes that mark away.
UncheckedIsMarked == ran => roster /\ disk /\ (row /= None => row.dangerous)

\* The mark recorded for a mode another client set on a shared harness lasts: with
\* every note and frame taken and the supervisor at rest, the roster row has it.
NativeIsMarked ==
    ran /\ notes = <<>> /\ frames = <<>> /\ sup.phase = "running" => roster

\* A session where nothing unchecked happened is not left marked: once no request
\* holds the gate, every arm was used or taken back.
NoFalseMark ==
    gate = None /\ ~ran /\ ~kept => ~roster /\ ~disk /\ (row /= None => ~row.dangerous)

\* While an instruction can still reach the harness, its request holds the gate:
\* no other request is prepared against a mode that is about to change.
TakenHoldsGate == sup.cmd /= None => gate /= None /\ gate.id = sup.cmd.id

\* Every request is answered and releases the session for the next one: the daemon
\* waits "for a session to answer, but not forever".
RequestAnswered == (gate /= None) ~> (gate = None)

\* The instruction of the request at the gate was turned away after its take, without
\* a typed outcome: its worker keeps the gate and the caller until the daemon stops.
TurnedAway ==
    gate /= None /\ cell[gate.id] = "taken" /\ reply[gate.id] = "error"

\* That is the one way to wait for ever: through full queues, timeouts before and after
\* the take, barriers, harnesses that end and sessions that are resumed, every other
\* request is answered and releases the session.
AnsweredUnlessTurnedAway == (gate /= None) ~> (gate = None \/ TurnedAway)

=============================================================================
