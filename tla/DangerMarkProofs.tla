-------------------------- MODULE DangerMarkProofs --------------------------
(***************************************************************************)
(* The mark of sessions that ran without permission checks, for every      *)
(* number of requests, generations, queue and note bound: a session where  *)
(* nothing unchecked happened is not left marked, and, unless another      *)
(* client of a shared harness changes its mode, no withdrawal takes the    *)
(* mark of one where something did.                                        *)
(***************************************************************************)
EXTENDS DangerArmProofs

----------------------------------------------------------------------------
(* The inductive invariants *)

\* The request at the gate belongs to the row, and what it armed was armed last.
SessionInv ==
    /\ gate /= None => row /= None /\ row.gen = gate.gen
    /\ gate /= None /\ gate.armed /= None => gate.armed = row.arm /\ Dangerous(gate.mode)
    /\ row /= None => row.dangerous = roster

\* The gate's command is the last one queued, and once taken nothing is queued.
CommandInv ==
    /\ sup.phase = "done" \/ sup.cmd /= None => queue = <<>>
    /\ sup.cmd /= None => sup.cmd.mode = gate.mode /\ sup.cmd.armed = gate.armed
    /\ \A i \in DOMAIN queue :
          gate /= None /\ queue[i].id = gate.id
          => i = Len(queue) /\ queue[i].mode = gate.mode /\ queue[i].armed = gate.armed

\* Whatever says that an unchecked mode took effect, or may have, says so truly.
OutcomeInv ==
    /\ sup.cmd /= None /\ sup.phase /= "running"
       => /\ sup.outcome \in {"applied", "unknown"}
          /\ Dangerous(sup.cmd.mode) => ran
    /\ sup.phase = "acked" /\ Dangerous(sup.mode) => ran
    /\ \A i \in DOMAIN notes :
          notes[i].kind = "settings" /\ notes[i].gen = sup.gen => notes[i].mode = sup.mode
    /\ \A i \in DOMAIN frames : Dangerous(frames[i]) => ran
    /\ gate /= None /\ reply[gate.id] \in {"applied", "unknown"} /\ Dangerous(gate.mode) => ran

\* A mark nothing justifies yet is the one the request at the gate armed.
PendingMark == ~ran /\ ~kept /\ (roster \/ disk) => gate /= None /\ gate.armed /= None

FalseInv == IInv /\ SessionInv /\ CommandInv /\ OutcomeInv /\ PendingMark

\* The gate's instruction can still take effect.
Pending == gate /= None /\ (cell[gate.id] = "queued" \/ sup.cmd /= None)

\* A withdrawal on its way names an arm no later than the last, and not that of an
\* instruction that can still take effect, whose mark stands.
ArmInv ==
    /\ \A i \in DOMAIN notes :
          row /= None /\ notes[i].kind = "disarm" /\ notes[i].gen = sup.gen
          => /\ notes[i].arm \in Nat /\ notes[i].arm <= row.arm
             /\ Pending /\ Dangerous(gate.mode) => notes[i].arm /= row.arm
    /\ \A i \in DOMAIN queue :
          row /= None /\ queue[i].armed /= None
          => /\ queue[i].armed <= row.arm
             /\ Pending /\ Dangerous(gate.mode) /\ queue[i].id /= gate.id
                => queue[i].armed /= row.arm
    /\ Pending /\ Dangerous(gate.mode) => roster /\ disk

\* Once an unchecked mode took effect, nothing on its way withdraws the last arm.
RanInv ==
    ran => /\ roster /\ disk
           /\ row /= None =>
                /\ \A i \in DOMAIN notes :
                      notes[i].kind = "disarm" /\ notes[i].gen = sup.gen
                      => notes[i].arm /= row.arm
                /\ \A i \in DOMAIN queue : queue[i].armed /= row.arm
           /\ gate /= None /\ gate.armed /= None
              => /\ cell[gate.id] = "taken"
                 /\ \/ reply[gate.id] \in {"applied", "unknown"}
                    \/ sup.cmd /= None /\ sup.phase /= "running"

\* Without other clients, a barrier is that of an instruction.
OwnBarrier == sup.phase \in {"barrier", "acked"} => sup.cmd /= None

MarkInv == FalseInv /\ OwnBarrier /\ ArmInv /\ RanInv
----------------------------------------------------------------------------
(* The row and its gate *)

\* The types of what the records hold.
LEMMA FieldTypes ==
    ASSUME TypeOK
    PROVE  /\ row /= None => /\ row \in Row /\ row.gen \in Nat /\ row.arm \in Nat
                             /\ row.dangerous \in BOOLEAN /\ row.ended \in BOOLEAN
           /\ gate /= None => /\ gate \in Gate /\ gate.id \in Requests /\ gate.mode \in Modes
                              /\ gate.gen \in Nat /\ gate.armed \in Nat \cup {None}
           /\ sup \in Supervisor /\ sup.gen \in Nat /\ sup.shared \in BOOLEAN
           /\ sup.cmd \in Command \cup {None} /\ sup.mode \in Observed
           /\ sup.cmd /= None => /\ sup.cmd \in Command /\ sup.cmd.id \in Requests
                                 /\ sup.cmd.mode \in Modes
                                 /\ sup.cmd.armed \in Nat \cup {None}
           /\ \A i \in DOMAIN queue : /\ queue[i] \in Command /\ queue[i].id \in Requests
                                      /\ queue[i].mode \in Modes
                                      /\ queue[i].armed \in Nat \cup {None}
           /\ roster \in BOOLEAN /\ disk \in BOOLEAN /\ ran \in BOOLEAN /\ kept \in BOOLEAN
           /\ None \notin Nat
  <1>1. row /= None => /\ row \in Row /\ row.gen \in Nat /\ row.arm \in Nat
                       /\ row.dangerous \in BOOLEAN /\ row.ended \in BOOLEAN
    BY DEF TypeOK, Row
  <1>2. gate /= None => /\ gate \in Gate /\ gate.id \in Requests /\ gate.mode \in Modes
                        /\ gate.gen \in Nat /\ gate.armed \in Nat \cup {None}
    BY DEF TypeOK, Gate
  <1>3. \A c \in Command : c.id \in Requests /\ c.mode \in Modes /\ c.armed \in Nat \cup {None}
    BY DEF Command
  <1>4. /\ sup \in Supervisor /\ sup.gen \in Nat /\ sup.shared \in BOOLEAN
        /\ sup.cmd \in Command \cup {None} /\ sup.mode \in Observed
    BY DEF TypeOK, Supervisor
  <1>5. queue \in [1 .. Len(queue) -> Command]
    BY DEF TypeOK
  <1>. QED
    BY <1>1, <1>2, <1>3, <1>4, <1>5, DangerConstants DEF TypeOK

\* What taking an arm back does to the row and to the mark.
LEMMA DisarmFacts ==
    ASSUME TypeOK, row /= None, NEW arm, NEW ended \in BOOLEAN, DisarmDanger(arm, ended)
    PROVE  /\ ended => row' = None
           /\ ~ended => /\ row' \in Row /\ row' /= None
                        /\ row'.gen = row.gen /\ row'.arm = row.arm
                        /\ row'.dangerous = (row.dangerous /\ row.arm /= arm)
           /\ row.arm = arm => /\ roster' = FALSE
                               /\ \/ disk' = FALSE /\ kept' = kept
                                  \/ disk' = disk /\ kept' = TRUE
           /\ row.arm /= arm => roster' = roster /\ disk' = disk /\ kept' = kept
  <1>1. /\ row \in Row /\ row.gen \in Nat /\ row.arm \in Nat
        /\ row.dangerous \in BOOLEAN /\ row.ended \in BOOLEAN
    BY FieldTypes
  <1>2. ~ended => /\ row' \in Row
                  /\ row'.gen = row.gen /\ row'.arm = row.arm
                  /\ row'.dangerous = (row.dangerous /\ row.arm /= arm)
    <2>1. PICK b \in BOOLEAN : b = (row.dangerous /\ row.arm /= arm)
      BY <1>1
    <2>2. ~ended => row' = [row EXCEPT !.dangerous = b]
      BY <2>1 DEF DisarmDanger
    <2>. QED
      BY <1>1, <2>1, <2>2 DEF Row
  <1>3. None \notin Row
    BY NoneIsNoRecord
  <1>4. ended => row' = None
    BY DEF DisarmDanger
  <1>5. /\ row.arm = arm => /\ roster' = FALSE
                            /\ \/ disk' = FALSE /\ kept' = kept
                               \/ disk' = disk /\ kept' = TRUE
        /\ row.arm /= arm => roster' = roster /\ disk' = disk /\ kept' = kept
    BY DEF DisarmDanger
  <1>. QED
    BY <1>2, <1>3, <1>4, <1>5

\* What a successful preparation does: the row's arm advances for an unchecked mode,
\* whose mark is then in memory and on disk.
LEMMA PrepareFacts ==
    ASSUME TypeOK, SessionInv, NEW id \in Requests, NEW mode \in Modes, NEW saves \in 0..2,
           Prepare(id, mode, saves)
    PROVE  /\ row /= None /\ gate = None /\ cell[id] = "new"
           /\ \/ /\ gate' = None /\ row' = row /\ roster' = roster
                 /\ disk' \in {disk, roster} /\ cell' = [cell EXCEPT ![id] = "abandoned"]
              \/ /\ row' \in Row /\ row' /= None /\ row'.gen = row.gen
                 /\ row'.dangerous = (row.dangerous \/ Dangerous(mode))
                 /\ row'.arm = IF Dangerous(mode) THEN row.arm + 1 ELSE row.arm
                 /\ roster' = (roster \/ Dangerous(mode)) /\ disk' = roster'
                 /\ gate' \in Gate /\ gate' /= None /\ gate'.id = id /\ gate'.mode = mode
                 /\ gate'.gen = row.gen /\ gate'.stage = "prepared"
                 /\ gate'.armed = IF Dangerous(mode) /\ ~roster THEN row.arm + 1 ELSE None
                 /\ cell' = [cell EXCEPT ![id] = "queued"]
           /\ UNCHANGED <<reply, queue, sup, notes, frames, started, ran, kept>>
  <1>1. /\ row /= None /\ gate = None /\ cell[id] = "new"
        /\ UNCHANGED <<reply, queue, sup, notes, frames, started, ran, kept>>
    BY DEF Prepare
  <1>2. /\ row \in Row /\ row.gen \in Nat /\ row.arm \in Nat /\ row.arm + 1 \in Nat
        /\ row.dangerous \in BOOLEAN /\ row.ended \in BOOLEAN /\ roster \in BOOLEAN
        /\ row.dangerous = roster /\ None \notin Row /\ None \notin Gate
    BY <1>1, FieldTypes, NoneIsNoRecord DEF SessionInv
  <1>3. CASE saves < SavesNeeded(mode)
    <2>1. /\ cell' = [cell EXCEPT ![id] = "abandoned"] /\ row' = row /\ gate' = gate
          /\ roster' = (roster \/ row.dangerous) /\ disk' = IF saves = 0 THEN disk ELSE roster'
      BY <1>3 DEF Prepare, Marked
    <2>. QED
      BY <1>1, <1>2, <2>1
  <1>4. CASE ~(saves < SavesNeeded(mode))
    <2>1. PICK b \in BOOLEAN : b = (row.dangerous \/ Dangerous(mode))
      BY <1>2 DEF Dangerous
    <2>2. PICK arm \in Nat : arm = IF Dangerous(mode) THEN row.arm + 1 ELSE row.arm
      BY <1>2
    <2>3. PICK armed \in Nat \cup {None} :
             armed = IF Dangerous(mode) /\ ~roster THEN row.arm + 1 ELSE None
      BY <1>2
    <2>4. /\ row' = [row EXCEPT !.dangerous = b, !.arm = arm]
          /\ roster' = (roster \/ row'.dangerous) /\ disk' = roster'
          /\ cell' = [cell EXCEPT ![id] = "queued"]
          /\ gate' = [id |-> id, mode |-> mode, gen |-> row.gen, stage |-> "prepared",
                      armed |-> armed]
      BY <1>4, <2>1, <2>2, <2>3 DEF Prepare, Marked, Queued
    <2>5. row' \in Row /\ row'.gen = row.gen /\ row'.dangerous = b /\ row'.arm = arm
      BY <1>2, <2>4 DEF Row
    <2>6. /\ gate' \in Gate /\ gate'.id = id /\ gate'.mode = mode /\ gate'.gen = row.gen
          /\ gate'.stage = "prepared" /\ gate'.armed = armed
      BY <1>2, <2>4 DEF Gate
    <2>. QED
      BY <1>1, <1>2, <2>1, <2>2, <2>3, <2>4, <2>5, <2>6
  <1>. QED
    BY <1>3, <1>4
\* The row stays in its generation with its last arm, as marked as the roster, or goes.
RowKept ==
    row' /= None => /\ row /= None /\ row' \in Row
                    /\ row'.gen = row.gen /\ row'.arm = row.arm /\ row'.dangerous = roster'

\* What the gate's request armed is taken back, on disk too unless the save fails.
TakenBack ==
    /\ gate.armed /= None => /\ roster' = FALSE
                             /\ \/ disk' = FALSE /\ kept' = kept
                                \/ disk' = disk /\ kept' = TRUE
    /\ gate.armed = None => roster' = roster /\ disk' = disk /\ kept' = kept

\* The gate's request goes on to another stage, and nothing else of it changes.
Restaged ==
    /\ gate' \in Gate /\ gate' /= None /\ gate'.id = gate.id /\ gate'.mode = gate.mode
    /\ gate'.armed = gate.armed /\ gate'.gen = gate.gen
    /\ UNCHANGED <<row, roster, disk, cell, kept>>

\* Disarming the gate's own arm, which is the row's last or none.
LEMMA DisarmsOwn ==
    ASSUME TypeOK, SessionInv, gate /= None, DisarmDanger(gate.armed, row.ended)
    PROVE  RowKept /\ TakenBack
  <1>1. /\ row /= None /\ row.arm \in Nat /\ row.ended \in BOOLEAN /\ None \notin Nat
        /\ row.dangerous = roster /\ (gate.armed /= None => gate.armed = row.arm)
        /\ roster \in BOOLEAN
    BY FieldTypes DEF SessionInv
  <1>2. /\ row.ended => row' = None
        /\ ~row.ended => /\ row' \in Row /\ row' /= None
                         /\ row'.gen = row.gen /\ row'.arm = row.arm
                         /\ row'.dangerous = (row.dangerous /\ row.arm /= gate.armed)
        /\ row.arm = gate.armed => /\ roster' = FALSE
                                   /\ \/ disk' = FALSE /\ kept' = kept
                                      \/ disk' = disk /\ kept' = TRUE
        /\ row.arm /= gate.armed => roster' = roster /\ disk' = disk /\ kept' = kept
    BY <1>1, DisarmFacts
  <1>. QED
    BY <1>1, <1>2 DEF RowKept, TakenBack

\* A withdrawn request: its arm is taken back and the gate released.
LEMMA WithdrawnFacts ==
    ASSUME TypeOK, SessionInv, gate /= None, Withdrawn
    PROVE  /\ RowKept /\ TakenBack /\ gate' = None
           /\ cell' = [cell EXCEPT ![gate.id] = Abandon(cell[gate.id]).cell]
  <1>1. Mine
    BY DEF SessionInv, Mine
  <1>2. DisarmDanger(gate.armed, row.ended) /\ gate' = None
    BY <1>1 DEF Withdrawn, Answered
  <1>. QED
    BY <1>2, DisarmsOwn DEF Withdrawn

\* The steps of a waiting request's worker: it withdraws an instruction that was not
\* taken, or goes on waiting.
LEMMA WorkerFacts ==
    ASSUME TypeOK, GateInv, gate /= None, EnqueueFails \/ Timeout \/ NoOutcome
    PROVE  /\ UNCHANGED <<reply, queue, sup, notes, frames, ran>>
           /\ \/ Withdrawn /\ cell[gate.id] \in {"queued", "abandoned"}
              \/ Restaged /\ gate.stage /= "prepared" /\ gate'.stage /= "prepared"
  <1>t. /\ gate \in Gate /\ gate.id \in Requests /\ cell[gate.id] /= "new" /\ None \notin Gate
        /\ cell[gate.id] \in {"new", "queued", "taken", "abandoned"}
    BY FieldTypes, NoneIsNoRecord DEF TypeOK, GateInv
  <1>1. ASSUME NEW st \in {"taken", "stuck"}, gate' = [gate EXCEPT !.stage = st],
               UNCHANGED <<ledger, cell, kept>>
        PROVE  Restaged /\ gate'.stage = st
    <2>1. gate' \in Gate /\ gate'.id = gate.id /\ gate'.mode = gate.mode
          /\ gate'.armed = gate.armed /\ gate'.gen = gate.gen /\ gate'.stage = st
      BY <1>t, <1>1 DEF Gate
    <2>. QED
      BY <1>t, <1>1, <2>1 DEF Restaged, ledger
  <1>2. CASE EnqueueFails
    BY <1>2 DEF EnqueueFails, GateInv
  <1>3. CASE Timeout
    <2>1. CASE cell[gate.id] \in {"queued", "abandoned"}
      BY <1>t, <1>3, <2>1, AbandonFacts DEF Timeout
    <2>2. CASE cell[gate.id] = "taken"
      <3>1. gate' = [gate EXCEPT !.stage = "taken"] /\ UNCHANGED <<ledger, cell, kept>>
        BY <1>3, <2>2, AbandonFacts DEF Timeout
      <3>. QED
        BY <1>1, <1>3, <3>1 DEF Timeout
    <2>. QED
      BY <1>t, <2>1, <2>2
  <1>4. CASE NoOutcome
    <2>1. CASE Withdrawn /\ Abandon(cell[gate.id]).never
      BY <1>t, <1>4, <2>1, AbandonFacts DEF NoOutcome
    <2>2. CASE gate' = [gate EXCEPT !.stage = "stuck"] /\ UNCHANGED <<ledger, cell, kept>>
      BY <1>1, <1>4, <2>2 DEF NoOutcome
    <2>. QED
      BY <1>4, <2>1, <2>2 DEF NoOutcome
  <1>. QED
    BY <1>2, <1>3, <1>4

\* The outcome of an instruction that was taken: a refusal takes its arm back, an
\* applied or unknown mode never lowers a mark.
LEMMA OutcomeFacts ==
    ASSUME TypeOK, SessionInv, Outcome
    PROVE  /\ gate /= None /\ gate' = None /\ RowKept
           /\ UNCHANGED <<cell, reply, queue, sup, notes, frames, ran>>
           /\ \/ reply[gate.id] = "refused" /\ TakenBack
              \/ /\ reply[gate.id] \in {"applied", "unknown"} /\ kept' = kept
                 /\ roster => roster'
                 /\ roster' => roster \/ Dangerous(gate.mode)
                 /\ disk' \in {disk, roster'}
  <1>1. /\ gate /= None /\ gate' = None /\ reply[gate.id] \in Outcomes /\ Mine
        /\ UNCHANGED <<cell, reply, queue, sup, notes, frames, ran>>
    BY DEF Outcome, Answered, SessionInv, Mine, ticket
  <1>2. /\ row /= None /\ row \in Row /\ row.gen \in Nat /\ row.arm \in Nat
        /\ row.dangerous \in BOOLEAN /\ row.ended \in BOOLEAN /\ row.dangerous = roster
        /\ roster \in BOOLEAN /\ disk \in BOOLEAN /\ None \notin Row
    BY <1>1, FieldTypes, NoneIsNoRecord DEF SessionInv
  <1>3. CASE reply[gate.id] = "refused"
    <2>1. DisarmDanger(gate.armed, row.ended)
      BY <1>1, <1>3 DEF Outcome
    <2>. QED
      BY <1>1, <1>3, <2>1, DisarmsOwn
  <1>4. CASE reply[gate.id] /= "refused" /\ sup.shared
    <2>1. row' = (IF row.ended THEN None ELSE row) /\ UNCHANGED <<roster, disk, kept>>
      BY <1>1, <1>4 DEF Outcome
    <2>. QED
      BY <1>1, <1>2, <1>4, <2>1 DEF RowKept, Outcomes
  <1>5. CASE reply[gate.id] /= "refused" /\ ~sup.shared
    <2>1. PICK b \in BOOLEAN :
             b = (row.dangerous \/ (reply[gate.id] = "applied" /\ Dangerous(gate.mode)))
      BY <1>2 DEF Dangerous
    <2>2. PICK r : r = [row EXCEPT !.dangerous = b]
      OBVIOUS
    <2>3. r \in Row /\ r.gen = row.gen /\ r.arm = row.arm /\ r.dangerous = b
      BY <1>2, <2>2 DEF Row
    <2>4. /\ row' = None \/ row' = r
          /\ roster' = (roster \/ r.dangerous) /\ disk' = roster' /\ kept' = kept
      BY <1>1, <1>5, <2>1, <2>2 DEF Outcome, Marked
    <2>. QED
      BY <1>1, <1>2, <1>5, <2>1, <2>3, <2>4 DEF RowKept, Outcomes
  <1>. QED
    BY <1>3, <1>4, <1>5
\* A withdrawal reaches the daemon: it clears the mark when it names the last arm of
\* the row's generation, and only then.
LEMMA TakeDisarmFacts ==
    ASSUME TypeOK, SessionInv, TakeDisarm
    PROVE  /\ notes /= <<>> /\ Head(notes).kind = "disarm" /\ notes' = Tail(notes)
           /\ RowKept /\ (row /= None => row' /= None)
           /\ UNCHANGED <<gate, cell, reply, queue, sup, frames, ran>>
           /\ \/ /\ row /= None /\ row.gen = Head(notes).gen /\ row.arm = Head(notes).arm
                 /\ roster' = FALSE
                 /\ \/ disk' = FALSE /\ kept' = kept
                    \/ disk' = disk /\ kept' = TRUE
              \/ roster' = roster /\ disk' = disk /\ kept' = kept
  <1>1. /\ notes /= <<>> /\ Head(notes).kind = "disarm" /\ notes' = Tail(notes)
        /\ UNCHANGED <<gate, cell, reply, queue, sup, frames, ran>>
    BY DEF TakeDisarm, ticket
  <1>2. row /= None => row \in Row /\ row.dangerous = roster
    BY FieldTypes DEF SessionInv
  <1>3. CASE row /= None /\ row.gen = Head(notes).gen
    <2>1. DisarmDanger(Head(notes).arm, FALSE)
      BY <1>3 DEF TakeDisarm
    <2>2. /\ row' \in Row /\ row' /= None
          /\ row'.gen = row.gen /\ row'.arm = row.arm
          /\ row'.dangerous = (row.dangerous /\ row.arm /= Head(notes).arm)
          /\ row.arm = Head(notes).arm => /\ roster' = FALSE
                                          /\ \/ disk' = FALSE /\ kept' = kept
                                             \/ disk' = disk /\ kept' = TRUE
          /\ row.arm /= Head(notes).arm => roster' = roster /\ disk' = disk /\ kept' = kept
      BY <1>3, <2>1, DisarmFacts
    <2>. QED
      BY <1>1, <1>2, <1>3, <2>2, FieldTypes DEF RowKept
  <1>4. CASE ~(row /= None /\ row.gen = Head(notes).gen)
    <2>1. UNCHANGED <<row, roster, disk, kept>>
      BY <1>4 DEF TakeDisarm
    <2>. QED
      BY <1>1, <1>2, <2>1 DEF RowKept
  <1>. QED
    BY <1>3, <1>4

\* A mode reaches the daemon, in a note or in a frame: the mark is only ever raised.
LEMMA ObservedFacts ==
    ASSUME TypeOK, SessionInv, row /= None, NEW mode,
           row' = [row EXCEPT !.dangerous = @ \/ Dangerous(mode)],
           roster' = Marked(row', roster)
    PROVE  RowKept /\ row' /= None /\ roster' = (roster \/ Dangerous(mode))
  <1>1. /\ row \in Row /\ row.dangerous = roster /\ roster \in BOOLEAN /\ None \notin Row
    BY FieldTypes, NoneIsNoRecord DEF SessionInv
  <1>2. PICK b \in BOOLEAN : b = (row.dangerous \/ Dangerous(mode))
    BY <1>1 DEF Dangerous
  <1>3. row' = [row EXCEPT !.dangerous = b] /\ roster' = (roster \/ row'.dangerous)
    BY <1>2 DEF Marked
  <1>4. row' \in Row /\ row'.gen = row.gen /\ row'.arm = row.arm /\ row'.dangerous = b
    BY <1>1, <1>3 DEF Row
  <1>. QED
    BY <1>1, <1>2, <1>3, <1>4 DEF RowKept

\* An acknowledged barrier.
LEMMA TakeSettingsFacts ==
    ASSUME TypeOK, SessionInv, TakeSettings
    PROVE  /\ notes /= <<>> /\ Head(notes).kind = "settings" /\ notes' = Tail(notes)
           /\ row /= None /\ row.gen = Head(notes).gen /\ RowKept /\ row' /= None
           /\ roster' = (roster \/ Dangerous(Head(notes).mode)) /\ disk' = roster'
           /\ ran' = (ran \/ Dangerous(Head(notes).mode))
           /\ sup'.phase = "acked" /\ sup'.cmd = sup.cmd /\ sup'.mode = sup.mode
           /\ sup'.gen = sup.gen /\ sup'.outcome = sup.outcome
           /\ UNCHANGED <<gate, cell, reply, queue, frames, kept>>
  <1>1. /\ notes /= <<>> /\ Head(notes).kind = "settings" /\ notes' = Tail(notes)
        /\ row /= None /\ row.gen = Head(notes).gen /\ disk' = roster'
        /\ ran' = (ran \/ Dangerous(Head(notes).mode))
        /\ UNCHANGED <<gate, cell, reply, queue, frames, kept>>
    BY DEF TakeSettings, ticket
  <1>2. sup' = [sup EXCEPT !.phase = "acked"] /\ sup \in Supervisor
    BY FieldTypes DEF TakeSettings
  <1>3. /\ sup'.phase = "acked" /\ sup'.cmd = sup.cmd /\ sup'.mode = sup.mode
        /\ sup'.gen = sup.gen /\ sup'.outcome = sup.outcome
    BY <1>2 DEF Supervisor
  <1>4. RowKept /\ row' /= None /\ roster' = (roster \/ Dangerous(Head(notes).mode))
    BY <1>1, ObservedFacts DEF TakeSettings
  <1>. QED
    BY <1>1, <1>3, <1>4

\* A mode broadcast by the supervisor.
LEMMA TakeFrameFacts ==
    ASSUME TypeOK, SessionInv, NEW saved \in BOOLEAN, TakeFrame(saved)
    PROVE  /\ frames /= <<>> /\ frames' = Tail(frames) /\ RowKept
           /\ row /= None => /\ row' /= None /\ roster' = (roster \/ Dangerous(Head(frames)))
                             /\ disk' \in {disk, roster'}
           /\ row = None => row' = None /\ roster' = roster /\ disk' = disk
           /\ UNCHANGED <<gate, cell, reply, queue, sup, notes, ran, kept>>
  <1>1. /\ frames /= <<>> /\ frames' = Tail(frames)
        /\ UNCHANGED <<gate, cell, reply, queue, sup, notes, ran, kept>>
    BY DEF TakeFrame, ticket
  <1>2. CASE row = None
    BY <1>1, <1>2 DEF TakeFrame, RowKept
  <1>3. CASE row /= None
    <2>1. RowKept /\ row' /= None /\ roster' = (roster \/ Dangerous(Head(frames)))
      BY <1>3, ObservedFacts DEF TakeFrame
    <2>2. disk' \in {disk, roster'}
      BY <1>3 DEF TakeFrame
    <2>. QED
      BY <1>1, <1>3, <2>1, <2>2
  <1>. QED
    BY <1>2, <1>3

\* A session's end reaches the daemon: its row goes, unless a request holds the gate.
LEMMA TakeEndedFacts ==
    ASSUME TypeOK, SessionInv, TakeEnded
    PROVE  /\ notes /= <<>> /\ Head(notes).kind = "ended" /\ notes' = Tail(notes)
           /\ RowKept /\ (row /= None /\ gate /= None => row' /= None)
           /\ UNCHANGED <<roster, disk, gate, cell, reply, queue, sup, frames, ran, kept>>
  <1>1. /\ notes /= <<>> /\ Head(notes).kind = "ended" /\ notes' = Tail(notes)
        /\ UNCHANGED <<roster, disk, gate, cell, reply, queue, sup, frames, ran, kept>>
    BY DEF TakeEnded, ticket
  <1>2. row /= None => row \in Row /\ row.dangerous = roster /\ None \notin Row
    BY FieldTypes, NoneIsNoRecord DEF SessionInv
  <1>3. \/ row' = row
        \/ gate = None /\ row' = None
        \/ row /= None /\ row' = [row EXCEPT !.ended = TRUE]
    BY DEF TakeEnded
  <1>4. CASE row /= None /\ row' = [row EXCEPT !.ended = TRUE]
    <2>1. /\ row' \in Row /\ row'.gen = row.gen /\ row'.arm = row.arm
          /\ row'.dangerous = row.dangerous
      BY <1>2, <1>4 DEF Row
    <2>. QED
      BY <1>1, <1>2, <1>4, <2>1 DEF RowKept
  <1>. QED
    BY <1>1, <1>2, <1>3, <1>4 DEF RowKept

\* A resumed session: the next generation, with the mark of the roster.
LEMMA ResumeFacts ==
    ASSUME TypeOK, NEW transcript \in BOOLEAN, Resume(transcript)
    PROVE  /\ row = None /\ sup.phase = "done" /\ (transcript => ran)
           /\ row' \in Row /\ row' /= None /\ row'.gen = sup.gen + 1 /\ row'.arm = 0
           /\ row'.dangerous = roster' /\ roster' = (roster \/ transcript)
           /\ disk' = (IF transcript /\ ~roster THEN TRUE ELSE disk)
           /\ sup'.gen = sup.gen + 1 /\ sup'.phase = "running" /\ sup'.cmd = None
           /\ UNCHANGED <<gate, cell, reply, queue, notes, frames, ran, kept>>
  <1>1. /\ row = None /\ sup.phase = "done" /\ (transcript => ran)
        /\ disk' = (IF transcript /\ ~roster THEN TRUE ELSE disk)
        /\ UNCHANGED <<gate, cell, reply, queue, notes, frames, ran, kept>>
    BY DEF Resume, ticket
  <1>2. sup.gen \in Nat /\ sup.gen + 1 \in Nat /\ roster \in BOOLEAN /\ None \notin Row
    BY FieldTypes, NoneIsNoRecord
  <1>3. PICK b \in BOOLEAN : b = (roster \/ transcript)
    BY <1>2
  <1>4. row' = [gen |-> sup.gen + 1, dangerous |-> b, arm |-> 0, ended |-> FALSE] /\ roster' = b
    BY <1>3 DEF Resume
  <1>5. row' \in Row /\ row'.gen = sup.gen + 1 /\ row'.dangerous = b /\ row'.arm = 0
    BY <1>2, <1>4 DEF Row
  <1>6. sup'.gen = sup.gen + 1 /\ sup'.phase = "running" /\ sup'.cmd = None
    BY DEF Resume
  <1>. QED
    BY <1>1, <1>2, <1>3, <1>4, <1>5, <1>6
\* Every step keeps the row, the gate and the mark in memory together.
LEMMA SessionStep ==
    ASSUME IInv, SessionInv, Next PROVE SessionInv'
  <1>t. /\ TypeOK /\ BarrierInv /\ GateInv
        /\ row /= None => row.gen \in Nat /\ row.arm \in Nat /\ row.arm + 1 \in Nat
        /\ None \notin Nat
    BY FieldTypes DEF IInv, TicketInv
  <1>1. ASSUME NEW id \in Requests, NEW mode \in Modes, NEW saves \in 0..2,
               Prepare(id, mode, saves)
        PROVE  SessionInv'
    BY <1>t, <1>1, PrepareFacts DEF SessionInv
  <1>2. ASSUME RowKept, gate' = None PROVE SessionInv'
    BY <1>2 DEF RowKept, SessionInv
  <1>3. ASSUME RowKept, row /= None => row' /= None, gate' = gate PROVE SessionInv'
    BY <1>3 DEF RowKept, SessionInv
  <1>4. ASSUME Restaged, gate /= None PROVE SessionInv'
    BY <1>4 DEF Restaged, SessionInv
  <1>5. CASE Enqueue
    <2>1. gate /= None /\ gate' = [gate EXCEPT !.stage = "waiting"] /\ UNCHANGED <<row, roster>>
      BY <1>5 DEF Enqueue, ledger
    <2>2. gate'.gen = gate.gen /\ gate'.armed = gate.armed /\ gate'.mode = gate.mode
      BY <1>t, <2>1, FieldTypes DEF Gate
    <2>. QED
      BY <2>1, <2>2 DEF SessionInv
  <1>6. CASE EnqueueFails \/ Timeout \/ NoOutcome
    <2>1. gate /= None
      BY <1>6 DEF EnqueueFails, Timeout, NoOutcome
    <2>2. CASE Withdrawn
      BY <1>t, <1>2, <2>1, <2>2, WithdrawnFacts
    <2>. QED
      BY <1>t, <1>4, <1>6, <2>1, <2>2, WorkerFacts
  <1>7. CASE Outcome
    BY <1>t, <1>2, <1>7, OutcomeFacts
  <1>8. ASSUME UNCHANGED <<row, roster, gate>> PROVE SessionInv'
    BY <1>8 DEF SessionInv
  <1>9. ASSUME NEW admitted \in BOOLEAN, Take(admitted) PROVE SessionInv'
    BY <1>8, <1>9 DEF Take, ledger
  <1>10. CASE Reject \/ Refused \/ Applied \/ Unknown \/ AfterBarrier \/ SupervisorExits
    BY <1>8, <1>10 DEF Reject, Refused, Applied, Unknown, AfterBarrier, SupervisorExits, ledger
  <1>11. ASSUME NEW mode \in Observed, NativeChange(mode) PROVE SessionInv'
    BY <1>8, <1>11 DEF NativeChange, ledger
  <1>12. CASE TakeDisarm
    BY <1>t, <1>3, <1>12, TakeDisarmFacts
  <1>13. CASE TakeSettings
    BY <1>t, <1>3, <1>13, TakeSettingsFacts
  <1>14. CASE TakeEnded
    <2>1. RowKept /\ (row /= None /\ gate /= None => row' /= None) /\ gate' = gate
      BY <1>t, <1>14, TakeEndedFacts
    <2>. QED
      BY <1>2, <1>3, <2>1
  <1>15. ASSUME NEW saved \in BOOLEAN, TakeFrame(saved) PROVE SessionInv'
    BY <1>t, <1>3, <1>15, TakeFrameFacts
  <1>16. ASSUME NEW transcript \in BOOLEAN, Resume(transcript) PROVE SessionInv'
    BY <1>t, <1>16, ResumeFacts DEF SessionInv
  <1>17. CASE SaveAnother
    BY <1>8, <1>17 DEF SaveAnother
  <1>18. CASE CrashAndRestart
    BY <1>18 DEF CrashAndRestart, SessionInv
  <1>. QED
    BY <1>1, <1>5, <1>6, <1>7, <1>9, <1>10, <1>11, <1>12, <1>13, <1>14, <1>15, <1>16, <1>17,
       <1>18, NextCases

----------------------------------------------------------------------------
(* The supervisor's steps *)

\* What a supervisor's step leaves alone.
Aside == UNCHANGED <<row, roster, disk, gate, kept>>

\* What a note added to the end of the notes, or none, leaves.
NotesGrow(n) == notes' = Append(notes, n) /\ n \in Notes

\* The note that takes an instruction's arm back, if it armed.
Disarms(cmd) ==
    IF cmd.armed = None THEN notes' = notes ELSE NotesGrow(Disarm(sup.gen, cmd.armed))

\* A command is dequeued: it is the gate's and now executing, or dropped, its arm
\* taken back.
LEMMA TakeFacts ==
    ASSUME TypeOK, NEW admitted \in BOOLEAN, Take(admitted)
    PROVE  /\ Aside /\ UNCHANGED <<frames, ran>>
           /\ queue /= <<>> /\ queue' = Tail(queue) /\ Head(queue).id \in Requests
           /\ sup.cmd = None /\ sup.phase = "running"
           /\ sup'.phase = sup.phase /\ sup'.gen = sup.gen /\ sup'.mode = sup.mode
           /\ \/ /\ cell[Head(queue).id] = "queued" /\ sup'.cmd = Head(queue)
                 /\ cell' = [cell EXCEPT ![Head(queue).id] = "taken"]
                 /\ notes' = notes /\ reply' = reply
              \/ /\ sup' = sup /\ Disarms(Head(queue))
                 /\ cell' = [cell EXCEPT ![Head(queue).id] = Abandon(cell[Head(queue).id]).cell]
                 /\ reply' = [reply EXCEPT ![Head(queue).id] = Dropped(Head(queue).id)]
  <1>1. /\ Aside /\ UNCHANGED <<frames, ran>> /\ queue /= <<>> /\ queue' = Tail(queue)
        /\ sup.cmd = None /\ sup.phase = "running"
    BY DEF Take, Idle, Aside, ledger
  <1>2. PICK cmd : cmd = Head(queue)
    OBVIOUS
  <1>3. cmd \in Command /\ cmd.id \in Requests /\ cmd.armed \in Nat \cup {None}
    <2>1. Head(queue) \in Command
      BY <1>1, TailFacts DEF TypeOK
    <2>. QED
      BY <1>2, <2>1 DEF Command
  <1>4. sup \in Supervisor /\ sup.gen \in Nat
    BY FieldTypes
  <1>5. CASE Accepts(cell[cmd.id], admitted)
    <2>1. /\ sup' = [sup EXCEPT !.cmd = cmd] /\ notes' = notes /\ reply' = reply
          /\ cell' = [cell EXCEPT ![cmd.id] = "taken"] /\ cell[cmd.id] = "queued"
      BY <1>2, <1>5 DEF Take, Accepts
    <2>2. sup'.cmd = cmd /\ sup'.phase = sup.phase /\ sup'.gen = sup.gen /\ sup'.mode = sup.mode
      BY <1>4, <2>1 DEF Supervisor
    <2>. QED
      BY <1>1, <1>2, <1>3, <2>1, <2>2
  <1>6. CASE ~Accepts(cell[cmd.id], admitted)
    <2>1. /\ sup' = sup /\ Disarmed(cmd)
          /\ cell' = [cell EXCEPT ![cmd.id] = Abandon(cell[cmd.id]).cell]
          /\ reply' = [reply EXCEPT ![cmd.id] = Dropped(cmd.id)]
      BY <1>2, <1>6 DEF Take
    <2>2. cmd.armed /= None => Disarm(sup.gen, cmd.armed) \in Notes
      BY <1>3, <1>4 DEF Disarm, Notes, Observed, Modes
    <2>3. Disarms(cmd)
      BY <2>1, <2>2 DEF Disarmed, Disarms, NotesGrow
    <2>. QED
      BY <1>1, <1>2, <1>3, <2>1, <2>3
  <1>. QED
    BY <1>5, <1>6

\* A taken instruction that does not take effect.
LEMMA NoEffectFacts ==
    ASSUME TypeOK, Reject \/ Refused
    PROVE  /\ Aside /\ UNCHANGED <<frames, ran, cell, queue>>
           /\ sup.cmd /= None /\ sup.phase = "running" /\ sup'.cmd = None
           /\ sup'.phase = "running" /\ sup'.gen = sup.gen /\ sup'.mode = sup.mode
           /\ Disarms(sup.cmd)
           /\ \E what \in {"error", "refused"} : reply' = [reply EXCEPT ![sup.cmd.id] = what]
  <1>1. /\ Aside /\ UNCHANGED <<frames, ran, cell, queue>>
        /\ sup.cmd /= None /\ sup.phase = "running" /\ Disarmed(sup.cmd)
        /\ sup' = [sup EXCEPT !.cmd = None]
        /\ \E what \in {"error", "refused"} : reply' = [reply EXCEPT ![sup.cmd.id] = what]
    BY DEF Reject, Refused, Executing, Done, Aside, ledger
  <1>2. sup \in Supervisor /\ sup.gen \in Nat /\ sup.cmd.armed \in Nat \cup {None}
    BY <1>1, FieldTypes
  <1>3. sup'.cmd = None /\ sup'.phase = sup.phase /\ sup'.gen = sup.gen /\ sup'.mode = sup.mode
    BY <1>1, <1>2 DEF Supervisor
  <1>4. sup.cmd.armed /= None => Disarm(sup.gen, sup.cmd.armed) \in Notes
    BY <1>2 DEF Disarm, Notes, Observed, Modes
  <1>5. Disarms(sup.cmd)
    BY <1>1, <1>4 DEF Disarmed, Disarms, NotesGrow
  <1>. QED
    BY <1>1, <1>3, <1>5
\* A taken instruction that takes effect, or may have: with a shared harness the
\* daemon is told and waited for, otherwise the instruction is answered.
LEMMA EffectFacts ==
    ASSUME TypeOK, Applied \/ Unknown
    PROVE  /\ Aside /\ cell' = cell /\ ran' = (ran \/ Dangerous(sup.cmd.mode))
           /\ sup.cmd /= None /\ sup.phase = "running" /\ sup'.gen = sup.gen
           /\ \/ /\ sup'.phase = "barrier" /\ sup'.cmd = sup.cmd
                 /\ sup'.outcome \in {"applied", "unknown"}
                 /\ NotesGrow(Settings(sup.gen, sup'.mode))
                 /\ UNCHANGED <<reply, queue, frames>>
              \/ /\ sup'.phase = "running" /\ sup'.cmd = None
                 /\ reply' = [reply EXCEPT ![sup.cmd.id] = "applied"]
                 /\ frames' = Append(frames, sup.cmd.mode)
                 /\ UNCHANGED <<notes, queue>>
              \/ /\ sup'.phase = "done" /\ sup'.cmd = None /\ queue' = <<>>
                 /\ reply'[sup.cmd.id] = "unknown" /\ NotesGrow(Ended(sup.gen))
                 /\ UNCHANGED frames
  <1>1. /\ Aside /\ cell' = cell /\ ran' = (ran \/ Dangerous(sup.cmd.mode))
        /\ sup.cmd /= None /\ sup.phase = "running"
    BY DEF Applied, Unknown, Executing, Aside, ledger
  <1>2. /\ sup \in Supervisor /\ sup.gen \in Nat /\ sup.cmd.id \in Requests
        /\ sup.cmd.mode \in Modes
    BY <1>1, FieldTypes
  <1>3. CASE sup.shared
    <2>1. PICK mode \in Observed, out \in {"applied", "unknown"} :
             /\ sup' = [sup EXCEPT !.phase = "barrier", !.mode = mode, !.outcome = out]
             /\ notes' = Append(notes, Settings(sup.gen, mode))
             /\ UNCHANGED <<reply, queue, frames>>
      BY <1>2, <1>3 DEF Applied, Unknown, Observed
    <2>2. /\ sup'.phase = "barrier" /\ sup'.cmd = sup.cmd /\ sup'.outcome = out
          /\ sup'.mode = mode /\ sup'.gen = sup.gen
      BY <1>2, <2>1 DEF Supervisor
    <2>3. Settings(sup.gen, mode) \in Notes
      BY <1>2 DEF Settings, Notes
    <2>. QED
      BY <1>1, <2>1, <2>2, <2>3 DEF NotesGrow
  <1>4. CASE Applied /\ ~sup.shared
    <2>1. /\ sup' = [sup EXCEPT !.cmd = None] /\ UNCHANGED <<notes, queue>>
          /\ reply' = [reply EXCEPT ![sup.cmd.id] = "applied"]
          /\ frames' = Append(frames, sup.cmd.mode)
      BY <1>4 DEF Applied, Done
    <2>2. sup'.phase = "running" /\ sup'.cmd = None /\ sup'.gen = sup.gen
      BY <1>1, <1>2, <2>1 DEF Supervisor
    <2>. QED
      BY <1>1, <2>1, <2>2
  <1>5. CASE Unknown /\ ~sup.shared
    <2>1. /\ sup' = [[sup EXCEPT !.cmd = None] EXCEPT !.phase = "done"] /\ queue' = <<>>
          /\ notes' = Append(notes, Ended(sup.gen)) /\ UNCHANGED frames
          /\ reply'[sup.cmd.id] = "unknown"
      BY <1>2, <1>5 DEF Unknown, Done
    <2>2. sup'.phase = "done" /\ sup'.cmd = None /\ sup'.gen = sup.gen
      BY <1>2, <2>1 DEF Supervisor
    <2>3. Ended(sup.gen) \in Notes
      BY <1>2 DEF Ended, Notes, Observed, Modes
    <2>. QED
      BY <1>1, <2>1, <2>2, <2>3 DEF NotesGrow
  <1>. QED
    BY <1>3, <1>4, <1>5

\* Another client changes the shared harness's mode.
LEMMA NativeFacts ==
    ASSUME TypeOK, NEW mode \in Observed, NativeChange(mode)
    PROVE  /\ Aside /\ UNCHANGED <<cell, reply, queue, frames, ran>> /\ sup.cmd = None
           /\ sup.phase = "running" /\ sup'.phase = "barrier" /\ sup'.cmd = None /\ sup'.gen = sup.gen
           /\ NotesGrow(Settings(sup.gen, sup'.mode)) /\ "native" \in Faults
  <1>1. /\ Aside /\ UNCHANGED <<cell, reply, queue, frames, ran>> /\ sup.cmd = None
        /\ sup.phase = "running" /\ sup' = [sup EXCEPT !.phase = "barrier", !.mode = mode, !.outcome = None]
        /\ notes' = Append(notes, Settings(sup.gen, mode)) /\ "native" \in Faults
    BY DEF NativeChange, Idle, Aside, ledger, ticket
  <1>2. sup \in Supervisor /\ sup.gen \in Nat
    BY FieldTypes
  <1>3. /\ sup'.phase = "barrier" /\ sup'.cmd = sup.cmd /\ sup'.gen = sup.gen
        /\ sup'.mode = mode
    BY <1>1, <1>2 DEF Supervisor
  <1>4. Settings(sup.gen, mode) \in Notes
    BY <1>2 DEF Settings, Notes
  <1>. QED
    BY <1>1, <1>3, <1>4 DEF NotesGrow

\* The barrier is over.
LEMMA AfterBarrierFacts ==
    ASSUME TypeOK, AfterBarrier
    PROVE  /\ Aside /\ UNCHANGED <<cell, queue, notes, ran>> /\ sup.phase = "acked"
           /\ sup'.phase = "running" /\ sup'.cmd = None /\ sup'.gen = sup.gen
           /\ sup'.mode = sup.mode /\ frames' = Append(frames, sup.mode)
           /\ sup.cmd = None => reply' = reply
           /\ sup.cmd /= None => reply' = [reply EXCEPT ![sup.cmd.id] = sup.outcome]
  <1>1. /\ Aside /\ UNCHANGED <<cell, queue, notes, ran>> /\ sup.phase = "acked"
        /\ sup' = [[sup EXCEPT !.cmd = None] EXCEPT !.phase = "running", !.outcome = None]
        /\ frames' = Append(frames, sup.mode)
        /\ sup.cmd = None => reply' = reply
        /\ sup.cmd /= None => reply' = [reply EXCEPT ![sup.cmd.id] = sup.outcome]
    BY DEF AfterBarrier, Done, Aside, ledger
  <1>2. sup \in Supervisor
    BY FieldTypes
  <1>3. sup'.phase = "running" /\ sup'.cmd = None /\ sup'.gen = sup.gen /\ sup'.mode = sup.mode
    BY <1>1, <1>2 DEF Supervisor
  <1>. QED
    BY <1>1, <1>3

\* The session ends at rest: what waits in its queue is dropped unanswered.
LEMMA ExitFacts ==
    ASSUME TypeOK, SupervisorExits
    PROVE  /\ Aside /\ UNCHANGED <<cell, frames, ran>> /\ sup.cmd = None /\ queue' = <<>>
           /\ sup.phase = "running" /\ sup'.phase = "done" /\ sup'.cmd = None /\ sup'.gen = sup.gen
           /\ NotesGrow(Ended(sup.gen))
           /\ \A id \in Requests : reply'[id] = reply[id] \/ reply'[id] = "closed"
           /\ \A id \in Requests : reply[id] /= "open" => reply'[id] = reply[id]
  <1>1. /\ Aside /\ UNCHANGED <<cell, frames, ran>> /\ sup.cmd = None /\ queue' = <<>>
        /\ sup.phase = "running" /\ sup' = [sup EXCEPT !.phase = "done"] /\ notes' = Append(notes, Ended(sup.gen))
    BY DEF SupervisorExits, Idle, Aside, ledger
  <1>2. \A id \in Requests : reply'[id] = Dropped(id) \/ reply'[id] = reply[id]
    BY DEF SupervisorExits
  <1>3. sup \in Supervisor /\ sup.gen \in Nat
    BY FieldTypes
  <1>4. sup'.phase = "done" /\ sup'.cmd = sup.cmd /\ sup'.gen = sup.gen
    BY <1>1, <1>3 DEF Supervisor
  <1>5. Ended(sup.gen) \in Notes
    BY <1>3 DEF Ended, Notes, Observed, Modes
  <1>. QED
    BY <1>1, <1>2, <1>4, <1>5 DEF NotesGrow, Dropped

\* The daemon dies: the file is left, and what has been decided.
LEMMA CrashFacts ==
    ASSUME TypeOK, CrashAndRestart
    PROVE  /\ row' = None /\ roster' = disk /\ gate' = None /\ kept' = (kept \/ gate /= None)
           /\ sup'.phase = "done" /\ sup'.cmd = None /\ sup'.gen = sup.gen
           /\ queue' = <<>> /\ notes' = <<>> /\ frames' = <<>>
           /\ UNCHANGED <<disk, cell, reply, ran>>
  <1>1. /\ row' = None /\ roster' = disk /\ gate' = None /\ kept' = (kept \/ gate /= None)
        /\ sup' = [[sup EXCEPT !.cmd = None] EXCEPT !.phase = "done", !.outcome = None]
        /\ queue' = <<>> /\ notes' = <<>> /\ frames' = <<>>
        /\ UNCHANGED <<disk, cell, reply, ran>>
    BY DEF CrashAndRestart, Done, ticket
  <1>2. sup \in Supervisor
    BY FieldTypes
  <1>3. sup'.phase = "done" /\ sup'.cmd = None /\ sup'.gen = sup.gen
    BY <1>1, <1>2 DEF Supervisor
  <1>. QED
    BY <1>1, <1>3

\* A command is queued: the gate's own.
LEMMA EnqueueFacts ==
    ASSUME TypeOK, Enqueue
    PROVE  /\ gate /= None /\ gate.stage = "prepared" /\ Restaged /\ gate'.stage = "waiting"
           /\ sup.phase /= "done" /\ UNCHANGED <<reply, sup, notes, frames, ran>>
           /\ \E cmd \in Command :
                 /\ queue' = Append(queue, cmd) /\ cmd.id = gate.id
                 /\ cmd.mode = gate.mode /\ cmd.armed = gate.armed
  <1>1. /\ gate /= None /\ gate.stage = "prepared" /\ sup.phase /= "done"
        /\ UNCHANGED <<row, roster, disk, cell, kept, reply, sup, notes, frames, ran>>
        /\ gate' = [gate EXCEPT !.stage = "waiting"]
    BY DEF Enqueue, ledger, ticket
  <1>2. gate \in Gate /\ None \notin Gate
    BY <1>1, FieldTypes, NoneIsNoRecord
  <1>3. /\ gate' \in Gate /\ gate'.id = gate.id /\ gate'.mode = gate.mode
        /\ gate'.armed = gate.armed /\ gate'.gen = gate.gen /\ gate'.stage = "waiting"
    BY <1>1, <1>2 DEF Gate
  <1>4. PICK cmd : cmd = [id |-> gate.id, mode |-> gate.mode, armed |-> gate.armed]
    OBVIOUS
  <1>5. /\ cmd \in Command /\ cmd.id = gate.id /\ cmd.mode = gate.mode
        /\ cmd.armed = gate.armed
    BY <1>2, <1>4 DEF Command, Gate
  <1>6. queue' = Append(queue, cmd)
    BY <1>4 DEF Enqueue
  <1>. QED
    BY <1>1, <1>2, <1>3, <1>5, <1>6 DEF Restaged
\* What the channels hold after one end of them moved.
LEMMA ChannelFacts ==
    ASSUME TypeOK
    PROVE  /\ \A n : NotesGrow(n) =>
                \A i \in DOMAIN notes' : (i \in DOMAIN notes /\ notes'[i] = notes[i]) \/ notes'[i] = n
           /\ notes /= <<>> /\ notes' = Tail(notes) =>
                /\ 1 \in DOMAIN notes /\ Head(notes) = notes[1]
                /\ \A i \in DOMAIN notes' : i + 1 \in DOMAIN notes /\ notes'[i] = notes[i + 1]
           /\ \A m \in Observed : frames' = Append(frames, m) =>
                \A i \in DOMAIN frames' :
                   (i \in DOMAIN frames /\ frames'[i] = frames[i]) \/ frames'[i] = m
           /\ frames /= <<>> /\ frames' = Tail(frames) =>
                /\ 1 \in DOMAIN frames /\ Head(frames) = frames[1]
                /\ \A i \in DOMAIN frames' : i + 1 \in DOMAIN frames /\ frames'[i] = frames[i + 1]
           /\ \A c \in Command : queue' = Append(queue, c) =>
                \A i \in DOMAIN queue' :
                   (i \in DOMAIN queue /\ queue'[i] = queue[i])
                   \/ (i = Len(queue') /\ queue'[i] = c)
           /\ queue /= <<>> /\ queue' = Tail(queue) =>
                /\ 1 \in DOMAIN queue /\ Head(queue) = queue[1] /\ Len(queue') = Len(queue) - 1
                /\ \A i \in DOMAIN queue' : i + 1 \in DOMAIN queue /\ queue'[i] = queue[i + 1]
  <1>1. notes \in Seq(Notes) /\ frames \in Seq(Observed) /\ queue \in Seq(Command)
    BY DEF TypeOK
  <1>2. ASSUME NEW n, NotesGrow(n), NEW i \in DOMAIN notes'
        PROVE  (i \in DOMAIN notes /\ notes'[i] = notes[i]) \/ notes'[i] = n
    BY <1>1, <1>2, AppendFacts DEF NotesGrow
  <1>3. notes /= <<>> /\ notes' = Tail(notes) =>
          /\ 1 \in DOMAIN notes /\ Head(notes) = notes[1]
          /\ \A i \in DOMAIN notes' : i + 1 \in DOMAIN notes /\ notes'[i] = notes[i + 1]
    BY <1>1, TailFacts
  <1>4. ASSUME NEW m \in Observed, frames' = Append(frames, m), NEW i \in DOMAIN frames'
        PROVE  (i \in DOMAIN frames /\ frames'[i] = frames[i]) \/ frames'[i] = m
    BY <1>1, <1>4, AppendFacts
  <1>5. frames /= <<>> /\ frames' = Tail(frames) =>
          /\ 1 \in DOMAIN frames /\ Head(frames) = frames[1]
          /\ \A i \in DOMAIN frames' : i + 1 \in DOMAIN frames /\ frames'[i] = frames[i + 1]
    BY <1>1, TailFacts
  <1>6. ASSUME NEW c \in Command, queue' = Append(queue, c), NEW i \in DOMAIN queue'
        PROVE  (i \in DOMAIN queue /\ queue'[i] = queue[i]) \/ (i = Len(queue') /\ queue'[i] = c)
    BY <1>1, <1>6, AppendFacts
  <1>7. queue /= <<>> /\ queue' = Tail(queue) =>
          /\ 1 \in DOMAIN queue /\ Head(queue) = queue[1] /\ Len(queue') = Len(queue) - 1
          /\ \A i \in DOMAIN queue' : i + 1 \in DOMAIN queue /\ queue'[i] = queue[i + 1]
    BY <1>1, TailFacts
  <1>. QED
    BY <1>2, <1>3, <1>4, <1>5, <1>6, <1>7

\* Every step keeps what is queued and what was taken the gate's own.
LEMMA CommandStep ==
    ASSUME IInv, SessionInv, CommandInv, Next PROVE CommandInv'
  <1>t. /\ TypeOK /\ GateInv /\ QueueInv /\ TakenInv
        /\ gate /= None => gate.id \in Requests
        /\ \A i \in DOMAIN queue : queue[i].id \in Requests
    BY FieldTypes DEF IInv, TicketInv
  <1>0. DOMAIN <<>> = {}
    OBVIOUS
  <1>1. ASSUME NEW id \in Requests, NEW mode \in Modes, NEW saves \in 0..2,
               Prepare(id, mode, saves)
        PROVE  CommandInv'
    <2>1. /\ gate = None /\ cell[id] = "new" /\ UNCHANGED <<queue, sup>>
          /\ gate' = None \/ gate'.id = id
      BY <1>t, <1>1, PrepareFacts
    <2>2. sup.cmd = None
      BY <1>t, <2>1 DEF TakenInv
    <2>3. \A i \in DOMAIN queue : queue[i].id /= id
      BY <1>t, <2>1 DEF QueueInv
    <2>. QED
      BY <2>1, <2>2, <2>3 DEF CommandInv
  <1>2. CASE Enqueue
    <2>1. /\ gate /= None /\ gate.stage = "prepared" /\ Restaged /\ sup.phase /= "done"
          /\ UNCHANGED sup
      BY <1>t, <1>2, EnqueueFacts
    <2>2. PICK cmd \in Command :
             /\ queue' = Append(queue, cmd) /\ cmd.id = gate.id
             /\ cmd.mode = gate.mode /\ cmd.armed = gate.armed
      BY <1>t, <1>2, EnqueueFacts
    <2>3. sup.cmd = None /\ \A i \in DOMAIN queue : queue[i].id /= gate.id
      BY <1>t, <2>1 DEF TakenInv, GateInv
    <2>4. \A i \in DOMAIN queue' :
             (i \in DOMAIN queue /\ queue'[i] = queue[i]) \/ (i = Len(queue') /\ queue'[i] = cmd)
      BY <1>t, <2>2, ChannelFacts
    <2>. QED
      BY <2>1, <2>2, <2>3, <2>4 DEF CommandInv, Restaged
  <1>3. ASSUME gate' = None, sup'.cmd = None, sup' = sup, queue' = queue PROVE CommandInv'
    BY <1>3 DEF CommandInv
  <1>4. CASE EnqueueFails \/ Timeout \/ NoOutcome
    <2>1. gate /= None
      BY <1>4 DEF EnqueueFails, Timeout, NoOutcome
    <2>2. UNCHANGED <<queue, sup>>
      BY <1>t, <1>4, <2>1, WorkerFacts
    <2>3. CASE Withdrawn /\ cell[gate.id] \in {"queued", "abandoned"}
      <3>1. gate' = None
        BY <2>3 DEF Withdrawn, Answered
      <3>2. sup.cmd = None
        BY <1>t, <2>3 DEF TakenInv
      <3>. QED
        BY <1>3, <2>2, <3>1, <3>2
    <2>4. CASE Restaged
      BY <2>1, <2>2, <2>4 DEF CommandInv, Restaged
    <2>. QED
      BY <1>t, <1>4, <2>1, <2>3, <2>4, WorkerFacts
  <1>5. CASE Outcome
    <2>1. gate' = None /\ UNCHANGED <<queue, sup>> /\ gate /= None /\ reply[gate.id] /= "open"
      BY <1>t, <1>5, OutcomeFacts
    <2>2. sup.cmd = None
      BY <1>t, <2>1 DEF TakenInv
    <2>. QED
      BY <1>3, <2>1, <2>2
  <1>6. ASSUME NEW admitted \in BOOLEAN, Take(admitted) PROVE CommandInv'
    <2>1. /\ queue /= <<>> /\ queue' = Tail(queue) /\ sup.cmd = None /\ sup.phase = "running"
          /\ sup'.phase = sup.phase /\ gate' = gate
          /\ \/ cell[Head(queue).id] = "queued" /\ sup'.cmd = Head(queue)
             \/ sup' = sup
      BY <1>t, <1>6, TakeFacts DEF Aside
    <2>2. /\ 1 \in DOMAIN queue /\ Head(queue) = queue[1] /\ Len(queue') = Len(queue) - 1
          /\ \A i \in DOMAIN queue' : i + 1 \in DOMAIN queue /\ queue'[i] = queue[i + 1]
      BY <1>t, <2>1, ChannelFacts
    <2>3. \A i \in DOMAIN queue' :
             gate /= None /\ queue'[i].id = gate.id
             => i = Len(queue') /\ queue'[i].mode = gate.mode /\ queue'[i].armed = gate.armed
      <3>1. Len(queue) \in Nat /\ DOMAIN queue = 1 .. Len(queue) /\ queue' \in Seq(Command)
            /\ DOMAIN queue' = 1 .. Len(queue')
        BY <1>t, <2>1 DEF TypeOK
      <3>. QED
        BY <2>2, <3>1 DEF CommandInv
    <2>4. CASE cell[Head(queue).id] = "queued" /\ sup'.cmd = Head(queue)
      <3>1. gate /= None /\ gate.id = queue[1].id
        BY <1>t, <2>2, <2>4 DEF QueueInv
      <3>2. Len(queue) = 1 /\ queue[1].mode = gate.mode /\ queue[1].armed = gate.armed
        BY <2>2, <3>1 DEF CommandInv
      <3>3. queue' = <<>>
        <4>1. queue' \in Seq(Command) /\ Len(queue') = 0
          BY <1>t, <2>1, <2>2, <3>2, TailFacts DEF TypeOK
        <4>. QED
          BY <4>1
      <3>. QED
        BY <1>0, <2>1, <2>2, <2>4, <3>1, <3>2, <3>3 DEF CommandInv
    <2>5. CASE sup' = sup
      BY <2>1, <2>3, <2>5 DEF CommandInv
    <2>. QED
      BY <2>1, <2>4, <2>5
  <1>7. CASE Reject \/ Refused
    <2>1. sup'.cmd = None /\ sup'.phase = "running" /\ queue' = queue /\ gate' = gate
      BY <1>t, <1>7, NoEffectFacts DEF Aside
    <2>. QED
      BY <2>1 DEF CommandInv
  <1>8. CASE Applied \/ Unknown
    <2>1. /\ gate' = gate /\ sup.cmd /= None
          /\ \/ sup'.phase = "barrier" /\ sup'.cmd = sup.cmd /\ queue' = queue
             \/ sup'.phase = "running" /\ sup'.cmd = None /\ queue' = queue
             \/ sup'.phase = "done" /\ sup'.cmd = None /\ queue' = <<>>
      BY <1>t, <1>8, EffectFacts DEF Aside
    <2>. QED
      BY <1>0, <2>1 DEF CommandInv
  <1>9. ASSUME NEW mode \in Observed, NativeChange(mode) PROVE CommandInv'
    <2>1. sup'.phase = "barrier" /\ sup'.cmd = None /\ queue' = queue /\ gate' = gate
      BY <1>t, <1>9, NativeFacts DEF Aside
    <2>. QED
      BY <2>1 DEF CommandInv
  <1>10. CASE AfterBarrier
    <2>1. sup'.phase = "running" /\ sup'.cmd = None /\ queue' = queue /\ gate' = gate
      BY <1>t, <1>10, AfterBarrierFacts DEF Aside
    <2>. QED
      BY <2>1 DEF CommandInv
  <1>11. CASE SupervisorExits
    <2>1. sup'.cmd = None /\ queue' = <<>>
      BY <1>t, <1>11, ExitFacts
    <2>. QED
      BY <1>0, <2>1 DEF CommandInv
  <1>12. CASE TakeDisarm \/ TakeEnded \/ (\E saved \in BOOLEAN : TakeFrame(saved)) \/ SaveAnother
    <2>1. UNCHANGED <<gate, queue, sup>>
      BY <1>12 DEF TakeDisarm, TakeEnded, TakeFrame, SaveAnother
    <2>. QED
      BY <2>1 DEF CommandInv
  <1>13. CASE TakeSettings
    <2>1. sup'.phase = "acked" /\ sup'.cmd = sup.cmd /\ UNCHANGED <<gate, queue>>
      BY <1>t, <1>13, TakeSettingsFacts
    <2>. QED
      BY <2>1 DEF CommandInv
  <1>14. ASSUME NEW transcript \in BOOLEAN, Resume(transcript) PROVE CommandInv'
    <2>1. sup'.phase = "running" /\ sup'.cmd = None /\ UNCHANGED <<gate, queue>>
      BY <1>t, <1>14, ResumeFacts
    <2>. QED
      BY <2>1 DEF CommandInv
  <1>15. CASE CrashAndRestart
    <2>1. queue' = <<>> /\ sup'.cmd = None
      BY <1>t, <1>15, CrashFacts
    <2>. QED
      BY <1>0, <2>1 DEF CommandInv
  <1>. QED
    BY <1>1, <1>2, <1>4, <1>5, <1>6, <1>7, <1>8, <1>9, <1>10, <1>11, <1>12, <1>13, <1>14,
       <1>15, NextCases
\* Every step keeps the reports of an unchecked mode true.
LEMMA OutcomeStep ==
    ASSUME IInv, SessionInv, CommandInv, OutcomeInv, Next PROVE OutcomeInv'
  <1>t. /\ TypeOK /\ BarrierInv /\ FreshInv /\ GateInv /\ QueueInv /\ TakenInv
        /\ gate /= None => gate.id \in Requests
        /\ row /= None => row.gen = sup.gen
        /\ sup.gen \in Nat /\ sup.mode \in Observed
        /\ reply \in [Requests -> {"open", "closed", "error"} \cup Outcomes]
        /\ sup.cmd /= None => /\ gate /= None /\ gate.id = sup.cmd.id /\ sup.cmd.id \in Requests
                              /\ sup.cmd.mode = gate.mode /\ sup.cmd.mode \in Observed
    BY FieldTypes DEF IInv, TicketInv, TakenInv, CommandInv, BarrierInv, Observed, TypeOK
  <1>0. DOMAIN <<>> = {}
    OBVIOUS
  <1>p. sup.phase = "running" =>
          \A i \in DOMAIN notes : ~(notes[i].kind = "settings" /\ notes[i].gen = sup.gen)
    BY <1>t DEF BarrierInv
  <1>k. /\ \A g, a : Disarm(g, a).kind = "disarm"
        /\ \A g : Ended(g).kind = "ended"
        /\ \A g, m : Settings(g, m).mode = m
    BY DEF Disarm, Ended, Settings
  <1>1. ASSUME NEW id \in Requests, NEW mode \in Modes, NEW saves \in 0..2,
               Prepare(id, mode, saves)
        PROVE  OutcomeInv'
    <2>1. /\ cell[id] = "new" /\ UNCHANGED <<reply, sup, notes, frames, ran>>
          /\ gate' = None \/ gate'.id = id
      BY <1>t, <1>1, PrepareFacts
    <2>2. reply[id] = "open"
      BY <1>t, <2>1 DEF FreshInv
    <2>. QED
      BY <2>1, <2>2 DEF OutcomeInv
  <1>2. ASSUME gate' = None \/ (gate /= None /\ gate'.id = gate.id /\ gate'.mode = gate.mode),
               UNCHANGED <<reply, sup, notes, frames, ran>>
        PROVE  OutcomeInv'
    BY <1>2 DEF OutcomeInv
  <1>3. CASE Enqueue
    BY <1>t, <1>2, <1>3, EnqueueFacts DEF Restaged
  <1>4. CASE EnqueueFails \/ Timeout \/ NoOutcome
    <2>1. gate /= None
      BY <1>4 DEF EnqueueFails, Timeout, NoOutcome
    <2>2. /\ UNCHANGED <<reply, sup, notes, frames, ran>>
          /\ Withdrawn \/ Restaged
      BY <1>t, <1>4, <2>1, WorkerFacts
    <2>. QED
      BY <1>2, <2>1, <2>2 DEF Withdrawn, Answered, Restaged
  <1>5. CASE Outcome
    BY <1>t, <1>2, <1>5, OutcomeFacts
  <1>6. ASSUME NEW admitted \in BOOLEAN, Take(admitted) PROVE OutcomeInv'
    <2>1. /\ UNCHANGED <<gate, frames, ran>> /\ Head(queue).id \in Requests
          /\ sup.phase = "running" /\ sup'.phase = sup.phase /\ sup'.gen = sup.gen
          /\ \/ notes' = notes /\ reply' = reply
             \/ /\ Disarms(Head(queue))
                /\ reply' = [reply EXCEPT ![Head(queue).id] = Dropped(Head(queue).id)]
      BY <1>t, <1>6, TakeFacts DEF Aside
    <2>2. \A i \in DOMAIN notes' :
             (i \in DOMAIN notes /\ notes'[i] = notes[i]) \/ notes'[i].kind = "disarm"
      BY <1>t, <1>k, <2>1, ChannelFacts DEF Disarms
    <2>3. \A id \in Requests : reply'[id] = reply[id] \/ reply'[id] = "closed"
      BY <1>t, <2>1 DEF Dropped
    <2>. QED
      BY <1>t, <1>p, <2>1, <2>2, <2>3 DEF OutcomeInv
  <1>7. CASE Reject \/ Refused
    <2>1. /\ UNCHANGED <<gate, frames, ran>> /\ sup.cmd /= None
          /\ sup.phase = "running" /\ sup'.phase = sup.phase /\ sup'.gen = sup.gen
          /\ Disarms(sup.cmd)
      BY <1>t, <1>7, NoEffectFacts DEF Aside
    <2>2. \A i \in DOMAIN notes' :
             (i \in DOMAIN notes /\ notes'[i] = notes[i]) \/ notes'[i].kind = "disarm"
      BY <1>t, <1>k, <2>1, ChannelFacts DEF Disarms
    <2>3. reply'[gate.id] \in {"error", "refused"}
      BY <1>t, <1>7, <2>1, NoEffectFacts
    <2>. QED
      BY <1>t, <1>p, <2>1, <2>2, <2>3 DEF OutcomeInv
  <1>8. CASE Applied \/ Unknown
    <2>1. /\ gate' = gate /\ ran' = (ran \/ Dangerous(sup.cmd.mode))
          /\ sup.cmd /= None /\ sup.phase = "running" /\ sup'.gen = sup.gen
      BY <1>t, <1>8, EffectFacts DEF Aside
    <2>2. Dangerous(gate.mode) => ran'
      BY <1>t, <2>1
    <2>3. CASE /\ sup'.phase = "barrier" /\ sup'.cmd = sup.cmd
               /\ sup'.outcome \in {"applied", "unknown"}
               /\ NotesGrow(Settings(sup.gen, sup'.mode))
               /\ UNCHANGED <<reply, queue, frames>>
      <3>1. \A i \in DOMAIN notes' :
               (i \in DOMAIN notes /\ notes'[i] = notes[i]) \/ notes'[i].mode = sup'.mode
        BY <1>t, <1>k, <2>3, ChannelFacts
      <3>. QED
        BY <1>t, <1>p, <2>1, <2>2, <2>3, <3>1 DEF OutcomeInv
    <2>4. CASE /\ sup'.phase = "running" /\ sup'.cmd = None
               /\ frames' = Append(frames, sup.cmd.mode) /\ UNCHANGED notes
      <3>1. \A i \in DOMAIN frames' :
               (i \in DOMAIN frames /\ frames'[i] = frames[i]) \/ frames'[i] = sup.cmd.mode
        BY <1>t, <2>1, <2>4, ChannelFacts
      <3>. QED
        BY <1>t, <1>p, <2>1, <2>2, <2>4, <3>1 DEF OutcomeInv
    <2>5. CASE sup'.phase = "done" /\ sup'.cmd = None /\ NotesGrow(Ended(sup.gen)) /\ UNCHANGED frames
      <3>1. \A i \in DOMAIN notes' :
               (i \in DOMAIN notes /\ notes'[i] = notes[i]) \/ notes'[i].kind = "ended"
        BY <1>t, <1>k, <2>5, ChannelFacts
      <3>. QED
        BY <1>t, <1>p, <2>1, <2>2, <2>5, <3>1 DEF OutcomeInv
    <2>. QED
      BY <1>t, <1>8, <2>3, <2>4, <2>5, EffectFacts
  <1>9. ASSUME NEW mode \in Observed, NativeChange(mode) PROVE OutcomeInv'
    <2>1. /\ UNCHANGED <<gate, reply, frames, ran>> /\ sup.phase = "running"
          /\ sup'.phase = "barrier" /\ sup'.cmd = None /\ sup'.gen = sup.gen
          /\ NotesGrow(Settings(sup.gen, sup'.mode))
      BY <1>t, <1>9, NativeFacts DEF Aside
    <2>2. \A i \in DOMAIN notes' :
             (i \in DOMAIN notes /\ notes'[i] = notes[i]) \/ notes'[i].mode = sup'.mode
      BY <1>t, <1>k, <2>1, ChannelFacts
    <2>. QED
      BY <1>t, <1>p, <2>1, <2>2 DEF OutcomeInv
  <1>10. CASE AfterBarrier
    <2>1. /\ UNCHANGED <<gate, notes, ran>> /\ sup.phase = "acked"
          /\ sup'.phase = "running" /\ sup'.cmd = None /\ sup'.gen = sup.gen
          /\ sup'.mode = sup.mode /\ frames' = Append(frames, sup.mode)
          /\ sup.cmd = None => reply' = reply
          /\ sup.cmd /= None => reply' = [reply EXCEPT ![sup.cmd.id] = sup.outcome]
      BY <1>t, <1>10, AfterBarrierFacts DEF Aside
    <2>2. \A i \in DOMAIN frames' :
             (i \in DOMAIN frames /\ frames'[i] = frames[i]) \/ frames'[i] = sup.mode
      BY <1>t, <2>1, ChannelFacts
    <2>3. sup.cmd /= None /\ Dangerous(gate.mode) => ran
      BY <1>t, <2>1 DEF OutcomeInv
    <2>. QED
      BY <1>t, <2>1, <2>2, <2>3 DEF OutcomeInv
  <1>11. CASE SupervisorExits
    <2>1. /\ UNCHANGED <<gate, frames, ran>> /\ sup.phase = "running"
          /\ sup'.phase = "done" /\ sup'.cmd = None /\ sup'.gen = sup.gen
          /\ NotesGrow(Ended(sup.gen))
          /\ \A id \in Requests : reply'[id] = reply[id] \/ reply'[id] = "closed"
      BY <1>t, <1>11, ExitFacts DEF Aside
    <2>2. \A i \in DOMAIN notes' :
             (i \in DOMAIN notes /\ notes'[i] = notes[i]) \/ notes'[i].kind = "ended"
      BY <1>t, <1>k, <2>1, ChannelFacts
    <2>. QED
      BY <1>t, <1>p, <2>1, <2>2 DEF OutcomeInv
  <1>12. CASE TakeDisarm \/ TakeEnded
    <2>1. UNCHANGED <<gate, reply, sup, frames, ran>> /\ notes /= <<>> /\ notes' = Tail(notes)
      BY <1>12 DEF TakeDisarm, TakeEnded, ticket
    <2>2. \A i \in DOMAIN notes' : i + 1 \in DOMAIN notes /\ notes'[i] = notes[i + 1]
      BY <1>t, <2>1, ChannelFacts
    <2>. QED
      BY <2>1, <2>2 DEF OutcomeInv
  <1>13. CASE TakeSettings
    <2>1. /\ notes /= <<>> /\ Head(notes).kind = "settings" /\ notes' = Tail(notes)
          /\ row /= None /\ row.gen = Head(notes).gen
          /\ ran' = (ran \/ Dangerous(Head(notes).mode))
          /\ sup'.phase = "acked" /\ sup'.cmd = sup.cmd /\ sup'.mode = sup.mode
          /\ sup'.gen = sup.gen /\ sup'.outcome = sup.outcome
          /\ UNCHANGED <<gate, reply, frames>>
      BY <1>t, <1>13, TakeSettingsFacts
    <2>2. /\ 1 \in DOMAIN notes /\ Head(notes) = notes[1]
          /\ \A i \in DOMAIN notes' : i + 1 \in DOMAIN notes /\ notes'[i] = notes[i + 1]
      BY <1>t, <2>1, ChannelFacts
    <2>3. Head(notes).mode = sup.mode /\ sup.phase = "barrier"
      BY <1>t, <2>1, <2>2 DEF OutcomeInv, BarrierInv
    <2>4. ran => ran'
      BY <2>1
    <2>. QED
      BY <2>1, <2>2, <2>3, <2>4 DEF OutcomeInv
  <1>14. ASSUME NEW saved \in BOOLEAN, TakeFrame(saved) PROVE OutcomeInv'
    <2>1. UNCHANGED <<gate, reply, sup, notes, ran>> /\ frames /= <<>> /\ frames' = Tail(frames)
      BY <1>t, <1>14, TakeFrameFacts
    <2>2. \A i \in DOMAIN frames' : i + 1 \in DOMAIN frames /\ frames'[i] = frames[i + 1]
      BY <1>t, <2>1, ChannelFacts
    <2>. QED
      BY <2>1, <2>2 DEF OutcomeInv
  <1>15. ASSUME NEW transcript \in BOOLEAN, Resume(transcript) PROVE OutcomeInv'
    <2>1. /\ sup'.phase = "running" /\ sup'.cmd = None /\ sup'.gen = sup.gen + 1
          /\ UNCHANGED <<gate, reply, notes, frames, ran>>
      BY <1>t, <1>15, ResumeFacts
    <2>2. \A i \in DOMAIN notes : notes[i].gen /= sup'.gen
      <3>1. \A i \in DOMAIN notes : notes[i].gen \in Nat /\ notes[i].gen <= sup.gen
        <4>1. notes \in [1 .. Len(notes) -> Notes]
          BY <1>t DEF TypeOK
        <4>. QED
          BY <1>t, <4>1 DEF BarrierInv, Notes
      <3>. QED
        BY <1>t, <2>1, <3>1
    <2>. QED
      BY <2>1, <2>2 DEF OutcomeInv
  <1>16. CASE SaveAnother
    BY <1>16 DEF SaveAnother, OutcomeInv, ticket
  <1>17. CASE CrashAndRestart
    <2>1. /\ gate' = None /\ sup'.phase = "done" /\ sup'.cmd = None
          /\ notes' = <<>> /\ frames' = <<>>
      BY <1>t, <1>17, CrashFacts
    <2>. QED
      BY <1>0, <2>1 DEF OutcomeInv
  <1>. QED
    BY <1>1, <1>3, <1>4, <1>5, <1>6, <1>7, <1>8, <1>9, <1>10, <1>11, <1>12, <1>13, <1>14,
       <1>15, <1>16, <1>17, NextCases
\* Every step keeps an unjustified mark with the request at the gate.
LEMMA PendingMarkStep ==
    ASSUME FalseInv, Next PROVE PendingMark'
  <1>t. /\ TypeOK /\ BarrierInv /\ GateInv /\ SessionInv /\ OutcomeInv /\ PendingMark
        /\ roster \in BOOLEAN /\ disk \in BOOLEAN /\ ran \in BOOLEAN /\ kept \in BOOLEAN
        /\ row /= None => row.arm + 1 \in Nat /\ row.gen = sup.gen
        /\ None \notin Nat
    BY FieldTypes DEF FalseInv, IInv, TicketInv, BarrierInv
  <1>1. ASSUME NEW id \in Requests, NEW mode \in Modes, NEW saves \in 0..2,
               Prepare(id, mode, saves)
        PROVE  PendingMark'
    BY <1>t, <1>1, PrepareFacts DEF PendingMark
  <1>2. ASSUME UNCHANGED <<roster, disk, kept>>, ran => ran',
               gate' = gate \/ (gate'.armed = gate.armed /\ gate' /= None)
        PROVE  PendingMark'
    BY <1>t, <1>2 DEF PendingMark
  <1>3. ASSUME gate /= None, TakenBack, gate' = None, ran' = ran PROVE PendingMark'
    BY <1>t, <1>3 DEF TakenBack, PendingMark
  <1>4. CASE Enqueue
    BY <1>t, <1>2, <1>4, EnqueueFacts DEF Restaged
  <1>5. CASE EnqueueFails \/ Timeout \/ NoOutcome
    <2>1. gate /= None
      BY <1>5 DEF EnqueueFails, Timeout, NoOutcome
    <2>2. ran' = ran /\ (Withdrawn \/ Restaged)
      BY <1>t, <1>5, <2>1, WorkerFacts
    <2>3. CASE Withdrawn
      BY <1>t, <1>3, <2>1, <2>2, <2>3, WithdrawnFacts
    <2>4. CASE Restaged
      BY <1>2, <2>2, <2>4 DEF Restaged
    <2>. QED
      BY <2>2, <2>3, <2>4
  <1>6. CASE Outcome
    <2>1. gate /= None /\ gate' = None /\ ran' = ran
      BY <1>t, <1>6, OutcomeFacts
    <2>2. CASE TakenBack
      BY <1>3, <2>1, <2>2
    <2>3. CASE /\ reply[gate.id] \in {"applied", "unknown"} /\ kept' = kept
               /\ roster' => roster \/ Dangerous(gate.mode)
               /\ disk' \in {disk, roster'}
      <3>1. Dangerous(gate.mode) => ran
        BY <1>t, <2>1, <2>3 DEF OutcomeInv
      <3>2. ~ran /\ ~kept => ~roster /\ ~disk
        BY <1>t, <3>1 DEF PendingMark, SessionInv
      <3>. QED
        BY <2>1, <2>3, <3>1, <3>2 DEF PendingMark
    <2>. QED
      BY <1>t, <1>6, <2>2, <2>3, OutcomeFacts
  <1>7. ASSUME Aside, ran => ran' PROVE PendingMark'
    BY <1>t, <1>7 DEF Aside, PendingMark
  <1>8. ASSUME NEW admitted \in BOOLEAN, Take(admitted) PROVE PendingMark'
    BY <1>t, <1>7, <1>8, TakeFacts
  <1>9. CASE Reject \/ Refused
    BY <1>t, <1>7, <1>9, NoEffectFacts
  <1>10. CASE Applied \/ Unknown
    BY <1>t, <1>7, <1>10, EffectFacts
  <1>11. ASSUME NEW mode \in Observed, NativeChange(mode) PROVE PendingMark'
    BY <1>t, <1>7, <1>11, NativeFacts
  <1>12. CASE AfterBarrier
    BY <1>t, <1>7, <1>12, AfterBarrierFacts
  <1>13. CASE SupervisorExits
    BY <1>t, <1>7, <1>13, ExitFacts
  <1>14. CASE TakeDisarm
    BY <1>t, <1>14, TakeDisarmFacts DEF PendingMark
  <1>15. CASE TakeSettings
    <2>1. /\ roster' = (roster \/ Dangerous(Head(notes).mode)) /\ disk' = roster'
          /\ ran' = (ran \/ Dangerous(Head(notes).mode)) /\ kept' = kept /\ gate' = gate
      BY <1>t, <1>15, TakeSettingsFacts
    <2>. QED
      BY <1>t, <2>1 DEF PendingMark
  <1>16. CASE TakeEnded
    BY <1>t, <1>16, TakeEndedFacts DEF PendingMark
  <1>17. ASSUME NEW saved \in BOOLEAN, TakeFrame(saved) PROVE PendingMark'
    <2>1. /\ frames /= <<>> /\ frames' = Tail(frames) /\ UNCHANGED <<gate, ran, kept>>
          /\ \/ UNCHANGED <<roster, disk>>
             \/ roster' = (roster \/ Dangerous(Head(frames))) /\ disk' \in {disk, roster'}
      BY <1>t, <1>17, TakeFrameFacts
    <2>2. 1 \in DOMAIN frames /\ Head(frames) = frames[1]
      BY <1>t, <2>1, ChannelFacts
    <2>3. Dangerous(Head(frames)) => ran
      BY <1>t, <2>2 DEF OutcomeInv
    <2>. QED
      BY <1>t, <2>1, <2>3 DEF PendingMark
  <1>18. ASSUME NEW transcript \in BOOLEAN, Resume(transcript) PROVE PendingMark'
    BY <1>t, <1>18, ResumeFacts DEF PendingMark
  <1>19. CASE SaveAnother
    BY <1>t, <1>19 DEF SaveAnother, PendingMark
  <1>20. CASE CrashAndRestart
    BY <1>t, <1>20, CrashFacts DEF PendingMark
  <1>. QED
    BY <1>1, <1>4, <1>5, <1>6, <1>8, <1>9, <1>10, <1>11, <1>12, <1>13, <1>14,
       <1>15, <1>16, <1>17, <1>18, <1>19, <1>20, NextCases

\* FalseInv holds from the start and every step keeps it.
LEMMA FalseHolds == Spec => []FalseInv
  <1>1. Init => FalseInv
    <2>. SUFFICES ASSUME Init PROVE FalseInv
      OBVIOUS
    <2>1. IInv
      BY InvInit
    <2>2. /\ gate = None /\ row.dangerous = FALSE /\ roster = FALSE /\ disk = FALSE
          /\ sup.cmd = None /\ sup.phase = "running" /\ queue = <<>> /\ notes = <<>>
          /\ frames = <<>>
      BY DEF Init
    <2>3. DOMAIN <<>> = {}
      OBVIOUS
    <2>. QED
      BY <2>1, <2>2, <2>3
         DEF FalseInv, SessionInv, CommandInv, OutcomeInv, PendingMark
  <1>2. FalseInv /\ [Next]_vars => FalseInv'
    <2>1. ASSUME FalseInv, Next PROVE FalseInv'
      BY <2>1, InvStep, SessionStep, CommandStep, OutcomeStep, PendingMarkStep DEF FalseInv
    <2>2. ASSUME FalseInv, UNCHANGED vars PROVE FalseInv'
      <3>1. IInv'
        BY <2>2, InvStep DEF FalseInv
      <3>. QED
        BY <2>2, <3>1 DEF FalseInv, SessionInv, CommandInv, OutcomeInv, PendingMark,
                          vars, ledger, ticket
    <2>. QED
      BY <2>1, <2>2
  <1>. QED
    BY <1>1, <1>2, PTL DEF Spec

\* A session where nothing unchecked took effect, or may have, is never left marked:
\* when no request holds its gate and no save or daemon failed, the mark a request
\* armed has been taken back in memory and on disk, whichever of the worker's
\* withdrawal and the supervisor's note came first.
THEOREM MarksAreEarned == Spec => []NoFalseMark
  <1>1. FalseInv => NoFalseMark
    BY DEF FalseInv, SessionInv, PendingMark, NoFalseMark
  <1>. QED
    BY <1>1, FalseHolds, PTL
----------------------------------------------------------------------------
(* No mark is lost *)

\* Without other clients, every step keeps a barrier that of an instruction.
LEMMA OwnBarrierStep ==
    ASSUME MarkInv, Next, "native" \notin Faults PROVE OwnBarrier'
  <1>t. TypeOK /\ BarrierInv /\ SessionInv /\ OwnBarrier /\ (row /= None => row.gen = sup.gen)
    BY DEF MarkInv, FalseInv, IInv, BarrierInv
  <1>1. ASSUME UNCHANGED sup PROVE OwnBarrier'
    BY <1>t, <1>1 DEF OwnBarrier
  <1>2. ASSUME NEW id \in Requests, NEW mode \in Modes, NEW saves \in 0..2,
               Prepare(id, mode, saves)
        PROVE  OwnBarrier'
    BY <1>1, <1>2 DEF Prepare
  <1>3. CASE \/ Enqueue \/ EnqueueFails \/ Timeout \/ NoOutcome \/ Outcome
             \/ TakeDisarm \/ TakeEnded \/ SaveAnother
    BY <1>1, <1>3 DEF Enqueue, EnqueueFails, Timeout, NoOutcome, Outcome, TakeDisarm,
                      TakeEnded, SaveAnother
  <1>4. ASSUME NEW admitted \in BOOLEAN, Take(admitted) PROVE OwnBarrier'
    BY <1>t, <1>4, TakeFacts DEF OwnBarrier
  <1>5. CASE Reject \/ Refused
    BY <1>t, <1>5, NoEffectFacts DEF OwnBarrier
  <1>6. CASE Applied \/ Unknown
    BY <1>t, <1>6, EffectFacts DEF OwnBarrier
  <1>7. ASSUME NEW mode \in Observed, NativeChange(mode) PROVE OwnBarrier'
    BY <1>7 DEF NativeChange
  <1>8. CASE AfterBarrier
    BY <1>t, <1>8, AfterBarrierFacts DEF OwnBarrier
  <1>9. CASE SupervisorExits
    BY <1>t, <1>9, ExitFacts DEF OwnBarrier
  <1>10. CASE TakeSettings
    <2>1. /\ notes /= <<>> /\ Head(notes).kind = "settings" /\ notes' = Tail(notes)
          /\ row /= None /\ row.gen = Head(notes).gen /\ sup'.cmd = sup.cmd
      BY <1>t, <1>10, TakeSettingsFacts
    <2>2. 1 \in DOMAIN notes /\ Head(notes) = notes[1]
      BY <1>t, <2>1, ChannelFacts
    <2>3. sup.phase = "barrier"
      BY <1>t, <2>1, <2>2 DEF BarrierInv
    <2>. QED
      BY <1>t, <2>1, <2>3 DEF OwnBarrier
  <1>11. ASSUME NEW saved \in BOOLEAN, TakeFrame(saved) PROVE OwnBarrier'
    BY <1>1, <1>11 DEF TakeFrame
  <1>12. ASSUME NEW transcript \in BOOLEAN, Resume(transcript) PROVE OwnBarrier'
    BY <1>t, <1>12, ResumeFacts DEF OwnBarrier
  <1>13. CASE CrashAndRestart
    BY <1>t, <1>13, CrashFacts DEF OwnBarrier
  <1>. QED
    BY <1>2, <1>3, <1>4, <1>5, <1>6, <1>7, <1>8, <1>9, <1>10, <1>11, <1>12, <1>13, NextCases

\* No withdrawal is added to the notes, and nothing to the queue.
NotesFrom ==
    \A i \in DOMAIN notes' :
        notes'[i].kind /= "disarm" \/ \E j \in DOMAIN notes : notes'[i] = notes[j]

QueueFrom == \A i \in DOMAIN queue' : \E j \in DOMAIN queue : queue'[i] = queue[j]

\* Every way a channel changes that adds no withdrawal and no command.
LEMMA FromFacts ==
    ASSUME TypeOK
    PROVE  /\ notes' = notes => NotesFrom
           /\ \A g, m : NotesGrow(Settings(g, m)) => NotesFrom
           /\ \A g : NotesGrow(Ended(g)) => NotesFrom
           /\ notes /= <<>> /\ notes' = Tail(notes) => NotesFrom
           /\ notes' = <<>> => NotesFrom
           /\ queue' = queue => QueueFrom
           /\ queue /= <<>> /\ queue' = Tail(queue) => QueueFrom
           /\ queue' = <<>> => QueueFrom
  <1>1. DOMAIN <<>> = {}
    OBVIOUS
  <1>2. ASSUME NEW g, NEW m, NotesGrow(Settings(g, m)) PROVE NotesFrom
    <2>1. Settings(g, m).kind = "settings"
      BY DEF Settings
    <2>. QED
      BY <1>2, <2>1, ChannelFacts DEF NotesFrom
  <1>3. ASSUME NEW g, NotesGrow(Ended(g)) PROVE NotesFrom
    <2>1. Ended(g).kind = "ended"
      BY DEF Ended
    <2>. QED
      BY <1>3, <2>1, ChannelFacts DEF NotesFrom
  <1>4. notes /= <<>> /\ notes' = Tail(notes) => NotesFrom
    BY ChannelFacts DEF NotesFrom
  <1>5. queue /= <<>> /\ queue' = Tail(queue) => QueueFrom
    BY ChannelFacts DEF QueueFrom
  <1>6. notes' = notes => NotesFrom
    BY DEF NotesFrom
  <1>7. queue' = queue => QueueFrom
    BY DEF QueueFrom
  <1>8. (notes' = <<>> => NotesFrom) /\ (queue' = <<>> => QueueFrom)
    BY <1>1 DEF NotesFrom, QueueFrom
  <1>. QED
    BY <1>2, <1>3, <1>4, <1>5, <1>6, <1>7, <1>8

\* Every step keeps withdrawals on their way behind the arm that counts.
LEMMA ArmStep ==
    ASSUME MarkInv, Next PROVE ArmInv'
  <1>t. /\ TypeOK /\ BarrierInv /\ GateInv /\ QueueInv /\ TakenInv
        /\ SessionInv /\ CommandInv /\ OutcomeInv /\ ArmInv
        /\ gate /= None => gate.id \in Requests
        /\ row /= None => row.arm \in Nat /\ row.gen = sup.gen
        /\ None \notin Nat
        /\ \A i \in DOMAIN queue : queue[i].id \in Requests /\ queue[i].armed \in Nat \cup {None}
        /\ cell \in [Requests -> {"new", "queued", "taken", "abandoned"}]
        /\ sup.gen \in Nat
    BY FieldTypes DEF MarkInv, FalseInv, IInv, TicketInv, BarrierInv, TypeOK
  <1>0. DOMAIN <<>> = {}
    OBVIOUS
  <1>k. \A g, a : Disarm(g, a).kind = "disarm" /\ Disarm(g, a).gen = g /\ Disarm(g, a).arm = a
    BY DEF Disarm
  <1>1. ASSUME row' /= None => row /= None /\ row'.arm = row.arm,
               sup'.gen = sup.gen, NotesFrom, QueueFrom,
               Pending' => Pending /\ gate'.id = gate.id /\ gate'.mode = gate.mode,
               Pending' /\ Dangerous(gate.mode) => roster' /\ disk'
        PROVE  ArmInv'
    <2>1. ASSUME NEW i \in DOMAIN notes', row' /= None, notes'[i].kind = "disarm",
                 notes'[i].gen = sup'.gen
          PROVE  /\ notes'[i].arm \in Nat /\ notes'[i].arm <= row'.arm
                 /\ Pending' /\ Dangerous(gate'.mode) => notes'[i].arm /= row'.arm
      <3>1. PICK j \in DOMAIN notes : notes'[i] = notes[j]
        BY <1>1, <2>1 DEF NotesFrom
      <3>. QED
        BY <1>t, <1>1, <2>1, <3>1 DEF ArmInv
    <2>2. ASSUME NEW i \in DOMAIN queue', row' /= None, queue'[i].armed /= None
          PROVE  /\ queue'[i].armed <= row'.arm
                 /\ Pending' /\ Dangerous(gate'.mode) /\ queue'[i].id /= gate'.id
                    => queue'[i].armed /= row'.arm
      <3>1. PICK j \in DOMAIN queue : queue'[i] = queue[j]
        BY <1>1 DEF QueueFrom
      <3>. QED
        BY <1>t, <1>1, <2>2, <3>1 DEF ArmInv
    <2>3. Pending' /\ Dangerous(gate'.mode) => roster' /\ disk'
      BY <1>1
    <2>. QED
      BY <2>1, <2>2, <2>3 DEF ArmInv
  <1>2. ASSUME NEW id \in Requests, NEW mode \in Modes, NEW saves \in 0..2,
               Prepare(id, mode, saves)
        PROVE  ArmInv'
    <2>1. row /= None /\ gate = None /\ UNCHANGED <<queue, sup, notes>>
      BY <1>t, <1>2, PrepareFacts
    <2>2. CASE gate' = None /\ row' = row
      <3>1. ~Pending'
        BY <2>2 DEF Pending
      <3>. QED
        BY <1>t, <1>1, <2>1, <2>2, <3>1, FromFacts
    <2>3. CASE /\ row' /= None /\ gate'.mode = mode
               /\ row'.arm = IF Dangerous(mode) THEN row.arm + 1 ELSE row.arm
               /\ roster' = (roster \/ Dangerous(mode)) /\ disk' = roster'
      <3>1. CASE Dangerous(mode)
        <4>1. row'.arm = row.arm + 1 /\ roster' /\ disk'
          BY <2>3, <3>1
        <4>2. \A i \in DOMAIN notes :
                 notes[i].kind = "disarm" /\ notes[i].gen = sup.gen
                 => notes[i].arm \in Nat /\ notes[i].arm <= row.arm
          BY <1>t, <2>1 DEF ArmInv
        <4>3. \A i \in DOMAIN queue : queue[i].armed /= None => queue[i].armed <= row.arm
          BY <1>t, <2>1 DEF ArmInv
        <4>. QED
          BY <1>t, <2>1, <4>1, <4>2, <4>3 DEF ArmInv
      <3>2. CASE ~Dangerous(mode)
        <4>1. row'.arm = row.arm /\ ~Dangerous(gate'.mode)
          BY <2>3, <3>2
        <4>. QED
          BY <1>t, <2>1, <4>1 DEF ArmInv
      <3>. QED
        BY <3>1, <3>2
    <2>. QED
      BY <1>t, <1>2, <2>2, <2>3, PrepareFacts
  <1>3. ASSUME RowKept, gate' = None, UNCHANGED <<queue, sup, notes>> PROVE ArmInv'
    <2>1. ~Pending'
      BY <1>3 DEF Pending
    <2>. QED
      BY <1>t, <1>1, <1>3, <2>1, FromFacts DEF RowKept
  <1>4. CASE Enqueue
    <2>1. gate /= None /\ Restaged /\ UNCHANGED <<sup, notes>>
      BY <1>t, <1>4, EnqueueFacts
    <2>2. PICK cmd \in Command :
             queue' = Append(queue, cmd) /\ cmd.id = gate.id /\ cmd.armed = gate.armed
      BY <1>t, <1>4, EnqueueFacts
    <2>3. \A i \in DOMAIN queue' : (i \in DOMAIN queue /\ queue'[i] = queue[i]) \/ queue'[i] = cmd
      BY <1>t, <2>2, ChannelFacts
    <2>4. /\ row' = row /\ row /= None /\ gate'.id = gate.id /\ gate'.mode = gate.mode
          /\ UNCHANGED <<roster, disk>> /\ (gate.armed /= None => gate.armed = row.arm)
      BY <1>t, <2>1 DEF Restaged, SessionInv
    <2>5. Pending' <=> Pending
      BY <2>1 DEF Pending, Restaged
    <2>. QED
      BY <1>t, <2>1, <2>2, <2>3, <2>4, <2>5 DEF ArmInv
  <1>5. CASE EnqueueFails \/ Timeout \/ NoOutcome
    <2>1. gate /= None
      BY <1>5 DEF EnqueueFails, Timeout, NoOutcome
    <2>2. UNCHANGED <<queue, sup, notes>> /\ (Withdrawn \/ Restaged)
      BY <1>t, <1>5, <2>1, WorkerFacts
    <2>3. CASE Withdrawn
      BY <1>t, <1>3, <2>1, <2>2, <2>3, WithdrawnFacts
    <2>4. CASE Restaged
      <3>1. Pending' <=> Pending
        BY <2>1, <2>2, <2>4 DEF Pending, Restaged
      <3>2. Pending' /\ Dangerous(gate.mode) => roster' /\ disk'
        BY <1>t, <2>4, <3>1 DEF ArmInv, Restaged
      <3>. QED
        BY <1>t, <1>1, <2>2, <2>4, <3>1, <3>2, FromFacts DEF Restaged
    <2>. QED
      BY <2>2, <2>3, <2>4
  <1>6. CASE Outcome
    BY <1>t, <1>3, <1>6, OutcomeFacts
  <1>7. ASSUME Aside, sup'.gen = sup.gen, NotesFrom, QueueFrom, Pending' => Pending
        PROVE  ArmInv'
    <2>1. Pending /\ Dangerous(gate.mode) => roster /\ disk
      BY <1>t DEF ArmInv
    <2>. QED
      BY <1>t, <1>1, <1>7, <2>1 DEF Aside
  <1>8. ASSUME NEW admitted \in BOOLEAN, Take(admitted) PROVE ArmInv'
    <2>1. /\ Aside /\ queue /= <<>> /\ queue' = Tail(queue) /\ sup'.gen = sup.gen
          /\ Head(queue).id \in Requests /\ sup.cmd = None
      BY <1>t, <1>8, TakeFacts
    <2>2. /\ 1 \in DOMAIN queue /\ Head(queue) = queue[1] /\ QueueFrom
      BY <1>t, <2>1, ChannelFacts, FromFacts
    <2>3. CASE cell[Head(queue).id] = "queued" /\ notes' = notes
      <3>1. Pending
        BY <1>t, <2>2, <2>3 DEF Pending, QueueInv
      <3>. QED
        BY <1>t, <1>7, <2>1, <2>2, <2>3, <3>1, FromFacts
    <2>4. CASE /\ sup' = sup /\ Disarms(Head(queue))
               /\ cell' = [cell EXCEPT ![Head(queue).id] = Abandon(cell[Head(queue).id]).cell]
      <3>1. PICK cmd : cmd = Head(queue)
        OBVIOUS
      <3>2. /\ \A id \in Requests \ {cmd.id} : cell'[id] = cell[id]
            /\ cell'[cmd.id] /= "queued"
        BY <1>t, <2>1, <2>4, <3>1, AbandonFacts
      <3>3. Pending' => Pending /\ cmd.id /= gate.id
        BY <1>t, <2>1, <2>4, <3>2 DEF Pending, Aside
      <3>4. CASE cmd.armed = None
        <4>1. notes' = notes
          BY <2>4, <3>1, <3>4 DEF Disarms
        <4>. QED
          BY <1>t, <1>7, <2>1, <2>2, <3>3, <4>1, FromFacts
      <3>5. CASE cmd.armed /= None
        <4>1. NotesGrow(Disarm(sup.gen, cmd.armed))
          BY <2>4, <3>1, <3>5 DEF Disarms
        <4>2. \A i \in DOMAIN notes' :
                 \/ i \in DOMAIN notes /\ notes'[i] = notes[i]
                 \/ notes'[i] = Disarm(sup.gen, cmd.armed)
          BY <1>t, <4>1, ChannelFacts
        <4>3. row /= None => /\ cmd.armed \in Nat /\ cmd.armed <= row.arm
                             /\ Pending' /\ Dangerous(gate.mode) => cmd.armed /= row.arm
          BY <1>t, <2>2, <3>1, <3>3, <3>5 DEF ArmInv
        <4>4. UNCHANGED <<row, roster, disk, gate>>
          BY <2>1 DEF Aside
        <4>5. ASSUME NEW i \in DOMAIN notes', row' /= None, notes'[i].kind = "disarm",
                     notes'[i].gen = sup'.gen
              PROVE  /\ notes'[i].arm \in Nat /\ notes'[i].arm <= row'.arm
                     /\ Pending' /\ Dangerous(gate'.mode) => notes'[i].arm /= row'.arm
          <5>1. CASE notes'[i] = Disarm(sup.gen, cmd.armed)
            BY <1>k, <4>3, <4>4, <4>5, <5>1
          <5>2. CASE i \in DOMAIN notes /\ notes'[i] = notes[i]
            BY <1>t, <2>4, <3>3, <4>4, <4>5, <5>2 DEF ArmInv
          <5>. QED
            BY <4>2, <5>1, <5>2
        <4>6. ASSUME NEW i \in DOMAIN queue', row' /= None, queue'[i].armed /= None
              PROVE  /\ queue'[i].armed <= row'.arm
                     /\ Pending' /\ Dangerous(gate'.mode) /\ queue'[i].id /= gate'.id
                        => queue'[i].armed /= row'.arm
          <5>1. PICK j \in DOMAIN queue : queue'[i] = queue[j]
            BY <2>2 DEF QueueFrom
          <5>. QED
            BY <1>t, <3>3, <4>4, <4>6, <5>1 DEF ArmInv
        <4>7. Pending' /\ Dangerous(gate'.mode) => roster' /\ disk'
          BY <1>t, <3>3, <4>4 DEF ArmInv
        <4>. QED
          BY <4>5, <4>6, <4>7 DEF ArmInv
      <3>. QED
        BY <3>4, <3>5
    <2>. QED
      BY <1>t, <1>8, <2>3, <2>4, TakeFacts
  <1>9. CASE Reject \/ Refused
    <2>1. /\ Aside /\ UNCHANGED <<cell, queue>> /\ sup'.gen = sup.gen /\ sup'.cmd = None
          /\ sup.cmd /= None /\ Disarms(sup.cmd)
      BY <1>t, <1>9, NoEffectFacts
    <2>2. /\ gate /= None /\ gate.id = sup.cmd.id /\ cell[gate.id] = "taken"
          /\ sup.cmd.armed = gate.armed
      BY <1>t, <2>1 DEF TakenInv, CommandInv
    <2>3. ~Pending'
      BY <2>1, <2>2 DEF Pending, Aside
    <2>4. CASE gate.armed = None
      <3>1. notes' = notes
        BY <2>1, <2>2, <2>4 DEF Disarms
      <3>. QED
        BY <1>t, <1>7, <2>1, <2>3, <3>1, FromFacts
    <2>5. CASE gate.armed /= None
      <3>1. NotesGrow(Disarm(sup.gen, gate.armed))
        BY <2>1, <2>2, <2>5 DEF Disarms
      <3>2. \A i \in DOMAIN notes' :
               \/ i \in DOMAIN notes /\ notes'[i] = notes[i]
               \/ notes'[i] = Disarm(sup.gen, gate.armed)
        BY <1>t, <3>1, ChannelFacts
      <3>3. row /= None /\ gate.armed = row.arm
        BY <1>t, <2>2, <2>5 DEF SessionInv
      <3>4. row' = row
        BY <2>1 DEF Aside
      <3>. QED
        BY <1>t, <1>k, <2>1, <2>3, <3>2, <3>3, <3>4 DEF ArmInv
    <2>. QED
      BY <2>4, <2>5
  <1>10. CASE Applied \/ Unknown
    <2>1. /\ Aside /\ cell' = cell /\ sup.cmd /= None /\ sup'.gen = sup.gen
          /\ NotesFrom /\ QueueFrom
      BY <1>t, <1>10, EffectFacts, FromFacts
    <2>2. Pending' => Pending
      BY <1>t, <2>1 DEF Pending, Aside
    <2>. QED
      BY <1>7, <2>1, <2>2
  <1>11. ASSUME NEW mode \in Observed, NativeChange(mode) PROVE ArmInv'
    <2>1. Aside /\ cell' = cell /\ sup'.cmd = None /\ sup'.gen = sup.gen /\ NotesFrom /\ QueueFrom
      BY <1>t, <1>11, NativeFacts, FromFacts
    <2>2. Pending' => Pending
      BY <2>1 DEF Pending, Aside
    <2>. QED
      BY <1>7, <2>1, <2>2
  <1>12. CASE AfterBarrier
    <2>1. Aside /\ cell' = cell /\ sup'.cmd = None /\ sup'.gen = sup.gen /\ NotesFrom /\ QueueFrom
      BY <1>t, <1>12, AfterBarrierFacts, FromFacts
    <2>2. Pending' => Pending
      BY <2>1 DEF Pending, Aside
    <2>. QED
      BY <1>7, <2>1, <2>2
  <1>13. CASE SupervisorExits
    <2>1. Aside /\ cell' = cell /\ sup'.cmd = None /\ sup'.gen = sup.gen /\ NotesFrom /\ QueueFrom
      BY <1>t, <1>13, ExitFacts, FromFacts
    <2>2. Pending' => Pending
      BY <2>1 DEF Pending, Aside
    <2>. QED
      BY <1>7, <2>1, <2>2
  <1>14. CASE TakeDisarm
    <2>1. /\ notes /= <<>> /\ Head(notes).kind = "disarm" /\ notes' = Tail(notes)
          /\ RowKept /\ UNCHANGED <<gate, cell, queue, sup>>
          /\ \/ row /= None /\ row.gen = Head(notes).gen /\ row.arm = Head(notes).arm
             \/ roster' = roster /\ disk' = disk
      BY <1>t, <1>14, TakeDisarmFacts
    <2>2. NotesFrom /\ QueueFrom /\ 1 \in DOMAIN notes /\ Head(notes) = notes[1]
      BY <1>t, <2>1, FromFacts, ChannelFacts
    <2>3. Pending' <=> Pending
      BY <2>1 DEF Pending
    <2>4. Pending /\ Dangerous(gate.mode) => roster' /\ disk'
      <3>1. Pending /\ Dangerous(gate.mode) => roster /\ disk
        BY <1>t DEF ArmInv
      <3>2. /\ Pending /\ Dangerous(gate.mode) /\ row /= None /\ row.gen = Head(notes).gen
            => row.arm /= Head(notes).arm
        BY <1>t, <2>1, <2>2 DEF ArmInv
      <3>3. CASE roster' = roster /\ disk' = disk
        BY <3>1, <3>3
      <3>4. CASE row /= None /\ row.gen = Head(notes).gen /\ row.arm = Head(notes).arm
        BY <3>2, <3>4
      <3>. QED
        BY <2>1, <3>3, <3>4
    <2>. QED
      BY <1>1, <2>1, <2>2, <2>3, <2>4 DEF RowKept
  <1>15. CASE TakeSettings
    <2>1. /\ notes /= <<>> /\ notes' = Tail(notes) /\ RowKept /\ UNCHANGED <<gate, cell, queue>>
          /\ sup'.cmd = sup.cmd /\ sup'.gen = sup.gen
          /\ roster' = (roster \/ Dangerous(Head(notes).mode)) /\ disk' = roster'
      BY <1>t, <1>15, TakeSettingsFacts
    <2>2. NotesFrom /\ QueueFrom
      BY <1>t, <2>1, FromFacts
    <2>3. Pending' <=> Pending
      BY <2>1 DEF Pending
    <2>4. Pending /\ Dangerous(gate.mode) => roster' /\ disk'
      BY <1>t, <2>1 DEF ArmInv
    <2>. QED
      BY <1>1, <2>1, <2>2, <2>3, <2>4 DEF RowKept
  <1>16. CASE TakeEnded
    <2>1. /\ notes /= <<>> /\ notes' = Tail(notes) /\ RowKept
          /\ UNCHANGED <<gate, cell, queue, sup, roster, disk>>
      BY <1>t, <1>16, TakeEndedFacts
    <2>2. NotesFrom /\ QueueFrom
      BY <1>t, <2>1, FromFacts
    <2>3. Pending' <=> Pending
      BY <2>1 DEF Pending
    <2>4. Pending /\ Dangerous(gate.mode) => roster' /\ disk'
      BY <1>t, <2>1 DEF ArmInv
    <2>. QED
      BY <1>1, <2>1, <2>2, <2>3, <2>4 DEF RowKept
  <1>17. ASSUME NEW saved \in BOOLEAN, TakeFrame(saved) PROVE ArmInv'
    <2>1. /\ RowKept /\ UNCHANGED <<gate, cell, queue, sup, notes>>
          /\ (roster => roster') /\ (disk' = disk \/ disk' = roster')
      BY <1>t, <1>17, TakeFrameFacts
    <2>2. NotesFrom /\ QueueFrom
      BY <1>t, <2>1, FromFacts
    <2>3. Pending' <=> Pending
      BY <2>1 DEF Pending
    <2>4. Pending /\ Dangerous(gate.mode) => roster' /\ disk'
      <3>1. Pending /\ Dangerous(gate.mode) => roster /\ disk
        BY <1>t DEF ArmInv
      <3>2. CASE disk' = disk
        BY <2>1, <3>1, <3>2
      <3>3. CASE disk' = roster'
        BY <2>1, <3>1, <3>3
      <3>. QED
        BY <2>1, <3>2, <3>3
    <2>. QED
      BY <1>1, <2>1, <2>2, <2>3, <2>4 DEF RowKept
  <1>18. ASSUME NEW transcript \in BOOLEAN, Resume(transcript) PROVE ArmInv'
    <2>1. /\ row = None /\ sup.phase = "done" /\ sup'.gen = sup.gen + 1
          /\ UNCHANGED <<gate, queue, notes>>
      BY <1>t, <1>18, ResumeFacts
    <2>2. gate = None /\ queue = <<>>
      BY <1>t, <2>1 DEF SessionInv, CommandInv
    <2>3. ~Pending'
      BY <2>1, <2>2 DEF Pending
    <2>4. \A i \in DOMAIN notes : notes[i].gen /= sup'.gen
      <3>1. \A i \in DOMAIN notes : notes[i].gen \in Nat /\ notes[i].gen <= sup.gen
        <4>1. notes \in [1 .. Len(notes) -> Notes]
          BY <1>t DEF TypeOK
        <4>. QED
          BY <1>t, <4>1 DEF BarrierInv, Notes
      <3>. QED
        BY <1>t, <2>1, <3>1
    <2>. QED
      BY <1>0, <2>1, <2>2, <2>3, <2>4 DEF ArmInv
  <1>19. CASE SaveAnother
    <2>1. UNCHANGED <<row, roster, gate, cell, queue, sup, notes>> /\ disk' = roster
      BY <1>19 DEF SaveAnother, ticket
    <2>2. Pending' <=> Pending
      BY <2>1 DEF Pending
    <2>3. Pending /\ Dangerous(gate.mode) => roster' /\ disk'
      BY <1>t, <2>1 DEF ArmInv
    <2>. QED
      BY <1>t, <1>1, <2>1, <2>2, <2>3, FromFacts
  <1>20. CASE CrashAndRestart
    <2>1. gate' = None /\ row' = None
      BY <1>t, <1>20, CrashFacts
    <2>. QED
      BY <2>1 DEF ArmInv, Pending
  <1>. QED
    BY <1>2, <1>4, <1>5, <1>6, <1>8, <1>9, <1>10, <1>11, <1>12, <1>13, <1>14,
       <1>15, <1>16, <1>17, <1>18, <1>19, <1>20, NextCases
\* The instruction at the gate took effect, or may have, and is not answered yet or
\* was answered so.
Executed ==
    /\ cell[gate.id] = "taken"
    /\ \/ reply[gate.id] \in {"applied", "unknown"}
       \/ sup.cmd /= None /\ sup.phase /= "running"

\* Every step keeps what took effect out of reach of every withdrawal.
LEMMA RanStep ==
    ASSUME MarkInv, Next, "native" \notin Faults PROVE RanInv'
  <1>t. /\ TypeOK /\ BarrierInv /\ GateInv /\ QueueInv /\ TakenInv
        /\ SessionInv /\ CommandInv /\ OutcomeInv /\ ArmInv /\ RanInv /\ OwnBarrier
        /\ gate /= None => gate.id \in Requests
        /\ row /= None => row.arm \in Nat /\ row.gen = sup.gen
        /\ None \notin Nat
        /\ \A i \in DOMAIN queue : queue[i].id \in Requests /\ queue[i].armed \in Nat \cup {None}
        /\ cell \in [Requests -> {"new", "queued", "taken", "abandoned"}]
        /\ reply \in [Requests -> {"open", "closed", "error"} \cup Outcomes]
        /\ sup.gen \in Nat
        /\ sup.cmd /= None => sup.cmd.id \in Requests
    BY FieldTypes DEF MarkInv, FalseInv, IInv, TicketInv, BarrierInv, TypeOK
  <1>0. DOMAIN <<>> = {}
    OBVIOUS
  <1>k. \A g, a : Disarm(g, a).kind = "disarm" /\ Disarm(g, a).gen = g /\ Disarm(g, a).arm = a
    BY DEF Disarm
  <1>r. ran => /\ roster /\ disk
               /\ row /= None =>
                    /\ \A i \in DOMAIN notes :
                          notes[i].kind = "disarm" /\ notes[i].gen = sup.gen
                          => notes[i].arm /= row.arm
                    /\ \A i \in DOMAIN queue : queue[i].armed /= row.arm
               /\ gate /= None /\ gate.armed /= None => Executed
    BY <1>t DEF RanInv, Executed
  <1>1. ASSUME ran' => ran, ran => roster' /\ disk',
               row' /= None => row /= None /\ row'.arm = row.arm,
               sup'.gen = sup.gen, NotesFrom, QueueFrom,
               gate' /= None /\ gate'.armed /= None
               => gate /= None /\ gate.armed /= None /\ (ran /\ Executed => Executed')
        PROVE  RanInv'
    <2>. SUFFICES ASSUME ran' PROVE RanInv'
      BY DEF RanInv
    <2>1. ASSUME NEW i \in DOMAIN notes', row' /= None, notes'[i].kind = "disarm",
                 notes'[i].gen = sup'.gen
          PROVE  notes'[i].arm /= row'.arm
      <3>1. PICK j \in DOMAIN notes : notes'[i] = notes[j]
        BY <1>1, <2>1 DEF NotesFrom
      <3>. QED
        BY <1>r, <1>1, <2>1, <3>1
    <2>2. ASSUME NEW i \in DOMAIN queue', row' /= None PROVE queue'[i].armed /= row'.arm
      <3>1. PICK j \in DOMAIN queue : queue'[i] = queue[j]
        BY <1>1 DEF QueueFrom
      <3>. QED
        BY <1>r, <1>1, <2>2, <3>1
    <2>3. gate' /= None /\ gate'.armed /= None => Executed'
      BY <1>r, <1>1
    <2>4. roster' /\ disk'
      BY <1>1
    <2>. QED
      BY <2>1, <2>2, <2>3, <2>4 DEF RanInv, Executed
  <1>2. ASSUME NEW id \in Requests, NEW mode \in Modes, NEW saves \in 0..2,
               Prepare(id, mode, saves)
        PROVE  RanInv'
    <2>1. row /= None /\ gate = None /\ UNCHANGED <<queue, sup, notes, ran>>
      BY <1>t, <1>2, PrepareFacts
    <2>2. CASE gate' = None /\ row' = row /\ roster' = roster /\ disk' \in {disk, roster}
      <3>1. ran => roster' /\ disk'
        <4>1. CASE disk' = disk
          BY <1>r, <2>2, <4>1
        <4>2. CASE disk' = roster
          BY <1>r, <2>2, <4>2
        <4>. QED
          BY <2>2, <4>1, <4>2
      <3>. QED
        BY <1>t, <1>1, <2>1, <2>2, <3>1, FromFacts
    <2>3. CASE /\ row' /= None
               /\ row'.arm = IF Dangerous(mode) THEN row.arm + 1 ELSE row.arm
               /\ roster' = (roster \/ Dangerous(mode)) /\ disk' = roster'
               /\ gate'.armed = IF Dangerous(mode) /\ ~roster THEN row.arm + 1 ELSE None
      <3>. SUFFICES ASSUME ran' PROVE RanInv'
        BY DEF RanInv
      <3>1. roster' /\ disk' /\ gate'.armed = None
        BY <1>r, <2>1, <2>3
      <3>2. \A i \in DOMAIN notes :
               notes[i].kind = "disarm" /\ notes[i].gen = sup.gen
               => notes[i].arm \in Nat /\ notes[i].arm <= row.arm /\ notes[i].arm /= row.arm
        BY <1>t, <1>r, <2>1 DEF ArmInv
      <3>3. \A i \in DOMAIN queue :
               queue[i].armed /= row.arm /\ (queue[i].armed /= None => queue[i].armed <= row.arm)
        BY <1>t, <1>r, <2>1 DEF ArmInv
      <3>4. row'.arm \in Nat /\ row'.arm >= row.arm
        BY <1>t, <2>1, <2>3
      <3>5. \A i \in DOMAIN notes :
               notes[i].kind = "disarm" /\ notes[i].gen = sup.gen => notes[i].arm /= row'.arm
        BY <1>t, <2>1, <3>2, <3>4
      <3>6. \A i \in DOMAIN queue : queue[i].armed /= row'.arm
        BY <1>t, <2>1, <3>3, <3>4
      <3>. QED
        BY <2>1, <3>1, <3>5, <3>6 DEF RanInv
    <2>. QED
      BY <1>t, <1>2, <2>2, <2>3, PrepareFacts
  <1>3. CASE Enqueue
    <2>1. gate /= None /\ gate.stage = "prepared" /\ Restaged /\ UNCHANGED <<reply, sup, notes, ran>>
      BY <1>t, <1>3, EnqueueFacts
    <2>2. PICK cmd \in Command : queue' = Append(queue, cmd) /\ cmd.armed = gate.armed
      BY <1>t, <1>3, EnqueueFacts
    <2>3. \A i \in DOMAIN queue' : (i \in DOMAIN queue /\ queue'[i] = queue[i]) \/ queue'[i] = cmd
      BY <1>t, <2>2, ChannelFacts
    <2>4. ran => gate.armed = None
      BY <1>t, <1>r, <2>1 DEF GateInv, Executed
    <2>5. UNCHANGED <<row, roster, disk>> /\ gate'.armed = gate.armed
      BY <2>1 DEF Restaged
    <2>. SUFFICES ASSUME ran' PROVE RanInv'
      BY DEF RanInv
    <2>6. \A i \in DOMAIN queue' : row' /= None => queue'[i].armed /= row'.arm
      BY <1>t, <1>r, <2>1, <2>2, <2>3, <2>4, <2>5
    <2>. QED
      BY <1>r, <2>1, <2>4, <2>5, <2>6 DEF RanInv
  <1>4. ASSUME gate /= None, RowKept, TakenBack, gate' = None, UNCHANGED <<queue, sup, notes, ran>>,
               ran => gate.armed = None
        PROVE  RanInv'
    <2>1. ran => roster' = roster /\ disk' = disk
      BY <1>4 DEF TakenBack
    <2>2. ran => roster' /\ disk'
      BY <1>r, <2>1
    <2>. QED
      BY <1>t, <1>1, <1>4, <2>2, FromFacts DEF RowKept
  <1>5. CASE EnqueueFails \/ Timeout \/ NoOutcome
    <2>1. gate /= None
      BY <1>5 DEF EnqueueFails, Timeout, NoOutcome
    <2>2. /\ UNCHANGED <<reply, queue, sup, notes, ran>>
          /\ (Withdrawn /\ cell[gate.id] \in {"queued", "abandoned"}) \/ Restaged
      BY <1>t, <1>5, <2>1, WorkerFacts
    <2>3. CASE Withdrawn /\ cell[gate.id] \in {"queued", "abandoned"}
      <3>1. ran => gate.armed = None
        BY <1>r, <2>1, <2>3 DEF Executed
      <3>. QED
        BY <1>t, <1>4, <2>1, <2>2, <2>3, <3>1, WithdrawnFacts
    <2>4. CASE Restaged
      <3>1. Executed => Executed'
        BY <2>2, <2>4 DEF Executed, Restaged
      <3>2. UNCHANGED <<row, roster, disk>> /\ gate'.armed = gate.armed
        BY <2>4 DEF Restaged
      <3>3. ran => roster' /\ disk'
        BY <1>r, <3>2
      <3>. QED
        BY <1>t, <1>1, <2>1, <2>2, <3>1, <3>2, <3>3, FromFacts
    <2>. QED
      BY <2>2, <2>3, <2>4
  <1>6. CASE Outcome
    <2>1. gate /= None /\ gate' = None /\ RowKept /\ UNCHANGED <<queue, sup, notes, ran>>
      BY <1>t, <1>6, OutcomeFacts
    <2>2. CASE reply[gate.id] = "refused" /\ TakenBack
      <3>1. sup.cmd = None
        BY <1>t, <2>2 DEF TakenInv
      <3>2. ran => gate.armed = None
        BY <1>r, <2>1, <2>2, <3>1 DEF Executed
      <3>. QED
        BY <1>4, <2>1, <2>2, <3>2
    <2>3. CASE (roster => roster') /\ disk' \in {disk, roster'}
      <3>1. ran => roster' /\ disk'
        <4>1. CASE disk' = disk
          BY <1>r, <2>3, <4>1
        <4>2. CASE disk' = roster'
          BY <1>r, <2>3, <4>2
        <4>. QED
          BY <2>3, <4>1, <4>2
      <3>. QED
        BY <1>t, <1>1, <2>1, <3>1, FromFacts DEF RowKept
    <2>. QED
      BY <1>t, <1>6, <2>2, <2>3, OutcomeFacts
  <1>7. ASSUME Aside, ran' => ran, sup'.gen = sup.gen, NotesFrom, QueueFrom,
               gate /= None /\ gate.armed /= None /\ ran /\ Executed => Executed'
        PROVE  RanInv'
    <2>1. UNCHANGED <<row, roster, disk, gate>>
      BY <1>7 DEF Aside
    <2>2. ran => roster' /\ disk'
      BY <1>r, <2>1
    <2>. QED
      BY <1>1, <1>7, <2>1, <2>2
  <1>8. ASSUME NEW admitted \in BOOLEAN, Take(admitted) PROVE RanInv'
    <2>1. /\ Aside /\ queue /= <<>> /\ queue' = Tail(queue) /\ sup'.gen = sup.gen /\ ran' = ran
          /\ Head(queue).id \in Requests /\ sup.cmd = None
      BY <1>t, <1>8, TakeFacts
    <2>2. 1 \in DOMAIN queue /\ Head(queue) = queue[1] /\ QueueFrom /\ gate' = gate
      BY <1>t, <2>1, ChannelFacts, FromFacts DEF Aside
    <2>3. CASE cell[Head(queue).id] = "queued" /\ notes' = notes
      <3>1. gate /= None /\ cell[gate.id] = "queued"
        BY <1>t, <2>2, <2>3 DEF QueueInv
      <3>2. ~Executed
        BY <3>1 DEF Executed
      <3>. QED
        BY <1>t, <1>7, <2>1, <2>2, <2>3, <3>2, FromFacts
    <2>4. CASE /\ sup' = sup /\ Disarms(Head(queue))
               /\ cell' = [cell EXCEPT ![Head(queue).id] = Abandon(cell[Head(queue).id]).cell]
               /\ reply' = [reply EXCEPT ![Head(queue).id] = Dropped(Head(queue).id)]
      <3>1. PICK cmd : cmd = Head(queue)
        OBVIOUS
      <3>2. /\ \A id \in Requests : cell[id] = "taken" => cell'[id] = "taken"
            /\ \A id \in Requests : reply[id] /= "open" => reply'[id] = reply[id]
        BY <1>t, <2>1, <2>4, AbandonFacts DEF Dropped
      <3>3. gate /= None /\ Executed => Executed'
        BY <1>t, <2>1, <2>2, <2>4, <3>2 DEF Executed
      <3>4. CASE cmd.armed = None
        <4>1. notes' = notes
          BY <2>4, <3>1, <3>4 DEF Disarms
        <4>. QED
          BY <1>t, <1>7, <2>1, <2>2, <3>3, <4>1, FromFacts
      <3>5. CASE cmd.armed /= None
        <4>1. NotesGrow(Disarm(sup.gen, cmd.armed))
          BY <2>4, <3>1, <3>5 DEF Disarms
        <4>2. \A i \in DOMAIN notes' :
                 \/ i \in DOMAIN notes /\ notes'[i] = notes[i]
                 \/ notes'[i] = Disarm(sup.gen, cmd.armed)
          BY <1>t, <4>1, ChannelFacts
        <4>3. ran /\ row /= None => cmd.armed /= row.arm
          BY <1>r, <2>2, <3>1
        <4>4. UNCHANGED <<row, roster, disk, gate>>
          BY <2>1 DEF Aside
        <4>. SUFFICES ASSUME ran' PROVE RanInv'
          BY DEF RanInv
        <4>5. row' /= None => \A i \in DOMAIN notes' :
                 notes'[i].kind = "disarm" /\ notes'[i].gen = sup'.gen => notes'[i].arm /= row'.arm
          BY <1>k, <1>r, <2>1, <4>2, <4>3, <4>4
        <4>6. row' /= None => \A i \in DOMAIN queue' : queue'[i].armed /= row'.arm
          BY <1>r, <2>1, <2>2, <4>4 DEF QueueFrom
        <4>7. gate' /= None /\ gate'.armed /= None => Executed'
          BY <1>r, <2>1, <3>3, <4>4
        <4>8. roster' /\ disk'
          BY <1>r, <2>1, <4>4
        <4>. QED
          BY <4>5, <4>6, <4>7, <4>8 DEF RanInv, Executed
      <3>. QED
        BY <3>4, <3>5
    <2>. QED
      BY <1>t, <1>8, <2>3, <2>4, TakeFacts
  <1>9. CASE Reject \/ Refused
    <2>1. /\ Aside /\ ran' = ran /\ UNCHANGED <<cell, queue>> /\ sup'.gen = sup.gen
          /\ sup.cmd /= None /\ sup.phase = "running" /\ Disarms(sup.cmd)
      BY <1>t, <1>9, NoEffectFacts
    <2>2. /\ gate /= None /\ gate.id = sup.cmd.id /\ reply[gate.id] = "open"
          /\ sup.cmd.armed = gate.armed
      BY <1>t, <2>1 DEF TakenInv, CommandInv
    <2>3. ran => gate.armed = None
      BY <1>r, <2>1, <2>2 DEF Executed
    <2>. SUFFICES ASSUME ran' PROVE RanInv'
      BY DEF RanInv
    <2>4. notes' = notes
      BY <2>1, <2>2, <2>3 DEF Disarms
    <2>. QED
      BY <1>t, <1>7, <2>1, <2>3, <2>4, FromFacts
  <1>10. CASE Applied \/ Unknown
    <2>. SUFFICES ASSUME ran' PROVE RanInv'
      BY DEF RanInv
    <2>1. /\ Aside /\ cell' = cell /\ ran' = (ran \/ Dangerous(sup.cmd.mode))
          /\ sup.cmd /= None /\ sup.phase = "running" /\ sup'.gen = sup.gen
          /\ NotesFrom /\ QueueFrom
      BY <1>t, <1>10, EffectFacts, FromFacts
    <2>2. /\ gate /= None /\ gate.id = sup.cmd.id /\ cell[gate.id] = "taken" /\ queue = <<>>
          /\ gate.mode = sup.cmd.mode /\ Pending
      BY <1>t, <2>1 DEF TakenInv, CommandInv, Pending
    <2>3. UNCHANGED <<row, roster, disk, gate>>
      BY <2>1 DEF Aside
    <2>4. reply'[gate.id] \in {"applied", "unknown"} \/ (sup'.cmd /= None /\ sup'.phase /= "running")
      BY <1>t, <1>10, <2>1, <2>2, EffectFacts
    <2>5. Executed'
      BY <2>1, <2>2, <2>3, <2>4 DEF Executed
    <2>6. CASE ran
      BY <1>7, <2>1, <2>5, <2>6
    <2>7. CASE Dangerous(gate.mode)
      <3>1. roster' /\ disk'
        BY <1>t, <2>2, <2>3, <2>7 DEF ArmInv
      <3>2. row' /= None => \A i \in DOMAIN notes' :
               notes'[i].kind = "disarm" /\ notes'[i].gen = sup'.gen => notes'[i].arm /= row'.arm
        BY <1>t, <2>1, <2>2, <2>3, <2>7 DEF ArmInv, NotesFrom
      <3>3. \A i \in DOMAIN queue' : queue'[i].armed /= row'.arm
        BY <1>0, <2>1, <2>2 DEF QueueFrom
      <3>. QED
        BY <2>5, <3>1, <3>2, <3>3 DEF RanInv, Executed
    <2>. QED
      BY <2>1, <2>2, <2>6, <2>7
  <1>11. ASSUME NEW mode \in Observed, NativeChange(mode) PROVE RanInv'
    BY <1>11 DEF NativeChange
  <1>12. CASE AfterBarrier
    <2>1. /\ Aside /\ cell' = cell /\ ran' = ran /\ sup'.gen = sup.gen /\ NotesFrom /\ QueueFrom
          /\ sup.phase = "acked"
          /\ sup.cmd /= None => reply' = [reply EXCEPT ![sup.cmd.id] = sup.outcome]
      BY <1>t, <1>12, AfterBarrierFacts, FromFacts
    <2>2. sup.cmd /= None /\ gate.id = sup.cmd.id /\ sup.outcome \in {"applied", "unknown"}
      BY <1>t, <2>1 DEF OwnBarrier, TakenInv, OutcomeInv
    <2>3. gate' = gate /\ reply'[gate.id] \in {"applied", "unknown"}
      BY <1>t, <2>1, <2>2 DEF Aside
    <2>4. Executed => Executed'
      BY <2>1, <2>3 DEF Executed
    <2>. QED
      BY <1>7, <2>1, <2>4
  <1>13. CASE SupervisorExits
    <2>1. /\ Aside /\ cell' = cell /\ ran' = ran /\ sup'.gen = sup.gen /\ NotesFrom /\ QueueFrom
          /\ sup.cmd = None /\ \A id \in Requests : reply[id] /= "open" => reply'[id] = reply[id]
      BY <1>t, <1>13, ExitFacts, FromFacts
    <2>2. gate' = gate
      BY <2>1 DEF Aside
    <2>3. gate /= None /\ Executed => Executed'
      BY <1>t, <2>1, <2>2 DEF Executed
    <2>. QED
      BY <1>7, <2>1, <2>3
  <1>14. CASE TakeDisarm
    <2>1. /\ notes /= <<>> /\ Head(notes).kind = "disarm" /\ notes' = Tail(notes)
          /\ RowKept /\ UNCHANGED <<gate, cell, reply, queue, sup, ran>>
          /\ \/ row /= None /\ row.gen = Head(notes).gen /\ row.arm = Head(notes).arm
             \/ roster' = roster /\ disk' = disk
      BY <1>t, <1>14, TakeDisarmFacts
    <2>2. NotesFrom /\ QueueFrom /\ 1 \in DOMAIN notes /\ Head(notes) = notes[1]
      BY <1>t, <2>1, FromFacts, ChannelFacts
    <2>3. ran => roster' /\ disk'
      <3>1. CASE roster' = roster /\ disk' = disk
        BY <1>r, <3>1
      <3>2. CASE row /= None /\ row.gen = Head(notes).gen /\ row.arm = Head(notes).arm
        BY <1>t, <1>r, <2>1, <2>2, <3>2
      <3>. QED
        BY <2>1, <3>1, <3>2
    <2>4. Executed => Executed'
      BY <2>1 DEF Executed
    <2>. QED
      BY <1>1, <2>1, <2>2, <2>3, <2>4 DEF RowKept
  <1>15. CASE TakeSettings
    <2>. SUFFICES ASSUME ran' PROVE RanInv'
      BY DEF RanInv
    <2>1. /\ notes /= <<>> /\ Head(notes).kind = "settings" /\ notes' = Tail(notes)
          /\ row /= None /\ row.gen = Head(notes).gen
          /\ roster' = (roster \/ Dangerous(Head(notes).mode)) /\ disk' = roster'
          /\ ran' = (ran \/ Dangerous(Head(notes).mode))
          /\ sup'.phase = "acked" /\ sup'.cmd = sup.cmd /\ UNCHANGED <<gate, cell, queue>>
      BY <1>t, <1>15, TakeSettingsFacts
    <2>2. 1 \in DOMAIN notes /\ Head(notes) = notes[1]
      BY <1>t, <2>1, ChannelFacts
    <2>3. sup.phase = "barrier" /\ Len(notes) = 1
      BY <1>t, <2>1, <2>2 DEF BarrierInv
    <2>4. notes' = <<>>
      <3>1. notes' \in Seq(Notes) /\ Len(notes') = 0
        BY <1>t, <2>1, <2>3, TailFacts DEF TypeOK
      <3>. QED
        BY <3>1
    <2>5. sup.cmd /= None /\ cell[gate.id] = "taken" /\ queue = <<>>
      BY <1>t, <2>3 DEF OwnBarrier, TakenInv, CommandInv
    <2>6. roster' /\ disk'
      BY <1>r, <2>1
    <2>. QED
      BY <1>0, <2>1, <2>4, <2>5, <2>6 DEF RanInv
  <1>16. CASE TakeEnded
    <2>1. /\ notes /= <<>> /\ notes' = Tail(notes) /\ RowKept
          /\ UNCHANGED <<gate, cell, reply, queue, sup, roster, disk, ran>>
      BY <1>t, <1>16, TakeEndedFacts
    <2>2. NotesFrom /\ QueueFrom
      BY <1>t, <2>1, FromFacts
    <2>3. ran => roster' /\ disk'
      BY <1>r, <2>1
    <2>4. Executed => Executed'
      BY <2>1 DEF Executed
    <2>. QED
      BY <1>1, <2>1, <2>2, <2>3, <2>4 DEF RowKept
  <1>17. ASSUME NEW saved \in BOOLEAN, TakeFrame(saved) PROVE RanInv'
    <2>1. /\ RowKept /\ UNCHANGED <<gate, cell, reply, queue, sup, notes, ran>>
          /\ (roster => roster') /\ (disk' = disk \/ disk' = roster')
      BY <1>t, <1>17, TakeFrameFacts
    <2>2. NotesFrom /\ QueueFrom
      BY <1>t, <2>1, FromFacts
    <2>3. ran => roster' /\ disk'
      <3>1. CASE disk' = disk
        BY <1>r, <2>1, <3>1
      <3>2. CASE disk' = roster'
        BY <1>r, <2>1, <3>2
      <3>. QED
        BY <2>1, <3>1, <3>2
    <2>4. Executed => Executed'
      BY <2>1 DEF Executed
    <2>. QED
      BY <1>1, <2>1, <2>2, <2>3, <2>4 DEF RowKept
  <1>18. ASSUME NEW transcript \in BOOLEAN, Resume(transcript) PROVE RanInv'
    <2>. SUFFICES ASSUME ran' PROVE RanInv'
      BY DEF RanInv
    <2>1. /\ row = None /\ sup.phase = "done" /\ sup'.gen = sup.gen + 1
          /\ UNCHANGED <<gate, queue, notes, ran>> /\ roster' = (roster \/ transcript)
          /\ disk' = (IF transcript /\ ~roster THEN TRUE ELSE disk)
      BY <1>t, <1>18, ResumeFacts
    <2>2. gate = None /\ queue = <<>>
      BY <1>t, <2>1 DEF SessionInv, CommandInv
    <2>3. \A i \in DOMAIN notes : notes[i].gen /= sup'.gen
      <3>1. \A i \in DOMAIN notes : notes[i].gen \in Nat /\ notes[i].gen <= sup.gen
        <4>1. notes \in [1 .. Len(notes) -> Notes]
          BY <1>t DEF TypeOK
        <4>. QED
          BY <1>t, <4>1 DEF BarrierInv, Notes
      <3>. QED
        BY <1>t, <2>1, <3>1
    <2>4. roster' /\ disk'
      BY <1>r, <2>1
    <2>. QED
      BY <1>0, <2>1, <2>2, <2>3, <2>4 DEF RanInv
  <1>19. CASE SaveAnother
    <2>1. UNCHANGED <<row, roster, gate, cell, reply, queue, sup, notes, ran>> /\ disk' = roster
      BY <1>19 DEF SaveAnother, ticket
    <2>2. ran => roster' /\ disk'
      BY <1>r, <2>1
    <2>3. Executed => Executed'
      BY <2>1 DEF Executed
    <2>. QED
      BY <1>t, <1>1, <2>1, <2>2, <2>3, FromFacts
  <1>20. CASE CrashAndRestart
    <2>1. gate' = None /\ row' = None /\ roster' = disk /\ UNCHANGED <<disk, ran>>
      BY <1>t, <1>20, CrashFacts
    <2>2. ran => roster' /\ disk'
      BY <1>r, <2>1
    <2>. QED
      BY <2>1, <2>2 DEF RanInv
  <1>. QED
    BY <1>2, <1>3, <1>5, <1>6, <1>8, <1>9, <1>10, <1>11, <1>12, <1>13, <1>14,
       <1>15, <1>16, <1>17, <1>18, <1>19, <1>20, NextCases

\* A session in which an unchecked mode took effect, or may have, stays marked in
\* memory and on disk, in every generation and over every crash: no caller's timeout,
\* lost authority, refusal, or withdrawal that arrives late takes the mark away.
\* (When another client of a shared harness changes its mode, this fails: the change
\* does not advance the arm, so a withdrawal on its way clears the mark it left.)
THEOREM MarksLast == "native" \notin Faults => (Spec => []UncheckedIsMarked)
  <1>. SUFFICES ASSUME "native" \notin Faults PROVE Spec => []UncheckedIsMarked
    OBVIOUS
  <1>1. Init /\ FalseInv => MarkInv
    <2>. SUFFICES ASSUME Init, FalseInv PROVE MarkInv
      OBVIOUS
    <2>1. /\ gate = None /\ sup.phase = "running" /\ queue = <<>> /\ notes = <<>>
          /\ ran = FALSE
      BY DEF Init
    <2>2. DOMAIN <<>> = {}
      OBVIOUS
    <2>. QED
      BY <2>1, <2>2 DEF MarkInv, OwnBarrier, ArmInv, Pending, RanInv
  <1>2. FalseInv' /\ MarkInv /\ [Next]_vars => MarkInv'
    <2>1. ASSUME FalseInv', MarkInv, Next PROVE MarkInv'
      BY <2>1, OwnBarrierStep, ArmStep, RanStep DEF MarkInv
    <2>2. ASSUME FalseInv', MarkInv, UNCHANGED vars PROVE MarkInv'
      BY <2>2 DEF MarkInv, OwnBarrier, ArmInv, Pending, RanInv, vars, ledger, ticket
    <2>. QED
      BY <2>1, <2>2
  <1>3. MarkInv => UncheckedIsMarked
    BY DEF MarkInv, FalseInv, SessionInv, RanInv, UncheckedIsMarked
  <1>. QED
    BY <1>1, <1>2, <1>3, FalseHolds, PTL DEF Spec

=============================================================================
