-------------------------- MODULE DangerArmProofs --------------------------
(***************************************************************************)
(* What a ticket keeps for every number of requests, queue and note bound, *)
(* and every set of faults: an instruction is executed or reported as      *)
(* never run, never both, and while it can reach the harness its request   *)
(* holds the session's gate.                                               *)
(***************************************************************************)
EXTENDS DangerArm, TLAPS

----------------------------------------------------------------------------
(* The inductive invariant *)

\* A settings note of the current generation is the last thing its supervisor
\* said: the supervisor is in the barrier, waiting for its acknowledgement, and
\* knows the outcome it will answer with.
BarrierInv ==
    /\ row /= None => row.gen = sup.gen
    /\ \A i \in DOMAIN notes :
          /\ notes[i].gen <= sup.gen
          /\ notes[i].kind = "settings" /\ notes[i].gen = sup.gen
             => sup.phase = "barrier" /\ i = Len(notes)
    /\ sup.cmd /= None /\ sup.phase /= "running" => sup.outcome \in Outcomes

\* A request that has not started has no ticket and no answer.
FreshInv ==
    \A id \in Requests : cell[id] = "new" => answer[id] = "none" /\ reply[id] = "open"

\* The request that holds the gate is unanswered, and before it is enqueued its
\* command is nowhere in the queue.
GateInv ==
    /\ gate /= None => answer[gate.id] = "none" /\ cell[gate.id] /= "new"
    /\ gate /= None /\ gate.stage = "prepared"
       => /\ cell[gate.id] = "queued" /\ reply[gate.id] = "open"
          /\ \A i \in DOMAIN queue : queue[i].id /= gate.id

\* A queued command that can still be taken is the one its request waits for.
QueueInv ==
    \A i \in DOMAIN queue :
        /\ cell[queue[i].id] /= "new"
        /\ cell[queue[i].id] = "queued"
           => /\ gate /= None /\ gate.id = queue[i].id /\ gate.stage = "waiting"
              /\ reply[queue[i].id] = "open"

\* A taken command is unanswered and its request holds the gate.
TakenInv ==
    sup.cmd /= None =>
        /\ gate /= None /\ gate.id = sup.cmd.id /\ gate.stage \in {"waiting", "taken"}
        /\ cell[sup.cmd.id] = "taken" /\ reply[sup.cmd.id] = "open"

\* The ticket's cell records which of the two fates an instruction had.
FateInv ==
    /\ \A id \in started : cell[id] = "taken"
    /\ \A id \in Requests : answer[id] = "not_sent" => cell[id] = "abandoned"

TicketInv == FreshInv /\ GateInv /\ QueueInv /\ TakenInv /\ FateInv

IInv == TypeOK /\ BarrierInv /\ TicketInv

----------------------------------------------------------------------------
(* Sequences *)

\* What is left of a sequence when its head is taken.
LEMMA TailFacts ==
    ASSUME NEW S, NEW s \in Seq(S), s /= <<>>
    PROVE  /\ Head(s) \in S /\ Head(s) = s[1] /\ 1 \in DOMAIN s
           /\ Tail(s) \in Seq(S) /\ Len(Tail(s)) = Len(s) - 1
           /\ \A i \in DOMAIN Tail(s) : i + 1 \in DOMAIN s /\ Tail(s)[i] = s[i + 1]
  OBVIOUS

\* What a sequence is with an element appended.
LEMMA AppendFacts ==
    ASSUME NEW S, NEW s \in Seq(S), NEW e \in S
    PROVE  /\ Append(s, e) \in Seq(S) /\ Len(Append(s, e)) = Len(s) + 1
           /\ DOMAIN Append(s, e) = 1 .. (Len(s) + 1) /\ DOMAIN s = 1 .. Len(s)
           /\ Len(s) \in Nat
           /\ \A i \in DOMAIN s : Append(s, e)[i] = s[i]
           /\ Append(s, e)[Len(s) + 1] = e
  OBVIOUS

----------------------------------------------------------------------------
(* Steps of the ticket *)

\* Receipt::abandon withdraws exactly what was not taken, and asked again it says
\* the same.
LEMMA AbandonFacts ==
    ASSUME NEW c \in {"new", "queued", "taken", "abandoned"}
    PROVE  /\ Abandon(c).cell \in {"new", "queued", "taken", "abandoned"}
           /\ Abandon(c).never \in BOOLEAN
           /\ Abandon(c).never <=> c \in {"queued", "abandoned"}
           /\ Abandon(c).never => Abandon(c).cell = "abandoned"
           /\ ~Abandon(c).never => Abandon(c).cell = c
  BY DEF Abandon

\* One step of the next-state relation, by name.
LEMMA NextCases ==
    ASSUME Next
    PROVE  \/ \E id \in Requests, mode \in Modes, saves \in 0..2 : Prepare(id, mode, saves)
           \/ Enqueue \/ EnqueueFails \/ Timeout \/ NoOutcome \/ Outcome
           \/ \E admitted \in BOOLEAN : Take(admitted)
           \/ Reject \/ Refused \/ Applied \/ Unknown
           \/ \E mode \in Observed : NativeChange(mode)
           \/ AfterBarrier \/ SupervisorExits
           \/ TakeDisarm \/ TakeSettings \/ TakeEnded
           \/ \E saved \in BOOLEAN : TakeFrame(saved)
           \/ \E transcript \in BOOLEAN : Resume(transcript)
           \/ SaveAnother \/ CrashAndRestart
  BY DEF Next, WorkerStep, Execute

\* Every step keeps what the tickets, the gate, the queue and the supervisor say of
\* one another.
LEMMA TicketStep ==
    ASSUME TypeOK, TicketInv, Next PROVE TicketInv'
  <1>t. /\ cell \in [Requests -> {"new", "queued", "taken", "abandoned"}]
        /\ reply \in [Requests -> {"open", "closed", "error"} \cup Outcomes]
        /\ answer \in [Requests -> {"none", "not_sent", "lost"} \cup Outcomes]
        /\ gate \in Gate \cup {None} /\ queue \in Seq(Command) /\ sup \in Supervisor
        /\ started \subseteq Requests
    BY DEF TypeOK
  <1>q. \A i \in DOMAIN queue : queue[i] \in Command /\ queue[i].id \in Requests
    <2>1. \A c \in Command : c.id \in Requests
      BY DEF Command
    <2>2. queue \in [1 .. Len(queue) -> Command]
      BY <1>t
    <2>. QED
      BY <2>1, <2>2
  <1>n. None \notin Command /\ None \notin Gate
    BY NoneIsNoRecord
  <1>. USE <1>n DEF TicketInv, FreshInv, GateInv, QueueInv, TakenInv, FateInv
  <1>1. ASSUME NEW id \in Requests, NEW mode \in Modes, NEW saves \in 0..2,
               Prepare(id, mode, saves)
        PROVE  TicketInv'
    <2>. USE <1>t
    <2>1. /\ gate = None /\ cell[id] = "new" /\ answer[id] = "none" /\ reply[id] = "open"
          /\ sup.cmd = None /\ id \notin started
          /\ UNCHANGED <<reply, queue, sup, started>>
      BY <1>1 DEF Prepare
    <2>2. \A i \in DOMAIN queue :
             queue[i].id \in Requests /\ queue[i].id /= id /\ cell[queue[i].id] /= "queued"
      BY <1>q, <2>1
    <2>3. CASE saves < SavesNeeded(mode)
      <3>1. /\ cell' = [cell EXCEPT ![id] = "abandoned"]
            /\ answer' = [answer EXCEPT ![id] = "not_sent"] /\ gate' = None
        BY <1>1, <2>1, <2>3 DEF Prepare
      <3>. QED
        BY <2>1, <2>2, <3>1
    <2>4. CASE ~(saves < SavesNeeded(mode))
      <3>1. /\ cell' = [cell EXCEPT ![id] = "queued"] /\ answer' = answer
            /\ gate' /= None /\ gate'.id = id /\ gate'.stage = "prepared"
        <4>1. Queued(id, mode) /\ answer' = answer
          BY <1>1, <2>4 DEF Prepare
        <4>2. row.gen \in Nat /\ row.arm \in Nat
          BY <1>1 DEF Prepare, TypeOK, Row
        <4>3. gate' \in Gate
          BY <4>1, <4>2 DEF Queued, Gate
        <4>. QED
          BY <4>1, <4>3 DEF Queued
      <3>. QED
        BY <2>1, <2>2, <3>1
    <2>. QED
      BY <2>3, <2>4
  <1>2. CASE Enqueue
    <2>. DEFINE cmd == [id |-> gate.id, mode |-> gate.mode, armed |-> gate.armed]
    <2>. USE <1>t
    <2>1. /\ gate /= None /\ gate.stage = "prepared" /\ gate \in Gate /\ cmd \in Command
          /\ queue' = Append(queue, cmd) /\ cmd.id = gate.id
          /\ UNCHANGED <<cell, reply, answer, sup, started>>
      BY <1>2 DEF Enqueue, Gate, Command, ticket
    <2>2. gate' \in Gate /\ gate'.id = gate.id /\ gate'.stage = "waiting"
      BY <1>2, <2>1 DEF Enqueue, Gate
    <2>3. sup.cmd = None
      BY <2>1
    <2>. HIDE DEF cmd
    <2>4. \A i \in DOMAIN queue' : (i \in DOMAIN queue /\ queue'[i] = queue[i]) \/ queue'[i] = cmd
      BY <2>1, AppendFacts
    <2>5. QueueInv'
      BY <2>1, <2>2, <2>4
    <2>. QED
      BY <2>1, <2>2, <2>3, <2>5
  <1>3. ASSUME Withdrawn, gate /= None, cell[gate.id] /= "taken",
               UNCHANGED <<reply, queue, sup, started>>
        PROVE  TicketInv'
    BY <1>t, <1>3, AbandonFacts DEF Withdrawn, Answered, Gate, Supervisor, Command
  <1>4. CASE EnqueueFails
    BY <1>3, <1>4 DEF EnqueueFails
  <1>5. CASE Timeout
    <2>. USE <1>t
    <2>1. /\ gate /= None /\ gate.id \in Requests /\ reply[gate.id] = "open"
          /\ gate.stage = "waiting" /\ UNCHANGED <<reply, queue, sup, started>>
      BY <1>5 DEF Timeout, Gate
    <2>2. CASE cell[gate.id] \in {"queued", "abandoned"}
      <3>1. Withdrawn
        BY <1>5, <2>1, <2>2, AbandonFacts DEF Timeout
      <3>. QED
        BY <1>3, <2>1, <2>2, <3>1
    <2>3. CASE cell[gate.id] = "taken"
      <3>1. gate' = [gate EXCEPT !.stage = "taken"] /\ UNCHANGED <<cell, answer>>
        BY <1>5, <2>1, <2>3, AbandonFacts DEF Timeout
      <3>2. gate' \in Gate /\ gate'.id = gate.id /\ gate'.stage = "taken"
        BY <2>1, <3>1 DEF Gate
      <3>. QED
        BY <2>1, <2>3, <3>1, <3>2 DEF Command
    <2>. QED
      BY <2>1, <2>2, <2>3
  <1>6. CASE NoOutcome
    BY <1>t, <1>3, <1>6, AbandonFacts DEF NoOutcome, Gate, Supervisor, Command
  <1>7. CASE Outcome
    BY <1>t, <1>7 DEF Outcome, Answered, Gate, Supervisor, Command, Outcomes, ticket
  <1>8. ASSUME NEW admitted \in BOOLEAN, Take(admitted) PROVE TicketInv'
    <2>. DEFINE cmd == Head(queue)
    <2>. USE <1>t
    <2>1. /\ sup.cmd = None /\ queue /= <<>> /\ queue' = Tail(queue)
          /\ UNCHANGED <<gate, answer, started>>
      BY <1>8 DEF Take, Idle
    <2>2. /\ cmd \in Command /\ cmd.id \in Requests /\ cmd = queue[1] /\ 1 \in DOMAIN queue
          /\ \A i \in DOMAIN queue' : i + 1 \in DOMAIN queue /\ queue'[i] = queue[i + 1]
      <3>1. /\ Head(queue) \in Command /\ Head(queue) = queue[1] /\ 1 \in DOMAIN queue
            /\ \A i \in DOMAIN Tail(queue) :
                  i + 1 \in DOMAIN queue /\ Tail(queue)[i] = queue[i + 1]
        BY <2>1, TailFacts
      <3>. QED
        BY <1>q, <2>1, <3>1
    <2>3. \A i \in DOMAIN queue : queue[i].id \in Requests
      BY <1>q
    <2>4. CASE Accepts(cell[cmd.id], admitted)
      <3>1. /\ cell' = [cell EXCEPT ![cmd.id] = "taken"] /\ UNCHANGED reply
            /\ sup' = [sup EXCEPT !.cmd = cmd]
        BY <1>8, <2>4 DEF Take
      <3>2. cell[cmd.id] = "queued" /\ sup'.cmd = cmd /\ cmd /= None
        BY <2>2, <2>4, <3>1 DEF Accepts, Supervisor
      <3>. HIDE DEF cmd
      <3>. QED
        BY <2>1, <2>2, <2>3, <3>1, <3>2
    <2>5. CASE ~Accepts(cell[cmd.id], admitted)
      <3>1. /\ cell' = [cell EXCEPT ![cmd.id] = Abandon(cell[cmd.id]).cell]
            /\ reply' = [reply EXCEPT ![cmd.id] = Dropped(cmd.id)] /\ UNCHANGED sup
        BY <1>8, <2>5 DEF Take
      <3>. HIDE DEF cmd
      <3>2. /\ cell[cmd.id] /= "new" /\ cell'[cmd.id] \in {"taken", "abandoned"}
            /\ cell[cmd.id] /= "queued" => cell'[cmd.id] = cell[cmd.id]
            /\ \A id \in Requests \ {cmd.id} : cell'[id] = cell[id] /\ reply'[id] = reply[id]
        BY <2>2, <3>1, AbandonFacts
      <3>3. gate /= None /\ gate.stage = "prepared" => gate.id \in Requests \ {cmd.id}
        BY <2>2 DEF Gate
      <3>4. gate /= None => gate.id \in Requests
        BY DEF Gate
      <3>5. FreshInv' /\ GateInv'
        BY <2>1, <2>2, <3>2, <3>3, <3>4
      <3>6. QueueInv'
        <4>. SUFFICES ASSUME NEW i \in DOMAIN queue'
                      PROVE  /\ cell'[queue'[i].id] /= "new"
                             /\ cell'[queue'[i].id] = "queued"
                                => /\ gate' /= None /\ gate'.id = queue'[i].id
                                   /\ gate'.stage = "waiting" /\ reply'[queue'[i].id] = "open"
          OBVIOUS
        <4>1. i + 1 \in DOMAIN queue /\ queue'[i] = queue[i + 1] /\ queue[i + 1].id \in Requests
          BY <2>2, <2>3
        <4>2. CASE queue[i + 1].id = cmd.id
          BY <3>2, <4>1, <4>2
        <4>3. CASE queue[i + 1].id /= cmd.id
          BY <2>1, <3>2, <4>1, <4>3
        <4>. QED
          BY <4>2, <4>3
      <3>7. TakenInv' /\ FateInv'
        BY <2>1, <2>2, <3>1, <3>2
      <3>. QED
        BY <3>5, <3>6, <3>7
    <2>. QED
      BY <2>4, <2>5
  <1>9. CASE Reject
    BY <1>t, <1>9 DEF Reject, Executing, Done, Gate, Supervisor, Command
  <1>10. CASE Refused
    BY <1>t, <1>10 DEF Refused, Executing, Done, Gate, Supervisor, Command
  <1>11. CASE Applied
    <2>1. CASE sup.shared
      <3>1. /\ sup.cmd /= None /\ sup.cmd.id \in Requests /\ sup'.cmd = sup.cmd
            /\ started' = started \cup {sup.cmd.id}
            /\ UNCHANGED <<cell, reply, gate, queue, answer>>
        <4>1. sup.cmd /= None /\ sup.cmd.id \in Requests
          BY <1>t, <1>11 DEF Applied, Executing, Supervisor, Command
        <4>2. sup'.cmd = sup.cmd
          <5>1. sup' = [sup EXCEPT !.phase = "barrier", !.mode = sup.cmd.mode, !.outcome = "applied"]
            BY <1>11, <2>1 DEF Applied
          <5>. QED
            BY <1>t, <5>1 DEF Supervisor
        <4>. QED
          BY <1>11, <2>1, <4>1, <4>2 DEF Applied
      <3>. QED
        BY <1>t, <3>1
    <2>2. CASE ~sup.shared
      BY <1>t, <1>11, <2>2 DEF Applied, Executing, Done, Supervisor, Command
    <2>. QED
      BY <2>1, <2>2
  <1>12. CASE Unknown
    <2>1. CASE sup.shared
      <3>1. /\ sup.cmd /= None /\ sup.cmd.id \in Requests /\ sup'.cmd = sup.cmd
            /\ started' = started \cup {sup.cmd.id}
            /\ UNCHANGED <<cell, reply, gate, queue, answer>>
        <4>1. sup.cmd /= None /\ sup.cmd.id \in Requests
          BY <1>t, <1>12 DEF Unknown, Executing, Supervisor, Command
        <4>2. sup'.cmd = sup.cmd
          <5>1. sup' = [sup EXCEPT !.phase = "barrier", !.mode = "unknown", !.outcome = "unknown"]
            BY <1>12, <2>1 DEF Unknown
          <5>. QED
            BY <1>t, <5>1 DEF Supervisor
        <4>. QED
          BY <1>12, <2>1, <4>1, <4>2 DEF Unknown
      <3>. QED
        BY <1>t, <3>1
    <2>2. CASE ~sup.shared
      <3>1. /\ sup.cmd /= None /\ sup.cmd.id \in Requests /\ sup'.cmd = None
            /\ started' = started \cup {sup.cmd.id} /\ queue' = <<>>
            /\ UNCHANGED <<cell, gate, answer>>
        <4>1. sup.cmd /= None /\ sup.cmd.id \in Requests
          BY <1>t, <1>12 DEF Unknown, Executing, Supervisor, Command
        <4>2. sup' = [[sup EXCEPT !.cmd = None] EXCEPT !.phase = "done"]
          BY <1>12, <2>2 DEF Unknown, Done
        <4>3. sup'.cmd = None
          BY <1>t, <4>2 DEF Supervisor
        <4>. QED
          BY <1>12, <2>2, <4>1, <4>3 DEF Unknown
      <3>2. \A id \in Requests :
               id /= sup.cmd.id /\ (\A i \in DOMAIN queue : queue[i].id /= id)
               => reply'[id] = reply[id]
        BY <1>12, <2>2 DEF Unknown
      <3>3. gate /= None => gate.id \in Requests
        BY <1>t DEF Gate
      <3>. QED
        BY <1>t, <1>q, <3>1, <3>2, <3>3
    <2>. QED
      BY <2>1, <2>2
  <1>13. ASSUME NEW mode \in Observed, NativeChange(mode) PROVE TicketInv'
    BY <1>t, <1>13 DEF NativeChange, Idle, Gate, Supervisor, Command, ticket
  <1>14. CASE AfterBarrier
    BY <1>t, <1>14 DEF AfterBarrier, Done, Gate, Supervisor, Command
  <1>15. CASE SupervisorExits
    BY <1>t, <1>15 DEF SupervisorExits, Idle, Dropped, Gate, Supervisor, Command
  <1>16. CASE TakeDisarm
    BY <1>16 DEF TakeDisarm, ticket
  <1>17. CASE TakeSettings
    BY <1>t, <1>17 DEF TakeSettings, ticket, Supervisor
  <1>18. CASE TakeEnded
    BY <1>18 DEF TakeEnded, ticket
  <1>19. ASSUME NEW saved \in BOOLEAN, TakeFrame(saved) PROVE TicketInv'
    BY <1>19 DEF TakeFrame, ticket
  <1>20. ASSUME NEW transcript \in BOOLEAN, Resume(transcript) PROVE TicketInv'
    BY <1>t, <1>20 DEF Resume, ticket, Supervisor
  <1>21. CASE SaveAnother
    BY <1>21 DEF SaveAnother, ticket
  <1>22. CASE CrashAndRestart
    BY <1>t, <1>22 DEF CrashAndRestart, Done, ticket, Gate, Supervisor
  <1>. QED
    BY <1>1, <1>2, <1>4, <1>5, <1>6, <1>7, <1>8, <1>9, <1>10, <1>11, <1>12, <1>13, <1>14,
       <1>15, <1>16, <1>17, <1>18, <1>19, <1>20, <1>21, <1>22, NextCases

----------------------------------------------------------------------------
(* Types *)

\* Every step keeps the types and the capacities of the channels.
LEMMA TypeStep ==
    ASSUME TypeOK, BarrierInv, TicketInv, Next PROVE TypeOK'
  <1>. USE DEF TypeOK
  <1>1. ASSUME NEW id \in Requests, NEW mode \in Modes, NEW saves \in 0..2,
               Prepare(id, mode, saves)
        PROVE  TypeOK'
    <2>1. row \in Row /\ row.arm \in Nat /\ row.gen \in Nat /\ row.dangerous \in BOOLEAN
      BY <1>1 DEF Prepare, Row
    <2>2. CASE saves < SavesNeeded(mode)
      <3>1. roster' \in BOOLEAN /\ disk' \in BOOLEAN
        BY <1>1, <2>1, <2>2 DEF Prepare, Marked
      <3>. QED
        BY <1>1, <2>2, <3>1 DEF Prepare
    <2>3. CASE ~(saves < SavesNeeded(mode))
      <3>1. row' \in Row
        <4>. DEFINE d == row.dangerous \/ Dangerous(mode)
                    a == IF Dangerous(mode) THEN row.arm + 1 ELSE row.arm
        <4>1. row' = [row EXCEPT !.dangerous = d, !.arm = a]
          BY <1>1, <2>3 DEF Prepare
        <4>2. d \in BOOLEAN /\ a \in Nat
          BY <2>1
        <4>. HIDE DEF d, a
        <4>. QED
          BY <2>1, <4>1, <4>2 DEF Row
      <3>2. roster' \in BOOLEAN /\ disk' \in BOOLEAN
        BY <1>1, <2>3, <3>1 DEF Prepare, Marked, Row
      <3>3. Queued(id, mode)
        BY <1>1, <2>3 DEF Prepare
      <3>4. /\ gate' \in Gate
            /\ cell' \in [Requests -> {"new", "queued", "taken", "abandoned"}]
        BY <2>1, <3>3 DEF Queued, Gate
      <3>. QED
        BY <1>1, <2>3, <3>1, <3>2, <3>4 DEF Prepare
    <2>. QED
      BY <2>2, <2>3
  <1>2. CASE Enqueue
    <2>. DEFINE cmd == [id |-> gate.id, mode |-> gate.mode, armed |-> gate.armed]
    <2>1. gate' \in Gate /\ cmd \in Command /\ queue' = Append(queue, cmd)
      BY <1>2 DEF Enqueue, Gate, Command
    <2>2. Len(queue) + 1 <= QueueCap
      BY <1>2, DangerConstants DEF Enqueue
    <2>. HIDE DEF cmd
    <2>3. queue' \in Seq(Command) /\ Len(queue') <= QueueCap
      BY <2>1, <2>2, AppendFacts
    <2>. QED
      BY <1>2, <2>1, <2>3 DEF Enqueue, ledger, ticket
  <1>d. ASSUME NEW arm, NEW ended, DisarmDanger(arm, ended)
        PROVE  /\ row' \in Row \cup {None} /\ roster' \in BOOLEAN /\ disk' \in BOOLEAN
               /\ kept' \in BOOLEAN
    BY <1>d DEF DisarmDanger, Row
  <1>3. ASSUME Withdrawn, gate /= None
        PROVE  /\ row' \in Row \cup {None} /\ roster' \in BOOLEAN /\ disk' \in BOOLEAN
               /\ kept' \in BOOLEAN /\ gate' \in Gate \cup {None}
               /\ cell' \in [Requests -> {"new", "queued", "taken", "abandoned"}]
               /\ answer' \in [Requests -> {"none", "not_sent", "lost"} \cup Outcomes]
    BY <1>3, <1>d, AbandonFacts DEF Withdrawn, Answered, Gate
  <1>4. CASE EnqueueFails
    BY <1>3, <1>4 DEF EnqueueFails
  <1>5. CASE Timeout
    <2>. DEFINE first == Abandon(cell[gate.id])
    <2>1. /\ gate \in Gate /\ gate /= None /\ gate.id \in Requests
          /\ [gate EXCEPT !.stage = "taken"] \in Gate /\ [gate EXCEPT !.stage = "stuck"] \in Gate
          /\ first.cell \in {"new", "queued", "taken", "abandoned"}
      BY <1>5, AbandonFacts DEF Timeout, Gate
    <2>2. CASE Withdrawn
      BY <1>3, <1>5, <2>1, <2>2 DEF Timeout
    <2>3. CASE ~Withdrawn
      <3>1. /\ gate' \in Gate /\ UNCHANGED <<ledger, answer, kept>>
            /\ cell' \in [Requests -> {"new", "queued", "taken", "abandoned"}]
        BY <1>5, <2>1, <2>3 DEF Timeout
      <3>. QED
        BY <1>5, <3>1 DEF Timeout, ledger
    <2>. QED
      BY <2>2, <2>3
  <1>6. CASE NoOutcome
    BY <1>3, <1>6, AbandonFacts DEF NoOutcome, Gate, ledger
  <1>7. CASE Outcome
    <2>. DEFINE r == [row EXCEPT !.dangerous =
                         @ \/ (reply[gate.id] = "applied" /\ Dangerous(gate.mode))]
    <2>1. Mine => r \in Row /\ r.dangerous \in BOOLEAN
      BY DEF Mine, Row
    <2>2. /\ gate' = None
          /\ answer' \in [Requests -> {"none", "not_sent", "lost"} \cup Outcomes]
      BY <1>7 DEF Outcome, Answered, Gate
    <2>. HIDE DEF r
    <2>3. CASE reply[gate.id] = "refused" /\ Mine
      BY <1>7, <1>d, <2>2, <2>3 DEF Outcome, ticket
    <2>4. CASE ~(reply[gate.id] = "refused" /\ Mine) /\ Mine /\ ~sup.shared
      <3>1. /\ row' = r \/ row' = None
            /\ roster' = Marked(r, roster) /\ disk' = roster' /\ UNCHANGED kept
        BY <1>7, <2>4 DEF Outcome, r
      <3>2. row' \in Row \cup {None} /\ roster' \in BOOLEAN /\ disk' \in BOOLEAN
        BY <2>1, <2>4, <3>1 DEF Marked
      <3>. QED
        BY <1>7, <2>2, <3>1, <3>2 DEF Outcome, ticket
    <2>5. CASE ~(reply[gate.id] = "refused" /\ Mine) /\ ~(Mine /\ ~sup.shared)
      BY <1>7, <2>2, <2>5 DEF Outcome, ticket
    <2>. QED
      BY <2>3, <2>4, <2>5
  <1>r. ASSUME NEW cmd \in Command, Room, Disarmed(cmd)
        PROVE  notes' \in Seq(Notes) /\ Len(notes') <= MaxNotes
    <2>1. cmd.armed /= None => Disarm(sup.gen, cmd.armed) \in Notes
      BY DEF Disarm, Notes, Command, Supervisor, Observed, Modes
    <2>2. Len(notes) + 1 <= MaxNotes
      BY <1>r, DangerConstants DEF Room
    <2>. QED
      BY <1>r, <2>1, <2>2, AppendFacts DEF Disarmed
  <1>s. ASSUME NEW mode \in Observed, Room
        PROVE  /\ Append(notes, Settings(sup.gen, mode)) \in Seq(Notes)
               /\ Len(Append(notes, Settings(sup.gen, mode))) <= MaxNotes
    BY <1>s, AppendFacts, DangerConstants DEF Room, Settings, Notes, Supervisor
  <1>e. ASSUME Room
        PROVE  /\ Append(notes, Ended(sup.gen)) \in Seq(Notes)
               /\ Len(Append(notes, Ended(sup.gen))) <= MaxNotes
    BY <1>e, AppendFacts, DangerConstants DEF Room, Ended, Notes, Supervisor, Observed, Modes
  <1>f. ASSUME NEW mode \in Observed, Len(frames) < MaxNotes
        PROVE  Append(frames, mode) \in Seq(Observed) /\ Len(Append(frames, mode)) <= MaxNotes
    BY <1>f, AppendFacts, DangerConstants
  <1>x. Executing => sup.cmd \in Command /\ sup.cmd.id \in Requests /\ sup.cmd.mode \in Observed
    BY DEF Executing, Supervisor, Command, Observed
  <1>y. Done \in Supervisor /\ [Done EXCEPT !.phase = "done"] \in Supervisor
    BY DEF Done, Supervisor
  <1>8. ASSUME NEW admitted \in BOOLEAN, Take(admitted) PROVE TypeOK'
    <2>1. /\ Head(queue) \in Command /\ Tail(queue) \in Seq(Command)
          /\ Len(Tail(queue)) <= QueueCap /\ Head(queue).id \in Requests
      <3>1. queue /= <<>>
        BY <1>8 DEF Take
      <3>2. /\ Head(queue) \in Command /\ Tail(queue) \in Seq(Command)
            /\ Len(Tail(queue)) = Len(queue) - 1
        BY <3>1, TailFacts
      <3>. QED
        BY <3>2, DangerConstants DEF Command
    <2>2. CASE Accepts(cell[Head(queue).id], admitted)
      <3>1. /\ sup' = [sup EXCEPT !.cmd = Head(queue)]
            /\ cell' = [cell EXCEPT ![Head(queue).id] = "taken"]
            /\ UNCHANGED <<notes, reply, ledger, gate, frames, answer, started, ran, kept>>
            /\ queue' = Tail(queue)
        BY <1>8, <2>2 DEF Take
      <3>2. sup' \in Supervisor
        BY <2>1, <3>1 DEF Supervisor
      <3>. QED
        BY <2>1, <3>1, <3>2 DEF ledger
    <2>3. CASE ~Accepts(cell[Head(queue).id], admitted)
      <3>. DEFINE cmd == Head(queue)
      <3>1. /\ cell' = [cell EXCEPT ![cmd.id] = Abandon(cell[cmd.id]).cell]
            /\ reply' = [reply EXCEPT ![cmd.id] = Dropped(cmd.id)]
            /\ UNCHANGED <<sup, ledger, gate, frames, answer, started, ran, kept>>
            /\ queue' = Tail(queue) /\ Room /\ Disarmed(cmd)
        BY <1>8, <2>3 DEF Take
      <3>2. cmd \in Command /\ cmd.id \in Requests
        BY <2>1
      <3>. HIDE DEF cmd
      <3>3. notes' \in Seq(Notes) /\ Len(notes') <= MaxNotes
        BY <1>r, <3>1, <3>2
      <3>4. /\ Abandon(cell[cmd.id]).cell \in {"new", "queued", "taken", "abandoned"}
            /\ Dropped(cmd.id) \in {"open", "closed", "error"} \cup Outcomes
        BY <3>2, AbandonFacts DEF Dropped
      <3>. QED
        BY <2>1, <3>1, <3>3, <3>4 DEF ledger
    <2>. QED
      BY <2>2, <2>3
  <1>9. CASE Reject
    BY <1>9, <1>r, <1>x, <1>y DEF Reject, ledger
  <1>10. CASE Refused
    BY <1>10, <1>r, <1>x, <1>y DEF Refused, ledger, Outcomes
  <1>11. CASE Applied
    <2>1. CASE sup.shared
      BY <1>11, <2>1, <1>s, <1>x DEF Applied, ledger, Supervisor, Outcomes, Dangerous
    <2>2. CASE ~sup.shared
      BY <1>11, <2>2, <1>f, <1>x, <1>y DEF Applied, ledger, Room, Outcomes, Dangerous
    <2>. QED
      BY <2>1, <2>2
  <1>12. CASE Unknown
    <2>1. CASE sup.shared
      <3>1. sup' = [sup EXCEPT !.phase = "barrier", !.mode = "unknown", !.outcome = "unknown"]
        BY <1>12, <2>1 DEF Unknown
      <3>2. sup' \in Supervisor
        BY <3>1 DEF Supervisor, Outcomes, Observed
      <3>3. notes' \in Seq(Notes) /\ Len(notes') <= MaxNotes
        BY <1>12, <1>s, <2>1 DEF Unknown, Observed
      <3>. QED
        BY <1>12, <1>x, <2>1, <3>2, <3>3 DEF Unknown, ledger, Dangerous
    <2>2. CASE ~sup.shared
      <3>1. reply' \in [Requests -> {"open", "closed", "error"} \cup Outcomes]
        BY <1>12, <2>2 DEF Unknown, Outcomes, Dropped
      <3>2. queue' \in Seq(Command) /\ Len(queue') <= QueueCap
        BY <1>12, <2>2, DangerConstants DEF Unknown
      <3>3. started' \subseteq Requests /\ ran' \in BOOLEAN /\ sup' \in Supervisor
        BY <1>12, <2>2, <1>x, <1>y DEF Unknown, Dangerous
      <3>. QED
        BY <1>12, <2>2, <1>e, <3>1, <3>2, <3>3 DEF Unknown, ledger
    <2>. QED
      BY <2>1, <2>2
  <1>13. ASSUME NEW mode \in Observed, NativeChange(mode) PROVE TypeOK'
    BY <1>13, <1>s DEF NativeChange, ledger, ticket, Supervisor
  <1>14. CASE AfterBarrier
    <2>1. sup.cmd /= None => sup.cmd.id \in Requests /\ sup.outcome \in Outcomes
      BY <1>14 DEF AfterBarrier, BarrierInv, Supervisor, Command
    <2>2. sup.mode \in Observed /\ sup' \in Supervisor
      BY <1>14 DEF AfterBarrier, Done, Supervisor
    <2>3. reply' \in [Requests -> {"open", "closed", "error"} \cup Outcomes]
      BY <1>14, <2>1 DEF AfterBarrier
    <2>. QED
      BY <1>14, <1>f, <2>2, <2>3 DEF AfterBarrier, ledger
  <1>15. CASE SupervisorExits
    <2>1. reply' \in [Requests -> {"open", "closed", "error"} \cup Outcomes]
      BY <1>15 DEF SupervisorExits, Outcomes, Dropped
    <2>2. queue' \in Seq(Command) /\ Len(queue') <= QueueCap
      BY <1>15, DangerConstants DEF SupervisorExits
    <2>3. sup' \in Supervisor
      BY <1>15 DEF SupervisorExits, Supervisor
    <2>. QED
      BY <1>15, <1>e, <2>1, <2>2, <2>3 DEF SupervisorExits, ledger
  <1>h. notes /= <<>> => /\ Head(notes) \in Notes /\ Tail(notes) \in Seq(Notes)
                         /\ Len(Tail(notes)) <= MaxNotes
    BY TailFacts, DangerConstants
  <1>16. CASE TakeDisarm
    BY <1>16, <1>d, <1>h DEF TakeDisarm, ticket
  <1>17. CASE TakeSettings
    BY <1>17, <1>h DEF TakeSettings, Marked, Dangerous, ticket, Row, Supervisor
  <1>18. CASE TakeEnded
    BY <1>18, <1>h DEF TakeEnded, ticket, Row
  <1>19. ASSUME NEW saved \in BOOLEAN, TakeFrame(saved) PROVE TypeOK'
    <2>1. Tail(frames) \in Seq(Observed) /\ Len(Tail(frames)) <= MaxNotes
      BY <1>19, TailFacts, DangerConstants DEF TakeFrame
    <2>. QED
      <3>1. CASE row = None
        BY <1>19, <2>1, <3>1 DEF TakeFrame, ticket
      <3>2. CASE row /= None
        <4>1. row' \in Row
          BY <1>19, <3>2 DEF TakeFrame, Row
        <4>2. roster' \in BOOLEAN /\ disk' \in BOOLEAN
          BY <1>19, <3>2, <4>1 DEF TakeFrame, Marked, Row
        <4>. QED
          BY <1>19, <2>1, <3>2, <4>1, <4>2 DEF TakeFrame, ticket
      <3>. QED
        BY <3>1, <3>2
  <1>20. ASSUME NEW transcript \in BOOLEAN, Resume(transcript) PROVE TypeOK'
    <2>1. sup.gen + 1 \in Nat
      BY DEF Supervisor
    <2>2. row' \in Row
      BY <1>20, <2>1 DEF Resume, Row
    <2>3. sup' \in Supervisor
      BY <1>20, <2>1 DEF Resume, Supervisor, Observed, Modes
    <2>4. roster' \in BOOLEAN /\ disk' \in BOOLEAN
      BY <1>20 DEF Resume
    <2>. QED
      BY <1>20, <2>2, <2>3, <2>4 DEF Resume, ticket
  <1>21. CASE SaveAnother
    BY <1>21 DEF SaveAnother, ticket
  <1>22. CASE CrashAndRestart
    <2>1. sup' \in Supervisor
      BY <1>22 DEF CrashAndRestart, Done, Supervisor
    <2>2. answer' \in [Requests -> {"none", "not_sent", "lost"} \cup Outcomes]
      BY <1>22 DEF CrashAndRestart, Gate
    <2>3. /\ queue' \in Seq(Command) /\ notes' \in Seq(Notes) /\ frames' \in Seq(Observed)
          /\ Len(queue') <= QueueCap /\ Len(notes') <= MaxNotes /\ Len(frames') <= MaxNotes
      BY <1>22, DangerConstants DEF CrashAndRestart
    <2>4. kept' \in BOOLEAN /\ row' = None /\ gate' = None
      BY <1>22 DEF CrashAndRestart
    <2>. QED
      BY <1>22, <2>1, <2>2, <2>3, <2>4 DEF CrashAndRestart, ticket
  <1>. QED
    BY <1>1, <1>2, <1>4, <1>5, <1>6, <1>7, <1>8, <1>9, <1>10, <1>11, <1>12, <1>13, <1>14,
       <1>15, <1>16, <1>17, <1>18, <1>19, <1>20, <1>21, <1>22, NextCases

----------------------------------------------------------------------------
(* Generations and the barrier *)

\* Every step keeps the notes of the current generation behind its supervisor.
LEMMA BarrierStep ==
    ASSUME TypeOK, BarrierInv, Next PROVE BarrierInv'
  <1>t. /\ row \in Row \cup {None} /\ gate \in Gate \cup {None}
        /\ notes \in Seq(Notes) /\ sup \in Supervisor /\ sup.gen \in Nat
    BY DEF TypeOK, Supervisor
  <1>n. None \notin Row
    BY NoneIsNoRecord
  <1>. USE <1>n DEF BarrierInv
  <1>d. ASSUME NEW arm, NEW ended, DisarmDanger(arm, ended), UNCHANGED sup
        PROVE  row' /= None => row'.gen = sup'.gen
    BY <1>t, <1>d DEF DisarmDanger, Row
  <1>m. ASSUME row' /= None => row'.gen = sup'.gen, UNCHANGED <<sup, notes>>
        PROVE  BarrierInv'
    BY <1>m
  <1>1. ASSUME NEW id \in Requests, NEW mode \in Modes, NEW saves \in 0..2,
               Prepare(id, mode, saves)
        PROVE  BarrierInv'
    <2>1. row' /= None => row'.gen = sup'.gen
      BY <1>t, <1>1 DEF Prepare, Row
    <2>. QED
      BY <1>1, <1>m, <2>1 DEF Prepare
  <1>2. CASE Enqueue
    BY <1>2, <1>m DEF Enqueue, ledger
  <1>w. ASSUME Withdrawn, UNCHANGED <<sup, notes>> PROVE BarrierInv'
    BY <1>d, <1>m, <1>w DEF Withdrawn
  <1>4. CASE EnqueueFails
    BY <1>4, <1>w DEF EnqueueFails
  <1>5. CASE Timeout
    BY <1>5, <1>m, <1>w DEF Timeout, ledger
  <1>6. CASE NoOutcome
    BY <1>6, <1>m, <1>w DEF NoOutcome, ledger
  <1>7. CASE Outcome
    <2>1. row' /= None => row'.gen = sup'.gen
      BY <1>7, <1>d, <1>t DEF Outcome, Mine, Row
    <2>. QED
      BY <1>7, <1>m, <2>1 DEF Outcome
  <1>a. ASSUME NEW n \in Notes, n.gen = sup.gen, notes' = Append(notes, n), sup.phase = "running",
               sup'.gen = sup.gen, n.kind = "settings" => sup'.phase = "barrier",
               sup'.cmd /= None /\ sup'.phase /= "running" => sup'.outcome \in Outcomes,
               UNCHANGED row
        PROVE  BarrierInv'
    <2>1. /\ DOMAIN notes = 1 .. Len(notes) /\ DOMAIN notes' = 1 .. (Len(notes) + 1)
          /\ Len(notes) \in Nat /\ Len(notes') = Len(notes) + 1
          /\ \A i \in DOMAIN notes : notes'[i] = notes[i]
          /\ notes'[Len(notes) + 1] = n
      BY <1>t, <1>a, AppendFacts
    <2>2. ASSUME NEW i \in DOMAIN notes'
          PROVE  /\ notes'[i].gen <= sup'.gen
                 /\ notes'[i].kind = "settings" /\ notes'[i].gen = sup'.gen
                    => sup'.phase = "barrier" /\ i = Len(notes')
      <3>1. CASE i = Len(notes) + 1
        BY <1>a, <1>t, <2>1, <3>1
      <3>2. CASE i \in DOMAIN notes
        BY <1>a, <2>1, <3>2
      <3>. QED
        BY <2>1, <3>1, <3>2
    <2>. QED
      BY <1>a, <2>2
  <1>r. ASSUME NEW cmd \in Command, Disarmed(cmd), sup.phase = "running", sup'.phase = "running",
               sup'.gen = sup.gen, UNCHANGED row
        PROVE  BarrierInv'
    <2>1. CASE cmd.armed = None
      BY <1>r, <2>1 DEF Disarmed
    <2>2. CASE cmd.armed /= None
      <3>1. /\ Disarm(sup.gen, cmd.armed) \in Notes /\ Disarm(sup.gen, cmd.armed).gen = sup.gen
            /\ Disarm(sup.gen, cmd.armed).kind = "disarm"
        BY <1>t, <2>2 DEF Disarm, Notes, Command, Observed, Modes
      <3>. QED
        BY <1>r, <1>a, <2>2, <3>1 DEF Disarmed
    <2>. QED
      BY <2>1, <2>2
  <1>s. ASSUME NEW mode \in Observed
        PROVE  /\ Settings(sup.gen, mode) \in Notes /\ Settings(sup.gen, mode).gen = sup.gen
               /\ Ended(sup.gen) \in Notes /\ Ended(sup.gen).gen = sup.gen
               /\ Ended(sup.gen).kind = "ended"
    BY <1>t DEF Settings, Ended, Notes, Observed, Modes
  <1>o. "unknown" \in Observed
    BY DEF Observed
  <1>x. Executing => sup.cmd \in Command /\ sup.cmd.mode \in Observed /\ sup.phase = "running"
    BY <1>t DEF Executing, Supervisor, Command, Observed
  <1>8. ASSUME NEW admitted \in BOOLEAN, Take(admitted) PROVE BarrierInv'
    <2>1. Head(queue) \in Command /\ sup.phase = "running" /\ UNCHANGED row
      BY <1>8, TailFacts DEF Take, Idle, ledger, TypeOK
    <2>2. CASE Accepts(cell[Head(queue).id], admitted)
      <3>1. sup'.phase = "running" /\ sup'.gen = sup.gen /\ UNCHANGED notes
        BY <1>8, <1>t, <2>1, <2>2 DEF Take, Supervisor
      <3>. QED
        BY <2>1, <3>1
    <2>3. CASE ~Accepts(cell[Head(queue).id], admitted)
      BY <1>8, <1>r, <2>1, <2>3 DEF Take
    <2>. QED
      BY <2>2, <2>3
  <1>9. CASE Reject
    BY <1>9, <1>r, <1>t, <1>x DEF Reject, Done, ledger, Supervisor
  <1>10. CASE Refused
    BY <1>10, <1>r, <1>t, <1>x DEF Refused, Done, ledger, Supervisor
  <1>11. CASE Applied
    <2>1. CASE sup.shared
      <3>1. /\ notes' = Append(notes, Settings(sup.gen, sup.cmd.mode)) /\ UNCHANGED row
            /\ sup'.phase = "barrier" /\ sup'.gen = sup.gen /\ sup'.outcome = "applied"
        BY <1>11, <1>t, <2>1 DEF Applied, ledger, Supervisor
      <3>. QED
        BY <1>11, <1>a, <1>s, <1>x, <3>1 DEF Applied, Outcomes
    <2>2. CASE ~sup.shared
      <3>1. UNCHANGED <<row, notes>> /\ sup'.phase = "running" /\ sup'.gen = sup.gen
        BY <1>11, <1>t, <1>x, <2>2 DEF Applied, Done, ledger, Supervisor
      <3>. QED
        BY <1>11, <1>x, <3>1 DEF Applied
    <2>. QED
      BY <2>1, <2>2
  <1>12. CASE Unknown
    <2>1. CASE sup.shared
      <3>1. /\ notes' = Append(notes, Settings(sup.gen, "unknown")) /\ UNCHANGED row
            /\ sup'.phase = "barrier" /\ sup'.gen = sup.gen /\ sup'.outcome = "unknown"
        BY <1>12, <1>t, <2>1 DEF Unknown, ledger, Supervisor
      <3>. QED
        BY <1>12, <1>a, <1>o, <1>s, <1>x, <3>1 DEF Unknown, Outcomes
    <2>2. CASE ~sup.shared
      <3>1. /\ notes' = Append(notes, Ended(sup.gen)) /\ UNCHANGED row
            /\ sup'.gen = sup.gen /\ sup'.cmd = None
        BY <1>12, <1>t, <2>2 DEF Unknown, Done, ledger, Supervisor
      <3>. QED
        BY <1>12, <1>a, <1>o, <1>s, <1>x, <3>1 DEF Unknown
    <2>. QED
      BY <2>1, <2>2
  <1>13. ASSUME NEW mode \in Observed, NativeChange(mode) PROVE BarrierInv'
    <2>1. /\ notes' = Append(notes, Settings(sup.gen, mode)) /\ UNCHANGED row
          /\ sup.phase = "running"
          /\ sup'.phase = "barrier" /\ sup'.gen = sup.gen /\ sup'.cmd = None
      BY <1>13, <1>t DEF NativeChange, Idle, ledger, Supervisor
    <2>. QED
      BY <1>a, <1>s, <2>1
  <1>14. CASE AfterBarrier
    <2>1. /\ UNCHANGED <<row, notes>> /\ sup.phase = "acked" /\ sup'.gen = sup.gen
          /\ sup'.cmd = None
      BY <1>14, <1>t DEF AfterBarrier, Done, ledger, Supervisor
    <2>. QED
      BY <2>1
  <1>15. CASE SupervisorExits
    <2>1. /\ notes' = Append(notes, Ended(sup.gen)) /\ UNCHANGED row
          /\ sup.phase = "running" /\ sup'.gen = sup.gen /\ sup'.cmd = None
      BY <1>15, <1>t DEF SupervisorExits, Idle, ledger, Supervisor
    <2>. QED
      BY <1>a, <1>o, <1>s, <2>1
  <1>h. ASSUME notes /= <<>>, notes' = Tail(notes), sup'.gen = sup.gen, sup'.cmd = sup.cmd,
               sup'.outcome = sup.outcome,
               sup'.phase = sup.phase \/ (sup.phase = "barrier" /\ Len(notes) = 1),
               row' /= None => row'.gen = sup'.gen
        PROVE  BarrierInv'
    <2>1. /\ Len(notes') = Len(notes) - 1 /\ Len(notes) \in Nat
          /\ DOMAIN notes' = 1 .. Len(notes')
          /\ \A i \in DOMAIN notes' : i \in Nat /\ i + 1 \in DOMAIN notes /\ notes'[i] = notes[i + 1]
      BY <1>h, <1>t, TailFacts
    <2>2. CASE sup'.phase = sup.phase
      <3>. SUFFICES ASSUME NEW i \in DOMAIN notes'
                    PROVE  /\ notes'[i].gen <= sup'.gen
                           /\ notes'[i].kind = "settings" /\ notes'[i].gen = sup'.gen
                              => sup'.phase = "barrier" /\ i = Len(notes')
        BY <1>h, <2>2
      <3>. QED
        BY <1>h, <2>1, <2>2
    <2>3. CASE sup.phase = "barrier" /\ Len(notes) = 1
      <3>1. DOMAIN notes' = {}
        BY <2>1, <2>3
      <3>. QED
        BY <1>h, <2>3, <3>1
    <2>. QED
      BY <1>h, <2>2, <2>3
  <1>16. CASE TakeDisarm
    <2>1. row' /= None => row'.gen = sup'.gen
      BY <1>16, <1>d DEF TakeDisarm
    <2>. QED
      BY <1>16, <1>h, <2>1 DEF TakeDisarm
  <1>17. CASE TakeSettings
    <2>1. /\ notes /= <<>> /\ notes' = Tail(notes) /\ row /= None
          /\ Head(notes).kind = "settings" /\ Head(notes).gen = row.gen
          /\ sup'.gen = sup.gen /\ sup'.cmd = sup.cmd /\ sup'.outcome = sup.outcome
          /\ row'.gen = row.gen
      BY <1>17, <1>t DEF TakeSettings, Row, Supervisor
    <2>2. Head(notes) = notes[1] /\ 1 \in DOMAIN notes
      BY <1>t, <2>1, TailFacts
    <2>3. sup.phase = "barrier" /\ Len(notes) = 1
      BY <2>1, <2>2
    <2>. QED
      BY <1>h, <2>1, <2>3
  <1>18. CASE TakeEnded
    <2>1. row' /= None => row'.gen = sup'.gen
      BY <1>18, <1>t DEF TakeEnded, Row
    <2>. QED
      BY <1>18, <1>h, <2>1 DEF TakeEnded
  <1>19. ASSUME NEW saved \in BOOLEAN, TakeFrame(saved) PROVE BarrierInv'
    <2>1. row' /= None => row'.gen = sup'.gen
      BY <1>19, <1>t DEF TakeFrame, Row
    <2>. QED
      BY <1>19, <1>m, <2>1 DEF TakeFrame
  <1>20. ASSUME NEW transcript \in BOOLEAN, Resume(transcript) PROVE BarrierInv'
    <2>1. /\ UNCHANGED notes /\ sup'.gen = sup.gen + 1 /\ row'.gen = sup'.gen
          /\ sup'.cmd = None
      BY <1>20 DEF Resume
    <2>2. \A i \in DOMAIN notes : notes[i].gen \in Nat
      <3>1. \A n \in Notes : n.gen \in Nat
        BY DEF Notes
      <3>2. notes \in [1 .. Len(notes) -> Notes]
        BY <1>t
      <3>. QED
        BY <3>1, <3>2
    <2>. QED
      BY <1>t, <2>1, <2>2
  <1>21. CASE SaveAnother
    BY <1>21, <1>m DEF SaveAnother
  <1>22. CASE CrashAndRestart
    <2>1. row' = None /\ notes' = <<>> /\ sup'.cmd = None
      BY <1>22, <1>t DEF CrashAndRestart, Done, Supervisor
    <2>. QED
      BY <2>1
  <1>. QED
    BY <1>1, <1>2, <1>4, <1>5, <1>6, <1>7, <1>8, <1>9, <1>10, <1>11, <1>12, <1>13, <1>14,
       <1>15, <1>16, <1>17, <1>18, <1>19, <1>20, <1>21, <1>22, NextCases

----------------------------------------------------------------------------
(* Theorems *)

\* A session that has just started satisfies the invariant.
LEMMA InvInit == Init => IInv
  <1>. SUFFICES ASSUME Init PROVE IInv
    OBVIOUS
  <1>1. TypeOK
    <2>1. row \in Row
      BY DEF Init, Row
    <2>2. sup \in Supervisor
      BY DangerConstants DEF Init, Supervisor, Observed, Modes
    <2>3. /\ queue \in Seq(Command) /\ notes \in Seq(Notes) /\ frames \in Seq(Observed)
          /\ Len(queue) <= QueueCap /\ Len(notes) <= MaxNotes /\ Len(frames) <= MaxNotes
      BY DangerConstants DEF Init
    <2>. QED
      BY <2>1, <2>2, <2>3 DEF Init, TypeOK
  <1>2. BarrierInv
    BY DEF Init, BarrierInv
  <1>3. TicketInv
    BY DEF Init, TicketInv, FreshInv, GateInv, QueueInv, TakenInv, FateInv
  <1>. QED
    BY <1>1, <1>2, <1>3 DEF IInv

\* Every step of the daemon, the supervisor and their faults preserves it.
LEMMA InvStep == IInv /\ [Next]_vars => IInv'
  <1>1. IInv /\ Next => IInv'
    BY TypeStep, BarrierStep, TicketStep DEF IInv
  <1>2. IInv /\ UNCHANGED vars => IInv'
    BY DEF IInv, TypeOK, BarrierInv, TicketInv, FreshInv, GateInv, QueueInv, TakenInv,
       FateInv, vars, ledger, ticket
  <1>. QED
    BY <1>1, <1>2

\* The invariant of the tickets holds for every number of requests, every bound
\* and every set of faults.
THEOREM Invariant == Spec => []IInv
  BY InvInit, InvStep, PTL DEF Spec

\* Every variable keeps its type, and neither the command queue nor the channels
\* to the daemon exceed their capacity.
THEOREM TypeCorrect == Spec => []TypeOK
  <1>1. IInv => TypeOK
    BY DEF IInv
  <1>. QED
    BY <1>1, Invariant, PTL

\* From the supervisor's take to the outcome it answers with, the instruction's
\* request holds the session's gate: the daemon never prepares another change
\* while one may still reach the harness.
THEOREM GateHeld == Spec => []TakenHoldsGate
  <1>1. IInv => TakenHoldsGate
    BY DEF IInv, TicketInv, TakenInv, TakenHoldsGate
  <1>. QED
    BY <1>1, Invariant, PTL

\* A caller's answer, when it had none, moves it into NotSent or leaves NotSent
\* as it was.
LEMMA AnswerFacts ==
    ASSUME TypeOK, NEW id \in Requests, NEW what, answer[id] = "none",
           answer' = [answer EXCEPT ![id] = what]
    PROVE  /\ what = "not_sent" => NotSent' = NotSent \cup {id}
           /\ what /= "not_sent" => NotSent' = NotSent
  BY DEF NotSent, TypeOK

\* Every step of the ticket is a step of what it promises, or changes nothing of it.
LEMMA PromiseStep ==
    ASSUME TypeOK, TicketInv, Next
    PROVE  Promise!Next \/ UNCHANGED <<started, NotSent>>
  <1>t. /\ gate /= None => gate.id \in Requests /\ answer[gate.id] = "none"
        /\ sup.cmd /= None => sup.cmd.id \in Requests /\ cell[sup.cmd.id] = "taken"
        /\ \A id \in started : cell[id] = "taken"
        /\ \A id \in NotSent : cell[id] = "abandoned"
        /\ cell \in [Requests -> {"new", "queued", "taken", "abandoned"}]
    BY DEF TypeOK, TicketInv, GateInv, TakenInv, FateInv, NotSent, Gate, Supervisor, Command
  <1>w. ASSUME NEW id \in Requests, cell[id] /= "taken", answer[id] = "none",
               answer' = [answer EXCEPT ![id] = "not_sent"], UNCHANGED started
        PROVE  Promise!Next
    <2>1. id \notin started /\ id \notin NotSent /\ NotSent' = NotSent \cup {id}
      BY <1>t, <1>w, AnswerFacts DEF NotSent
    <2>. QED
      BY <1>w, <2>1 DEF Promise!Next, Promise!Withdraw
  <1>k. ASSUME NEW id \in Requests, NEW what, what /= "not_sent", answer[id] = "none",
               answer' = [answer EXCEPT ![id] = what], UNCHANGED started
        PROVE  UNCHANGED <<started, NotSent>>
    BY <1>k, AnswerFacts
  <1>x. ASSUME Executing, started' = started \cup {sup.cmd.id}, UNCHANGED answer
        PROVE  Promise!Next \/ UNCHANGED <<started, NotSent>>
    <2>1. NotSent' = NotSent /\ sup.cmd.id \in Requests /\ sup.cmd.id \notin NotSent
      BY <1>t, <1>x DEF NotSent, Executing
    <2>2. CASE sup.cmd.id \in started
      BY <1>x, <2>1, <2>2
    <2>3. CASE sup.cmd.id \notin started
      BY <1>x, <2>1, <2>3 DEF Promise!Next, Promise!Run
    <2>. QED
      BY <2>2, <2>3
  <1>u. ASSUME UNCHANGED <<started, answer>> PROVE UNCHANGED <<started, NotSent>>
    BY <1>u DEF NotSent
  <1>1. ASSUME NEW id \in Requests, NEW mode \in Modes, NEW saves \in 0..2,
               Prepare(id, mode, saves)
        PROVE  Promise!Next \/ UNCHANGED <<started, NotSent>>
    <2>1. cell[id] = "new" /\ answer[id] = "none" /\ UNCHANGED started
      BY <1>1 DEF Prepare, TicketInv, FreshInv
    <2>2. CASE saves < SavesNeeded(mode)
      BY <1>1, <1>w, <2>1, <2>2 DEF Prepare
    <2>3. CASE ~(saves < SavesNeeded(mode))
      BY <1>1, <1>u, <2>1, <2>3 DEF Prepare
    <2>. QED
      BY <2>2, <2>3
  <1>3. ASSUME Withdrawn, gate /= None, cell[gate.id] /= "taken", UNCHANGED started
        PROVE  Promise!Next
    BY <1>3, <1>t, <1>w DEF Withdrawn, Answered
  <1>4. CASE EnqueueFails
    BY <1>3, <1>4 DEF EnqueueFails, TicketInv, GateInv
  <1>5. CASE Timeout
    <2>1. (Withdrawn /\ cell[gate.id] /= "taken") \/ UNCHANGED answer
      BY <1>5, <1>t, AbandonFacts DEF Timeout
    <2>. QED
      BY <1>3, <1>5, <1>u, <2>1 DEF Timeout
  <1>6. CASE NoOutcome
    <2>1. (Withdrawn /\ cell[gate.id] /= "taken") \/ UNCHANGED answer
      BY <1>6, <1>t, AbandonFacts DEF NoOutcome
    <2>. QED
      BY <1>3, <1>6, <1>u, <2>1 DEF NoOutcome
  <1>7. CASE Outcome
    BY <1>7, <1>k, <1>t DEF Outcome, Answered, Outcomes
  <1>10. CASE Refused
    BY <1>10, <1>x DEF Refused
  <1>11. CASE Applied
    BY <1>11, <1>x DEF Applied
  <1>12. CASE Unknown
    BY <1>12, <1>x DEF Unknown
  <1>22. CASE CrashAndRestart
    BY <1>22, <1>k, <1>t, <1>u DEF CrashAndRestart
  <1>23. CASE \/ Enqueue \/ Reject \/ AfterBarrier \/ SupervisorExits
              \/ TakeDisarm \/ TakeSettings \/ TakeEnded \/ SaveAnother
              \/ \E admitted \in BOOLEAN : Take(admitted)
              \/ \E mode \in Observed : NativeChange(mode)
              \/ \E saved \in BOOLEAN : TakeFrame(saved)
              \/ \E transcript \in BOOLEAN : Resume(transcript)
    BY <1>23, <1>u DEF Enqueue, Reject, AfterBarrier, SupervisorExits, TakeDisarm, TakeSettings,
       TakeEnded, SaveAnother, Take, NativeChange, TakeFrame, Resume
  <1>. QED
    BY <1>1, <1>4, <1>5, <1>6, <1>7, <1>10, <1>11, <1>12, <1>22, <1>23, NextCases

\* The permission-mode change keeps the promise of rc::ticket: whatever the order
\* of the caller's timeout, the supervisor's take, a refusal, the end of the
\* session and a crash, no instruction is both handed to the harness and reported
\* as never run.
THEOREM KeepsPromise == Spec => ImplementsInstruction
  <1>1. Init => Promise!Init
    BY DEF Init, Promise!Init, NotSent
  <1>2. IInv /\ [Next]_vars => [Promise!Next]_(Promise!vars)
    <2>1. IInv /\ Next => [Promise!Next]_(Promise!vars)
      BY PromiseStep DEF IInv, Promise!vars
    <2>2. UNCHANGED vars => UNCHANGED Promise!vars
      BY DEF vars, Promise!vars, NotSent
    <2>. QED
      BY <2>1, <2>2
  <1>. QED
    BY <1>1, <1>2, Invariant, PTL DEF Spec, ImplementsInstruction, Promise!Spec

=============================================================================
