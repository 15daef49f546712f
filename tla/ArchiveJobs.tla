---------------------------- MODULE ArchiveJobs ----------------------------
(***************************************************************************)
(* How an ended turn reaches the hub: the supervisor's end of a turn, the  *)
(* queue of pending archives, the live settlement and the daemon's         *)
(* recovery that both drain it, and the turns a dead daemon left open.     *)
(*                                                                         *)
(* One conversation of a Claude Code process the daemon starts, with local *)
(* capture authority.  A turn is a number; its piece of the transcript is  *)
(* one entry of `script', so a prefix of the transcript is a count of      *)
(* turns.  A commit covers everything up to the last turn that closed; a   *)
(* job carries the prefix it must cover.  Only the files survive a crash.  *)
(***************************************************************************)
EXTENDS Integers, Sequences, FiniteSets, FiniteSetsExt

CONSTANTS
    MaxTurns,     \* turns the conversation takes
    MaxCrashes,   \* times the daemon dies
    MaxMoods,     \* changes of what the machine allows
    Moods,        \* what it may allow, see Mood
    Endings       \* how a turn may end, see Ending

Mood == {"clear", "privacy", "off", "kept", "down"}
Ending == {"ok", "interrupted", "error", "exit", "stopped"}

ASSUME BoundsAssumption == /\ MaxTurns \in Nat \ {0}
                           /\ MaxCrashes \in Nat /\ MaxMoods \in Nat
                           /\ Moods \subseteq Mood /\ Endings \subseteq Ending

VARIABLES
    \* the files: what a crash leaves
    script,    \* the transcript: per turn "none" (unwritten), "open",
               \*   "done" (its own completion), "marked" (an interrupt), "receipt"
    record,    \* roster.open_turns: the turn recorded as running, 0 if none
    jobs,      \* pending-archives: [turn, end], end the prefix to be covered
    base,      \* the baseline of the branch's last commit
    outbox,    \* per committed prefix: "none", "intent" or "published"
    remote,    \* the prefix the hub holds
    \* the daemon
    up,        \* "down", starting ("closing", "queueing", "saving") or "up"
    sup,       \* the session's supervisor: [at, ending, due]
    frames,    \* frames the supervisor sent and the daemon has not projected
    rec,       \* the reservation of recovery: [stage, job, yield]
    pub,       \* the publication of "sup" and of "rec": [stage, src, left]
    parked,    \* recovery's schedule: what each turn's job waits for
    \* outside
    mood,      \* what the machine allows now
    moods,     \* how often that changed
    orphan,    \* the harness a dead daemon left: "none", "idle" or "busy" in a turn
    late,      \* the harness has yet to write the last reply it reported
    \* history
    held,      \* turns a person interrupted or stopped
    waived,    \* turns whose start a dead daemon never recorded, whose failed
               \*   queueing was reported, or that consent kept back
    crashes

files == <<script, record, jobs, base, outbox, remote>>
daemon == <<up, sup, frames, rec, pub, parked>>
outside == <<mood, moods, orphan, late>>
history == <<held, waived, crashes>>
vars == <<files, daemon, outside, history>>

Turns == 1 .. MaxTurns
Idle == [stage |-> "none", src |-> 0, left |-> {}]
NoSession == [at |-> "off", ending |-> "none", due |-> FALSE]
NoAttempt == [stage |-> "none", job |-> [turn |-> 0, end |-> 0], yield |-> FALSE]
Latest == Len(script)

----------------------------------------------------------------------------
(* The transcript *)

Written(s) == {i \in DOMAIN s : s[i] # "none"}
WrittenEnd(s) == Max({0} \cup Written(s))

\* Where settlement cuts: the last turn that closed, by itself or by a receipt.
Cut(s) == Max({0} \cup {i \in DOMAIN s : s[i] \in {"done", "receipt"}})

AwaitsReply(s) == WrittenEnd(s) > 0 /\ s[WrittenEnd(s)] = "open"
Interrupted(s) == WrittenEnd(s) > 0 /\ s[WrittenEnd(s)] = "marked"

\* Mutant: a stopped turn is queued without the receipt that ends it.
TurnEndUnreceipted(s, stopped) ==
    [kind |-> CASE AwaitsReply(s) /\ ~stopped -> "open"
                [] Interrupted(s) -> "held"
                [] OTHER -> "closed",
     at |-> IF AwaitsReply(s) THEN WrittenEnd(s) ELSE Cut(s), script |-> s]

\* completion::turn_end: the transcript it leaves and the end it finds.  A turn
\* its harness stopped gets an end receipt; one a person stopped gets none.
TurnEnd(s, stopped) ==
    IF AwaitsReply(s)
      THEN IF stopped
             THEN [kind |-> "closed", at |-> WrittenEnd(s),
                   script |-> [s EXCEPT ![WrittenEnd(s)] = "receipt"]]
             ELSE [kind |-> "open", at |-> WrittenEnd(s), script |-> s]
      ELSE [kind |-> IF Interrupted(s) THEN "held" ELSE "closed",
            at |-> Cut(s), script |-> s]

----------------------------------------------------------------------------
(* The queue *)

Subsumed(queue, job) == {old \in queue : old.end < job.end}

Replayed(queue, job) == \E old \in queue : old.turn = job.turn \/ old.end = job.end

\* Job::record: one job per turn; a newer prefix replaces the ones it contains.
Recorded(queue, job) ==
    IF Replayed(queue, job) THEN queue ELSE (queue \ Subsumed(queue, job)) \cup {job}

\* Mutant: the jobs a new one contains are removed before it is persisted.
RemovedFirst(queue, job) ==
    {queue \ gone : gone \in SUBSET Subsumed(queue, job)} \cup {Recorded(queue, job)}

\* What Job::record leaves when the daemon dies in it: the job is persisted
\* before the ones it contains are removed.
RecordedInPart(queue, job) ==
    IF Replayed(queue, job)
      THEN {queue}
      ELSE {queue} \cup {(queue \ gone) \cup {job} : gone \in SUBSET Subsumed(queue, job)}

\* Mutant: a confirmed publication removes every job of its conversation.
CoveredByAny(queue, prefix) == queue

\* Job::covered_by, for the commit of a prefix.
Covered(queue, prefix) == {job \in queue : job.end <= prefix}

----------------------------------------------------------------------------
(* The supervisor *)

Init ==
    /\ script = <<>> /\ record = 0 /\ jobs = {} /\ base = 0 /\ remote = 0
    /\ outbox = [p \in 0 .. MaxTurns |-> "none"]
    /\ up = "up" /\ sup = NoSession /\ frames = <<>> /\ rec = NoAttempt
    /\ pub = [p \in {"sup", "rec"} |-> Idle]
    /\ parked = [t \in Turns |-> "none"]
    /\ mood \in Moods /\ moods = 0 /\ orphan = "none" /\ late = FALSE
    /\ held = {} /\ waived = {} /\ crashes = 0

\* Mutant: a resume does not wait for recovery.
ResumeAnyway ==
    /\ up = "up" /\ sup.at = "off" /\ orphan = "none"
    /\ sup' = [NoSession EXCEPT !.at = "idle"]
    /\ UNCHANGED <<files, up, frames, rec, pub, parked, outside, history>>

\* A resume: refused while a native writer is seen, and while recovery holds
\* the capture, which it asks to yield.
Resume ==
    /\ up = "up" /\ sup.at = "off" /\ orphan = "none"
    /\ IF rec.stage # "none"
         THEN rec' = [rec EXCEPT !.yield = TRUE] /\ UNCHANGED sup
         ELSE sup' = [NoSession EXCEPT !.at = "idle"] /\ UNCHANGED rec
    /\ UNCHANGED <<files, up, frames, pub, parked, outside, history>>

\* The prompt reaches the harness; TURN_STARTED is announced after it.
Prompt ==
    /\ sup.at = "idle" /\ ~late /\ Latest < MaxTurns
    /\ script' = Append(script, "none")
    /\ sup' = [sup EXCEPT !.at = "running"]
    /\ frames' = Append(frames, [kind |-> "started", turn |-> Latest + 1])
    /\ UNCHANGED <<record, jobs, base, outbox, remote, up, rec, pub, parked, outside, history>>

\* The harness, supervised or left behind, writes the turn's first records.
HarnessWrites ==
    /\ sup.at = "running" \/ orphan = "busy"
    /\ Latest > 0 /\ script[Latest] = "none"
    /\ script' = [script EXCEPT ![Latest] = "open"]
    /\ UNCHANGED <<record, jobs, base, outbox, remote, daemon, outside, history>>

\* The harness reports how the turn ended.  The last reply may reach the
\* transcript after the report; an interrupt may or may not leave its marker.
End(ending) ==
    /\ sup.at = "running" /\ ending \in Endings \ {"stopped"}
    /\ ending = "ok" => script[Latest] = "open"
    /\ \/ script' = script
       \/ /\ ending = "interrupted" /\ script[Latest] = "open"
          /\ script' = [script EXCEPT ![Latest] = "marked"]
    /\ late' = (ending = "ok")
    /\ held' = IF ending = "interrupted" THEN held \cup {Latest} ELSE held
    /\ sup' = [sup EXCEPT !.at = "over", !.ending = ending]
    /\ UNCHANGED <<record, jobs, base, outbox, remote, up, frames, rec, pub, parked,
                   mood, moods, orphan, waived, crashes>>

LateLine ==
    /\ late
    /\ script' = [script EXCEPT ![Latest] = "done"] /\ late' = FALSE
    /\ UNCHANGED <<record, jobs, base, outbox, remote, daemon, mood, moods, orphan, history>>

\* What the end of the turn queues: nothing for an open tail a person
\* interrupted, for a held one, or without consent; an empty prefix is refused.
Ended == TurnEnd(script, sup.ending \in {"error", "exit"})
\* The turns that neither the hub nor the queue has.
Unqueued == {t \in 1 .. Latest : t > remote /\ \A job \in jobs : job.end < t}
Queues == /\ mood # "kept"
          /\ Ended.kind = "closed" \/ (Ended.kind = "open" /\ sup.ending # "interrupted")

\* After the turn: TURN_COMPLETED and a settlement, or, when the harness
\* exited inside the turn, the end of the session with no TURN_COMPLETED.
AfterTurn ==
    IF sup.ending = "exit"
      THEN sup' = [sup EXCEPT !.at = "leaving", !.due = TRUE] /\ UNCHANGED frames
      ELSE /\ sup' = [sup EXCEPT !.at = "idle", !.ending = "none", !.due = TRUE]
           /\ frames' = Append(frames, [kind |-> "completed", turn |-> Latest])

\* Mutant: an empty prefix is queued like any other.
RetainEmpty ==
    /\ sup.at = "over"
    /\ script' = Ended.script
    /\ jobs' = IF Queues THEN Recorded(jobs, [turn |-> Latest, end |-> Ended.at]) ELSE jobs
    /\ waived' = IF mood = "kept" THEN waived \cup Unqueued ELSE waived
    /\ AfterTurn
    /\ UNCHANGED <<record, base, outbox, remote, up, rec, pub, parked, outside, held, crashes>>

\* retain_completed_archive: the ended turn is queued before its end is told.
Retain ==
    /\ sup.at = "over"
    /\ IF Queues
         THEN /\ script' = Ended.script
              /\ IF Ended.at > 0
                   THEN /\ jobs' = Recorded(jobs, [turn |-> Latest, end |-> Ended.at])
                        /\ UNCHANGED waived
                   ELSE waived' = waived \cup Unqueued /\ UNCHANGED jobs
         ELSE /\ waived' = IF mood = "kept" THEN waived \cup Unqueued ELSE waived
              /\ script' = Ended.script /\ UNCHANGED jobs
    /\ AfterTurn
    /\ UNCHANGED <<record, base, outbox, remote, up, rec, pub, parked, outside, held, crashes>>

\* The queue cannot be written: the client is told, and the turn ends all the same.
RetainFails ==
    /\ sup.at = "over" /\ mood = "down"
    /\ waived' = waived \cup Unqueued
    /\ AfterTurn
    /\ UNCHANGED <<files, up, rec, pub, parked, outside, held, crashes>>

\* A person stops the session and the turn does not end within its grace: the
\* harness is killed, the turn is held, and no TURN_COMPLETED is sent.
StopTurn ==
    /\ sup.at = "running" /\ "stopped" \in Endings
    /\ held' = held \cup {Latest}
    /\ sup' = [sup EXCEPT !.at = "leaving", !.due = TRUE]
    /\ UNCHANGED <<files, up, frames, rec, pub, parked, outside, waived, crashes>>

\* A session between turns is stopped; settle_on_exit settles once more.
StopIdle ==
    /\ sup.at = "idle"
    /\ sup' = [sup EXCEPT !.at = "leaving", !.due = TRUE]
    /\ UNCHANGED <<files, up, frames, rec, pub, parked, outside, history>>

\* The row goes once the exit settlement and its publication are over.
Leave ==
    /\ sup.at = "leaving" /\ ~sup.due /\ pub["sup"].stage = "none" /\ ~late
    /\ sup' = NoSession
    /\ UNCHANGED <<files, up, frames, rec, pub, parked, outside, history>>

\* observe_open_turn: the roster follows the frames, later than the turn itself.
Project ==
    /\ up = "up" /\ frames # <<>>
    /\ LET frame == Head(frames) IN
         record' = IF frame.kind = "completed" THEN 0
                   ELSE IF sup.at # "off" THEN frame.turn ELSE record
    /\ frames' = Tail(frames)
    /\ UNCHANGED <<script, jobs, base, outbox, remote, up, sup, rec, pub, parked, outside, history>>

----------------------------------------------------------------------------
(* Live settlement *)

\* What a commit makes of the branch: the privacy check stops it short.
Committed == IF mood = "privacy" THEN base ELSE Cut(script)

\* settle_and_push: land and commit; with nothing unpublished there is no candidate.
SupCommit ==
    /\ sup.at \in {"idle", "leaving"} /\ sup.due /\ pub["sup"].stage = "none"
    /\ sup' = [sup EXCEPT !.due = FALSE]
    /\ IF mood = "kept"
         THEN UNCHANGED <<base, pub>>
         ELSE /\ base' = Committed
              /\ pub' = IF Committed > remote
                          THEN [pub EXCEPT !["sup"] = [Idle EXCEPT !.stage = "committed", !.src = Committed]]
                          ELSE pub
    /\ UNCHANGED <<script, record, jobs, outbox, remote, up, frames, rec, parked, outside, history>>

\* What is tried again at the next idle tick; a session that leaves has none.
Again == sup' = IF sup.at = "leaving" THEN sup ELSE [sup EXCEPT !.due = TRUE]

\* publish_local: no attempt while publication is off; the intent is durable
\* before the push, and a source already published ends the attempt there.
SupBegin ==
    /\ pub["sup"].stage = "committed"
    /\ LET src == pub["sup"].src IN
         IF mood = "off"
           THEN /\ pub' = [pub EXCEPT !["sup"] = Idle] /\ Again
                /\ UNCHANGED outbox
           ELSE /\ pub' = [pub EXCEPT !["sup"] =
                             IF outbox[src] = "published" THEN Idle ELSE [@ EXCEPT !.stage = "pushing"]]
                /\ outbox' = [outbox EXCEPT ![src] = IF @ = "none" THEN "intent" ELSE @]
                /\ UNCHANGED sup
    /\ UNCHANGED <<script, record, jobs, base, remote, up, frames, rec, parked, outside, history>>

----------------------------------------------------------------------------
(* Publication, of the session ("sup") and of recovery ("rec") *)

Push(p) ==
    /\ pub[p].stage = "pushing"
    /\ IF mood = "down"
         THEN /\ pub' = [pub EXCEPT ![p] = Idle]
              /\ IF p = "sup" THEN Again ELSE UNCHANGED sup
              /\ UNCHANGED remote
         ELSE /\ remote' = Max({remote, pub[p].src})
              /\ pub' = [pub EXCEPT ![p].stage = "pushed"]
              /\ UNCHANGED sup
    /\ UNCHANGED <<script, record, jobs, base, outbox, up, frames, rec, parked, outside, history>>

\* Entry::complete makes the receipt durable; only then does
\* publication_confirmed read the queue, once ...
Confirm(p) ==
    /\ pub[p].stage = "pushed"
    /\ outbox' = [outbox EXCEPT ![pub[p].src] = "published"]
    /\ pub' = [pub EXCEPT ![p].stage = "removing", ![p].left = Covered(jobs, pub[p].src)]
    /\ UNCHANGED <<script, record, jobs, base, remote, up, sup, frames, rec, parked, outside, history>>

\* ... and removes what the published source covers, one job after the other.
RemoveJob(p) ==
    /\ pub[p].stage = "removing"
    /\ IF pub[p].left = {}
         THEN pub' = [pub EXCEPT ![p] = Idle] /\ UNCHANGED jobs
         ELSE \E job \in pub[p].left : /\ jobs' = jobs \ {job}
                                       /\ pub' = [pub EXCEPT ![p].left = @ \ {job}]
    /\ UNCHANGED <<script, record, base, outbox, remote, up, sup, frames, rec, parked, outside, history>>

----------------------------------------------------------------------------
(* Recovery of queued archives *)

\* reserve_archive: a due job of a conversation nothing runs.  A parked job is
\* due again once what it waits for has changed.
Reserve ==
    /\ up = "up" /\ sup.at = "off" /\ rec.stage = "none" /\ pub["rec"].stage = "none"
    /\ \E job \in jobs :
         /\ parked[job.turn] \in {"none"} \cup (Mood \ {mood})
         /\ parked' = [parked EXCEPT ![job.turn] = "none"]
         /\ rec' = [stage |-> "landing", job |-> job, yield |-> FALSE]
    /\ UNCHANGED <<files, up, sup, frames, pub, outside, history>>

\* A job queued before consent was withdrawn is dropped unsaved.
DropKept ==
    /\ rec.stage = "landing" /\ mood = "kept"
    /\ jobs' = jobs \ {rec.job} /\ rec' = NoAttempt
    /\ waived' = waived \cup (1 .. rec.job.end)
    /\ UNCHANGED <<script, record, base, outbox, remote, up, sup, frames, pub, parked,
                   outside, held, crashes>>

\* A resume asked for the capture before the commit began, or landing failed.
GiveUp ==
    /\ rec.stage = "landing" /\ (rec.yield \/ mood = "down")
    /\ rec' = NoAttempt
    /\ UNCHANGED <<files, up, sup, frames, pub, parked, outside, history>>

\* Landing validates the claim and the prefix; then the commit begins.
RecCommit ==
    /\ rec.stage = "landing" /\ mood \notin {"kept", "down"} /\ ~rec.yield
    /\ base' = Committed /\ rec' = [rec EXCEPT !.stage = "committed"]
    /\ UNCHANGED <<script, record, jobs, outbox, remote, up, sup, frames, pub, parked, outside, history>>

\* The commit's outcome: not covered (parked by the privacy check, else tried
\* again), parked while publication is off, or a durable intent; whichever,
\* the reservation is released before the push.
RecBegin ==
    /\ rec.stage = "committed"
    /\ rec' = NoAttempt
    /\ IF base < rec.job.end \/ mood = "off"
         THEN /\ parked' = [parked EXCEPT ![rec.job.turn] =
                              IF mood = (IF base < rec.job.end THEN "privacy" ELSE "off")
                                THEN mood ELSE "none"]
              /\ UNCHANGED <<outbox, pub>>
         ELSE /\ outbox' = [outbox EXCEPT ![base] = IF @ = "none" THEN "intent" ELSE @]
              /\ pub' = [pub EXCEPT !["rec"] =
                           [Idle EXCEPT !.src = base,
                                        !.stage = IF outbox[base] = "published" THEN "pushed" ELSE "pushing"]]
              /\ UNCHANGED parked
    /\ UNCHANGED <<script, record, jobs, base, remote, up, sup, frames, outside, history>>

----------------------------------------------------------------------------
(* The daemon dies and starts again *)

\* A harness whose daemon is gone may finish its turn, and exits.
OrphanEnds ==
    /\ orphan # "none" /\ ~late
    /\ orphan' = "none"
    /\ \/ UNCHANGED script
       \/ /\ orphan = "busy" /\ script[Latest] = "open"
          /\ script' = [script EXCEPT ![Latest] = "done"]
    /\ UNCHANGED <<record, jobs, base, outbox, remote, daemon, mood, moods, late, history>>

\* recover_open_turns runs before anything may resume the conversation.
Start ==
    /\ up = "down"
    /\ up' = IF record = 0 THEN "up" ELSE "closing"
    /\ UNCHANGED <<files, sup, frames, rec, pub, parked, outside, history>>

\* end_orphan cannot tell the process, or it would not exit: the record stays.
Retry ==
    /\ up = "closing" /\ orphan # "none"
    /\ up' = "up"
    /\ UNCHANGED <<files, sup, frames, rec, pub, parked, outside, history>>

\* Mutant: the record of an open turn is cleared before the turn is queued.
CloseAndClear ==
    /\ up = "closing"
    /\ orphan' = "none" /\ late' = FALSE
    /\ up' = IF mood = "kept" THEN "up" ELSE "queueing"
    /\ record' = 0
    /\ UNCHANGED <<script, jobs, base, outbox, remote, sup, frames, rec, pub, parked,
                   mood, moods, history>>

\* The process left behind is ended and the transcript it left is closed;
\* without consent nothing of it is queued.
Close ==
    /\ up = "closing"
    /\ orphan' = "none" /\ late' = FALSE
    /\ up' = IF mood = "kept" THEN "saving" ELSE "queueing"
    /\ waived' = IF mood = "kept"
                   THEN waived \cup Unqueued \cup ((Cut(script) + 1) .. Latest) ELSE waived
    /\ UNCHANGED <<files, sup, frames, rec, pub, parked, mood, moods, held, crashes>>

\* What was recorded is queued under the recorded turn, before the record goes.
Reopened == TurnEnd(script, TRUE)
QueuesOpen == Reopened.kind = "closed" /\ Reopened.at > 0
QueueOpen ==
    /\ up = "queueing"
    /\ script' = Reopened.script
    /\ jobs' = IF QueuesOpen
                 THEN Recorded(jobs, [turn |-> record, end |-> Reopened.at]) ELSE jobs
    /\ up' = "saving"
    /\ UNCHANGED <<record, base, outbox, remote, sup, frames, rec, pub, parked, outside, history>>

SaveRecovered ==
    /\ up = "saving"
    /\ record' = 0 /\ up' = "up"
    /\ UNCHANGED <<script, jobs, base, outbox, remote, sup, frames, rec, pub, parked, outside, history>>

\* The files a daemon leaves that dies while it queues a turn: the end receipt
\* comes before the job.
Torn(end, job) == {<<end.script, queue>> : queue \in RecordedInPart(jobs, job)}
Left == {<<script, jobs>>} \cup
        (IF sup.at = "over" /\ Queues /\ Ended.at > 0
           THEN Torn(Ended, [turn |-> Latest, end |-> Ended.at])
         ELSE IF up = "queueing" /\ QueuesOpen
           THEN Torn(Reopened, [turn |-> record, end |-> Reopened.at])
         ELSE {})

\* Whatever the daemon was doing stops, and what it had not written is gone.
Crash ==
    /\ up # "down" /\ crashes < MaxCrashes
    /\ crashes' = crashes + 1
    /\ \E left \in Left : script' = left[1] /\ jobs' = left[2]
    /\ up' = "down" /\ sup' = NoSession /\ frames' = <<>> /\ rec' = NoAttempt
    /\ pub' = [p \in {"sup", "rec"} |-> Idle]
    /\ parked' = [t \in Turns |-> "none"]
    /\ orphan' = CASE sup.at = "running" -> "busy"
                   [] sup.at = "idle" \/ (sup.at = "over" /\ sup.ending # "exit") -> "idle"
                   [] OTHER -> orphan
    /\ waived' = waived \cup {frames[i].turn : i \in {n \in DOMAIN frames : frames[n].kind = "started"}}
    /\ UNCHANGED <<record, base, outbox, remote, mood, moods, late, held>>

\* A privacy wait, a setting, a folder's consent or an unreachable hub comes or
\* goes, one at a time.
MoodChanges ==
    /\ moods < MaxMoods
    /\ \E m \in Moods \ {mood} : "clear" \in {mood, m} /\ mood' = m
    /\ moods' = moods + 1
    /\ UNCHANGED <<files, daemon, orphan, late, history>>

----------------------------------------------------------------------------
SupNext == \/ Prompt \/ HarnessWrites \/ LateLine \/ Retain \/ RetainFails
           \/ StopTurn \/ StopIdle \/ Leave \/ SupCommit \/ SupBegin
           \/ \E e \in Ending : End(e)
Publishes(p) == Push(p) \/ Confirm(p) \/ RemoveJob(p)
PubNext == \E p \in {"sup", "rec"} : Publishes(p)
Recovers == DropKept \/ GiveUp \/ RecCommit \/ RecBegin
Boots == Start \/ Close \/ QueueOpen \/ SaveRecovered
Next == \/ SupNext \/ PubNext \/ Reserve \/ Recovers \/ Resume \/ Project
        \/ Boots \/ Retry \/ Crash \/ OrphanEnds \/ MoodChanges

Spec == Init /\ [][Next]_vars

----------------------------------------------------------------------------
(* Properties *)

Job == [turn : Turns, end : Turns]

\* Types; a publication is of a committed prefix, and one job per turn is queued.
TypeOK ==
    /\ script \in Seq({"none", "open", "done", "marked", "receipt"}) /\ Latest <= MaxTurns
    /\ record \in 0 .. MaxTurns /\ jobs \subseteq Job
    /\ {base, remote} \subseteq 0 .. MaxTurns
    /\ outbox \in [0 .. MaxTurns -> {"none", "intent", "published"}]
    /\ up \in {"down", "closing", "queueing", "saving", "up"}
    /\ sup \in [at : {"off", "idle", "running", "over", "leaving"},
                ending : Ending \cup {"none"}, due : BOOLEAN]
    /\ frames \in Seq([kind : {"started", "completed"}, turn : Turns])
    /\ rec.stage \in {"none", "landing", "committed"} /\ rec.yield \in BOOLEAN
    /\ \A p \in {"sup", "rec"} : /\ pub[p].src <= base /\ pub[p].left \subseteq Job
                                 /\ pub[p].stage \in {"none", "committed", "pushing", "pushed", "removing"}
    /\ parked \in [Turns -> {"none", "privacy", "off"}]
    /\ mood \in Moods /\ orphan \in {"none", "idle", "busy"} /\ late \in BOOLEAN
    /\ held \subseteq Turns /\ waived \subseteq Turns
    /\ \A a, b \in jobs : a.turn = b.turn => a = b

\* No turn of the transcript is forgotten, whenever the daemon dies: it is on the
\* hub, in a queued job, recorded as open, or in a live supervisor's hands; or
\* its tail waits for a later turn because a person stopped it; or the archive
\* never owed it (its start unseen, its failure reported, consent withheld).
NoTurnForgotten ==
    \A t \in Written(script) \ waived :
        \/ t <= remote \/ t <= record \/ sup.at \in {"running", "over"}
        \/ \E job \in jobs : t <= job.end
        \/ \E k \in held : t <= k

\* The receipts of the outbox are true: what is published is on the hub, and
\* what a publication is about to remove is covered by it.
ReceiptIsTrue ==
    /\ \A p \in 0 .. MaxTurns : outbox[p] = "published" => p <= remote
    /\ \A p \in {"sup", "rec"} : \A job \in pub[p].left : job.end <= remote

\* Recovery and a live session never both write the branch of the conversation.
OneCommitter == rec.stage # "none" => sup.at = "off"

\* A turn a person interrupted or stopped stays out of the archive until a later
\* turn's cut covers it: nothing ends it with a receipt of its own.
HeldStaysOut == \A t \in held : script[t] # "receipt"

\* No job waits for ever: what it queued is within the cut settlement makes, or
\* the harness still owes its reply, or the next start is to close the turn, or
\* consent was withheld when that start came.
JobsCanSettle ==
    \A job \in jobs : job.end <= Cut(script) \/ late \/ record # 0 \/ job.end \in waived

\* A queued job leaves the queue published, contained in a newer job, or with
\* its consent withdrawn.
JobsLeavePublished ==
    [][\A job \in jobs \ jobs' :
          \/ job.end <= remote \/ mood = "kept" \/ \E new \in jobs' : job.end <= new.end]_vars
=============================================================================
