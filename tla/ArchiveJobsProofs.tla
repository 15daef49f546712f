-------------------------- MODULE ArchiveJobsProofs --------------------------
(***************************************************************************)
(* What the queue of pending archives guarantees for any number of turns,  *)
(* crashes and changes of what the machine allows: no turn is forgotten,   *)
(* no job waits for ever, and no receipt of a publication is false.        *)
(***************************************************************************)
EXTENDS ArchiveJobs, WellFoundedInduction, TLAPS

----------------------------------------------------------------------------
(* The inductive invariant *)

Lines == {"none", "open", "done", "marked", "receipt"}
Frame == [kind : {"started", "completed"}, turn : Turns]

Pubs == {"sup", "rec"}
Attempt == [stage : {"none", "committed", "pushing", "pushed", "removing"},
            src : 0 .. MaxTurns, left : SUBSET Job]

\* The types of the variables, in full.
FileTypes ==
    /\ script \in Seq(Lines) /\ Latest <= MaxTurns
    /\ record \in 0 .. MaxTurns /\ jobs \subseteq Job
    /\ base \in 0 .. MaxTurns /\ remote \in 0 .. MaxTurns
    /\ outbox \in [0 .. MaxTurns -> {"none", "intent", "published"}]

DaemonTypes ==
    /\ up \in {"down", "closing", "queueing", "saving", "up"}
    /\ sup \in [at : {"off", "idle", "running", "over", "leaving"},
                ending : Ending \cup {"none"}, due : BOOLEAN]
    /\ frames \in Seq(Frame)
    /\ rec \in [stage : {"none", "landing", "committed"},
                job : [turn : 0 .. MaxTurns, end : 0 .. MaxTurns], yield : BOOLEAN]
    /\ rec.stage # "none" => rec.job \in Job
    /\ pub \in [Pubs -> Attempt]
    /\ parked \in [Turns -> {"none", "privacy", "off"}]

OutsideTypes ==
    /\ mood \in Moods /\ orphan \in {"none", "idle", "busy"} /\ late \in BOOLEAN
    /\ held \subseteq Turns /\ waived \subseteq Turns

InTurn == sup.at \in {"running", "over"}
Announced == IF frames = <<>> THEN record = Latest
             ELSE frames[Len(frames)] = [kind |-> "started", turn |-> Latest]

\* Who may run when, and what is known of the turn that runs: the daemon has
\* recorded it, or its start is the last frame under way.
ControlInv ==
    /\ rec.stage # "none" => sup.at = "off"
    /\ up # "up" => sup.at = "off" /\ frames = <<>> /\ rec.stage = "none"
    /\ up \in {"closing", "queueing", "saving"} => record # 0
    /\ up \in {"queueing", "saving"} => orphan = "none" /\ ~late
    /\ orphan # "none" => sup.at = "off" /\ frames = <<>>
    /\ InTurn => Latest > 0 /\ Announced
    /\ sup.at = "running" => ~late
    /\ sup.at = "over" => /\ sup.ending \in {"ok", "interrupted", "error", "exit"}
                          /\ sup.ending = "ok" => late \/ script[Latest] = "done"
                          /\ late => sup.ending = "ok"
                          /\ sup.ending = "interrupted" => Latest \in held
    /\ late => Latest > 0 /\ script[Latest] = "open"
    /\ record <= Latest
    /\ \A i \in DOMAIN frames : frames[i].turn <= Latest

\* A commit is of what the transcript has closed, a publication of a commit.
CommitInv == base <= Cut(script) /\ \A p \in Pubs : pub[p].src <= base

\* What was pushed is on the hub.
HubInv == ReceiptIsTrue /\ \A p \in Pubs : pub[p].stage = "pushed" => pub[p].src <= remote

\* Jobs are of turns that were taken and of prefixes that were written; the turn
\* that runs, here or in a harness left behind, has none yet.
JobInv ==
    /\ \A a, b \in jobs : a.turn = b.turn => a = b
    /\ \A job \in jobs : job.turn <= Latest /\ job.end <= Latest /\ script[job.end] # "none"
    /\ InTurn => \A job \in jobs : job.turn < Latest
    /\ orphan = "busy" =>
          /\ Latest > 0
          /\ Latest \in waived \/ (record = Latest /\ \A job \in jobs : job.turn < Latest)
    /\ \A i \in 1 .. Latest : script[i] = "marked" => i \in held

\* Turns that the hub, a job, a person or a report accounts for.
Safe(t) == \/ t <= remote \/ t \in waived
           \/ \E job \in jobs : t <= job.end
           \/ \E k \in held : t <= k

\* The turns nothing accounts for, but for the one that runs.
Loose == {t \in 1 .. Latest : script[t] # "none" /\ ~Safe(t) /\ ~(InTurn /\ t = Latest)}

\* They are within the turn recorded as open, and no job of that turn, which would
\* keep it from being queued, and no frame that ends it, is there.
LooseInv ==
    \A t \in Loose : /\ t <= record /\ \A job \in jobs : job.turn < record
                     /\ \A i \in DOMAIN frames : /\ frames[i].kind = "started"
                                                 /\ t <= frames[i].turn
                                                 /\ \A job \in jobs : job.turn < frames[i].turn
                     /\ up # "saving"

\* A job that settlement does not reach is of an open last turn: the harness owes
\* its reply, or the next start is to close it.
SettleInv ==
    \A job \in jobs :
        \/ job.end <= Cut(script) \/ job.end \in waived
        \/ /\ job.end = Latest /\ script[Latest] = "open"
           /\ \/ late
              \/ record # 0 /\ up \in {"down", "closing", "queueing"} /\ orphan = "none"

IInv == /\ FileTypes /\ DaemonTypes /\ OutsideTypes
        /\ ControlInv /\ CommitInv /\ HubInv
        /\ JobInv /\ LooseInv /\ SettleInv

----------------------------------------------------------------------------
(* The transcript *)

\* A set of numbers up to n has a greatest.
LEMMA MaxFacts ==
    ASSUME NEW n \in Nat, NEW S \in SUBSET (0 .. n), S # {}
    PROVE  /\ Max(S) \in S
           /\ \A x \in S : x <= Max(S)
  <1>. DEFINE T == {m \in Nat : \E x \in S : m = n - x}
              less == {ss \in Nat \X Nat : ss[1] < ss[2]}
  <1>1. T \subseteq Nat /\ T # {}
    <2>1. PICK x \in S : TRUE
      OBVIOUS
    <2>2. n - x \in T
      BY <2>1
    <2>. QED
      BY <2>2
  <1>2. PICK m \in T : \A y \in T : ~(<<y, m>> \in less)
    <2>1. IsWellFoundedOn(less, Nat)
      BY NatLessThanWellFounded DEF OpToRel
    <2>. HIDE DEF T, less
    <2>. QED
      BY <1>1, <2>1, WFMin
  <1>3. \A y \in T : m <= y
    <2>1. \A x, y \in Nat : x < y => <<x, y>> \in less
      OBVIOUS
    <2>2. m \in Nat /\ \A y \in T : y \in Nat
      BY <1>2
    <2>. HIDE DEF T, less
    <2>3. \A y \in T : ~(y < m)
      BY <1>2, <2>1, <2>2
    <2>. QED
      BY <2>2, <2>3
  <1>4. PICK a \in S : m = n - a
    BY <1>2
  <1>5. \A y \in S : a >= y
    BY <1>3, <1>4
  <1>. QED
    BY <1>5 DEF Max

\* What settlement's cut and the written end of a transcript are.
LEMMA CutFacts ==
    ASSUME NEW s \in Seq(Lines)
    PROVE  /\ Cut(s) \in 0 .. Len(s)
           /\ Cut(s) > 0 => s[Cut(s)] \in {"done", "receipt"}
           /\ \A i \in 1 .. Len(s) : s[i] \in {"done", "receipt"} => i <= Cut(s)
           /\ WrittenEnd(s) \in 0 .. Len(s)
           /\ WrittenEnd(s) > 0 => s[WrittenEnd(s)] # "none"
           /\ \A i \in 1 .. Len(s) : s[i] # "none" => i <= WrittenEnd(s)
  <1>. DEFINE C == {0} \cup {i \in DOMAIN s : s[i] \in {"done", "receipt"}}
              W == {0} \cup Written(s)
  <1>1. Len(s) \in Nat /\ DOMAIN s = 1 .. Len(s)
    OBVIOUS
  <1>2. C \in SUBSET (0 .. Len(s)) /\ C # {} /\ W \in SUBSET (0 .. Len(s)) /\ W # {}
    BY <1>1 DEF Written
  <1>. HIDE DEF C, W
  <1>3. Max(C) \in C /\ \A x \in C : x <= Max(C)
    BY <1>1, <1>2, MaxFacts
  <1>4. Max(W) \in W /\ \A x \in W : x <= Max(W)
    BY <1>1, <1>2, MaxFacts
  <1>. USE DEF C, W
  <1>5. Cut(s) = Max(C) /\ WrittenEnd(s) = Max(W)
    BY DEF Cut, WrittenEnd
  <1>. QED
    BY <1>1, <1>2, <1>3, <1>4, <1>5 DEF Written

\* A transcript only grows: what is written stays, and what closed stays closed.
Grows(s, s2) ==
    /\ Len(s) <= Len(s2)
    /\ \A i \in 1 .. Len(s) : /\ s[i] \in {"done", "receipt"} => s2[i] \in {"done", "receipt"}
                              /\ s[i] # "none" => s2[i] # "none"

\* Settlement's cut never goes back.
LEMMA CutGrows ==
    ASSUME NEW s \in Seq(Lines), NEW s2 \in Seq(Lines), Grows(s, s2)
    PROVE  Cut(s) <= Cut(s2)
  <1>1. Cut(s) \in 0 .. Len(s) /\ Len(s) \in Nat /\ Len(s2) \in Nat /\ Cut(s2) \in 0 .. Len(s2)
    BY CutFacts
  <1>2. CASE Cut(s) = 0
    BY <1>1, <1>2
  <1>3. CASE Cut(s) > 0
    <2>1. s2[Cut(s)] \in {"done", "receipt"} /\ Cut(s) \in 1 .. Len(s2)
      BY <1>1, <1>3, CutFacts DEF Grows
    <2>. QED
      BY <2>1, CutFacts
  <1>. QED
    BY <1>1, <1>2, <1>3

\* One line of the transcript is rewritten.
LEMMA SetLine ==
    ASSUME NEW s \in Seq(Lines), NEW n \in 1 .. Len(s), NEW v \in Lines
    PROVE  /\ [s EXCEPT ![n] = v] \in Seq(Lines)
           /\ Len([s EXCEPT ![n] = v]) = Len(s)
           /\ [s EXCEPT ![n] = v][n] = v
           /\ \A i \in 1 .. Len(s) : i # n => [s EXCEPT ![n] = v][i] = s[i]
  OBVIOUS

\* A turn begins.
LEMMA NewLine ==
    ASSUME NEW s \in Seq(Lines)
    PROVE  /\ Append(s, "none") \in Seq(Lines)
           /\ Len(Append(s, "none")) = Len(s) + 1
           /\ Append(s, "none")[Len(s) + 1] = "none"
           /\ \A i \in 1 .. Len(s) : Append(s, "none")[i] = s[i]
  BY DEF Lines

\* completion::turn_end: what it finds and leaves.
LEMMA TurnEndFacts ==
    ASSUME NEW s \in Seq(Lines), NEW stopped \in BOOLEAN,
           NEW e, e = TurnEnd(s, stopped)
    PROVE  /\ e.kind \in {"closed", "open", "held"} /\ e.at \in 0 .. Len(s)
           /\ e.script \in Seq(Lines) /\ Len(e.script) = Len(s) /\ Grows(s, e.script)
           /\ \A i \in 1 .. Len(s) : /\ s[i] = "none" => e.script[i] = "none"
                                     /\ e.script[i] = "marked" => s[i] = "marked"
                                     /\ e.script[i] \in {s[i], "receipt"}
           /\ e.kind = "closed" => /\ e.at = Cut(e.script)
                                   /\ \A i \in 1 .. Len(s) : s[i] # "none" => i <= e.at
           /\ e.kind = "open" => /\ ~stopped /\ e.at > 0 /\ s[e.at] = "open" /\ e.script = s
                                 /\ \A i \in 1 .. Len(s) : s[i] # "none" => i <= e.at
           /\ e.kind = "held" => /\ e.script = s
                                 /\ \E k \in 1 .. Len(s) : /\ s[k] = "marked"
                                        /\ \A i \in 1 .. Len(s) : s[i] # "none" => i <= k
           /\ e.at > 0 => e.script[e.at] # "none"
  <1>. DEFINE w == WrittenEnd(s)
  <1>1. /\ Len(s) \in Nat /\ w \in 0 .. Len(s) /\ Cut(s) \in 0 .. Len(s)
        /\ w > 0 => s[w] # "none"
        /\ \A i \in 1 .. Len(s) : s[i] # "none" => i <= w
        /\ Cut(s) > 0 => s[Cut(s)] \in {"done", "receipt"}
        /\ \A i \in 1 .. Len(s) : s[i] \in {"done", "receipt"} => i <= Cut(s)
        /\ \A i \in 1 .. Len(s) : s[i] \in Lines
    BY CutFacts
  <1>2. CASE AwaitsReply(s) /\ stopped
    <2>. DEFINE s2 == [s EXCEPT ![w] = "receipt"]
    <2>1. w \in 1 .. Len(s) /\ s[w] = "open"
      BY <1>1, <1>2 DEF AwaitsReply
    <2>2. /\ s2 \in Seq(Lines) /\ Len(s2) = Len(s) /\ s2[w] = "receipt"
          /\ \A i \in 1 .. Len(s) : i # w => s2[i] = s[i]
      BY <2>1, SetLine DEF Lines
    <2>3. e.kind = "closed" /\ e.at = w /\ e.script = s2
      BY <1>2 DEF TurnEnd
    <2>. HIDE DEF s2
    <2>4. Cut(s2) = w
      <3>1. w <= Cut(s2) /\ Cut(s2) \in 0 .. Len(s) /\ s2[Cut(s2)] \in {"done", "receipt"}
        BY <1>1, <2>1, <2>2, CutFacts
      <3>. QED
        BY <1>1, <2>1, <2>2, <3>1
    <2>. QED
      BY <1>1, <2>1, <2>2, <2>3, <2>4 DEF Grows
  <1>3. CASE AwaitsReply(s) /\ ~stopped
    <2>1. e.kind = "open" /\ e.at = w /\ e.script = s
      BY <1>3 DEF TurnEnd
    <2>. QED
      BY <1>1, <1>3, <2>1 DEF AwaitsReply, Grows
  <1>4. CASE ~AwaitsReply(s)
    <2>1. /\ e.kind = (IF Interrupted(s) THEN "held" ELSE "closed")
          /\ e.at = Cut(s) /\ e.script = s
      BY <1>4 DEF TurnEnd
    <2>2. ~Interrupted(s) => \A i \in 1 .. Len(s) : s[i] # "none" => i <= Cut(s)
      <3>1. SUFFICES ASSUME ~Interrupted(s), w > 0 PROVE s[w] \in {"done", "receipt"}
        BY <1>1
      <3>. QED
        BY <1>1, <1>4, <3>1 DEF AwaitsReply, Interrupted, Lines
    <2>3. Interrupted(s) => w \in 1 .. Len(s) /\ s[w] = "marked"
      BY <1>1 DEF Interrupted
    <2>. QED
      BY <1>1, <2>1, <2>2, <2>3 DEF Grows
  <1>. QED
    BY <1>2, <1>3, <1>4

----------------------------------------------------------------------------
(* The queue *)

\* Job::record, completed or not: every job left out is contained in one that is
\* there, and a turn has one job.
LEMMA RecordedFacts ==
    ASSUME NEW queue \in SUBSET Job, NEW job \in Job, NEW new \in RecordedInPart(queue, job),
           \A a, b \in queue : a.turn = b.turn => a = b
    PROVE  /\ new \subseteq Job /\ new \subseteq queue \cup {job}
           /\ \A old \in queue : \E n \in new : old.end <= n.end
           /\ \A a, b \in new : a.turn = b.turn => a = b
  <1>1. \A j \in Job : j.end \in Nat
    BY BoundsAssumption DEF Job, Turns
  <1>2. CASE new = queue
    BY <1>1, <1>2
  <1>3. CASE new # queue
    <2>1. PICK gone \in SUBSET Subsumed(queue, job) :
             ~Replayed(queue, job) /\ new = (queue \ gone) \cup {job}
      BY <1>3 DEF RecordedInPart
    <2>2. \A old \in queue : old \in new \/ old.end < job.end
      BY <2>1 DEF Subsumed
    <2>3. \A old \in queue : old.turn # job.turn
      BY <2>1 DEF Replayed
    <2>. QED
      BY <1>1, <2>1, <2>2, <2>3
  <1>. QED
    BY <1>2, <1>3

\* The whole of Job::record: the new prefix is queued, unless its turn already is.
LEMMA RecordedWhole ==
    ASSUME NEW queue \in SUBSET Job, NEW job \in Job
    PROVE  /\ Recorded(queue, job) \in RecordedInPart(queue, job)
           /\ (\E old \in queue : old.turn = job.turn)
                \/ (\E n \in Recorded(queue, job) : n.end = job.end)
  <1>1. CASE Replayed(queue, job)
    BY <1>1 DEF Recorded, RecordedInPart, Replayed
  <1>2. CASE ~Replayed(queue, job)
    <2>1. Recorded(queue, job) = (queue \ Subsumed(queue, job)) \cup {job}
      BY <1>2 DEF Recorded
    <2>. QED
      BY <1>2, <2>1 DEF RecordedInPart
  <1>. QED
    BY <1>1, <1>2

----------------------------------------------------------------------------
(* What steps that do not concern them leave alone *)

\* The facts of the types that arithmetic needs.
LEMMA NatFacts ==
    ASSUME IInv
    PROVE  /\ MaxTurns \in Nat /\ Latest \in 0 .. MaxTurns /\ record \in 0 .. MaxTurns
           /\ base \in 0 .. MaxTurns /\ remote \in 0 .. MaxTurns
           /\ jobs \subseteq Job /\ waived \subseteq Turns /\ held \subseteq Turns
           /\ \A job \in Job : job.turn \in 1 .. MaxTurns /\ job.end \in 1 .. MaxTurns
           /\ script \in Seq(Lines) /\ \A i \in 1 .. Latest : script[i] \in Lines
           /\ Cut(script) \in 0 .. Latest
  <1>1. /\ script \in Seq(Lines) /\ Latest <= MaxTurns /\ record \in 0 .. MaxTurns
        /\ base \in 0 .. MaxTurns /\ remote \in 0 .. MaxTurns
        /\ jobs \subseteq Job /\ waived \subseteq Turns /\ held \subseteq Turns
    BY DEF IInv, FileTypes, OutsideTypes
  <1>2. Latest \in Nat /\ \A i \in 1 .. Latest : script[i] \in Lines
    BY <1>1 DEF Latest
  <1>3. Cut(script) \in 0 .. Latest
    BY <1>1, CutFacts DEF Latest
  <1>. QED
    BY <1>1, <1>2, <1>3, BoundsAssumption DEF Job, Turns

\* Files and frames of the conversation, and who runs it.
talk == <<script, record, jobs, up, frames, orphan, late, held, waived>>

\* Publication and recovery, which may only push and take the capture.
LEMMA TalkKeeps ==
    ASSUME IInv, UNCHANGED talk, remote' \in 0 .. MaxTurns, remote <= remote',
           sup'.at = sup.at, sup'.ending = sup.ending,
           rec'.stage # "none" => sup.at = "off" /\ up = "up"
    PROVE  ControlInv' /\ JobInv' /\ LooseInv' /\ SettleInv'
  <1>1. /\ UNCHANGED <<script, record, jobs, up, frames, orphan, late, held, waived>>
        /\ Latest' = Latest /\ InTurn' = InTurn /\ Announced' = Announced
    BY DEF talk, Latest, InTurn, Announced
  <1>2. ControlInv'
    BY <1>1 DEF IInv, ControlInv
  <1>3. JobInv'
    BY <1>1 DEF IInv, JobInv
  <1>4. LooseInv'
    <2>1. Loose' \subseteq Loose
      BY <1>1, NatFacts DEF Loose, Safe
    <2>. QED
      BY <1>1, <2>1 DEF IInv, LooseInv
  <1>5. SettleInv'
    BY <1>1 DEF IInv, SettleInv
  <1>. QED
    BY <1>2, <1>3, <1>4, <1>5

\* Steps that publish nothing: the transcript may only grow.
LEMMA HubKeeps ==
    ASSUME IInv, UNCHANGED <<base, outbox, remote, pub>>, script' \in Seq(Lines),
           Grows(script, script')
    PROVE  CommitInv' /\ HubInv'
  <1>1. Cut(script) <= Cut(script')
    BY NatFacts, CutGrows
  <1>2. Cut(script') \in Nat /\ Cut(script) \in Nat /\ base \in Nat
    BY NatFacts, CutFacts
  <1>3. CommitInv'
    BY <1>1, <1>2 DEF IInv, CommitInv
  <1>4. HubInv'
    BY DEF IInv, HubInv, ReceiptIsTrue
  <1>. QED
    BY <1>3, <1>4

\* The transcript as it was is a transcript that grew.
LEMMA GrowsSame == ASSUME NEW s \in Seq(Lines) PROVE Grows(s, s)
  BY DEF Grows

\* What accounts for a turn goes on to account for it.
LEMMA SafeKeeps ==
    ASSUME IInv, remote' \in 0 .. MaxTurns, remote <= remote', waived \subseteq waived',
           held \subseteq held', jobs' \subseteq Job,
           \A job \in jobs : \/ \E new \in jobs' : job.end <= new.end
                             \/ job.end <= remote'
                             \/ 1 .. job.end \subseteq waived'
    PROVE  \A t \in 1 .. MaxTurns : Safe(t) => Safe(t)'
  <1>. SUFFICES ASSUME NEW t \in 1 .. MaxTurns, Safe(t) PROVE Safe(t)'
    OBVIOUS
  <1>1. \A job \in Job : job.end \in 1 .. MaxTurns
    BY NatFacts
  <1>2. CASE t <= remote \/ t \in waived \/ \E k \in held : t <= k
    BY <1>2, NatFacts DEF Safe
  <1>3. CASE \E job \in jobs : t <= job.end
    <2>1. PICK job \in jobs : t <= job.end
      BY <1>3
    <2>2. job.end \in 1 .. MaxTurns
      BY <1>1, <2>1, NatFacts
    <2>3. CASE \E new \in jobs' : job.end <= new.end
      BY <1>1, <2>1, <2>2, <2>3 DEF Safe
    <2>4. CASE job.end <= remote'
      BY <2>1, <2>2, <2>4, NatFacts DEF Safe
    <2>5. CASE 1 .. job.end \subseteq waived'
      BY <2>1, <2>2, <2>5 DEF Safe
    <2>. QED
      BY <2>1, <2>3, <2>4, <2>5
  <1>. QED
    BY <1>2, <1>3 DEF Safe

----------------------------------------------------------------------------
(* Commits and publications *)

\* One attempt of a publication changes.
LEMMA AttemptFacts ==
    ASSUME IInv, NEW p \in Pubs, NEW a \in Attempt, pub' = [pub EXCEPT ![p] = a]
    PROVE  /\ pub' \in [Pubs -> Attempt] /\ pub'[p] = a
           /\ \A q \in Pubs : q # p => pub'[q] = pub[q]
  BY DEF IInv, DaemonTypes

\* No attempt, and no session.
LEMMA IdleFacts ==
    /\ Idle \in Attempt /\ Idle.stage = "none" /\ Idle.src = 0 /\ Idle.left = {}
    /\ NoSession.at = "off" /\ NoSession.due = FALSE /\ NoSession.ending = "none"
    /\ NoAttempt.stage = "none"
    /\ NoAttempt \in [stage : {"none", "landing", "committed"},
                      job : [turn : 0 .. MaxTurns, end : 0 .. MaxTurns], yield : BOOLEAN]
  BY BoundsAssumption DEF Idle, Attempt, NoSession, NoAttempt

\* What a commit makes of the branch.
LEMMA CommittedFacts ==
    ASSUME IInv
    PROVE  Committed \in 0 .. MaxTurns /\ base <= Committed /\ Committed <= Cut(script)
  BY NatFacts DEF Committed, IInv, CommitInv

\* The session's record when only what it is due changes.
LEMMA DueFacts ==
    ASSUME IInv, NEW due \in BOOLEAN, sup' = [sup EXCEPT !.due = due]
    PROVE  /\ sup' \in [at : {"off", "idle", "running", "over", "leaving"},
                        ending : Ending \cup {"none"}, due : BOOLEAN]
           /\ sup'.at = sup.at /\ sup'.ending = sup.ending
  BY DEF IInv, DaemonTypes

\* settle_and_push: the commit and its candidate.
LEMMA SupCommitStep == ASSUME IInv, SupCommit PROVE IInv'
  <1>1. /\ sup' = [sup EXCEPT !.due = FALSE] /\ sup.at \in {"idle", "leaving"}
        /\ UNCHANGED <<script, record, jobs, outbox, remote, up, frames, rec, parked, outside, history>>
        /\ \/ UNCHANGED <<base, pub>>
           \/ base' = Committed /\ pub' = pub
           \/ /\ base' = Committed
              /\ pub' = [pub EXCEPT !["sup"] = [Idle EXCEPT !.stage = "committed", !.src = Committed]]
    BY DEF SupCommit
  <1>2. [Idle EXCEPT !.stage = "committed", !.src = Committed] \in Attempt
    BY CommittedFacts DEF Idle, Attempt
  <1>3. PICK a \in Attempt : /\ a = [Idle EXCEPT !.stage = "committed", !.src = Committed]
                             /\ a.stage = "committed" /\ a.src = Committed /\ a.left = {}
    BY <1>2 DEF Idle
  <1>4. base' \in 0 .. MaxTurns /\ base <= base' /\ base' <= Cut(script)
    BY <1>1, CommittedFacts, NatFacts DEF IInv, CommitInv
  <1>5. /\ pub' \in [Pubs -> Attempt]
        /\ \A p \in Pubs : pub'[p] = pub[p] \/ (pub'[p] = a /\ base' = Committed)
    BY <1>1, <1>3, AttemptFacts DEF Pubs, IInv, DaemonTypes
  <1>6. FileTypes' /\ OutsideTypes'
    BY <1>1, <1>4 DEF IInv, FileTypes, OutsideTypes, outside, history, Latest
  <1>7. DaemonTypes'
    BY <1>1, <1>5, DueFacts DEF IInv, DaemonTypes
  <1>8. CommitInv'
    <2>1. \A p \in Pubs : pub[p].src \in 0 .. MaxTurns /\ pub[p].src <= base
      BY DEF IInv, DaemonTypes, Attempt, CommitInv
    <2>2. ASSUME NEW p \in Pubs PROVE pub'[p].src <= base'
      <3>1. CASE pub'[p] = pub[p]
        BY <1>4, <2>1, <3>1, NatFacts
      <3>2. CASE pub'[p] = a /\ base' = Committed
        BY <1>3, <1>4, <3>2
      <3>. QED
        BY <1>5, <3>1, <3>2
    <2>. QED
      BY <1>1, <1>4, <2>2 DEF CommitInv
  <1>9. HubInv'
    BY <1>1, <1>3, <1>5 DEF IInv, HubInv, ReceiptIsTrue, Pubs
  <1>10. ControlInv' /\ JobInv' /\ LooseInv' /\ SettleInv'
    BY <1>1, DueFacts, NatFacts, TalkKeeps DEF talk, outside, history, IInv, ControlInv
  <1>. QED
    BY <1>6, <1>7, <1>8, <1>9, <1>10 DEF IInv

\* What a step of a publication has to show: its attempt, the outbox and the hub.
LEMMA PublishStep ==
    ASSUME IInv, NEW p \in Pubs, NEW a \in Attempt, pub' = [pub EXCEPT ![p] = a],
           UNCHANGED <<script, record, jobs, base, up, frames, outside, history>>,
           sup' = sup \/ sup' = [sup EXCEPT !.due = TRUE],
           rec' = rec \/ rec' = NoAttempt,
           parked' \in [Turns -> {"none", "privacy", "off"}],
           outbox' \in [0 .. MaxTurns -> {"none", "intent", "published"}],
           remote' \in 0 .. MaxTurns, remote <= remote',
           a.src <= base, a.stage = "pushed" => a.src <= remote',
           \A job \in a.left : job.end <= remote',
           \A x \in 0 .. MaxTurns :
              outbox'[x] = "published" => outbox[x] = "published" \/ x <= remote'
    PROVE  IInv'
  <1>1. /\ pub' \in [Pubs -> Attempt] /\ pub'[p] = a
        /\ \A q \in Pubs : q # p => pub'[q] = pub[q]
    BY AttemptFacts
  <1>2. /\ sup' \in [at : {"off", "idle", "running", "over", "leaving"},
                     ending : Ending \cup {"none"}, due : BOOLEAN]
        /\ sup'.at = sup.at /\ sup'.ending = sup.ending
    BY DueFacts DEF IInv, DaemonTypes
  <1>3. FileTypes' /\ OutsideTypes'
    BY DEF IInv, FileTypes, OutsideTypes, outside, history, Latest
  <1>4. /\ rec' \in [stage : {"none", "landing", "committed"},
                     job : [turn : 0 .. MaxTurns, end : 0 .. MaxTurns], yield : BOOLEAN]
        /\ rec'.stage # "none" => rec'.job \in Job
        /\ rec'.stage # "none" => rec.stage # "none"
    BY IdleFacts DEF IInv, DaemonTypes
  <1>5. DaemonTypes'
    BY <1>1, <1>2, <1>4 DEF IInv, DaemonTypes
  <1>6. CommitInv'
    BY <1>1 DEF IInv, CommitInv
  <1>7. HubInv'
    <2>1. \A q \in Pubs : /\ pub[q].src \in 0 .. MaxTurns /\ pub[q].left \subseteq Job
      BY DEF IInv, DaemonTypes, Attempt
    <2>2. \A q \in Pubs : \A job \in pub'[q].left : job.end <= remote'
      BY <1>1, <2>1, NatFacts DEF IInv, HubInv, ReceiptIsTrue, Pubs
    <2>3. \A q \in Pubs : pub'[q].stage = "pushed" => pub'[q].src <= remote'
      BY <1>1, <2>1, NatFacts DEF IInv, HubInv
    <2>4. \A x \in 0 .. MaxTurns : outbox'[x] = "published" => x <= remote'
      BY NatFacts DEF IInv, HubInv, ReceiptIsTrue
    <2>. QED
      BY <2>2, <2>3, <2>4 DEF HubInv, ReceiptIsTrue, Pubs
  <1>8. ControlInv' /\ JobInv' /\ LooseInv' /\ SettleInv'
    BY <1>2, <1>4, TalkKeeps DEF talk, outside, history, IInv, ControlInv
  <1>. QED
    BY <1>3, <1>5, <1>6, <1>7, <1>8 DEF IInv

\* What is on the way is an attempt of a committed prefix.
LEMMA PubFacts ==
    ASSUME IInv, NEW p \in Pubs
    PROVE  /\ pub[p] \in Attempt /\ pub[p].src \in 0 .. MaxTurns /\ pub[p].src <= base
           /\ pub[p].left \subseteq Job /\ \A job \in pub[p].left : job.end <= remote
           /\ pub[p].stage = "pushed" => pub[p].src <= remote
           /\ pub \in [Pubs -> Attempt]
  BY DEF IInv, DaemonTypes, Attempt, CommitInv, HubInv, ReceiptIsTrue, Pubs

\* publish_local begins: an intent before the push.
LEMMA SupBeginStep == ASSUME IInv, SupBegin PROVE IInv'
  <1>. DEFINE src == pub["sup"].src
              pushing == [pub["sup"] EXCEPT !.stage = "pushing"]
  <1>1. "sup" \in Pubs /\ pub["sup"].stage = "committed"
    BY DEF Pubs, SupBegin
  <1>2. /\ pushing \in Attempt /\ pushing.stage = "pushing" /\ pushing.src = src
        /\ pushing.left = pub["sup"].left
    BY <1>1, PubFacts DEF Attempt
  <1>3. \/ pub' = [pub EXCEPT !["sup"] = Idle]
        \/ pub' = [pub EXCEPT !["sup"] = pushing]
    BY <1>1, PubFacts DEF SupBegin
  <1>. HIDE DEF pushing
  <1>4. PICK a \in Attempt : /\ pub' = [pub EXCEPT !["sup"] = a] /\ a.stage # "pushed"
                             /\ (a.src = src \/ a.src = 0)
                             /\ (a.left = {} \/ a.left = pub["sup"].left)
    BY <1>2, <1>3, IdleFacts
  <1>5. /\ UNCHANGED <<script, record, jobs, base, remote, up, frames, rec, parked, outside, history>>
        /\ sup' = sup \/ sup' = [sup EXCEPT !.due = TRUE]
        /\ outbox' = outbox
             \/ outbox' = [outbox EXCEPT ![src] = IF @ = "none" THEN "intent" ELSE @]
    BY DEF SupBegin, Again
  <1>6. /\ outbox' \in [0 .. MaxTurns -> {"none", "intent", "published"}]
        /\ \A x \in 0 .. MaxTurns : outbox'[x] = "published" => outbox[x] = "published"
    BY <1>1, <1>5, PubFacts DEF IInv, FileTypes
  <1>7. a.src <= base /\ \A job \in a.left : job.end <= remote
    BY <1>1, <1>4, PubFacts, NatFacts
  <1>8. /\ remote' = remote /\ remote' \in 0 .. MaxTurns /\ remote <= remote'
        /\ parked' \in [Turns -> {"none", "privacy", "off"}]
    BY <1>5, NatFacts DEF IInv, DaemonTypes
  <1>9. \A job \in a.left : job.end <= remote'
    BY <1>7, <1>8
  <1>. QED
    BY <1>1, <1>4, <1>5, <1>6, <1>7, <1>8, <1>9, PublishStep

\* The greater of two prefixes.
LEMMA MaxOfTwo ==
    ASSUME NEW n \in Nat, NEW x \in 0 .. n, NEW y \in 0 .. n
    PROVE  Max({x, y}) \in 0 .. n /\ x <= Max({x, y}) /\ y <= Max({x, y})
  BY MaxFacts

\* The push reaches the hub, or fails.
LEMMA PushStep == ASSUME IInv, NEW p \in Pubs, Push(p) PROVE IInv'
  <1>. DEFINE pushed == [pub[p] EXCEPT !.stage = "pushed"]
  <1>1. /\ UNCHANGED <<script, record, jobs, base, outbox, up, frames, rec, parked, outside, history>>
        /\ sup' = sup \/ sup' = [sup EXCEPT !.due = TRUE]
    BY DEF Push, Again
  <1>2. /\ pushed \in Attempt /\ pushed.src = pub[p].src /\ pushed.left = pub[p].left
    BY PubFacts DEF Attempt
  <1>3. CASE pub' = [pub EXCEPT ![p] = Idle] /\ remote' = remote
    <2>1. /\ remote' \in 0 .. MaxTurns /\ remote <= remote' /\ 0 <= base
          /\ parked' \in [Turns -> {"none", "privacy", "off"}]
          /\ outbox' \in [0 .. MaxTurns -> {"none", "intent", "published"}]
          /\ \A x \in 0 .. MaxTurns : outbox'[x] = "published" => outbox[x] = "published"
      BY <1>1, <1>3, NatFacts DEF IInv, DaemonTypes, FileTypes
    <2>. QED
      BY <1>1, <1>3, <2>1, IdleFacts, PublishStep
  <1>4. CASE remote' = Max({remote, pub[p].src}) /\ pub' = [pub EXCEPT ![p] = pushed]
    <2>1. remote' \in 0 .. MaxTurns /\ remote <= remote' /\ pub[p].src <= remote'
      BY <1>4, PubFacts, NatFacts, MaxOfTwo
    <2>2. \A job \in pushed.left : job.end <= remote'
      BY <1>2, <2>1, PubFacts, NatFacts
    <2>3. pushed.src <= base /\ pushed.src <= remote'
      BY <1>2, <2>1, PubFacts
    <2>. HIDE DEF pushed
    <2>4. PICK a \in Attempt : a = pushed
      BY <1>2
    <2>. QED
      BY <1>1, <1>4, <2>1, <2>2, <2>3, <2>4, PublishStep DEF IInv, DaemonTypes, FileTypes
  <1>5. \/ pub' = [pub EXCEPT ![p] = Idle] /\ remote' = remote
        \/ remote' = Max({remote, pub[p].src}) /\ pub' = [pub EXCEPT ![p] = pushed]
    BY PubFacts DEF Push
  <1>. QED
    BY <1>3, <1>4, <1>5

\* The receipt is durable, and the queue is read.
LEMMA ConfirmStep == ASSUME IInv, NEW p \in Pubs, Confirm(p) PROVE IInv'
  <1>. DEFINE src == pub[p].src
              done == [pub[p] EXCEPT !.stage = "removing", !.left = Covered(jobs, src)]
  <1>1. /\ UNCHANGED <<script, record, jobs, base, remote, up, sup, frames, rec, parked, outside, history>>
        /\ outbox' = [outbox EXCEPT ![src] = "published"] /\ pub[p].stage = "pushed"
        /\ pub' = [pub EXCEPT ![p] = done]
    BY PubFacts DEF Confirm
  <1>2. src \in 0 .. MaxTurns /\ src <= base /\ src <= remote
    BY <1>1, PubFacts
  <1>3. Covered(jobs, src) \subseteq Job /\ \A job \in Covered(jobs, src) : job.end <= src
    BY NatFacts DEF Covered
  <1>4. /\ done \in Attempt /\ done.src = src /\ done.left = Covered(jobs, src)
        /\ done.stage = "removing"
    BY <1>3, PubFacts DEF Attempt
  <1>. HIDE DEF done
  <1>5. PICK a \in Attempt : a = done
    BY <1>4
  <1>6. \A job \in a.left : job.end <= remote'
    BY <1>1, <1>2, <1>3, <1>4, <1>5, NatFacts
  <1>7. /\ outbox' \in [0 .. MaxTurns -> {"none", "intent", "published"}]
        /\ \A x \in 0 .. MaxTurns :
              outbox'[x] = "published" => outbox[x] = "published" \/ x <= remote'
    BY <1>1, <1>2 DEF IInv, FileTypes
  <1>8. /\ remote' \in 0 .. MaxTurns /\ remote <= remote' /\ a.src <= base
        /\ parked' \in [Turns -> {"none", "privacy", "off"}]
        /\ a.stage # "pushed" /\ pub' = [pub EXCEPT ![p] = a]
    BY <1>1, <1>2, <1>4, <1>5, NatFacts DEF IInv, DaemonTypes
  <1>. QED
    BY <1>1, <1>6, <1>7, <1>8, PublishStep

\* A job goes when its prefix is on the hub or its consent is withdrawn.
LEMMA JobGoes ==
    ASSUME IInv, NEW job, jobs' = jobs \ {job}, waived \subseteq waived',
           job.end <= remote \/ 1 .. job.end \subseteq waived',
           UNCHANGED <<script, record, up, frames, orphan, late, held, remote, sup>>,
           rec'.stage # "none" => rec.stage # "none"
    PROVE  ControlInv' /\ JobInv' /\ LooseInv' /\ SettleInv'
  <1>1. Latest' = Latest /\ InTurn' = InTurn /\ Announced' = Announced
    BY DEF Latest, InTurn, Announced
  <1>2. ControlInv'
    BY <1>1 DEF IInv, ControlInv
  <1>3. JobInv'
    BY <1>1 DEF IInv, JobInv
  <1>4. LooseInv'
    <2>1. \A t \in 1 .. MaxTurns : Safe(t) => Safe(t)'
      <3>1. \A old \in jobs : \/ \E new \in jobs' : old.end <= new.end
                              \/ old.end <= remote'
                              \/ 1 .. old.end \subseteq waived'
        BY NatFacts
      <3>. QED
        BY <3>1, NatFacts, SafeKeeps
    <2>2. Loose' \subseteq Loose
      BY <1>1, <2>1, NatFacts DEF Loose
    <2>. QED
      BY <1>1, <2>2 DEF IInv, LooseInv
  <1>5. SettleInv'
    BY <1>1 DEF IInv, SettleInv
  <1>. QED
    BY <1>2, <1>3, <1>4, <1>5

\* Job by job, what a publication covers is removed.
LEMMA RemoveJobStep == ASSUME IInv, NEW p \in Pubs, RemoveJob(p) PROVE IInv'
  <1>1. /\ pub[p].stage = "removing"
        /\ UNCHANGED <<script, record, base, outbox, remote, up, sup, frames, rec, parked, outside, history>>
    BY DEF RemoveJob
  <1>2. CASE pub[p].left = {}
    <2>1. pub' = [pub EXCEPT ![p] = Idle] /\ UNCHANGED jobs
      BY <1>2 DEF RemoveJob
    <2>2. /\ remote' \in 0 .. MaxTurns /\ remote <= remote' /\ 0 <= base
          /\ parked' \in [Turns -> {"none", "privacy", "off"}]
          /\ outbox' \in [0 .. MaxTurns -> {"none", "intent", "published"}]
          /\ \A x \in 0 .. MaxTurns : outbox'[x] = "published" => outbox[x] = "published"
      BY <1>1, NatFacts DEF IInv, DaemonTypes, FileTypes
    <2>. QED
      BY <1>1, <2>1, <2>2, IdleFacts, PublishStep
  <1>3. CASE pub[p].left # {}
    <2>1. PICK job \in pub[p].left :
             jobs' = jobs \ {job} /\ pub' = [pub EXCEPT ![p].left = @ \ {job}]
      BY <1>3 DEF RemoveJob
    <2>. DEFINE rest == [pub[p] EXCEPT !.left = pub[p].left \ {job}]
    <2>2. /\ rest \in Attempt /\ rest.src = pub[p].src /\ rest.left \subseteq pub[p].left
          /\ rest.stage = "removing"
      BY <1>1, PubFacts DEF Attempt
    <2>3. pub' = [pub EXCEPT ![p] = rest]
      BY <2>1, PubFacts
    <2>. HIDE DEF rest
    <2>4. /\ pub' \in [Pubs -> Attempt] /\ pub'[p] = rest
          /\ \A q \in Pubs : q # p => pub'[q] = pub[q]
      BY <2>2, <2>3, AttemptFacts
    <2>5. job.end <= remote
      BY <2>1, PubFacts
    <2>6. FileTypes' /\ OutsideTypes'
      BY <1>1, <2>1 DEF IInv, FileTypes, OutsideTypes, outside, history, Latest
    <2>7. DaemonTypes'
      BY <1>1, <2>4 DEF IInv, DaemonTypes
    <2>8. CommitInv'
      BY <1>1, <2>2, <2>4 DEF IInv, CommitInv
    <2>9. HubInv'
      BY <1>1, <2>2, <2>4 DEF IInv, HubInv, ReceiptIsTrue, Pubs
    <2>10. ControlInv' /\ JobInv' /\ LooseInv' /\ SettleInv'
      BY <1>1, <2>1, <2>5, JobGoes DEF outside, history
    <2>. QED
      BY <2>6, <2>7, <2>8, <2>9, <2>10 DEF IInv
  <1>. QED
    BY <1>2, <1>3

----------------------------------------------------------------------------
(* Recovery of queued archives *)

\* reserve_archive and what ends or commits its attempt.
LEMMA RecoverStep ==
    ASSUME IInv, Reserve \/ GiveUp \/ RecCommit PROVE IInv'
  <1>1. /\ UNCHANGED <<script, record, jobs, outbox, remote, up, sup, frames, pub, outside, history>>
        /\ base' = base \/ base' = Committed
    BY DEF Reserve, GiveUp, RecCommit, files
  <1>2. base' \in 0 .. MaxTurns /\ base <= base' /\ base' <= Cut(script)
    BY <1>1, CommittedFacts, NatFacts DEF IInv, CommitInv
  <1>3. parked' \in [Turns -> {"none", "privacy", "off"}]
    <2>1. CASE Reserve
      BY <2>1 DEF Reserve, IInv, DaemonTypes
    <2>2. CASE GiveUp \/ RecCommit
      BY <2>2 DEF GiveUp, RecCommit, IInv, DaemonTypes
    <2>. QED
      BY <2>1, <2>2
  <1>4. /\ rec' \in [stage : {"none", "landing", "committed"},
                     job : [turn : 0 .. MaxTurns, end : 0 .. MaxTurns], yield : BOOLEAN]
        /\ rec'.stage # "none" => rec'.job \in Job /\ sup.at = "off" /\ up = "up"
    <2>1. CASE Reserve
      <3>1. PICK job \in jobs : rec' = [stage |-> "landing", job |-> job, yield |-> FALSE]
        BY <2>1 DEF Reserve
      <3>2. job \in Job /\ job \in [turn : 0 .. MaxTurns, end : 0 .. MaxTurns]
        BY <3>1, NatFacts DEF Job, Turns
      <3>. QED
        BY <2>1, <3>1, <3>2 DEF Reserve
    <2>2. CASE GiveUp
      BY <2>2, IdleFacts DEF GiveUp
    <2>3. CASE RecCommit
      BY <2>3 DEF RecCommit, IInv, DaemonTypes, ControlInv
    <2>. QED
      BY <2>1, <2>2, <2>3
  <1>5. FileTypes' /\ OutsideTypes'
    BY <1>1, <1>2 DEF IInv, FileTypes, OutsideTypes, outside, history, Latest
  <1>6. DaemonTypes'
    BY <1>1, <1>3, <1>4 DEF IInv, DaemonTypes
  <1>7. CommitInv'
    BY <1>1, <1>2, PubFacts, NatFacts DEF CommitInv
  <1>8. HubInv'
    BY <1>1 DEF IInv, HubInv, ReceiptIsTrue
  <1>9. ControlInv' /\ JobInv' /\ LooseInv' /\ SettleInv'
    BY <1>1, <1>4, NatFacts, TalkKeeps DEF talk, outside, history
  <1>. QED
    BY <1>5, <1>6, <1>7, <1>8, <1>9 DEF IInv

\* A job whose consent was withdrawn is dropped unsaved.
LEMMA DropKeptStep == ASSUME IInv, DropKept PROVE IInv'
  <1>1. /\ jobs' = jobs \ {rec.job} /\ rec' = NoAttempt
        /\ waived' = waived \cup (1 .. rec.job.end) /\ rec.stage = "landing"
        /\ UNCHANGED <<script, record, base, outbox, remote, up, sup, frames, pub, parked,
                       outside, held, crashes>>
    BY DEF DropKept
  <1>2. rec.job \in Job /\ rec.job.end \in 1 .. MaxTurns
    BY <1>1, NatFacts DEF IInv, DaemonTypes
  <1>3. waived' \subseteq Turns
    BY <1>1, <1>2, NatFacts DEF Turns
  <1>4. FileTypes' /\ OutsideTypes'
    BY <1>1, <1>3 DEF IInv, FileTypes, OutsideTypes, outside, Latest
  <1>5. DaemonTypes'
    BY <1>1, IdleFacts DEF IInv, DaemonTypes
  <1>6. CommitInv' /\ HubInv'
    BY <1>1, NatFacts, GrowsSame, HubKeeps
  <1>7. ControlInv' /\ JobInv' /\ LooseInv' /\ SettleInv'
    BY <1>1, IdleFacts, JobGoes DEF outside
  <1>. QED
    BY <1>4, <1>5, <1>6, <1>7 DEF IInv

\* The commit's outcome.
LEMMA RecBeginStep == ASSUME IInv, RecBegin PROVE IInv'
  <1>1. /\ rec.stage = "committed" /\ rec' = NoAttempt
        /\ UNCHANGED <<script, record, jobs, base, remote, up, sup, frames, outside, history>>
    BY DEF RecBegin
  <1>2. rec.job \in Job /\ rec.job.turn \in Turns
    BY <1>1 DEF IInv, DaemonTypes, Job
  <1>3. /\ "rec" \in Pubs /\ base \in 0 .. MaxTurns /\ remote' \in 0 .. MaxTurns
        /\ remote <= remote'
    BY <1>1, NatFacts DEF Pubs
  <1>4. CASE base < rec.job.end \/ mood = "off"
    <2>1. /\ UNCHANGED <<outbox, pub>>
          /\ \E m \in {"none", "privacy", "off"} : parked' = [parked EXCEPT ![rec.job.turn] = m]
      BY <1>4 DEF RecBegin
    <2>2. parked' \in [Turns -> {"none", "privacy", "off"}]
      BY <1>2, <2>1 DEF IInv, DaemonTypes
    <2>3. pub' = [pub EXCEPT !["rec"] = pub["rec"]]
      BY <1>3, <2>1, PubFacts
    <2>4. outbox' \in [0 .. MaxTurns -> {"none", "intent", "published"}]
      BY <2>1 DEF IInv, FileTypes
    <2>5. /\ pub["rec"].stage = "pushed" => pub["rec"].src <= remote'
          /\ \A job \in pub["rec"].left : job.end <= remote'
          /\ pub["rec"] \in Attempt /\ pub["rec"].src <= base
      BY <1>1, <1>3, PubFacts
    <2>6. PICK a \in Attempt : a = pub["rec"]
      BY <2>5
    <2>7. /\ pub' = [pub EXCEPT !["rec"] = a] /\ a.src <= base
          /\ a.stage = "pushed" => a.src <= remote'
          /\ \A job \in a.left : job.end <= remote'
      BY <2>3, <2>5, <2>6
    <2>. QED
      BY <1>1, <1>3, <2>1, <2>2, <2>4, <2>7, PublishStep
  <1>5. CASE ~(base < rec.job.end \/ mood = "off")
    <2>. DEFINE begun == [Idle EXCEPT !.src = base,
                             !.stage = IF outbox[base] = "published" THEN "pushed" ELSE "pushing"]
    <2>1. /\ UNCHANGED parked /\ pub' = [pub EXCEPT !["rec"] = begun]
          /\ outbox' = [outbox EXCEPT ![base] = IF @ = "none" THEN "intent" ELSE @]
      BY <1>5 DEF RecBegin
    <2>2. /\ begun \in Attempt /\ begun.src = base /\ begun.left = {}
          /\ begun.stage = "pushed" => outbox[base] = "published"
      BY <1>3 DEF Idle, Attempt
    <2>. HIDE DEF begun
    <2>3. outbox[base] = "published" => base <= remote'
      BY <1>1, <1>3 DEF IInv, HubInv, ReceiptIsTrue
    <2>4. /\ outbox' \in [0 .. MaxTurns -> {"none", "intent", "published"}]
          /\ \A x \in 0 .. MaxTurns : outbox'[x] = "published" => outbox[x] = "published"
      BY <1>3, <2>1 DEF IInv, FileTypes
    <2>5. PICK a \in Attempt : /\ pub' = [pub EXCEPT !["rec"] = a] /\ a.src = base /\ a.left = {}
                               /\ a.stage = "pushed" => base <= remote'
      BY <2>1, <2>2, <2>3
    <2>6. a.src <= base /\ (a.stage = "pushed" => a.src <= remote')
      BY <1>3, <2>5
    <2>7. parked' \in [Turns -> {"none", "privacy", "off"}]
      BY <2>1 DEF IInv, DaemonTypes
    <2>. QED
      BY <1>1, <1>3, <2>4, <2>5, <2>6, <2>7, PublishStep
  <1>. QED
    BY <1>4, <1>5

\* What the machine allows changes.
LEMMA MoodStep == ASSUME IInv, MoodChanges PROVE IInv'
  <1>1. /\ UNCHANGED <<script, record, jobs, base, outbox, remote>>
        /\ UNCHANGED <<up, sup, frames, rec, pub, parked>>
        /\ UNCHANGED <<orphan, late, held, waived>> /\ mood' \in Moods
    BY DEF MoodChanges, files, daemon, history
  <1>2. FileTypes' /\ OutsideTypes' /\ DaemonTypes'
    BY <1>1 DEF IInv, FileTypes, OutsideTypes, DaemonTypes, Latest
  <1>3. CommitInv' /\ HubInv'
    BY <1>1, NatFacts, GrowsSame, HubKeeps
  <1>4. ControlInv' /\ JobInv' /\ LooseInv' /\ SettleInv'
    BY <1>1, NatFacts, TalkKeeps DEF talk, IInv, ControlInv
  <1>. QED
    BY <1>2, <1>3, <1>4 DEF IInv

----------------------------------------------------------------------------
(* The supervisor *)

SupType == [at : {"off", "idle", "running", "over", "leaving"},
            ending : Ending \cup {"none"}, due : BOOLEAN]

\* A step of the conversation: what it has to show of the types.
LEMMA TalkTypes ==
    ASSUME IInv, UNCHANGED <<base, outbox, remote, pub, parked, mood>>,
           script' \in Seq(Lines), Latest' <= MaxTurns, record' \in 0 .. MaxTurns,
           jobs' \subseteq Job, sup' \in SupType, frames' \in Seq(Frame),
           up' \in {"down", "closing", "queueing", "saving", "up"},
           UNCHANGED rec \/ rec' = NoAttempt,
           orphan' \in {"none", "idle", "busy"}, late' \in BOOLEAN,
           held' \subseteq Turns, waived' \subseteq Turns
    PROVE  FileTypes' /\ DaemonTypes' /\ OutsideTypes'
  <1>1. FileTypes'
    BY DEF IInv, FileTypes
  <1>2. OutsideTypes'
    BY DEF IInv, OutsideTypes
  <1>3. DaemonTypes'
    BY IdleFacts DEF IInv, DaemonTypes, SupType
  <1>. QED
    BY <1>1, <1>2, <1>3

\* The types of what a step of the conversation leaves alone.
LEMMA TalkFacts ==
    ASSUME IInv
    PROVE  /\ script \in Seq(Lines) /\ Latest <= MaxTurns /\ record \in 0 .. MaxTurns
           /\ jobs \subseteq Job /\ sup \in SupType /\ frames \in Seq(Frame)
           /\ up \in {"down", "closing", "queueing", "saving", "up"}
           /\ orphan \in {"none", "idle", "busy"} /\ late \in BOOLEAN
           /\ held \subseteq Turns /\ waived \subseteq Turns
           /\ sup.at # "off" => up = "up" /\ rec.stage = "none" /\ orphan = "none"
  BY DEF IInv, FileTypes, DaemonTypes, OutsideTypes, SupType, ControlInv

\* A session that is between turns, or gone, starts, leaves or goes.
LEMMA BetweenTurns ==
    ASSUME IInv, UNCHANGED <<talk, files, pub, parked, mood>>, ~InTurn, ~InTurn', sup' \in SupType,
           sup'.at # "off" => rec'.stage = "none" /\ up = "up" /\ orphan = "none",
           \/ UNCHANGED rec
           \/ rec' = [rec EXCEPT !.yield = TRUE]
    PROVE  IInv'
  <1>1. /\ UNCHANGED <<script, record, jobs, up, frames, orphan, late, held, waived>>
        /\ UNCHANGED <<base, outbox, remote>> /\ Latest' = Latest
    BY DEF talk, files, Latest
  <1>2. rec'.stage = rec.stage
    BY DEF IInv, DaemonTypes
  <1>3. FileTypes' /\ OutsideTypes'
    BY <1>1 DEF IInv, FileTypes, OutsideTypes
  <1>4. DaemonTypes'
    BY <1>1 DEF IInv, DaemonTypes, SupType
  <1>5. CommitInv' /\ HubInv'
    BY <1>1, NatFacts, GrowsSame, HubKeeps
  <1>6. ControlInv'
    <2>1. sup'.at \in {"off", "idle", "leaving"}
      BY DEF InTurn, SupType
    <2>. QED
      BY <1>1, <1>2, <2>1 DEF IInv, ControlInv, InTurn
  <1>7. JobInv'
    BY <1>1 DEF IInv, JobInv
  <1>8. LooseInv'
    <2>1. Loose' = Loose
      BY <1>1 DEF Loose, Safe
    <2>. QED
      BY <1>1, <2>1 DEF IInv, LooseInv
  <1>9. SettleInv'
    BY <1>1 DEF IInv, SettleInv
  <1>. QED
    BY <1>3, <1>4, <1>5, <1>6, <1>7, <1>8, <1>9 DEF IInv

\* A resume waits for recovery; a session between turns leaves, and goes.
LEMMA SessionStep == ASSUME IInv, Resume \/ StopIdle \/ Leave PROVE IInv'
  <1>1. UNCHANGED <<files, up, frames, pub, parked, outside, history>>
    BY DEF Resume, StopIdle, Leave
  <1>2. UNCHANGED <<talk, files, pub, parked, mood>>
    BY <1>1 DEF talk, files, outside, history
  <1>3. CASE Resume
    <2>1. /\ up = "up" /\ sup.at = "off" /\ orphan = "none"
          /\ \/ rec' = [rec EXCEPT !.yield = TRUE] /\ UNCHANGED sup
             \/ rec.stage = "none" /\ sup' = [NoSession EXCEPT !.at = "idle"] /\ UNCHANGED rec
      BY <1>3 DEF Resume
    <2>2. sup' \in SupType /\ sup'.at \in {"off", "idle"}
      BY <2>1, TalkFacts DEF NoSession, SupType
    <2>. QED
      BY <1>2, <2>1, <2>2, BetweenTurns DEF InTurn
  <1>4. CASE StopIdle
    <2>1. sup.at = "idle" /\ sup' \in SupType /\ sup'.at = "leaving" /\ UNCHANGED rec
      BY <1>4, TalkFacts DEF StopIdle, SupType
    <2>. QED
      BY <1>2, <2>1, TalkFacts, BetweenTurns DEF InTurn
  <1>5. CASE Leave
    <2>1. sup.at = "leaving" /\ sup' \in SupType /\ sup'.at = "off" /\ UNCHANGED rec
      BY <1>5, TalkFacts, IdleFacts DEF Leave, SupType, NoSession
    <2>. QED
      BY <1>2, <2>1, TalkFacts, BetweenTurns DEF InTurn
  <1>. QED
    BY <1>3, <1>4, <1>5

\* A frame joins those under way.
LEMMA NewFrame ==
    ASSUME NEW f \in Frame, NEW s \in Seq(Frame)
    PROVE  /\ Append(s, f) \in Seq(Frame) /\ Append(s, f) # <<>>
           /\ Append(s, f)[Len(Append(s, f))] = f
           /\ \A i \in DOMAIN Append(s, f) :
                 Append(s, f)[i] = f \/ (i \in DOMAIN s /\ Append(s, f)[i] = s[i])
  OBVIOUS

\* Frames are of turns that were taken.
LEMMA FrameFacts ==
    ASSUME IInv
    PROVE  /\ frames \in Seq(Frame) /\ Len(frames) \in Nat /\ DOMAIN frames = 1 .. Len(frames)
           /\ \A i \in DOMAIN frames : /\ frames[i] \in Frame /\ frames[i].turn \in 1 .. MaxTurns
                                       /\ frames[i].turn <= Latest
                                       /\ frames[i].kind \in {"started", "completed"}
           /\ frames = <<>> <=> Len(frames) = 0
  <1>1. /\ frames \in Seq(Frame)
        /\ \A i \in DOMAIN frames : frames[i] \in Frame /\ frames[i].turn <= Latest
    BY DEF IInv, DaemonTypes, ControlInv
  <1>. QED
    BY <1>1 DEF Frame, Turns

\* A new turn: its start is the last frame under way.
LEMMA PromptStep == ASSUME IInv, Prompt PROVE IInv'
  <1>. DEFINE f == [kind |-> "started", turn |-> Latest + 1]
  <1>1. /\ sup.at = "idle" /\ ~late /\ Latest < MaxTurns
        /\ script' = Append(script, "none") /\ sup' = [sup EXCEPT !.at = "running"]
        /\ frames' = Append(frames, f)
        /\ UNCHANGED <<record, jobs, base, outbox, remote, up, rec, pub, parked, outside, history>>
    BY DEF Prompt
  <1>2. /\ UNCHANGED <<mood, orphan, late, held, waived>> /\ up = "up" /\ rec.stage = "none"
        /\ orphan = "none"
    BY <1>1, TalkFacts DEF outside, history
  <1>3. /\ script' \in Seq(Lines) /\ Latest' = Latest + 1 /\ script'[Latest'] = "none"
        /\ \A i \in 1 .. Latest : script'[i] = script[i]
    BY <1>1, NatFacts, NewLine DEF Latest
  <1>4. f \in Frame
    BY <1>1, NatFacts DEF Frame, Turns
  <1>5. /\ frames' \in Seq(Frame) /\ frames' # <<>> /\ frames'[Len(frames')] = f
        /\ \A i \in DOMAIN frames' :
              frames'[i] = f \/ (i \in DOMAIN frames /\ frames'[i] = frames[i])
    BY <1>1, <1>4, TalkFacts, NewFrame
  <1>6. sup' \in SupType /\ sup'.at = "running"
    BY <1>1, TalkFacts DEF SupType
  <1>7. FileTypes' /\ DaemonTypes' /\ OutsideTypes'
    BY <1>1, <1>2, <1>3, <1>5, <1>6, TalkFacts, NatFacts, TalkTypes
  <1>8. Grows(script, script')
    BY <1>3, NatFacts DEF Grows, Latest
  <1>9. CommitInv' /\ HubInv'
    BY <1>1, <1>3, <1>8, HubKeeps
  <1>f. f.kind = "started" /\ f.turn = Latest + 1 /\ f = [kind |-> "started", turn |-> Latest + 1]
    OBVIOUS
  <1>n. Latest \in Nat /\ Latest + 1 \in Nat /\ Latest < Latest + 1
    BY NatFacts
  <1>. HIDE DEF f
  <1>10. ControlInv'
    <2>1. f.turn = Latest'
      BY <1>3, <1>f
    <2>2. \A i \in DOMAIN frames' : frames'[i].turn <= Latest'
      <3>. SUFFICES ASSUME NEW i \in DOMAIN frames' PROVE frames'[i].turn <= Latest'
        OBVIOUS
      <3>1. CASE frames'[i] = f
        BY <1>3, <1>n, <2>1, <3>1
      <3>2. CASE i \in DOMAIN frames /\ frames'[i] = frames[i]
        BY <1>3, <1>n, <3>2, FrameFacts
      <3>. QED
        BY <1>5, <3>1, <3>2
    <2>3. Announced' /\ Latest' > 0 /\ record' <= Latest'
      <3>1. frames'[Len(frames')] = [kind |-> "started", turn |-> Latest']
        BY <1>3, <1>5, <1>f
      <3>2. record \in Nat /\ record <= Latest
        BY NatFacts DEF IInv, ControlInv
      <3>3. Latest' > 0 /\ record' <= Latest'
        BY <1>1, <1>3, <1>n, <3>2
      <3>. QED
        BY <1>5, <3>1, <3>3 DEF Announced
    <2>. QED
      BY <1>1, <1>2, <1>6, <2>2, <2>3 DEF IInv, ControlInv
  <1>11. JobInv'
    <2>1. \A job \in jobs : /\ job.turn \in 1 .. MaxTurns /\ job.end \in 1 .. Latest
                            /\ job.turn <= Latest /\ script[job.end] # "none"
      BY NatFacts DEF IInv, JobInv
    <2>2. \A job \in jobs : /\ job.turn < Latest' /\ job.turn <= Latest' /\ job.end <= Latest'
                            /\ script'[job.end] # "none"
      <3>. SUFFICES ASSUME NEW job \in jobs
                    PROVE  /\ job.turn < Latest' /\ job.turn <= Latest' /\ job.end <= Latest'
                           /\ script'[job.end] # "none"
        OBVIOUS
      <3>1. script'[job.end] = script[job.end]
        BY <1>3, <2>1
      <3>2. job.turn \in Nat /\ job.end \in Nat /\ job.turn <= Latest /\ job.end <= Latest
        BY <2>1
      <3>3. job.turn < Latest' /\ job.turn <= Latest' /\ job.end <= Latest'
        BY <1>3, <1>n, <3>2
      <3>. QED
        BY <2>1, <3>1, <3>3
    <2>3. \A i \in 1 .. Latest' : script'[i] = "marked" => i \in held
      BY <1>3, NatFacts DEF IInv, JobInv
    <2>. QED
      BY <1>1, <1>2, <2>2, <2>3 DEF IInv, JobInv
  <1>12. LooseInv'
    <2>1. Loose' \subseteq Loose
      <3>1. \A t \in 1 .. MaxTurns : Safe(t) => Safe(t)'
        BY <1>1, <1>2 DEF Safe
      <3>2. ~InTurn /\ InTurn'
        BY <1>1, <1>6 DEF InTurn
      <3>3. \A t \in 1 .. Latest' : t # Latest' => t \in 1 .. Latest
        BY <1>3, NatFacts
      <3>. QED
        BY <1>3, <3>1, <3>2, <3>3, NatFacts DEF Loose
    <2>2. \A t \in Loose : t \in 1 .. Latest
      BY DEF Loose
    <2>3. \A job \in jobs : job.turn \in Nat /\ job.turn <= Latest
      BY NatFacts DEF IInv, JobInv
    <2>4. ASSUME NEW t \in Loose, NEW i \in DOMAIN frames'
          PROVE  /\ frames'[i].kind = "started" /\ t <= frames'[i].turn
                 /\ \A job \in jobs : job.turn < frames'[i].turn
      <3>1. CASE frames'[i] = f
        BY <1>f, <1>n, <2>2, <2>3, <3>1
      <3>2. CASE i \in DOMAIN frames /\ frames'[i] = frames[i]
        BY <3>2 DEF IInv, LooseInv
      <3>. QED
        BY <1>5, <3>1, <3>2
    <2>5. \A t \in Loose : t <= record /\ \A job \in jobs : job.turn < record
      BY DEF IInv, LooseInv
    <2>. QED
      BY <1>1, <1>2, <2>1, <2>4, <2>5 DEF LooseInv
  <1>13. SettleInv'
    <2>1. Cut(script) <= Cut(script') /\ Cut(script') \in Nat
      BY <1>3, <1>8, NatFacts, CutGrows, CutFacts
    <2>. QED
      BY <1>1, <1>2, <2>1, NatFacts DEF IInv, SettleInv
  <1>. QED
    BY <1>7, <1>9, <1>10, <1>11, <1>12, <1>13 DEF IInv

\* The last turn's line is rewritten, or not.
LEMMA LineFacts ==
    ASSUME IInv, Latest > 0, NEW v \in Lines \ {"none"},
           script' = script \/ script' = [script EXCEPT ![Latest] = v],
           script[Latest] \in {"done", "receipt"} => v \in {"done", "receipt"}
    PROVE  /\ script' \in Seq(Lines) /\ Latest' = Latest /\ Latest \in 1 .. MaxTurns
           /\ script' = [script EXCEPT ![Latest] = v] => script'[Latest] = v
           /\ script'[Latest] \in {script[Latest], v}
           /\ \A i \in 1 .. Latest : i # Latest => script'[i] = script[i]
           /\ Grows(script, script') /\ Cut(script) <= Cut(script')
           /\ Cut(script') \in 0 .. Latest
           /\ script'[Latest] \in {"done", "receipt"} => Cut(script') = Latest
  <1>1. Latest \in 1 .. MaxTurns /\ script \in Seq(Lines) /\ Latest = Len(script)
    BY NatFacts DEF Latest
  <1>2. /\ script' \in Seq(Lines) /\ Len(script') = Len(script)
        /\ script' = [script EXCEPT ![Latest] = v] => script'[Latest] = v
        /\ script'[Latest] \in {script[Latest], v}
        /\ \A i \in 1 .. Latest : i # Latest => script'[i] = script[i]
    BY <1>1, SetLine
  <1>3. Latest' = Latest
    BY <1>2 DEF Latest
  <1>4. Grows(script, script')
    BY <1>1, <1>2 DEF Grows
  <1>5. Cut(script) <= Cut(script') /\ Cut(script') \in 0 .. Latest
    BY <1>1, <1>2, <1>4, CutGrows, CutFacts
  <1>6. script'[Latest] \in {"done", "receipt"} => Cut(script') = Latest
    BY <1>1, <1>2, <1>5, CutFacts
  <1>. QED
    BY <1>1, <1>2, <1>3, <1>4, <1>5, <1>6

\* The harness begins to write: in the turn that runs, or one that was recorded or
\* is waived when its daemon is gone.
LEMMA HarnessStep == ASSUME IInv, HarnessWrites PROVE IInv'
  <1>1. /\ sup.at = "running" \/ orphan = "busy"
        /\ Latest > 0 /\ script[Latest] = "none" /\ script' = [script EXCEPT ![Latest] = "open"]
        /\ UNCHANGED <<record, jobs, base, outbox, remote, up, sup, frames, rec, pub, parked>>
        /\ UNCHANGED <<mood, orphan, late, held, waived>>
    BY DEF HarnessWrites, daemon, outside, history
  <1>2. /\ script' \in Seq(Lines) /\ Latest' = Latest /\ Latest \in 1 .. MaxTurns
        /\ script'[Latest] = "open" /\ \A i \in 1 .. Latest : i # Latest => script'[i] = script[i]
        /\ Grows(script, script') /\ Cut(script) <= Cut(script') /\ Cut(script') \in 0 .. Latest
    BY <1>1, LineFacts DEF Lines
  <1>3. InTurn' = InTurn /\ Announced' = Announced
    BY <1>1, <1>2 DEF InTurn, Announced
  <1>4. ~late /\ (sup.at = "running" \/ sup.at = "off") /\ up # "saving"
    BY <1>1 DEF IInv, ControlInv
  <1>5. FileTypes' /\ DaemonTypes' /\ OutsideTypes'
    BY <1>1, <1>2, TalkFacts, NatFacts, TalkTypes
  <1>6. CommitInv' /\ HubInv'
    BY <1>1, <1>2, HubKeeps
  <1>7. ControlInv'
    BY <1>1, <1>2, <1>3, <1>4 DEF IInv, ControlInv
  <1>8. JobInv'
    <2>1. \A job \in jobs : job.end \in 1 .. Latest /\ script'[job.end] # "none"
      BY <1>1, <1>2, NatFacts DEF IInv, JobInv
    <2>. QED
      BY <1>1, <1>2, <1>3, <2>1 DEF IInv, JobInv
  <1>9. LooseInv'
    <2>1. \A t \in 1 .. MaxTurns : Safe(t)' <=> Safe(t)
      BY <1>1 DEF Safe
    <2>2. \A t \in Loose' : t \in Loose \/ (t = Latest /\ ~InTurn /\ ~Safe(Latest))
      BY <1>2, <1>3, <2>1, NatFacts DEF Loose
    <2>3. ~InTurn /\ ~Safe(Latest) =>
             record = Latest /\ frames = <<>> /\ \A job \in jobs : job.turn < Latest
      BY <1>1 DEF InTurn, Safe, IInv, JobInv, ControlInv
    <2>4. frames = <<>> => DOMAIN frames = {}
      BY FrameFacts
    <2>. QED
      BY <1>1, <1>2, <1>4, <2>2, <2>3, <2>4 DEF IInv, LooseInv
  <1>10. SettleInv'
    BY <1>1, <1>2, NatFacts DEF IInv, SettleInv
  <1>. QED
    BY <1>5, <1>6, <1>7, <1>8, <1>9, <1>10 DEF IInv

\* The harness reports the end; a person's interrupt holds the turn.
LEMMA EndStep == ASSUME IInv, NEW ending \in Ending, End(ending) PROVE IInv'
  <1>1. /\ sup.at = "running" /\ ending \in {"ok", "interrupted", "error", "exit"}
        /\ ending = "ok" => script[Latest] = "open" /\ script' = script
        /\ \/ script' = script
           \/ /\ ending = "interrupted" /\ script[Latest] = "open"
              /\ script' = [script EXCEPT ![Latest] = "marked"]
        /\ late' = (ending = "ok")
        /\ held' = IF ending = "interrupted" THEN held \cup {Latest} ELSE held
        /\ sup' = [sup EXCEPT !.at = "over", !.ending = ending]
        /\ UNCHANGED <<record, jobs, base, outbox, remote, up, frames, rec, pub, parked,
                       mood, orphan, waived>>
    BY DEF End, Ending
  <1>2. Latest > 0 /\ Announced /\ ~late /\ up = "up" /\ rec.stage = "none" /\ orphan = "none"
    BY <1>1, TalkFacts DEF IInv, ControlInv, InTurn
  <1>3. /\ script' \in Seq(Lines) /\ Latest' = Latest /\ Latest \in 1 .. MaxTurns
        /\ script'[Latest] \in {script[Latest], "marked"}
        /\ \A i \in 1 .. Latest : i # Latest => script'[i] = script[i]
        /\ Grows(script, script') /\ Cut(script) <= Cut(script') /\ Cut(script') \in 0 .. Latest
    <2>1. CASE script' = script
      <3>1. script' \in Seq(Lines) /\ Latest' = Latest /\ Grows(script, script')
        BY <2>1, NatFacts, GrowsSame DEF Latest
      <3>. QED
        BY <1>2, <2>1, <3>1, NatFacts
    <2>2. CASE script[Latest] = "open" /\ script' = [script EXCEPT ![Latest] = "marked"]
      BY <1>2, <2>2, LineFacts DEF Lines
    <2>. QED
      BY <1>1, <2>1, <2>2
  <1>4. sup' \in SupType /\ sup'.at = "over" /\ sup'.ending = ending
    BY <1>1, TalkFacts DEF SupType
  <1>5. held' \subseteq Turns /\ held \subseteq held' /\ late' \in BOOLEAN
        /\ (ending = "interrupted" => Latest \in held')
    <2>1. held' \subseteq Turns /\ held \subseteq held' /\ (ending = "interrupted" => Latest \in held')
      BY <1>1, <1>3, NatFacts DEF Turns
    <2>2. late' \in BOOLEAN
      BY <1>1
    <2>. QED
      BY <2>1, <2>2
  <1>6. FileTypes' /\ DaemonTypes' /\ OutsideTypes'
    BY <1>1, <1>3, <1>4, <1>5, TalkFacts, NatFacts, TalkTypes
  <1>7. CommitInv' /\ HubInv'
    BY <1>1, <1>3, HubKeeps
  <1>8. InTurn /\ InTurn' /\ Announced'
    BY <1>1, <1>2, <1>3, <1>4 DEF InTurn, Announced
  <1>9. ControlInv'
    <2>1. late' => script'[Latest] = "open"
      BY <1>1
    <2>2. ending = "ok" => late'
      BY <1>1
    <2>3. late' => ending = "ok"
      BY <1>1
    <2>. QED
      BY <1>1, <1>2, <1>3, <1>4, <1>5, <1>8, <2>1, <2>2, <2>3 DEF IInv, ControlInv
  <1>10. JobInv'
    <2>1. \A job \in jobs : job.end \in 1 .. Latest /\ script'[job.end] # "none"
      BY <1>1, <1>3, NatFacts DEF IInv, JobInv
    <2>2. \A i \in 1 .. Latest : script'[i] = "marked" => i \in held'
      BY <1>1, <1>3, <1>5 DEF IInv, JobInv
    <2>. QED
      BY <1>1, <1>2, <1>3, <1>8, <2>1, <2>2 DEF IInv, JobInv
  <1>11. LooseInv'
    <2>1. \A t \in 1 .. MaxTurns : Safe(t) => Safe(t)'
      BY <1>1, <1>5 DEF Safe
    <2>2. Loose' \subseteq Loose
      BY <1>3, <1>8, <2>1, NatFacts DEF Loose
    <2>. QED
      BY <1>1, <2>2 DEF IInv, LooseInv
  <1>12. SettleInv'
    BY <1>1, <1>2, <1>3, NatFacts DEF IInv, SettleInv
  <1>. QED
    BY <1>6, <1>7, <1>9, <1>10, <1>11, <1>12 DEF IInv

\* The reply the harness owed is written, and the turn closes.
LEMMA LateStep == ASSUME IInv, LateLine PROVE IInv'
  <1>1. /\ late /\ script' = [script EXCEPT ![Latest] = "done"] /\ late' = FALSE
        /\ UNCHANGED <<record, jobs, base, outbox, remote, up, sup, frames, rec, pub, parked>>
        /\ UNCHANGED <<mood, orphan, held, waived>>
    BY DEF LateLine, daemon, history
  <1>2. Latest > 0 /\ script[Latest] = "open"
    BY <1>1 DEF IInv, ControlInv
  <1>3. /\ script' \in Seq(Lines) /\ Latest' = Latest /\ Latest \in 1 .. MaxTurns
        /\ script'[Latest] = "done" /\ \A i \in 1 .. Latest : i # Latest => script'[i] = script[i]
        /\ Grows(script, script') /\ Cut(script') = Latest
    BY <1>1, <1>2, LineFacts DEF Lines
  <1>4. InTurn' = InTurn /\ Announced' = Announced /\ late' \in BOOLEAN
    BY <1>1, <1>3 DEF InTurn, Announced
  <1>5. FileTypes' /\ DaemonTypes' /\ OutsideTypes'
    BY <1>1, <1>3, <1>4, TalkFacts, NatFacts, TalkTypes
  <1>6. CommitInv' /\ HubInv'
    BY <1>1, <1>3, HubKeeps
  <1>7. ControlInv'
    BY <1>1, <1>3, <1>4 DEF IInv, ControlInv
  <1>8. \A job \in jobs : job.end \in 1 .. Latest
    BY NatFacts DEF IInv, JobInv
  <1>9. JobInv'
    BY <1>1, <1>3, <1>4, <1>8 DEF IInv, JobInv
  <1>10. LooseInv'
    <2>1. \A t \in 1 .. MaxTurns : Safe(t)' <=> Safe(t)
      BY <1>1 DEF Safe
    <2>2. Loose' \subseteq Loose
      BY <1>2, <1>3, <1>4, <2>1, NatFacts DEF Loose
    <2>. QED
      BY <1>1, <2>2 DEF IInv, LooseInv
  <1>11. SettleInv'
    BY <1>1, <1>3, <1>8 DEF SettleInv
  <1>. QED
    BY <1>5, <1>6, <1>7, <1>9, <1>10, <1>11 DEF IInv

\* The end of a turn, whatever it queued: the session is between turns, and every
\* turn is accounted for.
LEMMA TurnOver ==
    ASSUME IInv, InTurn, ~InTurn', sup' \in SupType, sup'.at # "off", frames' \in Seq(Frame),
           \A i \in DOMAIN frames' : frames'[i].turn <= Latest,
           script' \in Seq(Lines), Latest' = Latest, Grows(script, script'), jobs' \subseteq Job,
           UNCHANGED <<record, base, outbox, remote, up, rec, pub, parked, mood, orphan, late>>,
           held' \subseteq Turns, waived' \subseteq Turns,
           late => script'[Latest] = "open",
           JobInv', SettleInv',
           \A t \in 1 .. Latest : script'[t] # "none" => Safe(t)'
    PROVE  IInv'
  <1>1. FileTypes' /\ DaemonTypes' /\ OutsideTypes'
    BY TalkFacts, NatFacts, TalkTypes
  <1>2. CommitInv' /\ HubInv'
    BY HubKeeps
  <1>3. up = "up" /\ rec.stage = "none" /\ orphan = "none" /\ sup'.at \notin {"running", "over"}
    BY TalkFacts DEF InTurn
  <1>4. ControlInv'
    BY <1>3 DEF IInv, ControlInv
  <1>5. LooseInv'
    BY DEF LooseInv, Loose
  <1>. QED
    BY <1>1, <1>2, <1>4, <1>5 DEF IInv

\* After the turn: its end is told, or the session leaves.
LEMMA AfterTurnFacts ==
    ASSUME IInv, sup.at = "over", AfterTurn
    PROVE  /\ InTurn /\ ~InTurn' /\ sup' \in SupType /\ sup'.at # "off"
           /\ frames' \in Seq(Frame) /\ \A i \in DOMAIN frames' : frames'[i].turn <= Latest
           /\ Latest \in 1 .. MaxTurns /\ up = "up" /\ orphan = "none"
  <1>. DEFINE f == [kind |-> "completed", turn |-> Latest]
  <1>1. InTurn /\ Latest \in 1 .. MaxTurns /\ up = "up" /\ orphan = "none"
    BY NatFacts, TalkFacts DEF InTurn, IInv, ControlInv
  <1>2. sup' \in SupType /\ sup'.at \in {"idle", "leaving"}
    BY TalkFacts DEF AfterTurn, SupType
  <1>3. f \in Frame
    BY <1>1 DEF Frame, Turns
  <1>4. frames' = frames \/ frames' = Append(frames, f)
    BY DEF AfterTurn
  <1>5. frames' \in Seq(Frame) /\ \A i \in DOMAIN frames' : frames'[i].turn <= Latest
    <2>1. CASE frames' = frames
      BY <2>1, FrameFacts
    <2>2. CASE frames' = Append(frames, f)
      <3>1. f.turn <= Latest
        BY <1>1
      <3>2. /\ frames' \in Seq(Frame)
            /\ \A i \in DOMAIN frames' :
                  frames'[i] = f \/ (i \in DOMAIN frames /\ frames'[i] = frames[i])
        BY <1>3, <2>2, FrameFacts, NewFrame
      <3>. HIDE DEF f
      <3>. QED
        BY <3>1, <3>2, FrameFacts
    <2>. QED
      BY <1>4, <2>1, <2>2
  <1>. QED
    BY <1>1, <1>2, <1>5 DEF InTurn

\* A turn's end is queued, completely or not, as an end that was found in the
\* transcript: what the queue is made of then.
LEMMA TurnQueued ==
    ASSUME IInv, NEW stopped \in BOOLEAN, NEW e, e = TurnEnd(script, stopped), e.at > 0,
           NEW turn \in 1 .. Latest,
           NEW q, q \in RecordedInPart(jobs, [turn |-> turn, end |-> e.at])
    PROVE  /\ q \subseteq Job /\ [turn |-> turn, end |-> e.at] \in Job
           /\ \A old \in jobs : \E n \in q : old.end <= n.end
           /\ \A a, b \in q : a.turn = b.turn => a = b
           /\ \A job \in q : job \in jobs \/ (job.turn = turn /\ job.end = e.at)
           /\ \A job \in q : /\ job.turn <= Latest /\ job.end \in 1 .. Latest
                             /\ e.script[job.end] # "none"
  <1>. DEFINE new == [turn |-> turn, end |-> e.at]
  <1>1. /\ e.at \in 0 .. Latest /\ e.script[e.at] # "none" /\ Grows(script, e.script)
    BY NatFacts, TurnEndFacts DEF Latest
  <1>2. new \in Job /\ new.turn = turn /\ new.end = e.at
    BY <1>1, NatFacts DEF Job, Turns
  <1>. HIDE DEF new
  <1>3. /\ q \subseteq Job /\ q \subseteq jobs \cup {new}
        /\ \A old \in jobs : \E n \in q : old.end <= n.end
        /\ \A a, b \in q : a.turn = b.turn => a = b
    <2>1. q \in RecordedInPart(jobs, new) /\ jobs \in SUBSET Job
      BY NatFacts DEF new
    <2>2. \A a, b \in jobs : a.turn = b.turn => a = b
      BY DEF IInv, JobInv
    <2>. QED
      BY <1>2, <2>1, <2>2, RecordedFacts
  <1>4. \A job \in jobs : /\ job.turn <= Latest /\ job.end \in 1 .. Latest
                          /\ e.script[job.end] # "none"
    <2>1. \A job \in jobs : /\ job.turn <= Latest /\ job.end \in 1 .. Latest
                            /\ script[job.end] # "none"
      BY NatFacts DEF IInv, JobInv
    <2>. QED
      BY <1>1, <2>1 DEF Grows, Latest
  <1>5. \A job \in q : job \in jobs \/ (job.turn = turn /\ job.end = e.at)
    BY <1>2, <1>3
  <1>6. \A job \in q : /\ job.turn <= Latest /\ job.end \in 1 .. Latest
                       /\ e.script[job.end] # "none"
    BY <1>1, <1>4, <1>5, NatFacts
  <1>7. [turn |-> turn, end |-> e.at] \in Job
    BY <1>2 DEF new
  <1>. QED
    BY <1>3, <1>5, <1>6, <1>7

\* What is known of a turn that is over when its end is looked for: a late reply
\* leaves the transcript as it is, and a tail that is queued open is owed one.
LEMMA EndedFacts ==
    ASSUME IInv, sup.at = "over", NEW e, e = Ended
    PROVE  /\ e.kind \in {"closed", "open", "held"} /\ e.at \in 0 .. Latest
           /\ e.script \in Seq(Lines) /\ Len(e.script) = Latest /\ Grows(script, e.script)
           /\ late => e.script = script /\ script[Latest] = "open"
           /\ \A i \in 1 .. Latest : script[i] = "none" => e.script[i] = "none"
           /\ \A i \in 1 .. Latest : e.script[i] = "marked" => i \in held
           /\ e.kind \in {"closed", "open"} => \A i \in 1 .. Latest : script[i] # "none" => i <= e.at
           /\ e.kind = "held" => \E k \in held : \A i \in 1 .. Latest : script[i] # "none" => i <= k
           /\ e.kind = "open" /\ sup.ending # "interrupted" => late /\ e.at = Latest
           /\ e.kind = "closed" => e.at = Cut(e.script)
           /\ e.kind = "open" => sup.ending \in {"ok", "interrupted"}
           /\ e = TurnEnd(script, sup.ending \in {"error", "exit"})
  <1>. DEFINE stopped == sup.ending \in {"error", "exit"}
  <1>1. /\ e = TurnEnd(script, stopped) /\ stopped \in BOOLEAN /\ script \in Seq(Lines)
        /\ Latest = Len(script) /\ Latest \in Nat
    BY NatFacts DEF Ended, Latest
  <1>2. /\ sup.ending \in {"ok", "interrupted", "error", "exit"} /\ Latest > 0
        /\ sup.ending = "ok" => late \/ script[Latest] = "done"
        /\ late => sup.ending = "ok" /\ script[Latest] = "open"
    BY DEF IInv, ControlInv, InTurn
  <1>3. /\ e.kind \in {"closed", "open", "held"} /\ e.at \in 0 .. Latest
        /\ e.script \in Seq(Lines) /\ Len(e.script) = Latest /\ Grows(script, e.script)
        /\ \A i \in 1 .. Latest : /\ script[i] = "none" => e.script[i] = "none"
                                  /\ e.script[i] = "marked" => script[i] = "marked"
        /\ e.kind = "closed" => /\ e.at = Cut(e.script)
                                /\ \A i \in 1 .. Latest : script[i] # "none" => i <= e.at
        /\ e.kind = "open" => /\ ~stopped /\ e.at > 0 /\ script[e.at] = "open" /\ e.script = script
                              /\ \A i \in 1 .. Latest : script[i] # "none" => i <= e.at
        /\ e.kind = "held" => \E k \in 1 .. Latest : /\ script[k] = "marked"
                                  /\ \A i \in 1 .. Latest : script[i] # "none" => i <= k
    <2>1. PICK s, st : s = script /\ st = stopped
      OBVIOUS
    <2>2. s \in Seq(Lines) /\ st \in BOOLEAN /\ e = TurnEnd(s, st) /\ Latest = Len(s)
      BY <1>1, <2>1
    <2>. HIDE DEF stopped
    <2>. QED
      BY <2>1, <2>2, TurnEndFacts
  <1>4. \A i \in 1 .. Latest : script[i] = "marked" => i \in held
    BY DEF IInv, JobInv
  <1>5. late => e.script = script
    <2>1. late => ~stopped
      BY <1>2
    <2>2. ~stopped => e.script = script
      BY <1>1 DEF TurnEnd
    <2>. QED
      BY <2>1, <2>2
  <1>6. e.kind = "open" /\ sup.ending # "interrupted" => late /\ e.at = Latest
    BY <1>1, <1>2, <1>3
  <1>7. e.kind = "open" => sup.ending \in {"ok", "interrupted"}
    BY <1>2, <1>3
  <1>8. e.kind = "held" => \E k \in held : \A i \in 1 .. Latest : script[i] # "none" => i <= k
    BY <1>3, <1>4
  <1>. QED
    BY <1>1, <1>2, <1>3, <1>4, <1>5, <1>6, <1>7, <1>8

\* The turns that neither the hub nor the queue has, once reported, are accounted for.
LEMMA UnqueuedFacts ==
    ASSUME IInv
    PROVE  /\ Unqueued \subseteq 1 .. Latest /\ Unqueued \subseteq Turns
           /\ \A t \in 1 .. Latest : t \in Unqueued \/ t <= remote \/ \E job \in jobs : t <= job.end
  BY NatFacts DEF Unqueued, Turns

\* The jobs after the end of a turn, when no job is of the turn that ended but the
\* one just queued, and the transcript only grew.
LEMMA JobsAfter ==
    ASSUME IInv, sup.at = "over", ~InTurn', NEW e, e = Ended, script' = e.script, Latest' = Latest,
           UNCHANGED <<record, up, orphan, late, held>>, waived \subseteq waived',
           \A a, b \in jobs' : a.turn = b.turn => a = b,
           \A job \in jobs' : /\ job.turn <= Latest /\ job.end \in 1 .. Latest
                              /\ e.script[job.end] # "none",
           \A job \in jobs' : job \in jobs \/ (job.end = e.at /\ Queues)
    PROVE  JobInv' /\ SettleInv'
  <1>1. orphan = "none" /\ up = "up"
    BY TalkFacts
  <1>2. JobInv'
    <2>1. \A i \in 1 .. Latest : script'[i] = "marked" => i \in held'
      BY EndedFacts
    <2>. QED
      BY <1>1, <2>1, NatFacts DEF JobInv
  <1>3. Cut(script) <= Cut(script') /\ Cut(script') \in 0 .. Latest
    BY EndedFacts, NatFacts, CutGrows, CutFacts DEF Latest
  <1>4. ASSUME NEW job \in jobs', job \in jobs
        PROVE  \/ job.end <= Cut(script') \/ job.end \in waived'
               \/ job.end = Latest /\ script'[Latest] = "open" /\ late
    <2>1. \/ job.end <= Cut(script) \/ job.end \in waived
          \/ job.end = Latest /\ script[Latest] = "open" /\ late
      BY <1>1, <1>4 DEF IInv, SettleInv
    <2>. QED
      BY <1>3, <2>1, NatFacts, EndedFacts
  <1>5. ASSUME NEW job \in jobs', job.end = e.at, Queues
        PROVE  \/ job.end <= Cut(script')
               \/ job.end = Latest /\ script'[Latest] = "open" /\ late
    <2>1. e.kind = "closed" \/ (e.kind = "open" /\ sup.ending # "interrupted")
      BY <1>5 DEF Queues
    <2>2. CASE e.kind = "closed"
      BY <1>3, <1>5, <2>2, EndedFacts
    <2>3. CASE e.kind = "open" /\ sup.ending # "interrupted"
      BY <1>5, <2>3, EndedFacts
    <2>. QED
      BY <2>1, <2>2, <2>3
  <1>6. SettleInv'
    BY <1>4, <1>5 DEF SettleInv
  <1>. QED
    BY <1>2, <1>6

\* retain_completed_archive: the ended turn, and with it every turn before it, is
\* queued, held by a person, or reported.
LEMMA RetainStep == ASSUME IInv, Retain PROVE IInv'
  <1>1. PICK e : e = Ended
    OBVIOUS
  <1>2. /\ sup.at = "over" /\ AfterTurn /\ script' = e.script
        /\ UNCHANGED <<record, base, outbox, remote, up, rec, pub, parked, mood, orphan, late, held>>
    BY <1>1 DEF Retain, outside
  <1>3. /\ InTurn /\ ~InTurn' /\ sup' \in SupType /\ sup'.at # "off"
        /\ frames' \in Seq(Frame) /\ \A i \in DOMAIN frames' : frames'[i].turn <= Latest
        /\ Latest \in 1 .. MaxTurns
    BY <1>2, AfterTurnFacts
  <1>4. /\ e.script \in Seq(Lines) /\ Latest' = Latest /\ Grows(script, e.script)
        /\ e.at \in 0 .. Latest
    BY <1>1, <1>2, EndedFacts DEF Latest
  <1>5. late => script'[Latest] = "open"
    BY <1>1, <1>2, EndedFacts
  <1>6. \A i \in 1 .. Latest : script'[i] # "none" => script[i] # "none"
    BY <1>1, <1>2, EndedFacts
  <1>7. CASE Queues /\ e.at > 0
    <2>. DEFINE new == [turn |-> Latest, end |-> e.at]
                stopped == sup.ending \in {"error", "exit"}
    <2>1. jobs' = Recorded(jobs, new) /\ waived' = waived
      BY <1>1, <1>7 DEF Retain
    <2>2. stopped \in BOOLEAN /\ e = TurnEnd(script, stopped)
      BY <1>1 DEF Ended
    <2>3. new \in Job
      <3>1. PICK t, k : t = Latest /\ k = e.at
        OBVIOUS
      <3>2. t \in Turns /\ k \in Turns
        BY <1>3, <1>4, <1>7, <3>1, NatFacts DEF Turns
      <3>3. [turn |-> t, end |-> k] \in Job
        BY <3>2 DEF Job
      <3>. QED
        BY <3>1, <3>3
    <2>4. jobs \in SUBSET Job
      BY NatFacts
    <2>5. /\ jobs' \in RecordedInPart(jobs, new)
          /\ (\E old \in jobs : old.turn = new.turn) \/ (\E n \in jobs' : n.end = new.end)
      BY <2>1, <2>3, <2>4, RecordedWhole
    <2>6. \E n \in jobs' : n.end = e.at
      <3>1. \A job \in jobs : job.turn < Latest
        BY <1>3 DEF IInv, JobInv
      <3>2. \A job \in jobs : job.turn \in Nat
        BY NatFacts
      <3>. QED
        BY <1>3, <2>5, <3>1, <3>2
    <2>. HIDE DEF stopped
    <2>7. /\ jobs' \subseteq Job
          /\ \A a, b \in jobs' : a.turn = b.turn => a = b
          /\ \A job \in jobs' : job \in jobs \/ job.end = e.at
          /\ \A job \in jobs' : /\ job.turn <= Latest /\ job.end \in 1 .. Latest
                                /\ e.script[job.end] # "none"
      BY <1>3, <1>7, <2>2, <2>5, TurnQueued
    <2>8. JobInv' /\ SettleInv'
      BY <1>1, <1>2, <1>3, <1>4, <1>7, <2>1, <2>7, JobsAfter
    <2>9. \A t \in 1 .. Latest : script'[t] # "none" => t <= e.at
      BY <1>1, <1>2, <1>6, <1>7, EndedFacts DEF Queues
    <2>10. \A t \in 1 .. Latest : script'[t] # "none" => Safe(t)'
      BY <2>6, <2>9 DEF Safe
    <2>. QED
      BY <1>2, <1>3, <1>4, <1>5, <2>1, <2>7, <2>8, <2>10, NatFacts, TurnOver
  <1>8. CASE ~(Queues /\ e.at > 0)
    <2>1. /\ jobs' = jobs
          /\ \/ waived' = waived \cup Unqueued
             \/ waived' = waived /\ ~Queues /\ mood # "kept"
      BY <1>1, <1>8 DEF Retain
    <2>2. waived' \subseteq Turns /\ waived \subseteq waived'
      BY <2>1, NatFacts, UnqueuedFacts
    <2>3. \A job \in jobs : /\ job.turn <= Latest /\ job.end \in 1 .. Latest
                            /\ e.script[job.end] # "none"
      <3>1. \A job \in jobs : /\ job.turn <= Latest /\ job.end \in 1 .. Latest
                              /\ script[job.end] # "none"
        BY NatFacts DEF IInv, JobInv
      <3>. QED
        BY <1>4, <3>1 DEF Grows, Latest
    <2>4. JobInv' /\ SettleInv'
      <3>1. \A a, b \in jobs' : a.turn = b.turn => a = b
        BY <2>1 DEF IInv, JobInv
      <3>. QED
        BY <1>1, <1>2, <1>3, <1>4, <2>1, <2>2, <2>3, <3>1, JobsAfter
    <2>5. \A t \in 1 .. Latest : script'[t] # "none" => Safe(t)'
      <3>1. CASE waived' = waived \cup Unqueued
        BY <1>2, <2>1, <3>1, UnqueuedFacts DEF Safe
      <3>2. CASE waived' = waived /\ ~Queues /\ mood # "kept"
        <4>1. e.kind = "held" \/ (e.kind = "open" /\ sup.ending = "interrupted")
          BY <1>1, <1>2, <3>2, EndedFacts DEF Queues
        <4>2. \E k \in held : \A t \in 1 .. Latest : script[t] # "none" => t <= k
          <5>1. CASE e.kind = "held"
            BY <1>1, <1>2, <5>1, EndedFacts
          <5>2. CASE sup.ending = "interrupted"
            BY <1>2, <1>3, <5>2 DEF IInv, ControlInv
          <5>. QED
            BY <4>1, <5>1, <5>2
        <4>. QED
          BY <1>2, <1>6, <4>2 DEF Safe
      <3>. QED
        BY <2>1, <3>1, <3>2
    <2>. QED
      BY <1>2, <1>3, <1>4, <1>5, <2>1, <2>2, <2>4, <2>5, NatFacts, TurnOver
  <1>. QED
    BY <1>7, <1>8

\* The queue cannot be written: the turns it lacks are reported.
LEMMA RetainFailsStep == ASSUME IInv, RetainFails PROVE IInv'
  <1>1. /\ sup.at = "over" /\ AfterTurn /\ waived' = waived \cup Unqueued
        /\ UNCHANGED <<script, record, jobs, base, outbox, remote>>
        /\ UNCHANGED <<up, rec, pub, parked, mood, orphan, late, held>>
    BY DEF RetainFails, files, outside
  <1>2. /\ InTurn /\ ~InTurn' /\ sup' \in SupType /\ sup'.at # "off"
        /\ frames' \in Seq(Frame) /\ \A i \in DOMAIN frames' : frames'[i].turn <= Latest
        /\ Latest \in 1 .. MaxTurns /\ orphan = "none"
    BY <1>1, AfterTurnFacts
  <1>3. Latest' = Latest /\ script' \in Seq(Lines) /\ Grows(script, script')
    BY <1>1, NatFacts, GrowsSame DEF Latest
  <1>4. waived' \subseteq Turns /\ jobs' \subseteq Job /\ held' \subseteq Turns
    BY <1>1, NatFacts, UnqueuedFacts
  <1>5. JobInv'
    BY <1>1, <1>2, <1>3 DEF IInv, JobInv
  <1>6. SettleInv'
    BY <1>1, <1>3 DEF IInv, SettleInv
  <1>7. late => script'[Latest] = "open"
    BY <1>1 DEF IInv, ControlInv
  <1>8. \A t \in 1 .. Latest : script'[t] # "none" => Safe(t)'
    BY <1>1, UnqueuedFacts DEF Safe
  <1>. QED
    BY <1>1, <1>2, <1>3, <1>4, <1>5, <1>6, <1>7, <1>8, TurnOver

\* A person stops the turn, which is held.
LEMMA StopTurnStep == ASSUME IInv, StopTurn PROVE IInv'
  <1>1. /\ sup.at = "running" /\ held' = held \cup {Latest}
        /\ sup' = [sup EXCEPT !.at = "leaving", !.due = TRUE]
        /\ UNCHANGED <<script, record, jobs, base, outbox, remote>>
        /\ UNCHANGED <<up, frames, rec, pub, parked, mood, orphan, late, waived>>
    BY DEF StopTurn, files, outside
  <1>2. sup' \in SupType /\ sup'.at = "leaving"
    BY <1>1, TalkFacts DEF SupType
  <1>3. InTurn /\ ~InTurn' /\ Latest \in 1 .. MaxTurns /\ orphan = "none"
    BY <1>1, <1>2, NatFacts, TalkFacts DEF InTurn, IInv, ControlInv
  <1>4. Latest' = Latest /\ script' \in Seq(Lines) /\ Grows(script, script')
    BY <1>1, NatFacts, GrowsSame DEF Latest
  <1>5. waived' \subseteq Turns /\ jobs' \subseteq Job /\ held' \subseteq Turns
    BY <1>1, <1>3, NatFacts DEF Turns
  <1>6. JobInv'
    BY <1>1, <1>3, <1>4 DEF IInv, JobInv
  <1>7. SettleInv'
    BY <1>1, <1>4 DEF IInv, SettleInv
  <1>8. late => script'[Latest] = "open"
    BY <1>1 DEF IInv, ControlInv
  <1>9. \A t \in 1 .. Latest : script'[t] # "none" => Safe(t)'
    BY <1>1, <1>3 DEF Safe
  <1>10. frames' \in Seq(Frame) /\ \A i \in DOMAIN frames' : frames'[i].turn <= Latest
    BY <1>1, FrameFacts
  <1>. QED
    BY <1>1, <1>2, <1>3, <1>4, <1>5, <1>6, <1>7, <1>8, <1>9, <1>10, TurnOver

\* observe_open_turn: the first frame under way is taken.
LEMMA ProjectStep == ASSUME IInv, Project PROVE IInv'
  <1>1. /\ up = "up" /\ frames # <<>> /\ frames' = Tail(frames)
        /\ record' = IF Head(frames).kind = "completed" THEN 0
                     ELSE IF sup.at # "off" THEN Head(frames).turn ELSE record
        /\ UNCHANGED <<script, jobs, base, outbox, remote, up, sup, rec, pub, parked>>
        /\ UNCHANGED <<mood, orphan, late, held, waived>>
    BY DEF Project, outside, history
  <1>2. /\ Len(frames) \in Nat /\ Len(frames) > 0 /\ 1 \in DOMAIN frames /\ Head(frames) = frames[1]
        /\ Len(frames) \in DOMAIN frames
    BY <1>1, FrameFacts
  <1>3. /\ frames' \in Seq(Frame) /\ DOMAIN frames' = 1 .. Len(frames')
        /\ Len(frames') = Len(frames) - 1
        /\ \A i \in DOMAIN frames' : i + 1 \in DOMAIN frames /\ frames'[i] = frames[i + 1]
        /\ frames' = <<>> <=> Len(frames') = 0
    BY <1>1, FrameFacts
  <1>4. record' \in 0 .. MaxTurns /\ record' <= Latest
    BY <1>1, <1>2, FrameFacts, NatFacts DEF IInv, ControlInv
  <1>5. Latest' = Latest /\ script' \in Seq(Lines) /\ Grows(script, script') /\ InTurn' = InTurn
    BY <1>1, NatFacts, GrowsSame DEF Latest, InTurn
  <1>6. FileTypes' /\ DaemonTypes' /\ OutsideTypes'
    BY <1>1, <1>3, <1>4, <1>5, TalkFacts, TalkTypes
  <1>7. CommitInv' /\ HubInv'
    BY <1>1, <1>5, HubKeeps
  <1>8. orphan = "none"
    BY <1>1 DEF IInv, ControlInv
  <1>9. InTurn => Announced'
    <2>1. SUFFICES ASSUME InTurn PROVE Announced'
      OBVIOUS
    <2>2. frames[Len(frames)] = [kind |-> "started", turn |-> Latest] /\ sup.at # "off"
      BY <1>1, <2>1 DEF IInv, ControlInv, Announced, InTurn
    <2>3. CASE Len(frames) = 1
      <3>1. frames' = <<>> /\ Head(frames) = [kind |-> "started", turn |-> Latest]
        BY <1>2, <1>3, <2>2, <2>3
      <3>. QED
        BY <1>1, <1>5, <2>2, <3>1 DEF Announced
    <2>4. CASE Len(frames) # 1
      <3>1. frames' # <<>> /\ frames'[Len(frames')] = frames[Len(frames)]
        BY <1>2, <1>3, <2>4
      <3>. QED
        BY <1>5, <2>2, <3>1 DEF Announced
    <2>. QED
      BY <2>3, <2>4
  <1>10. ControlInv'
    <2>1. \A i \in DOMAIN frames' : frames'[i].turn <= Latest
      BY <1>3, FrameFacts
    <2>. QED
      BY <1>1, <1>4, <1>5, <1>8, <1>9, <2>1 DEF IInv, ControlInv
  <1>11. JobInv'
    BY <1>1, <1>5, <1>8 DEF IInv, JobInv
  <1>12. LooseInv'
    <2>1. Loose' = Loose
      BY <1>1, <1>5 DEF Loose, Safe
    <2>2. \A t \in Loose : t <= record' /\ \A job \in jobs : job.turn < record'
      BY <1>1, <1>2 DEF IInv, LooseInv
    <2>3. \A t \in Loose : \A i \in DOMAIN frames' :
             /\ frames'[i].kind = "started" /\ t <= frames'[i].turn
             /\ \A job \in jobs : job.turn < frames'[i].turn
      BY <1>3 DEF IInv, LooseInv
    <2>. QED
      BY <1>1, <2>1, <2>2, <2>3 DEF LooseInv
  <1>13. SettleInv'
    BY <1>1, <1>5 DEF IInv, SettleInv
  <1>. QED
    BY <1>6, <1>7, <1>10, <1>11, <1>12, <1>13 DEF IInv

----------------------------------------------------------------------------
(* The daemon dies and starts again *)

\* A harness left behind ends, perhaps with its turn.
LEMMA OrphanStep == ASSUME IInv, OrphanEnds PROVE IInv'
  <1>1. /\ orphan # "none" /\ ~late /\ orphan' = "none"
        /\ \/ script' = script
           \/ /\ orphan = "busy" /\ script[Latest] = "open"
              /\ script' = [script EXCEPT ![Latest] = "done"]
        /\ UNCHANGED <<record, jobs, base, outbox, remote, up, sup, frames, rec, pub, parked>>
        /\ UNCHANGED <<mood, late, held, waived>>
    BY DEF OrphanEnds, daemon, history
  <1>2. sup.at = "off" /\ frames = <<>> /\ up \notin {"queueing", "saving"} /\ ~InTurn
    BY <1>1 DEF IInv, ControlInv, InTurn
  <1>3. /\ script' \in Seq(Lines) /\ Latest' = Latest
        /\ \A i \in 1 .. Latest : \/ script'[i] = script[i]
                                  \/ script[i] = "open" /\ script'[i] = "done"
        /\ Grows(script, script') /\ Cut(script) <= Cut(script') /\ Cut(script') \in 0 .. Latest
    <2>1. CASE script' = script
      <3>1. script' \in Seq(Lines) /\ Latest' = Latest /\ Grows(script, script')
        BY <2>1, NatFacts, GrowsSame DEF Latest
      <3>. QED
        BY <2>1, <3>1, NatFacts
    <2>2. CASE /\ orphan = "busy" /\ script[Latest] = "open"
               /\ script' = [script EXCEPT ![Latest] = "done"]
      <3>1. Latest > 0
        BY <2>2 DEF IInv, JobInv
      <3>2. /\ script' \in Seq(Lines) /\ Latest' = Latest
            /\ script'[Latest] = "done"
            /\ \A i \in 1 .. Latest : i # Latest => script'[i] = script[i]
            /\ Grows(script, script') /\ Cut(script) <= Cut(script')
            /\ Cut(script') \in 0 .. Latest
        BY <2>2, <3>1, LineFacts DEF Lines
      <3>. QED
        BY <2>2, <3>2
    <2>. QED
      BY <1>1, <2>1, <2>2
  <1>4. FileTypes' /\ DaemonTypes' /\ OutsideTypes'
    BY <1>1, <1>3, TalkFacts, NatFacts, TalkTypes
  <1>5. CommitInv' /\ HubInv'
    BY <1>1, <1>3, HubKeeps
  <1>6. ~InTurn' /\ ControlInv'
    BY <1>1, <1>2, <1>3 DEF IInv, ControlInv, InTurn
  <1>7. JobInv'
    <2>1. \A job \in jobs : job.end \in 1 .. Latest /\ script'[job.end] # "none"
      BY <1>3, NatFacts DEF IInv, JobInv
    <2>2. \A i \in 1 .. Latest : script'[i] = "marked" => i \in held
      BY <1>3 DEF IInv, JobInv
    <2>. QED
      BY <1>1, <1>3, <1>6, <2>1, <2>2 DEF IInv, JobInv
  <1>8. LooseInv'
    <2>1. \A t \in 1 .. MaxTurns : Safe(t)' <=> Safe(t)
      BY <1>1 DEF Safe
    <2>2. Loose' \subseteq Loose
      BY <1>2, <1>3, <2>1, NatFacts DEF Loose
    <2>. QED
      BY <1>1, <2>2 DEF IInv, LooseInv
  <1>9. SettleInv'
    BY <1>1, <1>3, NatFacts DEF IInv, SettleInv
  <1>. QED
    BY <1>4, <1>5, <1>6, <1>7, <1>8, <1>9 DEF IInv

\* The daemon starts; what it cannot end it leaves for the next start.
LEMMA StartStep == ASSUME IInv, Start \/ Retry PROVE IInv'
  <1>1. /\ UNCHANGED <<script, record, jobs, base, outbox, remote>>
        /\ UNCHANGED <<sup, frames, rec, pub, parked, mood, orphan, late, held, waived>>
        /\ \/ up = "down" /\ up' = (IF record = 0 THEN "up" ELSE "closing")
           \/ up = "closing" /\ orphan # "none" /\ up' = "up"
    BY DEF Start, Retry, files, outside, history
  <1>2. /\ Latest' = Latest /\ script' \in Seq(Lines) /\ Grows(script, script')
        /\ InTurn' = InTurn /\ Announced' = Announced
    BY <1>1, NatFacts, GrowsSame DEF Latest, InTurn, Announced
  <1>3. FileTypes' /\ DaemonTypes' /\ OutsideTypes'
    BY <1>1, <1>2, TalkFacts, NatFacts, TalkTypes
  <1>4. CommitInv' /\ HubInv'
    BY <1>1, <1>2, HubKeeps
  <1>5. ControlInv' /\ JobInv'
    BY <1>1, <1>2 DEF IInv, ControlInv, JobInv
  <1>6. LooseInv'
    <2>1. Loose' = Loose
      BY <1>1, <1>2 DEF Loose, Safe
    <2>. QED
      BY <1>1, <2>1 DEF IInv, LooseInv
  <1>7. SettleInv'
    BY <1>1, <1>2 DEF IInv, SettleInv
  <1>. QED
    BY <1>3, <1>4, <1>5, <1>6, <1>7 DEF IInv

\* The process left behind is ended: what it owed will not come, so a tail that a
\* job counts on is closed by the next step, or waived for want of consent.
LEMMA CloseStep == ASSUME IInv, Close PROVE IInv'
  <1>1. /\ up = "closing" /\ orphan' = "none" /\ late' = FALSE
        /\ up' = (IF mood = "kept" THEN "saving" ELSE "queueing")
        /\ waived' = (IF mood = "kept"
                        THEN waived \cup Unqueued \cup ((Cut(script) + 1) .. Latest) ELSE waived)
        /\ UNCHANGED <<script, record, jobs, base, outbox, remote>>
        /\ UNCHANGED <<sup, frames, rec, pub, parked, mood, held>>
    BY DEF Close, files
  <1>2. /\ Latest' = Latest /\ script' \in Seq(Lines) /\ Grows(script, script')
        /\ sup.at = "off" /\ frames = <<>> /\ ~InTurn /\ ~InTurn' /\ record # 0 /\ late' \in BOOLEAN
    BY <1>1, NatFacts, GrowsSame DEF Latest, InTurn, IInv, ControlInv
  <1>3. waived' \subseteq Turns /\ waived \subseteq waived'
    BY <1>1, NatFacts, UnqueuedFacts DEF Turns
  <1>4. FileTypes' /\ DaemonTypes' /\ OutsideTypes'
    BY <1>1, <1>2, <1>3, TalkFacts, NatFacts, TalkTypes
  <1>5. CommitInv' /\ HubInv'
    BY <1>1, <1>2, HubKeeps
  <1>6. ControlInv'
    BY <1>1, <1>2 DEF IInv, ControlInv
  <1>7. JobInv'
    BY <1>1, <1>2 DEF IInv, JobInv
  <1>8. LooseInv'
    <2>1. \A t \in 1 .. MaxTurns : Safe(t) => Safe(t)'
      BY <1>1, <1>3 DEF Safe
    <2>2. Loose' \subseteq Loose
      BY <1>1, <1>2, <2>1, NatFacts DEF Loose
    <2>3. mood = "kept" => \A t \in 1 .. Latest : Safe(t)'
      BY <1>1, UnqueuedFacts DEF Safe
    <2>4. mood = "kept" => Loose' = {}
      BY <1>2, <2>3 DEF Loose
    <2>. QED
      BY <1>1, <2>2, <2>4 DEF IInv, LooseInv
  <1>9. SettleInv'
    <2>. SUFFICES ASSUME NEW job \in jobs, job.end > Cut(script), job.end \notin waived'
                  PROVE  /\ job.end = Latest /\ script[Latest] = "open" /\ up' = "queueing"
      BY <1>1, <1>2, NatFacts DEF SettleInv
    <2>1. job.end = Latest /\ script[Latest] = "open"
      BY <1>1, <1>3, NatFacts DEF IInv, SettleInv
    <2>2. mood # "kept"
      BY <1>1, <2>1, NatFacts
    <2>. QED
      BY <1>1, <2>1, <2>2
  <1>. QED
    BY <1>4, <1>5, <1>6, <1>7, <1>8, <1>9 DEF IInv

\* The record goes once everything it stood for is accounted for.
LEMMA SaveStep == ASSUME IInv, SaveRecovered PROVE IInv'
  <1>1. /\ up = "saving" /\ record' = 0 /\ up' = "up"
        /\ UNCHANGED <<script, jobs, base, outbox, remote>>
        /\ UNCHANGED <<sup, frames, rec, pub, parked, mood, orphan, late, held, waived>>
    BY DEF SaveRecovered, outside, history
  <1>2. /\ Latest' = Latest /\ script' \in Seq(Lines) /\ Grows(script, script')
        /\ sup.at = "off" /\ frames = <<>> /\ ~InTurn /\ ~InTurn' /\ orphan = "none" /\ ~late
    BY <1>1, NatFacts, GrowsSame DEF Latest, InTurn, IInv, ControlInv
  <1>3. FileTypes' /\ DaemonTypes' /\ OutsideTypes'
    BY <1>1, <1>2, TalkFacts, NatFacts, TalkTypes
  <1>4. CommitInv' /\ HubInv'
    BY <1>1, <1>2, HubKeeps
  <1>5. ControlInv'
    BY <1>1, <1>2, NatFacts DEF IInv, ControlInv
  <1>6. JobInv'
    BY <1>1, <1>2 DEF IInv, JobInv
  <1>7. LooseInv'
    <2>1. Loose' = Loose /\ Loose = {}
      BY <1>1, <1>2 DEF Loose, Safe, IInv, LooseInv
    <2>. QED
      BY <2>1 DEF LooseInv
  <1>8. SettleInv'
    BY <1>1, <1>2 DEF IInv, SettleInv
  <1>. QED
    BY <1>3, <1>4, <1>5, <1>6, <1>7, <1>8 DEF IInv

\* What recovery finds in the transcript of the turn recorded as open: it is
\* closed by a receipt, or a person's marker holds it.
LEMMA ReopenedFacts ==
    ASSUME IInv, NEW e, e = Reopened
    PROVE  /\ e = TurnEnd(script, TRUE) /\ e.kind \in {"closed", "held"} /\ e.at \in 0 .. Latest
           /\ e.script \in Seq(Lines) /\ Len(e.script) = Latest /\ Grows(script, e.script)
           /\ \A i \in 1 .. Latest : /\ script[i] = "none" => e.script[i] = "none"
                                     /\ e.script[i] = "marked" => i \in held
                                     /\ e.script[i] \in {script[i], "receipt"}
           /\ e.kind = "closed" => /\ e.at = Cut(e.script)
                                   /\ \A i \in 1 .. Latest : script[i] # "none" => i <= e.at
           /\ e.kind = "held" => \E k \in held : \A i \in 1 .. Latest : script[i] # "none" => i <= k
           /\ Latest > 0 /\ script[Latest] = "open" => e.script[Latest] = "receipt"
  <1>1. PICK s, st : s = script /\ st = TRUE
    OBVIOUS
  <1>2. /\ s \in Seq(Lines) /\ Latest = Len(s) /\ Len(s) \in Nat
        /\ st \in BOOLEAN /\ e = TurnEnd(s, st)
    BY <1>1, NatFacts DEF Latest, Reopened
  <1>3. /\ e.kind \in {"closed", "open", "held"} /\ e.at \in 0 .. Len(s)
        /\ e.script \in Seq(Lines) /\ Len(e.script) = Len(s) /\ Grows(s, e.script)
        /\ \A i \in 1 .. Len(s) : /\ s[i] = "none" => e.script[i] = "none"
                                  /\ e.script[i] = "marked" => s[i] = "marked"
                                  /\ e.script[i] \in {s[i], "receipt"}
        /\ e.kind = "closed" => /\ e.at = Cut(e.script)
                                /\ \A i \in 1 .. Len(s) : s[i] # "none" => i <= e.at
        /\ e.kind = "open" => ~st
        /\ e.kind = "held" => \E k \in 1 .. Len(s) : /\ s[k] = "marked"
                                  /\ \A i \in 1 .. Len(s) : s[i] # "none" => i <= k
    BY <1>2, TurnEndFacts
  <1>4. Len(s) > 0 /\ s[Len(s)] = "open" => WrittenEnd(s) = Len(s)
    BY <1>2, CutFacts
  <1>5. \A i \in 1 .. Len(s) : s[i] = "marked" => i \in held
    BY <1>1, <1>2 DEF IInv, JobInv
  <1>6. e.kind \in {"closed", "held"}
    BY <1>1, <1>3
  <1>7. e.kind = "held" => \E k \in held : \A i \in 1 .. Latest : script[i] # "none" => i <= k
    BY <1>1, <1>2, <1>3, <1>5
  <1>8. Latest > 0 /\ script[Latest] = "open" => e.script[Latest] = "receipt"
    <2>1. SUFFICES ASSUME Len(s) > 0, s[Len(s)] = "open" PROVE e.script[Len(s)] = "receipt"
      BY <1>1, <1>2
    <2>2. AwaitsReply(s) /\ WrittenEnd(s) = Len(s)
      BY <1>2, <1>4, <2>1 DEF AwaitsReply
    <2>3. e.script = [s EXCEPT ![Len(s)] = "receipt"]
      BY <1>1, <1>2, <2>2 DEF TurnEnd
    <2>. QED
      BY <1>2, <2>1, <2>3
  <1>9. \A i \in 1 .. Latest : /\ script[i] = "none" => e.script[i] = "none"
                               /\ e.script[i] = "marked" => i \in held
                               /\ e.script[i] \in {script[i], "receipt"}
    BY <1>1, <1>2, <1>3, <1>5
  <1>10. e.kind = "closed" => /\ e.at = Cut(e.script)
                              /\ \A i \in 1 .. Latest : script[i] # "none" => i <= e.at
    BY <1>1, <1>2, <1>3
  <1>11. /\ e.at \in 0 .. Latest /\ e.script \in Seq(Lines) /\ Len(e.script) = Latest
         /\ Grows(script, e.script)
    BY <1>1, <1>2, <1>3
  <1>. QED
    BY <1>6, <1>7, <1>8, <1>9, <1>10, <1>11 DEF Reopened

\* The turn recorded as open is queued: then nothing is loose, and no job waits.
LEMMA QueueOpenStep == ASSUME IInv, QueueOpen PROVE IInv'
  <1>1. PICK e : e = Reopened
    OBVIOUS
  <1>2. /\ up = "queueing" /\ up' = "saving" /\ script' = e.script
        /\ jobs' = (IF e.kind = "closed" /\ e.at > 0
                      THEN Recorded(jobs, [turn |-> record, end |-> e.at]) ELSE jobs)
        /\ UNCHANGED <<record, base, outbox, remote>>
        /\ UNCHANGED <<sup, frames, rec, pub, parked, mood, orphan, late, held, waived>>
    BY <1>1 DEF QueueOpen, QueuesOpen, outside, history
  <1>13. /\ e.kind \in {"closed", "held"} /\ e.at \in 0 .. Latest
         /\ \A i \in 1 .. Latest : script[i] = "none" => e.script[i] = "none"
         /\ e.kind = "closed" => e.at = Cut(e.script)
         /\ Latest > 0 /\ script[Latest] = "open" => e.script[Latest] = "receipt"
    BY <1>1, ReopenedFacts
  <1>3. /\ sup.at = "off" /\ frames = <<>> /\ rec.stage = "none" /\ record \in 1 .. Latest
        /\ orphan = "none" /\ ~late /\ ~InTurn /\ ~InTurn'
    BY <1>2, NatFacts DEF IInv, ControlInv, InTurn
  <1>4. /\ script' \in Seq(Lines) /\ Latest' = Latest /\ Grows(script, script')
        /\ Cut(script) <= Cut(script') /\ Cut(script') \in 0 .. Latest
    BY <1>1, <1>2, NatFacts, ReopenedFacts, CutGrows, CutFacts DEF Latest
  <1>5. /\ jobs' \subseteq Job
        /\ \A old \in jobs : \E n \in jobs' : old.end <= n.end
        /\ \A a, b \in jobs' : a.turn = b.turn => a = b
        /\ \A job \in jobs' : job \in jobs \/ (e.kind = "closed" /\ job.end = e.at)
        /\ \A job \in jobs' : /\ job.turn <= Latest /\ job.end \in 1 .. Latest
                              /\ script'[job.end] # "none"
        /\ e.kind = "closed" /\ e.at > 0 =>
             (\E old \in jobs : old.turn = record) \/ \E n \in jobs' : n.end = e.at
    <2>1. CASE e.kind = "closed" /\ e.at > 0
      <3>1. PICK t, new : t = record /\ new = [turn |-> t, end |-> e.at]
        OBVIOUS
      <3>2. t \in 1 .. Latest /\ jobs \in SUBSET Job /\ t \in Turns /\ e.at \in Turns
        BY <1>13, <1>3, <2>1, <3>1, NatFacts DEF Turns
      <3>3. new \in Job /\ new.turn = t /\ new.end = e.at
        BY <3>1, <3>2 DEF Job
      <3>4. jobs' = Recorded(jobs, new)
        BY <1>2, <2>1, <3>1
      <3>5. /\ jobs' \in RecordedInPart(jobs, new)
            /\ (\E old \in jobs : old.turn = new.turn) \/ (\E n \in jobs' : n.end = new.end)
        BY <3>2, <3>3, <3>4, RecordedWhole
      <3>6. PICK st \in BOOLEAN : e = TurnEnd(script, st)
        BY <1>1, ReopenedFacts
      <3>7. jobs' \in RecordedInPart(jobs, [turn |-> t, end |-> e.at])
        BY <3>1, <3>5
      <3>8. /\ jobs' \subseteq Job
            /\ \A old \in jobs : \E n \in jobs' : old.end <= n.end
            /\ \A a, b \in jobs' : a.turn = b.turn => a = b
            /\ \A job \in jobs' : job \in jobs \/ (job.turn = t /\ job.end = e.at)
            /\ \A job \in jobs' : /\ job.turn <= Latest /\ job.end \in 1 .. Latest
                                  /\ e.script[job.end] # "none"
        BY <2>1, <3>2, <3>6, <3>7, TurnQueued
      <3>. QED
        BY <1>2, <2>1, <3>1, <3>3, <3>5, <3>8
    <2>2. CASE ~(e.kind = "closed" /\ e.at > 0)
      <3>1. jobs' = jobs
        BY <1>2, <2>2
      <3>2. \A job \in jobs : /\ job.turn <= Latest /\ job.end \in 1 .. Latest
                              /\ script[job.end] # "none"
        BY NatFacts DEF IInv, JobInv
      <3>3. \A job \in jobs : script'[job.end] # "none"
        BY <1>4, <3>2 DEF Grows, Latest
      <3>4. \A a, b \in jobs : a.turn = b.turn => a = b
        BY DEF IInv, JobInv
      <3>. QED
        BY <2>2, <3>1, <3>2, <3>3, <3>4, NatFacts
    <2>. QED
      BY <2>1, <2>2
  <1>6. FileTypes' /\ DaemonTypes' /\ OutsideTypes'
    BY <1>2, <1>4, <1>5, TalkFacts, NatFacts, TalkTypes
  <1>7. CommitInv' /\ HubInv'
    BY <1>2, <1>4, HubKeeps
  <1>8. ControlInv'
    BY <1>2, <1>3, <1>4 DEF IInv, ControlInv
  <1>9. JobInv'
    <2>1. \A i \in 1 .. Latest : script'[i] = "marked" => i \in held'
      BY <1>1, <1>2, ReopenedFacts
    <2>. QED
      BY <1>2, <1>3, <1>4, <1>5, <2>1, NatFacts DEF JobInv
  <1>10. \A t \in 1 .. Latest : script'[t] # "none" => Safe(t)'
    <2>. SUFFICES ASSUME NEW t \in 1 .. Latest, script'[t] # "none" PROVE Safe(t)'
      OBVIOUS
    <2>1. script[t] # "none" /\ t \in 1 .. MaxTurns
      BY <1>2, <1>13, NatFacts
    <2>2. Safe(t) => Safe(t)'
      BY <1>2, <1>5, <2>1, NatFacts, SafeKeeps
    <2>3. CASE \E old \in jobs : old.turn = record
      <3>1. t \notin Loose
        BY <2>3, NatFacts DEF IInv, LooseInv
      <3>. QED
        BY <1>3, <2>1, <2>2, <3>1 DEF Loose
    <2>4. CASE e.kind = "closed" /\ ~\E old \in jobs : old.turn = record
      <3>1. t <= e.at
        BY <1>1, <2>1, <2>4, ReopenedFacts
      <3>2. e.at \in Nat /\ e.at > 0
        BY <1>13, <3>1, NatFacts
      <3>3. \E n \in jobs' : n.end = e.at
        BY <1>5, <2>4, <3>2
      <3>. QED
        BY <3>1, <3>3 DEF Safe
    <2>5. CASE e.kind = "held"
      BY <1>1, <1>2, <2>1, <2>5, ReopenedFacts DEF Safe
    <2>. QED
      BY <1>1, <2>3, <2>4, <2>5, ReopenedFacts
  <1>11. LooseInv'
    BY <1>4, <1>10 DEF LooseInv, Loose
  <1>12. SettleInv'
    <2>. SUFFICES ASSUME NEW job \in jobs', job.end \notin waived
                  PROVE  job.end <= Cut(script')
      BY <1>2 DEF SettleInv
    <2>1. CASE e.kind = "closed" /\ job.end = e.at
      BY <1>2, <1>4, <1>13, <2>1, NatFacts
    <2>2. CASE job \in jobs
      <3>1. job.end <= Cut(script) \/ (job.end = Latest /\ script[Latest] = "open")
        BY <2>2 DEF IInv, SettleInv
      <3>2. job.end = Latest /\ script[Latest] = "open" => Cut(script') = Latest
        <4>1. job.end = Latest /\ script[Latest] = "open" => script'[Latest] = "receipt"
          BY <1>2, <1>5, <1>13, NatFacts
        <4>2. Latest = Len(script') /\ Latest \in Nat
          BY <1>4, NatFacts DEF Latest
        <4>. QED
          BY <1>4, <1>5, <4>1, <4>2, CutFacts
      <3>. QED
        BY <1>4, <1>5, <3>1, <3>2, NatFacts
    <2>. QED
      BY <1>5, <2>1, <2>2
  <1>. QED
    BY <1>6, <1>7, <1>8, <1>9, <1>11, <1>12 DEF IInv

\* A turn's end, found and queued in part when the daemon dies.
LEMMA TornFacts ==
    ASSUME IInv, NEW st \in BOOLEAN, NEW e, e = TurnEnd(script, st), e.at > 0,
           e.kind \in {"closed", "open"}, NEW turn \in 1 .. Latest,
           NEW q, q \in RecordedInPart(jobs, [turn |-> turn, end |-> e.at])
    PROVE  /\ e.script \in Seq(Lines) /\ Len(e.script) = Latest /\ Grows(script, e.script)
           /\ \A i \in 1 .. Latest : /\ script[i] = "none" => e.script[i] = "none"
                                     /\ e.script[i] \in {script[i], "receipt"}
           /\ q \subseteq Job /\ \A a, b \in q : a.turn = b.turn => a = b
           /\ \A old \in jobs : \E n \in q : old.end <= n.end
           /\ \A job \in q : job \in jobs \/ job.end = e.at
           /\ \A job \in q : /\ job.turn <= Latest /\ job.end \in 1 .. Latest
                             /\ e.script[job.end] # "none"
           /\ q = jobs \/ \A t \in 1 .. Latest : script[t] # "none" => \E n \in q : t <= n.end
  <1>1. PICK s : s = script
    OBVIOUS
  <1>2. s \in Seq(Lines) /\ Latest = Len(s) /\ Len(s) \in Nat /\ e = TurnEnd(s, st)
    BY <1>1, NatFacts DEF Latest
  <1>3. /\ e.script \in Seq(Lines) /\ Len(e.script) = Len(s) /\ Grows(s, e.script)
        /\ \A i \in 1 .. Len(s) : /\ s[i] = "none" => e.script[i] = "none"
                                  /\ e.script[i] \in {s[i], "receipt"}
        /\ \A i \in 1 .. Len(s) : s[i] # "none" => i <= e.at
    BY <1>2, TurnEndFacts
  <1>4. /\ q \subseteq Job /\ \A a, b \in q : a.turn = b.turn => a = b
        /\ \A old \in jobs : \E n \in q : old.end <= n.end
        /\ \A job \in q : job \in jobs \/ (job.turn = turn /\ job.end = e.at)
        /\ \A job \in q : /\ job.turn <= Latest /\ job.end \in 1 .. Latest
                          /\ e.script[job.end] # "none"
    BY TurnQueued
  <1>5. q = jobs \/ \E n \in q : n.end = e.at
    <2>1. PICK new : new = [turn |-> turn, end |-> e.at]
      OBVIOUS
    <2>2. q \in RecordedInPart(jobs, new) /\ new.end = e.at
      BY <2>1
    <2>3. q = jobs \/ new \in q
      BY <2>2 DEF RecordedInPart
    <2>. QED
      BY <2>2, <2>3
  <1>6. q = jobs \/ \A t \in 1 .. Latest : script[t] # "none" => \E n \in q : t <= n.end
    BY <1>1, <1>2, <1>3, <1>5
  <1>. QED
    BY <1>1, <1>2, <1>3, <1>4, <1>6

\* The files a dying daemon leaves: a turn's end queued completely, in part or not
\* at all.
LEMMA LeftFacts ==
    ASSUME IInv, NEW left \in Left, NEW s2, s2 = left[1], NEW q, q = left[2]
    PROVE  /\ s2 \in Seq(Lines) /\ Len(s2) = Latest /\ Grows(script, s2)
           /\ \A i \in 1 .. Latest : /\ script[i] = "none" => s2[i] = "none"
                                     /\ s2[i] \in {script[i], "receipt"}
           /\ q \subseteq Job /\ \A a, b \in q : a.turn = b.turn => a = b
           /\ \A old \in jobs : \E n \in q : old.end <= n.end
           /\ \A job \in q : /\ job.turn <= Latest /\ job.end \in 1 .. Latest
                             /\ s2[job.end] # "none"
           /\ q = jobs \/ \A t \in 1 .. Latest : script[t] # "none" => \E n \in q : t <= n.end
           /\ \A job \in q : \/ job \in jobs \/ job.end <= Cut(s2)
                             \/ late /\ job.end = Latest
           /\ late => s2 = script
           /\ sup.at # "over" /\ up # "queueing" => s2 = script /\ q = jobs
  <1>1. CASE left = <<script, jobs>>
    <2>1. s2 = script /\ q = jobs
      BY <1>1
    <2>2. \A job \in jobs : /\ job.turn <= Latest /\ job.end \in 1 .. Latest
                            /\ script[job.end] # "none"
      BY NatFacts DEF IInv, JobInv
    <2>3. \A a, b \in jobs : a.turn = b.turn => a = b
      BY DEF IInv, JobInv
    <2>4. \A old \in jobs : \E n \in jobs : old.end <= n.end
      BY NatFacts
    <2>5. Grows(script, script) /\ Len(script) = Latest
      BY NatFacts, GrowsSame DEF Latest
    <2>. QED
      BY <2>1, <2>2, <2>3, <2>4, <2>5, NatFacts
  <1>2. CASE left # <<script, jobs>> /\ sup.at = "over"
    <2>1. PICK e, st : e = Ended /\ st = (sup.ending \in {"error", "exit"})
      OBVIOUS
    <2>2. PICK t : t = Latest
      OBVIOUS
    <2>3. /\ Queues /\ e.at > 0 /\ s2 = e.script
          /\ q \in RecordedInPart(jobs, [turn |-> t, end |-> e.at])
      <3>1. /\ Queues /\ Ended.at > 0
            /\ left \in Torn(Ended, [turn |-> Latest, end |-> Ended.at])
        <4>1. up # "queueing"
          BY <1>2, TalkFacts
        <4>. QED
          BY <1>2, <4>1 DEF Left
      <3>2. e = Ended
        BY <2>1
      <3>. QED
        BY <2>2, <3>1, <3>2 DEF Torn
    <2>4. st \in BOOLEAN /\ e = TurnEnd(script, st)
      BY <2>1 DEF Ended
    <2>5. /\ e.kind = "closed" \/ (e.kind = "open" /\ late /\ e.at = Latest)
          /\ e.kind = "closed" => e.at = Cut(e.script)
          /\ late => e.script = script
      BY <1>2, <2>1, <2>3, EndedFacts DEF Queues
    <2>6. t \in 1 .. Latest
      BY <1>2, <2>2, NatFacts DEF IInv, ControlInv, InTurn
    <2>7. /\ e.script \in Seq(Lines) /\ Len(e.script) = Latest /\ Grows(script, e.script)
          /\ \A i \in 1 .. Latest : /\ script[i] = "none" => e.script[i] = "none"
                                    /\ e.script[i] \in {script[i], "receipt"}
          /\ q \subseteq Job /\ \A a, b \in q : a.turn = b.turn => a = b
          /\ \A old \in jobs : \E n \in q : old.end <= n.end
          /\ \A job \in q : job \in jobs \/ job.end = e.at
          /\ \A job \in q : /\ job.turn <= Latest /\ job.end \in 1 .. Latest
                            /\ e.script[job.end] # "none"
          /\ q = jobs \/ \A i \in 1 .. Latest : script[i] # "none" => \E n \in q : i <= n.end
      BY <2>3, <2>4, <2>5, <2>6, TornFacts
    <2>8. \A job \in q : \/ job \in jobs \/ job.end <= Cut(s2)
                         \/ late /\ job.end = Latest
      BY <2>3, <2>5, <2>7, NatFacts
    <2>. QED
      BY <1>2, <2>3, <2>5, <2>7, <2>8
  <1>3. CASE left # <<script, jobs>> /\ sup.at # "over"
    <2>1. PICK e : e = Reopened
      OBVIOUS
    <2>2. PICK t : t = record
      OBVIOUS
    <2>3. /\ up = "queueing" /\ e.kind = "closed" /\ e.at > 0 /\ s2 = e.script
          /\ q \in RecordedInPart(jobs, [turn |-> t, end |-> e.at])
      BY <1>3, <2>1, <2>2 DEF Left, Torn, QueuesOpen
    <2>4. PICK st \in BOOLEAN : e = TurnEnd(script, st)
      BY <2>1, ReopenedFacts
    <2>5. e.at = Cut(e.script) /\ ~late
      BY <2>1, <2>3, ReopenedFacts DEF IInv, ControlInv
    <2>6. t \in 1 .. Latest
      BY <2>2, <2>3, NatFacts DEF IInv, ControlInv
    <2>7. /\ e.script \in Seq(Lines) /\ Len(e.script) = Latest /\ Grows(script, e.script)
          /\ \A i \in 1 .. Latest : /\ script[i] = "none" => e.script[i] = "none"
                                    /\ e.script[i] \in {script[i], "receipt"}
          /\ q \subseteq Job /\ \A a, b \in q : a.turn = b.turn => a = b
          /\ \A old \in jobs : \E n \in q : old.end <= n.end
          /\ \A job \in q : job \in jobs \/ job.end = e.at
          /\ \A job \in q : /\ job.turn <= Latest /\ job.end \in 1 .. Latest
                            /\ e.script[job.end] # "none"
          /\ q = jobs \/ \A i \in 1 .. Latest : script[i] # "none" => \E n \in q : i <= n.end
      BY <2>3, <2>4, <2>6, TornFacts
    <2>8. \A job \in q : job \in jobs \/ job.end <= Cut(s2)
      BY <2>3, <2>5, <2>7, NatFacts
    <2>. QED
      BY <2>3, <2>5, <2>7, <2>8
  <1>. QED
    BY <1>1, <1>2, <1>3

\* The daemon dies: the turn that ran was recorded, or the frame that announced it
\* is lost with the daemon.
LEMMA CrashStep == ASSUME IInv, Crash PROVE IInv'
  <1>1. /\ up # "down" /\ up' = "down" /\ sup' = NoSession /\ frames' = <<>> /\ rec' = NoAttempt
        /\ pub' = [p \in Pubs |-> Idle] /\ parked' = [t \in Turns |-> "none"]
        /\ waived' = waived \cup {frames[i].turn : i \in {n \in DOMAIN frames : frames[n].kind = "started"}}
        /\ UNCHANGED <<record, base, outbox, remote, mood, late, held>>
    BY DEF Crash, Pubs
  <1>2. PICK left \in Left : script' = left[1] /\ jobs' = left[2]
    BY DEF Crash
  <1>3. /\ sup.at = "running" => orphan' = "busy"
        /\ sup.at \in {"idle", "over"} => orphan' \in {"idle", orphan}
        /\ sup.at \notin {"running", "idle", "over"} => orphan' = orphan
    BY DEF Crash
  <1>4. /\ script' \in Seq(Lines) /\ Len(script') = Latest /\ Grows(script, script')
        /\ \A i \in 1 .. Latest : /\ script[i] = "none" => script'[i] = "none"
                                  /\ script'[i] \in {script[i], "receipt"}
        /\ jobs' \subseteq Job /\ \A a, b \in jobs' : a.turn = b.turn => a = b
        /\ \A old \in jobs : \E n \in jobs' : old.end <= n.end
        /\ \A job \in jobs' : /\ job.turn <= Latest /\ job.end \in 1 .. Latest
                              /\ script'[job.end] # "none"
        /\ jobs' = jobs \/ \A t \in 1 .. Latest : script[t] # "none" => \E n \in jobs' : t <= n.end
        /\ \A job \in jobs' : \/ job \in jobs \/ job.end <= Cut(script')
                              \/ late /\ job.end = Latest
        /\ late => script' = script
        /\ sup.at # "over" /\ up # "queueing" => script' = script /\ jobs' = jobs
    <2>1. PICK s2, q : s2 = left[1] /\ q = left[2]
      OBVIOUS
    <2>2. script' = s2 /\ jobs' = q
      BY <1>2, <2>1
    <2>. QED
      BY <1>2, <2>1, <2>2, LeftFacts
  <1>5. Latest' = Latest /\ Cut(script) <= Cut(script') /\ Cut(script') \in 0 .. Latest
    BY <1>4, NatFacts, CutGrows, CutFacts DEF Latest
  <1>6. /\ sup'.at = "off" /\ sup' \in SupType /\ rec'.stage = "none" /\ ~InTurn'
        /\ orphan' \in {"none", "idle", "busy"}
    <2>1. sup'.at = "off" /\ sup' \in SupType /\ rec'.stage = "none"
      BY <1>1, IdleFacts DEF NoSession, NoAttempt, SupType
    <2>2. orphan' \in {"none", "idle", "busy"}
      BY <1>3, TalkFacts
    <2>. QED
      BY <2>1, <2>2 DEF InTurn
  <1>7. waived' \subseteq Turns /\ waived \subseteq waived'
    BY <1>1, FrameFacts, NatFacts DEF Turns
  <1>8. FileTypes' /\ OutsideTypes'
    BY <1>1, <1>4, <1>5, <1>6, <1>7 DEF IInv, FileTypes, OutsideTypes
  <1>9. DaemonTypes'
    <2>1. pub' \in [Pubs -> Attempt] /\ frames' \in Seq(Frame)
      BY <1>1, IdleFacts
    <2>2. parked' \in [Turns -> {"none", "privacy", "off"}]
      BY <1>1
    <2>. QED
      BY <1>1, <1>6, <2>1, <2>2, IdleFacts DEF DaemonTypes, SupType
  <1>10. CommitInv' /\ HubInv'
    <2>1. \A p \in Pubs : pub'[p].src = 0 /\ pub'[p].left = {} /\ pub'[p].stage = "none"
      BY <1>1 DEF Idle
    <2>2. CommitInv'
      BY <1>1, <1>5, <2>1, NatFacts DEF IInv, CommitInv
    <2>3. HubInv'
      BY <1>1, <2>1 DEF IInv, HubInv, ReceiptIsTrue, Pubs
    <2>. QED
      BY <2>2, <2>3
  <1>11. ControlInv'
    <2>1. DOMAIN frames' = {}
      BY <1>1
    <2>. QED
      BY <1>1, <1>4, <1>5, <1>6, <2>1 DEF IInv, ControlInv
  <1>12. InTurn => Latest \in waived' \/ (record = Latest /\ \A job \in jobs : job.turn < Latest)
    <2>. SUFFICES ASSUME InTurn, Latest \notin waived'
                  PROVE  record = Latest
      BY DEF IInv, JobInv
    <2>1. Announced
      BY DEF IInv, ControlInv
    <2>2. CASE frames = <<>>
      BY <2>1, <2>2 DEF Announced
    <2>3. CASE frames # <<>>
      <3>1. frames[Len(frames)] = [kind |-> "started", turn |-> Latest]
        BY <2>1, <2>3 DEF Announced
      <3>2. Len(frames) \in DOMAIN frames
        BY <2>3, FrameFacts
      <3>. QED
        BY <1>1, <3>1, <3>2
    <2>. QED
      BY <2>2, <2>3
  <1>13. JobInv'
    <2>1. \A i \in 1 .. Latest : script'[i] = "marked" => i \in held
      BY <1>4 DEF IInv, JobInv
    <2>2. orphan' = "busy" =>
             /\ Latest > 0
             /\ Latest \in waived' \/ (record = Latest /\ \A job \in jobs' : job.turn < Latest)
      <3>. SUFFICES ASSUME orphan' = "busy"
                    PROVE  /\ Latest > 0
                           /\ \/ Latest \in waived'
                              \/ record = Latest /\ \A job \in jobs' : job.turn < Latest
        OBVIOUS
      <3>1. CASE sup.at = "running"
        <4>1. jobs' = jobs /\ InTurn /\ Latest > 0
          BY <1>4, <3>1, TalkFacts DEF InTurn, IInv, ControlInv
        <4>. QED
          BY <1>12, <4>1
      <3>2. CASE sup.at # "running"
        <4>1. orphan = "busy"
          BY <1>3, <3>2
        <4>2. jobs' = jobs
          BY <1>4, <4>1 DEF IInv, ControlInv
        <4>. QED
          BY <1>7, <4>1, <4>2 DEF IInv, JobInv
      <3>. QED
        BY <3>1, <3>2
    <2>. QED
      BY <1>1, <1>4, <1>5, <1>6, <2>1, <2>2, NatFacts DEF JobInv
  <1>14. LooseInv'
    <2>. SUFFICES ASSUME NEW t \in 1 .. Latest, script'[t] # "none", ~Safe(t)'
                  PROVE  t <= record /\ \A job \in jobs' : job.turn < record
      BY <1>1, <1>5 DEF LooseInv, Loose
    <2>1. script[t] # "none" /\ t \in 1 .. MaxTurns
      BY <1>4, NatFacts
    <2>2. jobs' = jobs
      BY <1>4, <2>1 DEF Safe
    <2>3. ~Safe(t)
      BY <1>1, <1>4, <1>7, <2>1, NatFacts, SafeKeeps
    <2>4. CASE InTurn /\ t = Latest
      <3>1. Latest \notin waived'
        BY <2>4 DEF Safe
      <3>. QED
        BY <1>12, <2>2, <2>4, <3>1, NatFacts
    <2>5. CASE ~(InTurn /\ t = Latest)
      <3>1. t \in Loose
        BY <2>1, <2>3, <2>5 DEF Loose
      <3>. QED
        BY <2>2, <3>1 DEF IInv, LooseInv
    <2>. QED
      BY <2>4, <2>5
  <1>15. SettleInv'
    <2>. SUFFICES ASSUME NEW job \in jobs', job.end > Cut(script'), job.end \notin waived'
                  PROVE  /\ job.end = Latest /\ script'[Latest] = "open"
                         /\ late \/ (record # 0 /\ orphan' = "none")
      BY <1>1, <1>4, <1>5, NatFacts DEF SettleInv
    <2>1. CASE late /\ job.end = Latest
      BY <1>4, <2>1 DEF IInv, ControlInv
    <2>2. CASE job \in jobs /\ ~late
      <3>1. job.end \in 1 .. Latest /\ ~(job.end <= Cut(script)) /\ job.end \notin waived
        BY <1>4, <1>5, <1>7, NatFacts
      <3>2. /\ job.end = Latest /\ script[Latest] = "open"
            /\ record # 0 /\ up \in {"down", "closing", "queueing"} /\ orphan = "none"
        BY <2>2, <3>1 DEF IInv, SettleInv
      <3>3. sup.at = "off" /\ orphan' = "none"
        BY <1>3, <3>2 DEF IInv, ControlInv
      <3>4. script'[Latest] \notin {"done", "receipt"}
        <4>1. Latest = Len(script') /\ Latest \in 1 .. Latest
          BY <1>4, <3>1, <3>2
        <4>. QED
          BY <1>4, <1>5, <3>2, <4>1, CutFacts
      <3>5. script'[Latest] = "open"
        BY <1>4, <3>1, <3>2, <3>4
      <3>. QED
        BY <3>2, <3>3, <3>5
    <2>3. CASE job \in jobs /\ late
      <3>1. job.end \in 1 .. Latest /\ ~(job.end <= Cut(script)) /\ job.end \notin waived
        BY <1>4, <1>5, <1>7, NatFacts
      <3>2. job.end = Latest /\ script[Latest] = "open"
        BY <2>3, <3>1 DEF IInv, SettleInv
      <3>. QED
        BY <1>4, <2>3, <3>2
    <2>. QED
      BY <1>4, <1>5, <2>1, <2>2, <2>3, NatFacts
  <1>. QED
    BY <1>8, <1>9, <1>10, <1>11, <1>13, <1>14, <1>15 DEF IInv

----------------------------------------------------------------------------
(* Theorems *)

\* A new conversation: nothing was said, queued or published.
LEMMA InvInit == ASSUME Init PROVE IInv
  <1>1. /\ script = <<>> /\ record = 0 /\ jobs = {} /\ base = 0 /\ remote = 0
        /\ outbox = [p \in 0 .. MaxTurns |-> "none"]
        /\ up = "up" /\ sup = NoSession /\ frames = <<>> /\ rec = NoAttempt
        /\ pub = [p \in Pubs |-> Idle] /\ parked = [t \in Turns |-> "none"]
        /\ mood \in Moods /\ orphan = "none" /\ late = FALSE /\ held = {} /\ waived = {}
    BY DEF Init, Pubs
  <1>2. script \in Seq(Lines) /\ Latest = 0 /\ MaxTurns \in Nat /\ frames \in Seq(Frame)
    BY <1>1, BoundsAssumption DEF Latest
  <1>3. FileTypes /\ OutsideTypes
    BY <1>1, <1>2 DEF FileTypes, OutsideTypes
  <1>4. /\ sup.at = "off" /\ rec.stage = "none" /\ DOMAIN frames = {} /\ ~InTurn
        /\ \A p \in Pubs : pub[p].src = 0 /\ pub[p].left = {} /\ pub[p].stage = "none"
    BY <1>1, IdleFacts DEF NoSession, NoAttempt, Idle, InTurn
  <1>5. DaemonTypes
    <2>1. sup \in [at : {"off", "idle", "running", "over", "leaving"},
                   ending : Ending \cup {"none"}, due : BOOLEAN]
      BY <1>1 DEF NoSession
    <2>2. parked \in [Turns -> {"none", "privacy", "off"}] /\ pub \in [Pubs -> Attempt]
      BY <1>1, IdleFacts
    <2>. QED
      BY <1>1, <1>2, <1>4, <2>1, <2>2, IdleFacts DEF DaemonTypes
  <1>6. ControlInv
    BY <1>1, <1>2, <1>4 DEF ControlInv
  <1>7. CommitInv /\ HubInv
    <2>1. Cut(script) \in Nat
      BY <1>2, CutFacts
    <2>. QED
      BY <1>1, <1>4, <2>1 DEF CommitInv, HubInv, ReceiptIsTrue, Pubs
  <1>8. JobInv /\ LooseInv /\ SettleInv
    BY <1>1, <1>2, <1>4 DEF JobInv, LooseInv, Loose, SettleInv
  <1>. QED
    BY <1>3, <1>5, <1>6, <1>7, <1>8 DEF IInv

\* A step of something else.
LEMMA InvStutter == ASSUME IInv, UNCHANGED vars PROVE IInv'
  <1>1. /\ UNCHANGED <<script, record, jobs, base, outbox, remote>>
        /\ UNCHANGED <<up, sup, frames, rec, pub, parked>>
        /\ UNCHANGED <<mood, orphan, late, held, waived>>
    BY DEF vars, files, daemon, outside, history
  <1>2. FileTypes' /\ OutsideTypes' /\ DaemonTypes'
    BY <1>1 DEF IInv, FileTypes, OutsideTypes, DaemonTypes, Latest
  <1>3. CommitInv' /\ HubInv'
    BY <1>1, NatFacts, GrowsSame, HubKeeps
  <1>4. ControlInv' /\ JobInv' /\ LooseInv' /\ SettleInv'
    BY <1>1, NatFacts, TalkKeeps DEF talk, IInv, ControlInv
  <1>. QED
    BY <1>2, <1>3, <1>4 DEF IInv

\* Every step keeps the invariant.
LEMMA InvStep == ASSUME IInv, [Next]_vars PROVE IInv'
  <1>1. CASE SupNext
    <2>1. CASE Prompt
      BY <2>1, PromptStep
    <2>2. CASE HarnessWrites
      BY <2>2, HarnessStep
    <2>3. CASE LateLine
      BY <2>3, LateStep
    <2>4. CASE Retain
      BY <2>4, RetainStep
    <2>5. CASE RetainFails
      BY <2>5, RetainFailsStep
    <2>6. CASE StopTurn
      BY <2>6, StopTurnStep
    <2>7. CASE StopIdle \/ Leave
      BY <2>7, SessionStep
    <2>8. CASE SupCommit
      BY <2>8, SupCommitStep
    <2>9. CASE SupBegin
      BY <2>9, SupBeginStep
    <2>10. CASE \E e \in Ending : End(e)
      BY <2>10, EndStep
    <2>. QED
      BY <1>1, <2>1, <2>2, <2>3, <2>4, <2>5, <2>6, <2>7, <2>8, <2>9, <2>10 DEF SupNext
  <1>2. CASE PubNext
    <2>1. PICK p \in Pubs : Push(p) \/ Confirm(p) \/ RemoveJob(p)
      BY <1>2 DEF PubNext, Publishes, Pubs
    <2>. QED
      BY <2>1, PushStep, ConfirmStep, RemoveJobStep
  <1>3. CASE Reserve \/ GiveUp \/ RecCommit
    BY <1>3, RecoverStep
  <1>4. CASE DropKept
    BY <1>4, DropKeptStep
  <1>5. CASE RecBegin
    BY <1>5, RecBeginStep
  <1>6. CASE Resume
    BY <1>6, SessionStep
  <1>7. CASE Project
    BY <1>7, ProjectStep
  <1>8. CASE Start \/ Retry
    BY <1>8, StartStep
  <1>9. CASE Close
    BY <1>9, CloseStep
  <1>10. CASE QueueOpen
    BY <1>10, QueueOpenStep
  <1>11. CASE SaveRecovered
    BY <1>11, SaveStep
  <1>12. CASE Crash
    BY <1>12, CrashStep
  <1>13. CASE OrphanEnds
    BY <1>13, OrphanStep
  <1>14. CASE MoodChanges
    BY <1>14, MoodStep
  <1>15. CASE UNCHANGED vars
    BY <1>15, InvStutter
  <1>. QED
    BY <1>1, <1>2, <1>3, <1>4, <1>5, <1>6, <1>7, <1>8, <1>9, <1>10, <1>11, <1>12, <1>13,
       <1>14, <1>15 DEF Next, Recovers, Boots

\* The inductive invariant holds in every reachable state.
THEOREM Invariant == Spec => []IInv
  <1>1. Init => IInv
    BY InvInit
  <1>2. IInv /\ [Next]_vars => IInv'
    BY InvStep
  <1>. QED
    BY <1>1, <1>2, PTL DEF Spec

\* The variables have their types; a publication is of a committed prefix, and a
\* turn has one job (archive_jobs.rs).
THEOREM TypeCorrect == Spec => []TypeOK
  <1>1. IInv => TypeOK
    <2>. SUFFICES ASSUME IInv PROVE TypeOK
      OBVIOUS
    <2>1. \A p \in Pubs : /\ pub[p].src <= base /\ pub[p].left \subseteq Job
                          /\ pub[p].stage \in {"none", "committed", "pushing", "pushed", "removing"}
      BY DEF IInv, CommitInv, DaemonTypes, Attempt
    <2>2. rec.stage \in {"none", "landing", "committed"} /\ rec.yield \in BOOLEAN
      BY DEF IInv, DaemonTypes
    <2>3. /\ script \in Seq({"none", "open", "done", "marked", "receipt"}) /\ Latest <= MaxTurns
          /\ record \in 0 .. MaxTurns /\ jobs \subseteq Job
          /\ {base, remote} \subseteq 0 .. MaxTurns
          /\ outbox \in [0 .. MaxTurns -> {"none", "intent", "published"}]
      BY DEF IInv, FileTypes, Lines
    <2>4. frames \in Seq([kind : {"started", "completed"}, turn : Turns])
      BY DEF IInv, DaemonTypes, Frame
    <2>5. /\ up \in {"down", "closing", "queueing", "saving", "up"}
          /\ sup \in [at : {"off", "idle", "running", "over", "leaving"},
                      ending : Ending \cup {"none"}, due : BOOLEAN]
          /\ parked \in [Turns -> {"none", "privacy", "off"}]
      BY DEF IInv, DaemonTypes
    <2>6. /\ mood \in Moods /\ orphan \in {"none", "idle", "busy"} /\ late \in BOOLEAN
          /\ held \subseteq Turns /\ waived \subseteq Turns
      BY DEF IInv, OutsideTypes
    <2>7. \A a, b \in jobs : a.turn = b.turn => a = b
      BY DEF IInv, JobInv
    <2>. QED
      BY <2>1, <2>2, <2>3, <2>4, <2>5, <2>6, <2>7 DEF TypeOK, Pubs
  <1>. QED
    BY <1>1, Invariant, PTL

\* No turn is forgotten, however often the daemon dies and at whatever step: what
\* no job, publication, person or report accounts for is recorded as open
\* (roster.open_turns), or a live supervisor holds it.
THEOREM NothingForgotten == Spec => []NoTurnForgotten
  <1>1. IInv => NoTurnForgotten
    <2>. SUFFICES ASSUME IInv, NEW t \in Written(script), t \notin waived,
                         ~(t <= remote), ~(t <= record), ~InTurn,
                         ~\E job \in jobs : t <= job.end, ~\E k \in held : t <= k
                  PROVE  FALSE
      BY DEF NoTurnForgotten, InTurn
    <2>1. t \in 1 .. Latest /\ script[t] # "none"
      BY NatFacts DEF Written, Latest
    <2>2. t \in Loose
      BY <2>1 DEF Loose, Safe
    <2>. QED
      BY <2>2 DEF IInv, LooseInv
  <1>. QED
    BY <1>1, Invariant, PTL

\* The outbox's receipts are true, and publication_confirmed removes only what the
\* hub holds.
THEOREM ReceiptsTrue == Spec => []ReceiptIsTrue
  <1>1. IInv => ReceiptIsTrue
    BY DEF IInv, HubInv
  <1>. QED
    BY <1>1, Invariant, PTL

\* Recovery and a live session never both commit to the conversation's branch.
THEOREM SingleCommitter == Spec => []OneCommitter
  <1>1. IInv => OneCommitter
    BY DEF IInv, ControlInv, OneCommitter
  <1>. QED
    BY <1>1, Invariant, PTL

\* No queued job waits for an end that never comes.
THEOREM EveryJobSettles == Spec => []JobsCanSettle
  <1>1. IInv => JobsCanSettle
    BY DEF IInv, SettleInv, JobsCanSettle
  <1>. QED
    BY <1>1, Invariant, PTL

\* What a step may remove from the queue.
Leaves == \A job \in jobs \ jobs' :
             \/ job.end <= remote \/ mood = "kept" \/ \E new \in jobs' : job.end <= new.end

\* Job::record, as the supervisor and recovery call it, contains what it replaces.
LEMMA QueuedKeeps ==
    ASSUME IInv, NEW st \in BOOLEAN, NEW e, e = TurnEnd(script, st), e.at > 0,
           NEW turn \in 1 .. Latest, jobs' = Recorded(jobs, [turn |-> turn, end |-> e.at])
    PROVE  \A old \in jobs : \E n \in jobs' : old.end <= n.end
  <1>1. PICK new : new = [turn |-> turn, end |-> e.at]
    OBVIOUS
  <1>2. turn \in Turns /\ e.at \in Turns
    BY NatFacts, TurnEndFacts DEF Turns, Latest
  <1>3. new \in Job /\ jobs \in SUBSET Job
    BY <1>1, <1>2, NatFacts DEF Job
  <1>4. jobs' \in RecordedInPart(jobs, new)
    BY <1>1, <1>3, RecordedWhole
  <1>5. \A a, b \in jobs : a.turn = b.turn => a = b
    BY DEF IInv, JobInv
  <1>. QED
    BY <1>3, <1>4, <1>5, RecordedFacts

\* A job goes published, contained in another, or without consent.
LEMMA LeavesStep == ASSUME IInv, [Next]_vars PROVE Leaves
  <1>1. CASE jobs' = jobs
    BY <1>1 DEF Leaves
  <1>2. CASE Retain /\ jobs' # jobs
    <2>1. PICK e, t : e = Ended /\ t = Latest
      OBVIOUS
    <2>2. sup.at = "over" /\ e.at > 0 /\ jobs' = Recorded(jobs, [turn |-> t, end |-> e.at])
      BY <1>2, <2>1 DEF Retain
    <2>3. PICK st \in BOOLEAN : e = TurnEnd(script, st)
      <3>1. (sup.ending \in {"error", "exit"}) \in BOOLEAN
        OBVIOUS
      <3>2. e = TurnEnd(script, sup.ending \in {"error", "exit"})
        BY <2>1 DEF Ended
      <3>. QED
        BY <3>1, <3>2, Zenon
    <2>4. t \in 1 .. Latest
      BY <2>1, <2>2, NatFacts DEF IInv, ControlInv, InTurn
    <2>. QED
      BY <2>2, <2>3, <2>4, QueuedKeeps DEF Leaves
  <1>3. CASE QueueOpen /\ jobs' # jobs
    <2>1. PICK e, t : e = Reopened /\ t = record
      OBVIOUS
    <2>2. up = "queueing" /\ e.at > 0 /\ jobs' = Recorded(jobs, [turn |-> t, end |-> e.at])
      BY <1>3, <2>1 DEF QueueOpen, QueuesOpen
    <2>3. PICK st \in BOOLEAN : e = TurnEnd(script, st)
      BY <2>1 DEF Reopened
    <2>4. t \in 1 .. Latest
      BY <2>1, <2>2, NatFacts DEF IInv, ControlInv
    <2>. QED
      BY <2>2, <2>3, <2>4, QueuedKeeps DEF Leaves
  <1>4. CASE Crash
    <2>1. PICK left \in Left : script' = left[1] /\ jobs' = left[2]
      BY <1>4 DEF Crash
    <2>2. PICK s2, q : s2 = left[1] /\ q = left[2]
      OBVIOUS
    <2>3. \A old \in jobs : \E n \in q : old.end <= n.end
      BY <2>1, <2>2, LeftFacts
    <2>. QED
      BY <2>1, <2>2, <2>3 DEF Leaves
  <1>5. CASE \E p \in Pubs : RemoveJob(p)
    <2>1. PICK p \in Pubs : RemoveJob(p)
      BY <1>5
    <2>2. \A job \in jobs \ jobs' : job \in pub[p].left
      BY <2>1 DEF RemoveJob
    <2>. QED
      BY <2>1, <2>2 DEF Leaves, IInv, HubInv, ReceiptIsTrue, Pubs
  <1>6. CASE DropKept
    BY <1>6 DEF DropKept, Leaves
  <1>7. \/ jobs' = jobs \/ Retain \/ QueueOpen \/ Crash \/ DropKept
        \/ \E p \in Pubs : RemoveJob(p)
    <2>1. CASE SupNext
      <3>1. CASE Prompt \/ HarnessWrites \/ LateLine \/ SupCommit \/ SupBegin
        BY <3>1 DEF Prompt, HarnessWrites, LateLine, SupCommit, SupBegin
      <3>2. CASE RetainFails \/ StopTurn \/ StopIdle \/ Leave
        BY <3>2 DEF RetainFails, StopTurn, StopIdle, Leave, files
      <3>3. CASE \E e \in Ending : End(e)
        BY <3>3 DEF End
      <3>. QED
        BY <2>1, <3>1, <3>2, <3>3 DEF SupNext
    <2>2. CASE PubNext
      BY <2>2 DEF PubNext, Publishes, Push, Confirm, Pubs
    <2>3. CASE Reserve \/ Recovers
      BY <2>3 DEF Reserve, Recovers, GiveUp, RecCommit, RecBegin, files
    <2>4. CASE Resume \/ Project \/ Boots \/ Retry
      BY <2>4 DEF Resume, Project, Boots, Start, Close, SaveRecovered, Retry, files
    <2>5. CASE OrphanEnds \/ MoodChanges
      BY <2>5 DEF OrphanEnds, MoodChanges, files
    <2>6. CASE UNCHANGED vars
      BY <2>6 DEF vars, files
    <2>. QED
      BY <2>1, <2>2, <2>3, <2>4, <2>5, <2>6 DEF Next
  <1>. QED
    BY <1>1, <1>2, <1>3, <1>4, <1>5, <1>6, <1>7

\* A queued job leaves the queue on the hub, contained in a newer job, or with its
\* consent withdrawn, also when the daemon dies in the middle of Job::record.
THEOREM JobsLeaveSafely == Spec => JobsLeavePublished
  <1>1. IInv /\ [Next]_vars => [Leaves]_vars
    BY LeavesStep
  <1>. QED
    BY <1>1, Invariant, PTL DEF Spec, JobsLeavePublished, Leaves

=============================================================================
