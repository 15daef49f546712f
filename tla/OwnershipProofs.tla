-------------------------- MODULE OwnershipProofs --------------------------
(***************************************************************************)
(* That the lock, the record and the evidence suffice, for any number of   *)
(* daemons, older builds and probing commands, and any order of their      *)
(* steps and deaths: a listening daemon keeps the socket, an "absent"      *)
(* answer is true, and a recorded socket can be reclaimed.                 *)
(***************************************************************************)
EXTENDS Ownership, TLAPS

\* A daemon of an older build knows none of the steps of listen_in.
LegacyInv == \A p \in Legacy : pc[p] \in {"off", "bound", "serving", "gone"}

\* Between remove_stale's verdict and its unlink the file is still there, so
\* nobody can have bound a new one: nobody listens.
UnlinkInv ==
    \A p \in Daemons : pc[p] = "unlink" => path # None /\ \A q \in Procs : ~Listening(q)

\* While every death was clean, a file at the path is named by the record or is
\* about to be, by the daemon that has just bound it.
RecordInv ==
    intact => \/ path = None \/ record = path
              \/ path \in Daemons /\ pc[path] \in {"bound", "truncated"}

IInv == TypeOK /\ LegacyInv /\ LiveKeepsSocket /\ UnlinkInv /\ RecordInv

\* The evidence is good: with no other daemon of this build alive, a file that
\* verify_stale accepts has nobody listening on it, and neither has any other.
LEMMA EvidenceIsGood ==
    ASSUME TypeOK, LegacyInv, LiveKeepsSocket, NEW me, NEW asked \in BOOLEAN,
           \A d \in Daemons : ~Listening(d), path # None, VerifyStale(me, asked)
    PROVE  \A q \in Procs : ~Listening(q)
  <1>. SUFFICES ASSUME NEW q \in Procs, Listening(q) PROVE FALSE
    OBVIOUS
  <1>1. path = q /\ q \notin Daemons
    BY DEF LiveKeepsSocket
  <1>2. path # Copied
    BY <1>1, OwnershipAssumption
  <1>3. record # path
    BY <1>1 DEF VerifyStale, TypeOK
  <1>. QED
    BY <1>1, <1>2, <1>3 DEF VerifyStale

\* Whoever holds the lock is the only daemon alive; a prober holding it shows
\* that none is.
LEMMA LockExcludes ==
    ASSUME TypeOK
    PROVE  /\ \A p, q \in Daemons : lock = p /\ Alive(q) => q = p
           /\ lock \notin Daemons => \A q \in Daemons : ~Alive(q) /\ ~Listening(q)
  BY DEF TypeOK, Listening, Alive, Bound

\* Nothing runs and nothing is there.
LEMMA InvInit == Init => IInv
  <1>. SUFFICES ASSUME Init PROVE IInv
    OBVIOUS
  <1>1. TypeOK
    BY OwnershipAssumption DEF Init, TypeOK, Steps, Alive, Procs
  <1>. QED
    BY <1>1 DEF Init, IInv, LegacyInv, LiveKeepsSocket, UnlinkInv, RecordInv, Listening, Bound, Procs

\* acquire takes a free lock, and then no other daemon is alive; or the start is over.
LEMMA AcquireStep == ASSUME IInv, NEW p \in Daemons, Acquire(p) PROVE IInv'
  BY OwnershipAssumption DEF IInv, TypeOK, LegacyInv, LiveKeepsSocket, UnlinkInv, RecordInv,
     Listening, Bound, Alive, Procs, Acquire, Exit, Goto, Steps, LivePids

\* Connecting to the socket changes no file.
LEMMA ConnectStep == ASSUME IInv, NEW p \in Daemons, Connect(p) PROVE IInv'
  BY OwnershipAssumption DEF IInv, TypeOK, LegacyInv, LiveKeepsSocket, UnlinkInv, RecordInv,
     Listening, Bound, Alive, Procs, Connect, Exit, Goto, Steps

\* A first verdict changes no file either, whatever it is.
LEMMA VerdictStep == ASSUME IInv, NEW p \in Daemons, Verdict(p) PROVE IInv'
  BY OwnershipAssumption DEF IInv, TypeOK, LegacyInv, LiveKeepsSocket, UnlinkInv, RecordInv,
     Listening, Bound, Alive, Procs, Verdict, Exit, Goto, Steps

\* remove_stale goes on to unlink only when nobody listens: the holder of the lock is
\* no listener yet, other daemons of this build are excluded, and the evidence is good.
LEMMA RemoveStaleStep == ASSUME IInv, NEW p \in Daemons, RemoveStale(p) PROVE IInv'
  <1>1. lock = p /\ \A d \in Daemons : ~Listening(d)
    BY LockExcludes DEF IInv, RemoveStale, TypeOK, Alive, Listening, Bound
  <1>2. PICK asked \in BOOLEAN :
         CASE path = None -> Goto(p, "bind") /\ UNCHANGED lock
           [] path # None /\ VerifyStale(pid[p], asked)
                -> Goto(p, "unlink") /\ UNCHANGED lock
           [] OTHER -> Exit(p)
    BY DEF RemoveStale
  <1>3. \/ path = None /\ Goto(p, "bind") /\ UNCHANGED lock
        \/ path # None /\ Goto(p, "unlink") /\ UNCHANGED lock /\ \A q \in Procs : ~Listening(q)
        \/ Exit(p)
    BY <1>1, <1>2, EvidenceIsGood DEF IInv
  <1>. QED
    BY <1>1, <1>3, OwnershipAssumption DEF IInv, TypeOK, LegacyInv, LiveKeepsSocket, UnlinkInv,
       RecordInv, Listening, Bound, Alive, Procs, RemoveStale, Exit, Goto, Steps

\* Removing the file takes it from nobody.
LEMMA UnlinkStep == ASSUME IInv, NEW p \in Daemons, Unlink(p) PROVE IInv'
  BY OwnershipAssumption DEF IInv, TypeOK, LegacyInv, LiveKeepsSocket, UnlinkInv, RecordInv,
     Listening, Bound, Alive, Procs, Unlink, Goto, Steps

\* A bind succeeds where no file is, so nobody listens anywhere.
LEMMA BindStep == ASSUME IInv, NEW p \in Daemons, Bind(p) PROVE IInv'
  BY OwnershipAssumption DEF IInv, TypeOK, LegacyInv, LiveKeepsSocket, UnlinkInv, RecordInv,
     Listening, Bound, Alive, Procs, Bind, Exit, Goto, Steps

\* While the record is cut, the file is that of the daemon cutting it.
LEMMA TruncateStep == ASSUME IInv, NEW p \in Daemons, Truncate(p) PROVE IInv'
  BY OwnershipAssumption DEF IInv, TypeOK, LegacyInv, LiveKeepsSocket, UnlinkInv, RecordInv,
     Listening, Bound, Alive, Procs, Truncate, Goto, Steps

\* What is recorded is the file this daemon has bound.
LEMMA WriteRecordStep == ASSUME IInv, NEW p \in Daemons, WriteRecord(p) PROVE IInv'
  BY OwnershipAssumption DEF IInv, TypeOK, LegacyInv, LiveKeepsSocket, UnlinkInv, RecordInv,
     Listening, Bound, Alive, Procs, WriteRecord, Goto, Steps

\* Writing agitd.pid is no evidence by itself and takes none away.
LEMMA WritePidStep == ASSUME IInv, NEW p \in Procs, WritePid(p) PROVE IInv'
  BY OwnershipAssumption DEF IInv, TypeOK, LegacyInv, LiveKeepsSocket, UnlinkInv, RecordInv,
     Listening, Bound, Alive, Procs, WritePid, Goto, Steps

\* A death leaves the file: recorded, or the home no longer counts as intact.
LEMMA DieStep == ASSUME IInv, NEW p \in Procs, Die(p) PROVE IInv'
  BY OwnershipAssumption DEF IInv, TypeOK, LegacyInv, LiveKeepsSocket, UnlinkInv, RecordInv,
     Listening, Bound, Alive, Procs, Die, Exit, Steps

\* An older build binds without the lock, but only where no file is: nobody is about to
\* unlink one.
LEMMA LegacyBindStep == ASSUME IInv, NEW p \in Legacy, LegacyBind(p) PROVE IInv'
  <1>1. p \in Procs /\ p \notin Daemons
    BY OwnershipAssumption DEF Procs
  <1>2. \A q \in Procs : ~Listening(q)
    BY OwnershipAssumption DEF IInv, LiveKeepsSocket, LegacyBind, Procs
  <1>3. \A d \in Daemons : pc'[d] = pc[d] /\ pc[d] # "unlink"
    BY <1>1 DEF IInv, UnlinkInv, LegacyBind, Goto, TypeOK, Procs
  <1>4. TypeOK'
    <2>1. pc' \in [Procs -> Steps] /\ pid' \in [Procs -> Pids \cup {None}]
      BY <1>1 DEF IInv, TypeOK, LegacyBind, Goto, Steps, Bound
    <2>. QED
      BY <1>1, <1>3, <2>1 DEF IInv, TypeOK, LegacyBind, Alive
  <1>5. LegacyInv' /\ LiveKeepsSocket'
    BY <1>1, <1>2, OwnershipAssumption DEF IInv, TypeOK, LegacyInv, LiveKeepsSocket, LegacyBind,
       Goto, Listening, Procs
  <1>6. UnlinkInv' /\ RecordInv'
    BY <1>3 DEF UnlinkInv, RecordInv, LegacyBind
  <1>. QED
    BY <1>4, <1>5, <1>6 DEF IInv

\* A relocation and a confirmed recovery touch the file only when nobody listens.
LEMMA FilesStep == ASSUME IInv, Relocate \/ RecoverStopped PROVE IInv'
  BY OwnershipAssumption DEF IInv, TypeOK, LegacyInv, LiveKeepsSocket, UnlinkInv, RecordInv,
     Listening, Bound, Alive, Procs, Relocate, RecoverStopped, Unanswered, Steps

\* Probing commands hold the lock for a moment and write nothing.
LEMMA ProbeStep ==
    ASSUME IInv, NEW s \in Probers, ProbeConnect(s) \/ ProbeAcquire(s) \/ ProbeJudge(s)
    PROVE  IInv'
  BY OwnershipAssumption DEF IInv, TypeOK, LegacyInv, LiveKeepsSocket, UnlinkInv, RecordInv,
     Listening, Bound, Alive, Procs, ProbeConnect, ProbeAcquire, ProbeJudge

\* Every step of every process preserves it.
LEMMA InvStep == IInv /\ [Next]_vars => IInv'
  <1>. SUFFICES ASSUME IInv, [Next]_vars PROVE IInv'
    OBVIOUS
  <1>1. CASE UNCHANGED vars
    BY <1>1 DEF vars, IInv, TypeOK, LegacyInv, LiveKeepsSocket, UnlinkInv, RecordInv,
       Listening, Alive
  <1>2. CASE Next
    BY <1>2, AcquireStep, ConnectStep, VerdictStep, RemoveStaleStep, UnlinkStep, BindStep,
       TruncateStep, WriteRecordStep, WritePidStep, DieStep, LegacyBindStep, FilesStep, ProbeStep
       DEF Next
  <1>. QED
    BY <1>1, <1>2

\* The invariant holds in every reachable state.
THEOREM Invariant == Spec => []IInv
  BY InvInit, InvStep, PTL DEF Spec

\* Every variable keeps its type, and at every moment the lock is held by the one
\* daemon that is anywhere between acquire and its exit.
THEOREM TypeCorrect == Spec => []TypeOK
  <1>1. IInv => TypeOK
    BY DEF IInv
  <1>. QED
    BY <1>1, Invariant, PTL

\* No daemon that listens ever loses its socket, to another start, to a probe, to an
\* older build or to recovery: what remove_stale promises to keep.
THEOREM SocketKept == Spec => []LiveKeepsSocket
  <1>1. IInv => LiveKeepsSocket
    BY DEF IInv
  <1>. QED
    BY <1>1, Invariant, PTL

\* After clean deaths the record is all the evidence the next start needs.
THEOREM AlwaysReclaimable == Spec => []Reclaimable
  <1>1. IInv => Reclaimable
    BY LockExcludes, OwnershipAssumption DEF IInv, TypeOK, RecordInv, Reclaimable, Alive
  <1>. QED
    BY <1>1, Invariant, PTL

\* presence answers "absent" only of a home in which nobody listens: with the lock
\* and verified evidence, or with no file, which a listener would have.
THEOREM AbsenceIsTrue == Spec => AbsentIsTrue
  <1>. DEFINE A == \A s \in Probers : said[s] # "absent" /\ said'[s] = "absent"
                      => \A p \in Procs : ~Listening(p)
  <1>1. IInv /\ Next => A
    <2>. SUFFICES ASSUME IInv, Next, NEW s \in Probers, said[s] # "absent",
                         said'[s] = "absent"
                  PROVE  \A p \in Procs : ~Listening(p)
      OBVIOUS
    <2>1. said' # said
      OBVIOUS
    <2>2. PICK r \in Probers : ProbeConnect(r) \/ ProbeAcquire(r) \/ ProbeJudge(r)
      BY <2>1 DEF Next, Acquire, Connect, Verdict, RemoveStale, Unlink, Bind, Truncate,
         WriteRecord, WritePid, Die, LegacyBind, Relocate, RecoverStopped
    <2>3. ProbeJudge(s) /\ (path = None \/ (lock = s /\ \E asked \in BOOLEAN : VerifyStale(None, asked)))
      <3>1. CASE ProbeConnect(r)
        BY <3>1, OwnershipAssumption DEF IInv, TypeOK, ProbeConnect
      <3>2. CASE ProbeAcquire(r)
        BY <3>2 DEF IInv, TypeOK, ProbeAcquire
      <3>3. CASE ProbeJudge(r)
        <4>1. r = s
          BY <3>3 DEF IInv, TypeOK, ProbeJudge
        <4>. QED
          BY <3>3, <4>1 DEF IInv, TypeOK, ProbeJudge
      <3>. QED
        BY <2>2, <3>1, <3>2, <3>3
    <2>4. CASE path = None
      BY <2>4, OwnershipAssumption DEF IInv, LiveKeepsSocket
    <2>5. CASE path # None
      <3>1. s \notin Daemons
        BY OwnershipAssumption DEF Procs
      <3>. QED
        BY <2>3, <2>5, <3>1, LockExcludes, EvidenceIsGood DEF IInv
    <2>. QED
      BY <2>4, <2>5
  <1>. QED
    BY <1>1, Invariant, PTL DEF Spec, AbsentIsTrue

=============================================================================
