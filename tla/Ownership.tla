------------------------------ MODULE Ownership ------------------------------
(***************************************************************************)
(* Who owns the daemon's control socket (src/src/rc/control.rs and         *)
(* src/src/rc/control/ownership.rs).                                       *)
(*                                                                         *)
(* A daemon of this build takes an exclusive lock on agitd.lock, probes    *)
(* the socket, removes it only with evidence that its listener is gone,    *)
(* binds its own, and then publishes: the lock file records the socket's   *)
(* identity and agitd.pid its process.  The kernel releases the lock when  *)
(* the process exits, after closing the socket.  `presence`, which every   *)
(* command polls, takes the same lock for the moment it judges a socket    *)
(* that refuses connections.  A daemon of an older build takes no lock: it *)
(* binds, and writes agitd.pid afterwards.                                 *)
(*                                                                         *)
(* A socket file is named by the process that bound it; Copied is the      *)
(* regular file a copied home holds in its place.  A listener whose accept *)
(* queue is full refuses connections although it is alive.                 *)
(***************************************************************************)
EXTENDS Naturals, FiniteSets

CONSTANTS
    None,
    Copied,     \* the regular file a restored home has at the socket's path
    Torn,       \* a record of which only a part was written
    Daemons,    \* processes of this build that may start and serve
    Legacy,     \* processes of a build that does not take the lock
    Probers,    \* commands asking whether a daemon exists
    Pids        \* process ids, which the system uses again

Procs == Daemons \cup Legacy

ASSUME OwnershipAssumption ==
    /\ Daemons \cap Legacy = {} /\ Procs \cap Probers = {}
    /\ {None, Copied, Torn} \cap (Procs \cup Probers \cup Pids) = {}
    /\ Copied # None /\ Torn # None /\ Copied # Torn
    /\ None \notin {"running", "absent", "unclear"}

VARIABLES
    pc,         \* where each process is: off, the steps of listen_in, serving, gone
    pid,        \* the process id each process was given
    path,       \* the file at the socket's path: None, Copied or the binder
    lock,       \* who holds agitd.lock
    lockFile,   \* agitd.lock exists; it is never removed
    record,     \* what agitd.lock says: None, Torn or a socket
    pidFile,    \* what agitd.pid says
    probe,      \* where each prober is
    said,       \* the last answer of each prober
    intact      \* ghost: no process died between binding and recording its
                \* socket, no legacy build bound it, the home was not moved

vars == <<pc, pid, path, lock, lockFile, record, pidFile, probe, said, intact>>

Bound == {"bound", "truncated", "recorded", "serving"}
Steps == {"off", "connect", "verdict", "lstat", "unlink", "bind", "gone"} \cup Bound

\* Whether p accepts connections, at whatever file it is bound to.
Listening(p) == pc[p] \in Bound

Alive(p) == pc[p] \notin {"off", "gone"}

\* The process ids in use; process_is_gone answers for the rest.
LivePids == {pid[p] : p \in {q \in Procs : Alive(q)}}

\* Nobody answers at the path: there is no file, or nobody listens on it.
Unanswered == path \notin Procs \/ ~Listening(path)

------------------------------------------------------------------------------
(* Evidence                                                                  *)

\* A plausible slip: the process that last published is gone, and nobody asks
\* who is bound to the file.
VerifyStaleByPid(me, asked) ==
    /\ record \notin {None, Torn}
    /\ \/ path \in Procs /\ record = path
       \/ pidFile # None /\ (pidFile = me \/ pidFile \notin LivePids)

(***************************************************************************)
(* What a holder of the lock can show about the file at the path, with     *)
(* `me` its own process id: the record names this socket, or nothing can   *)
(* be bound to the file and the process agitd.pid names is gone or is this *)
(* one.  `asked` is whether the kernel could be asked who is bound.        *)
(***************************************************************************)
VerifyStale(me, asked) ==
    /\ record \notin {None, Torn}
    /\ \/ path \in Procs /\ record = path
       \/ /\ path = Copied \/ (asked /\ ~Listening(path))
          /\ pidFile # None
          /\ pidFile = me \/ pidFile \notin LivePids

------------------------------------------------------------------------------
(* A daemon of this build: listen_in                                         *)

Exit(p) == /\ pc' = [pc EXCEPT ![p] = "gone"]
           /\ lock' = IF lock = p THEN None ELSE lock

Goto(p, step) == pc' = [pc EXCEPT ![p] = step]

\* A plausible slip: the lock is not tried at all.
AcquireUnlocked(p) ==
    /\ pc[p] = "off"
    /\ \E n \in Pids \ LivePids : pid' = [pid EXCEPT ![p] = n]
    /\ lockFile' = TRUE
    /\ Goto(p, "connect")
    /\ UNCHANGED <<path, lock, record, pidFile, probe, said, intact>>

\* The lock is tried once, never waited for.
Acquire(p) ==
    /\ pc[p] = "off"
    /\ \E n \in Pids \ LivePids : pid' = [pid EXCEPT ![p] = n]
    /\ lockFile' = TRUE
    /\ \/ lock = None /\ lock' = p /\ Goto(p, "connect")
       \/ lock # None /\ Exit(p)
    /\ UNCHANGED <<path, record, pidFile, probe, said, intact>>

(***************************************************************************)
(* A refused connection asks for the evidence; an answer, a timeout or a   *)
(* closed connection ends the start.  A listener may refuse as well.       *)
(***************************************************************************)
Connect(p) ==
    /\ pc[p] = "connect"
    /\ \/ Goto(p, "verdict") /\ UNCHANGED lock
       \/ ~Unanswered /\ Exit(p)
    /\ UNCHANGED <<pid, path, lockFile, record, pidFile, probe, said, intact>>

Verdict(p) ==
    /\ pc[p] = "verdict"
    /\ \E asked \in BOOLEAN :
         IF path = None \/ VerifyStale(pid[p], asked)
         THEN Goto(p, "lstat") /\ UNCHANGED lock
         ELSE Exit(p)
    /\ UNCHANGED <<pid, path, lockFile, record, pidFile, probe, said, intact>>

\* A plausible slip: the first verdict is trusted, whatever is there now.
RemoveUnverified(p) ==
    /\ pc[p] = "lstat"
    /\ Goto(p, IF path = None THEN "bind" ELSE "unlink")
    /\ UNCHANGED <<pid, path, lock, lockFile, record, pidFile, probe, said, intact>>

\* remove_stale verifies once more what is there now.
RemoveStale(p) ==
    /\ pc[p] = "lstat"
    /\ \E asked \in BOOLEAN :
         CASE path = None -> Goto(p, "bind") /\ UNCHANGED lock
           [] path # None /\ VerifyStale(pid[p], asked)
                -> Goto(p, "unlink") /\ UNCHANGED lock
           [] OTHER -> Exit(p)
    /\ UNCHANGED <<pid, path, lockFile, record, pidFile, probe, said, intact>>

Unlink(p) ==
    /\ pc[p] = "unlink"
    /\ path' = None
    /\ Goto(p, "bind")
    /\ UNCHANGED <<pid, lock, lockFile, record, pidFile, probe, said, intact>>

Bind(p) ==
    /\ pc[p] = "bind"
    /\ \/ path = None /\ path' = p /\ Goto(p, "bound") /\ UNCHANGED lock
       \/ path # None /\ Exit(p) /\ UNCHANGED path
    /\ UNCHANGED <<pid, lockFile, record, pidFile, probe, said, intact>>

(***************************************************************************)
(* publish: the record is cut to nothing, written and synced; then         *)
(* agitd.pid is replaced.                                                  *)
(***************************************************************************)
Truncate(p) ==
    /\ p \in Daemons /\ pc[p] = "bound"
    /\ record' = Torn
    /\ Goto(p, "truncated")
    /\ UNCHANGED <<pid, path, lock, lockFile, pidFile, probe, said, intact>>

\* A plausible slip: a record that is already there is kept.
WriteRecordOnce(p) ==
    /\ pc[p] = "truncated"
    /\ UNCHANGED record
    /\ Goto(p, "recorded")
    /\ UNCHANGED <<pid, path, lock, lockFile, pidFile, probe, said, intact>>

WriteRecord(p) ==
    /\ pc[p] = "truncated"
    /\ record' = path
    /\ Goto(p, "recorded")
    /\ UNCHANGED <<pid, path, lock, lockFile, pidFile, probe, said, intact>>

WritePid(p) ==
    /\ pc[p] = "recorded" \/ (p \in Legacy /\ pc[p] = "bound")
    /\ pidFile' = pid[p]
    /\ Goto(p, "serving")
    /\ UNCHANGED <<pid, path, lock, lockFile, record, probe, said, intact>>

\* A process ends, killed or stopped: the kernel closes its socket and then
\* releases its lock; nothing is unlinked.
Die(p) ==
    /\ Alive(p)
    /\ Exit(p)
    /\ intact' = (intact /\ pc[p] \notin {"bound", "truncated"})
    /\ UNCHANGED <<pid, path, lockFile, record, pidFile, probe, said>>

------------------------------------------------------------------------------
(* A daemon of an older build, and what else touches the files               *)

\* It binds where no file is.
LegacyBind(p) ==
    /\ pc[p] = "off" /\ path = None
    /\ \E n \in Pids \ LivePids : pid' = [pid EXCEPT ![p] = n]
    /\ path' = p
    /\ Goto(p, "bound")
    /\ intact' = FALSE
    /\ UNCHANGED <<lock, lockFile, record, pidFile, probe, said>>

\* The home is copied or restored while nothing runs in it: a regular file
\* stands where the socket was.
Relocate ==
    /\ path \in Procs /\ \A p \in Procs : ~Alive(p)
    /\ lock = None
    /\ path' = Copied
    /\ intact' = FALSE
    /\ UNCHANGED <<pc, pid, lock, lockFile, record, pidFile, probe, said>>

\* `recover --confirm-stopped`: the operator answers for every legacy process
\* having exited; the lock excludes this build's.  Only a socket that refuses
\* is removed.
RecoverStopped ==
    /\ lock = None
    /\ \A p \in Legacy : ~Alive(p)
    /\ path \in Procs /\ Unanswered
    /\ path' = None
    /\ lockFile' = TRUE
    /\ UNCHANGED <<pc, pid, lock, record, pidFile, probe, said, intact>>

------------------------------------------------------------------------------
(* presence_in                                                               *)

\* The probe connects: somebody answers, or does not in time; or the
\* connection is refused and the evidence decides.
ProbeConnect(s) ==
    /\ probe[s] = "idle"
    /\ \/ /\ ~Unanswered
          /\ \E a \in {"running", "unclear"} : said' = [said EXCEPT ![s] = a]
          /\ UNCHANGED probe
       \/ /\ probe' = [probe EXCEPT ![s] = "refused"]
          /\ said' = [said EXCEPT ![s] = None]
    /\ UNCHANGED <<pc, pid, path, lock, lockFile, record, pidFile, intact>>

\* The lock is opened without creating it: a missing file is no evidence.
ProbeAcquire(s) ==
    /\ probe[s] = "refused"
    /\ \/ /\ lockFile /\ lock # None
          /\ said' = [said EXCEPT ![s] = "unclear"]
          /\ probe' = [probe EXCEPT ![s] = "idle"]
          /\ UNCHANGED lock
       \/ /\ lockFile => lock = None
          /\ lock' = IF lockFile THEN s ELSE lock
          /\ probe' = [probe EXCEPT ![s] = "judge"]
          /\ UNCHANGED said
    /\ UNCHANGED <<pc, pid, path, lockFile, record, pidFile, intact>>

ProbeJudge(s) ==
    /\ probe[s] = "judge"
    /\ \E asked \in BOOLEAN :
         said' = [said EXCEPT ![s] =
            IF path = None \/ (lock = s /\ VerifyStale(None, asked))
            THEN "absent" ELSE "unclear"]
    /\ probe' = [probe EXCEPT ![s] = "idle"]
    /\ lock' = IF lock = s THEN None ELSE lock
    /\ UNCHANGED <<pc, pid, path, lockFile, record, pidFile, intact>>

------------------------------------------------------------------------------
Init ==
    /\ pc = [p \in Procs |-> "off"]
    /\ pid = [p \in Procs |-> None]
    /\ path = None /\ lock = None /\ lockFile = FALSE
    /\ record = None /\ pidFile = None
    /\ probe = [s \in Probers |-> "idle"]
    /\ said = [s \in Probers |-> None]
    /\ intact = TRUE

Next ==
    \/ \E p \in Daemons :
         \/ Acquire(p) \/ Connect(p) \/ Verdict(p) \/ RemoveStale(p)
         \/ Unlink(p) \/ Bind(p) \/ Truncate(p) \/ WriteRecord(p)
    \/ \E p \in Procs : WritePid(p) \/ Die(p)
    \/ \E p \in Legacy : LegacyBind(p)
    \/ \E s \in Probers : ProbeConnect(s) \/ ProbeAcquire(s) \/ ProbeJudge(s)
    \/ Relocate \/ RecoverStopped

Spec == Init /\ [][Next]_vars

------------------------------------------------------------------------------
(* Properties                                                                *)

\* The shape of the state; and the lock is held by whoever is between taking it
\* and exiting: every step of listen_in, the whole service, and a judging probe.
TypeOK ==
    /\ pc \in [Procs -> Steps]
    /\ pid \in [Procs -> Pids \cup {None}]
    /\ path \in Procs \cup {None, Copied}
    /\ lock \in Daemons \cup Probers \cup {None}
    /\ lockFile \in BOOLEAN /\ intact \in BOOLEAN
    /\ record \in Daemons \cup {None, Torn}
    /\ pidFile \in Pids \cup {None}
    /\ probe \in [Probers -> {"idle", "refused", "judge"}]
    /\ said \in [Probers -> {None, "running", "absent", "unclear"}]
    /\ \A p \in Daemons : Alive(p) <=> lock = p

\* A daemon that listens, of this build or an older one, is the one reached at
\* the path: nobody removed or replaced its socket, so there is never a second.
\* control.rs calls the contrary the silent failure: "it keeps running, and
\* nobody can reach it any more".
LiveKeepsSocket == \A p \in Procs : Listening(p) => path = p

\* `presence` answers "absent" only when no daemon listens, of any build
\* (stop_and_wait and replace start the next daemon on that answer).
AbsentIsTrue ==
    [][\A s \in Probers :
          said[s] # "absent" /\ said'[s] = "absent" => \A p \in Procs : ~Listening(p)]_vars

\* After daemons that only ever died before binding or with their socket
\* recorded, the next starter needs neither the kernel nor the operator: the
\* record names whatever file is left ("A released lock proves exit for the
\* socket instance recorded under that lock").
Reclaimable == (intact /\ lock = None) => path = None \/ record = path

\* A start gives up at the lock only when a daemon is starting, running or
\* stopping, as the error says and as "`Absent` <=> the probe returns Stale <=>
\* listen removes that file and starts normally" claims.
RefusedByDaemon ==
    [][\A p \in Daemons :
          pc[p] = "off" /\ pc'[p] = "gone" => \E q \in Procs : Alive(q)]_vars
==============================================================================
