---------------------------- MODULE MergeArchive ----------------------------
(***************************************************************************)
(* One agent merge, from its transaction to its landing or cancellation,   *)
(* across crashes and power loss (src/src/domain/mergetx.rs,               *)
(* src/src/domain/merge_archive.rs, src/src/commands/merge/archive.rs and  *)
(* its submodules).                                                        *)
(*                                                                         *)
(* A merge keeps its state in files: the transaction (.git/AGIT_MERGE_TX), *)
(* the journal of its generation, a pair of files where `.recovery` says   *)
(* what `.json` is about to become, the Link of the exploring runtime, the *)
(* Links it retires for the time being, and a completion carrier.  Every   *)
(* lifecycle command takes the branch, Link, journal and transaction locks *)
(* in that order and keeps them to its end, so at most one runs; what it   *)
(* decides under the locks is a list of file and ref effects, and it can   *)
(* stop after any of them.                                                 *)
(*                                                                         *)
(* A rename is visible at once and sure to survive a power loss only after *)
(* its directory was synced: vis is what readers see, dur what the disk    *)
(* holds, late the renames in between.  The head of the target branch is   *)
(* the sequence of commits made on it since the merge opened; git keeps    *)
(* it, and an update of it is taken to be durable.                         *)
(***************************************************************************)
EXTENDS Naturals, Sequences, FiniteSets, FiniteSetsExt

CONSTANTS
    None,
    Claims,         \* sequence: the Links that claim the target branch
    MaxRecords,     \* bound: records the exploring runtime writes
    MaxPicks,       \* bound: progress commands (pick, drop, summary)
    MaxTurns,       \* bound: ordinary commits on the target branch
    MaxKills,       \* bound: commands that die half-way
    MaxLosses,      \* bound: power losses
    MaxLate         \* bound: renames of one directory not yet on disk

ClaimSet == {Claims[i] : i \in 1..Len(Claims)}

ASSUME MergeAssumption ==
    /\ Claims \in Seq(ClaimSet) /\ None \notin ClaimSet
    /\ ClaimSet \cap {"main", "rec", "tx", "landed", "aborted", "link"} = {}
    /\ MaxRecords \in Nat /\ MaxPicks \in Nat /\ MaxTurns \in Nat /\ MaxKills \in Nat
    /\ MaxLosses \in Nat /\ MaxLate \in Nat \ {0}

VARIABLES
    vis,        \* each file as a reader sees it
    dur,        \* each file as the disk holds it
    late,       \* per directory, the renames since its last sync, in order
    head,       \* commits on the target branch since the merge opened
    native,     \* complete records in the exploring runtime's own file
    todo,       \* effects left of the command that holds the locks, or none
    kills,      \* commands that died half-way, so far
    losses,     \* power losses so far
    died,       \* history: the last command died half-way
    stale,      \* history: per directory, how many of its late renames, the first ones,
                \* a command that died left and a later command found
    lost        \* history: a power loss took one of those

vars == <<vis, dur, late, head, native, todo, kills, losses, died, stale, lost>>

\* The files, by directory: the journal's, the repository's git directory, the
\* Link store.
Journal == {"main", "rec"}
Git == {"tx", "landed", "aborted"}
Store == {"link"} \cup ClaimSet
Dirs == {Journal, Git, Store}
Files == UNION Dirs

\* A transaction image.  Another generation's transaction is only told apart.
Tx(bound, picks) == [gen |-> "this", bound |-> bound, picks |-> picks]
Other == [gen |-> "other", bound |-> FALSE, picks |-> 0]

\* A commit, and a prepared publication with the commit it is to make.
Commit(kind, from, upto, picks) ==
    [kind |-> kind, from |-> from, upto |-> upto, picks |-> picks]
Publication(old, commit) == [old |-> old, commit |-> commit]
Candidate(pub) == Append(pub.old, pub.commit)

Bound(tx) == [tx EXCEPT !.bound = TRUE]

\* A journal: its phase, the publication it prepared, the transaction image it
\* retains, the records it has captured, and for a cancellation whether the
\* archive Link was installed.
Preparing(tx) == [phase |-> "preparing", pub |-> None, image |-> tx,
                  consumed |-> 0, linked |-> FALSE]
Open(j) == [j EXCEPT !.phase = "open", !.image = None]

------------------------------------------------------------------------------
(* Effects, in the order a command makes them                                *)

Put(f, v) == [do |-> "put", file |-> f, val |-> v]
Sync(d) == [do |-> "sync", dir |-> d]
Expect(h) == [do |-> "expect", head |-> h]
Cas(pub) == [do |-> "cas", pub |-> pub]

\* durable_publish_bytes: write aside, rename, sync the directory.
Durably(f, v, d) == <<Put(f, v), Sync(d)>>

\* A plausible slip: the successor is published before its receipt.
ReplaceMainFirst(expected, next) ==
    <<Sync(Journal)>>
      \o Durably("main", next, Journal)
      \o Durably("rec", [prev |-> expected, next |-> next], Journal)

\* ArchiveJournalGuard::replace: the observed state is published again, which
\* settles it on disk, before its receipt is overwritten by the next one.
Replace(expected, next) ==
    <<Sync(Journal)>>
      \o Durably("rec", [prev |-> expected, next |-> next], Journal)
      \o Durably("main", next, Journal)

\* ArchiveJournalGuard::create.
Create(j) == Durably("rec", [prev |-> None, next |-> j], Journal) \o Durably("main", j, Journal)

\* Acquiring the journal syncs the directory above it, where the transaction is;
\* recover_pending then replays the retained successor.
Recover ==
    <<Sync(Git)>> \o IF vis["rec"] # None /\ vis["main"] # vis["rec"].next
                     THEN Durably("main", vis["rec"].next, Journal)
                     ELSE <<>>

\* The journal a command finds once it has recovered it.
Intent == IF vis["rec"] = None THEN vis["main"] ELSE vis["rec"].next

\* Each claim's Link, one durable publication after another, the target checked
\* before each.
SetClaims(v) ==
    [i \in 1 .. 3 * Len(Claims) |->
        CASE i % 3 = 1 -> Expect(<<>>)
          [] i % 3 = 2 -> Put(Claims[(i + 2) \div 3], v)
          [] OTHER -> Sync(Store)]

(***************************************************************************)
(* retire_transition_with: link the carrier to the transaction's own file, *)
(* then remove the transaction.  Only the exact image may be retired.      *)
(***************************************************************************)
Retirable(how, image) ==
    \/ vis["tx"] = image /\ vis[how] \in {None, image}
    \/ vis["tx"] = None /\ vis[how] = image

Retire(how, image) == Durably(how, image, Git) \o Durably("tx", None, Git)

\* A plausible slip: the frontier is set one past the last captured record.
LandedAhead(j) ==
    [j EXCEPT !.phase = "landed", !.pub = None, !.consumed = j.pub.commit.upto + 1]

\* PreparedPublication's outcome: the frontier moves to what the commit captured.
Landed(j) == [j EXCEPT !.phase = "landed", !.pub = None, !.consumed = j.pub.commit.upto]

\* publish and finish_visible: move the ref, or find it moved; record that.
Publish(j, how) ==
    <<Cas(j.pub), Expect(Candidate(j.pub))>> \o Replace(j, Landed(j)) \o how

------------------------------------------------------------------------------
(* Transaction commands                                                      *)

\* No command runs: the last one has made its effects and released its locks.
Idle == todo = <<>>

Begin(effects) ==
    /\ todo' = effects /\ died' = FALSE
    /\ stale' = IF died THEN [d \in Dirs |-> Len(late[d])] ELSE stale
    /\ UNCHANGED <<vis, dur, late, head, native, kills, losses, lost>>

\* `agit merge`: the transaction is created where none is, without a sync.
CreateTx(tx) ==
    /\ Idle /\ vis["tx"] = None
    /\ tx.gen = "this" => Intent = None
    /\ Begin(<<Put("tx", tx)>>)

\* pick, drop and summary: refused from the moment archive authority is being
\* prepared until it is open, and again once a landing is prepared.
Progress ==
    /\ Idle /\ vis["tx"] \notin {None, Other} /\ vis["tx"].picks < MaxPicks
    /\ LET next == [vis["tx"] EXCEPT !.picks = @ + 1]
       IN IF vis["tx"].bound
          THEN /\ vis["rec"] # None /\ vis["main"] = vis["rec"].next
               /\ vis["main"].phase = "open" /\ vis["main"].pub = None
               /\ Begin(Durably("tx", next, Git))
          ELSE /\ vis["main"] = None /\ vis["rec"] = None
               /\ Begin(<<Put("tx", next)>>)

\* Dropping an ordinary transaction; archive authority must be disposed of.
RemoveTx ==
    /\ Idle /\ vis["tx"] # None /\ ~vis["tx"].bound
    /\ vis["tx"] # Other => vis["main"] = None /\ vis["rec"] = None
    /\ Begin(<<Put("tx", None)>>)

------------------------------------------------------------------------------
(* The archive lifecycle                                                     *)

\* What activation finds: without a journal nothing may have been installed,
\* retired or bound; with one, the transaction is at an endpoint it retains.
Activatable ==
    /\ head = <<>> /\ vis["tx"] \notin {None, Other}
    /\ \/ /\ Intent = None
          /\ ~vis["tx"].bound /\ vis["link"] = None
          /\ \A c \in ClaimSet : vis[c] = "active"
       \/ /\ Intent # None /\ Intent.phase = "preparing"
          /\ vis["tx"] \in {Intent.image, Bound(Intent.image)}

Journaled(j) == IF Intent = None THEN Create(j) ELSE <<>>
Image == IF Intent = None THEN vis["tx"] ELSE Intent.image

\* A plausible slip: the transaction is bound before the journal says so.
ActivateUnjournaled ==
    /\ Idle /\ Activatable
    /\ LET j == Preparing(Image)
       IN Begin(Recover
            \o Durably("tx", Bound(Image), Git)
            \o Journaled(j)
            \o Durably("link", "archive", Store) \o SetClaims("retired")
            \o <<Expect(<<>>)>> \o Replace(j, Open(j)))

\* A plausible slip: the exploration opens before the earlier claims are retired.
ActivateBesideClaims ==
    /\ Idle /\ Activatable
    /\ LET j == Preparing(Image)
       IN Begin(Recover \o Journaled(j)
            \o Durably("link", "archive", Store)
            \o Durably("tx", Bound(Image), Git)
            \o <<Expect(<<>>)>> \o Replace(j, Open(j)) \o SetClaims("retired"))

(***************************************************************************)
(* activate_under_branch_with: journal the intent, install the successor's *)
(* Link, retire the claims, bind the transaction, open.  Run again after a *)
(* crash it repeats every effect.  The target is checked before each.      *)
(***************************************************************************)
Activate ==
    /\ Idle /\ Activatable
    /\ LET j == Preparing(Image)
       IN Begin(Recover \o Journaled(j)
            \o <<Expect(<<>>)>> \o Durably("link", "archive", Store)
            \o SetClaims("retired")
            \o <<Expect(<<>>)>> \o Durably("tx", Bound(Image), Git)
            \o <<Expect(<<>>)>> \o Replace(j, Open(j)))

\* `--continue` on a fresh exploration: retain the transaction and the merge
\* commit, publish it, record it, retire the transaction.
Land ==
    /\ Idle /\ head = <<>>
    /\ Intent # None /\ Intent.phase = "open" /\ Intent.pub = None
    /\ vis["tx"] \notin {None, Other} /\ vis["tx"].bound /\ vis["tx"].picks > 0
    /\ LET pub == Publication(<<>>, Commit("merge", 0, native, vis["tx"].picks))
           pending == [Intent EXCEPT !.pub = pub, !.image = vis["tx"]]
       IN Begin(Recover \o Replace(Intent, pending)
                  \o Publish(pending, Retire("landed", vis["tx"])))

\* `--continue` after a crash: the retained candidate decides, nothing is
\* rebuilt.
Replay ==
    /\ Idle
    /\ Intent # None
    /\ \/ /\ Intent.phase = "open" /\ Intent.pub # None
          /\ vis["tx"] = Intent.image
          /\ Begin(Recover \o Publish(Intent, Retire("landed", Intent.image)))
       \/ /\ Intent.phase = "landed"
          /\ Retirable("landed", Intent.image)
          /\ Begin(Recover \o Retire("landed", Intent.image))

\* A plausible slip: the claims come back last, once the cancellation is done.
RestoreLast(aborting) ==
    Replace(aborting, [aborting EXCEPT !.phase = "aborted"])
      \o Retire("aborted", aborting.image) \o SetClaims("active")

\* The abort's restoration: claims first, then Aborted, then the transaction.
Restore(aborting) ==
    SetClaims("active")
      \o <<Expect(<<>>)>> \o Replace(aborting, [aborting EXCEPT !.phase = "aborted"])
      \o <<Expect(<<>>)>> \o Retire("aborted", aborting.image)

\* The cancellation's intent retains what it found.
Aborting(j) ==
    [j EXCEPT !.phase = "aborting", !.pub = None, !.image = vis["tx"],
              !.linked = vis["link"] # None]

\* Whether the candidate of a prepared landing is the head.
Visible(j) == j.phase = "open" /\ j.pub # None /\ head = Candidate(j.pub)

\* What abort_with asks before it starts to cancel: the transaction is this
\* generation's, at a retained endpoint before the exploration opens; once it is
\* open, bound, with the claims retired and the successor installed.
Cancellable(j) ==
    /\ vis["tx"] \notin {None, Other}
    /\ IF j.phase = "preparing"
       THEN vis["tx"] \in {j.image, Bound(j.image)}
       ELSE /\ vis["tx"].bound /\ vis["link"] = "archive"
            /\ \A c \in ClaimSet : vis[c] = "retired"

\* The endpoints at which abort_with finds a merge: landed, its landing visible, not
\* yet landed, being cancelled, cancelled.  It refuses every other.
HasLanded(j) == j.phase = "landed" /\ Retirable("landed", j.image)
IsLanding(j) == Visible(j) /\ vis["tx"] = j.image
IsUnlanded(j) == j.phase \in {"preparing", "open"} /\ head = <<>> /\ Cancellable(j)
IsAborting(j) == /\ j.phase = "aborting" /\ head = <<>>
                 /\ vis["tx"] = j.image /\ (vis["link"] # None) = j.linked
HasAborted(j) == /\ j.phase = "aborted" /\ head = <<>> /\ (vis["link"] # None) = j.linked
                 /\ Retirable("aborted", j.image) /\ \A c \in ClaimSet : vis[c] = "active"

\* Whether `--abort` does something: the condition under which Abort is enabled.
Abortable ==
    /\ Intent # None
    /\ \/ HasLanded(Intent) \/ IsLanding(Intent) \/ IsUnlanded(Intent)
       \/ IsAborting(Intent) \/ HasAborted(Intent)

\* A plausible slip: the head is not compared with the retained candidate, so a
\* landed merge is cancelled.
AbortBlind ==
    /\ Idle /\ Intent # None
    /\ \/ /\ Intent.phase \in {"preparing", "open"} /\ Cancellable(Intent)
          /\ Begin(Recover \o Replace(Intent, Aborting(Intent)) \o SetClaims("active")
                     \o Replace(Aborting(Intent), [Aborting(Intent) EXCEPT !.phase = "aborted"])
                     \o Retire("aborted", Aborting(Intent).image))
       \/ /\ Intent.phase = "landed" /\ Retirable("landed", Intent.image)
          /\ Begin(Recover \o Retire("landed", Intent.image))

(***************************************************************************)
(* `--abort`: a landing that is visible is finished, never rolled back;    *)
(* otherwise the cancellation is journalled with what it restores, then    *)
(* carried out, then completed.                                            *)
(***************************************************************************)
Abort ==
    /\ Idle /\ Intent # None
    /\ \/ /\ HasLanded(Intent)
          /\ Begin(Recover \o Retire("landed", Intent.image))
       \/ /\ IsLanding(Intent)
          /\ Begin(Recover \o Publish(Intent, Retire("landed", Intent.image)))
       \/ /\ IsUnlanded(Intent)
          /\ Begin(Recover \o Replace(Intent, Aborting(Intent)) \o Restore(Aborting(Intent)))
       \/ /\ IsAborting(Intent)
          /\ Begin(Recover \o Restore(Intent))
       \/ /\ HasAborted(Intent)
          /\ Begin(Recover \o <<Expect(<<>>)>> \o Retire("aborted", Intent.image))

\* A plausible slip: a retained candidate is dropped and a fresh one built from
\* the runtime's file.
SettleTailRebuilt ==
    /\ Idle
    /\ Intent # None /\ Intent.phase = "landed" /\ vis["tx"] = None
    /\ native > Intent.consumed
    /\ LET pending == [Intent EXCEPT !.pub =
                Publication(head, Commit("tail", Intent.consumed, native, 0))]
       IN Begin(Recover \o Replace(Intent, pending) \o Publish(pending, <<>>))

(***************************************************************************)
(* settle_tail: once the merge has landed and no transaction is open, the  *)
(* records written since are published in a commit of their own; a         *)
(* retained candidate comes first.                                         *)
(***************************************************************************)
SettleTail ==
    /\ Idle
    /\ Intent # None /\ Intent.phase = "landed" /\ vis["tx"] = None
    /\ \/ Intent.pub # None /\ Begin(Recover \o Publish(Intent, <<>>))
       \/ /\ Intent.pub = None /\ native > Intent.consumed
          /\ LET pending == [Intent EXCEPT !.pub =
                      Publication(head, Commit("tail", Intent.consumed, native, 0))]
             IN Begin(Recover \o Replace(Intent, pending) \o Publish(pending, <<>>))

------------------------------------------------------------------------------
(* One effect of the running command, and what interferes with it            *)

\* The first effect happens; a failed check ends the command there.
Effect ==
    /\ ~Idle
    /\ LET e == Head(todo) IN
       \/ /\ e.do = "put"
          /\ \A d \in Dirs : e.file \in d => Len(late[d]) < MaxLate
          /\ vis' = [vis EXCEPT ![e.file] = e.val]
          /\ late' = [d \in Dirs |-> IF e.file \in d THEN Append(late[d], e) ELSE late[d]]
          /\ todo' = Tail(todo) /\ UNCHANGED <<dur, head, stale>>
       \/ /\ e.do = "sync"
          /\ dur' = [f \in Files |-> IF f \in e.dir THEN vis[f] ELSE dur[f]]
          /\ late' = [late EXCEPT ![e.dir] = <<>>]
          /\ stale' = [stale EXCEPT ![e.dir] = 0]
          /\ todo' = Tail(todo) /\ UNCHANGED <<vis, head>>
       \/ /\ e.do = "expect"
          /\ todo' = IF head = e.head THEN Tail(todo) ELSE <<>>
          /\ UNCHANGED <<vis, dur, late, head, stale>>
       \/ /\ e.do = "cas"
          /\ todo' = IF head \in {e.pub.old, Candidate(e.pub)} THEN Tail(todo) ELSE <<>>
          /\ head' = IF head = e.pub.old THEN Candidate(e.pub) ELSE head
          /\ UNCHANGED <<vis, dur, late, stale>>
    /\ UNCHANGED <<native, kills, losses, died, lost>>

\* The process dies between two effects: what it renamed stays visible, and is on its
\* way to the disk as before.
Crash ==
    /\ ~Idle /\ kills < MaxKills
    /\ todo' = <<>> /\ kills' = kills + 1 /\ died' = TRUE
    /\ UNCHANGED <<vis, dur, late, head, native, losses, stale, lost>>

\* What the disk holds of file f when it kept the first n renames of directory d.
OnDisk(f, d, n) ==
    LET mine == {i \in 1..n : late[d][i].file = f}
    IN IF mine = {} THEN dur[f] ELSE late[d][Max(mine)].val

\* The files when the directories kept their first j, g and s renames.
Survivor(j, g, s) ==
    [f \in Files |-> IF f \in Journal THEN OnDisk(f, Journal, j)
                     ELSE IF f \in Git THEN OnDisk(f, Git, g) ELSE OnDisk(f, Store, s)]

\* The machine loses power: each directory keeps its first renames since its last
\* sync, up to any of them.
PowerLoss ==
    /\ losses < MaxLosses
    /\ \E j \in 0..Len(late[Journal]), g \in 0..Len(late[Git]), s \in 0..Len(late[Store]) :
         /\ vis' = Survivor(j, g, s)
         /\ lost' = (lost \/ j < stale[Journal] \/ g < stale[Git] \/ s < stale[Store])
    /\ dur' = vis'
    /\ late' = [d \in Dirs |-> <<>>]
    /\ todo' = <<>> /\ losses' = losses + 1
    /\ died' = FALSE /\ stale' = [d \in Dirs |-> 0]
    /\ UNCHANGED <<head, native, kills>>

\* The exploring runtime completes a record.
Write ==
    /\ vis["link"] # None /\ native < MaxRecords
    /\ native' = native + 1
    /\ UNCHANGED <<vis, dur, late, head, todo, kills, losses, died, stale, lost>>

Turns == Cardinality({i \in 1..Len(head) : head[i].kind = "turn"})

\* An ordinary commit on the target branch: agit refuses it while a transaction
\* is open and waits for the branch lock; git itself does neither.
Turn ==
    /\ Turns < MaxTurns
    /\ head' = Append(head, Commit("turn", 0, 0, 0))
    /\ UNCHANGED <<vis, dur, late, native, todo, kills, losses, died, stale, lost>>

\* The system writes a directory's first rename back by itself.
WriteBack(d) ==
    /\ late[d] # <<>>
    /\ dur' = [dur EXCEPT ![Head(late[d]).file] = Head(late[d]).val]
    /\ late' = [late EXCEPT ![d] = Tail(@)]
    /\ stale' = [stale EXCEPT ![d] = IF @ = 0 THEN 0 ELSE @ - 1]
    /\ UNCHANGED <<vis, head, native, todo, kills, losses, died, lost>>

------------------------------------------------------------------------------
Init ==
    /\ vis = [f \in Files |-> IF f \in ClaimSet THEN "active" ELSE None]
    /\ dur = vis
    /\ late = [d \in Dirs |-> <<>>]
    /\ head = <<>> /\ native = 0 /\ todo = <<>> /\ kills = 0 /\ losses = 0
    /\ died = FALSE /\ stale = [d \in Dirs |-> 0] /\ lost = FALSE

Next ==
    \/ \E tx \in {Tx(FALSE, 0), Other} : CreateTx(tx)
    \/ Progress \/ RemoveTx
    \/ Activate \/ Land \/ Replay \/ Abort \/ SettleTail
    \/ Effect
    \/ Crash \/ PowerLoss \/ (\E d \in Dirs : WriteBack(d))
    \/ Write \/ Turn

Spec == Init /\ [][Next]_vars

------------------------------------------------------------------------------
(* Properties                                                                *)

Images == {Other} \cup {Tx(b, n) : b \in BOOLEAN, n \in 0..MaxPicks}
Commits == [kind : {"merge", "tail", "turn"}, from : Nat, upto : Nat, picks : Nat]
Publications == [old : Seq(Commits), commit : Commits]
Journals == [phase : {"preparing", "open", "landed", "aborting", "aborted"},
             pub : Publications \cup {None}, image : Images \cup {None},
             consumed : Nat, linked : BOOLEAN]
Receipts == [prev : Journals \cup {None}, next : Journals]

ASSUME NoneIsNoRecord ==
    None \notin Images \cup Journals \cup Receipts \cup Publications \cup {"archive"}

\* The type of the state: each file holds what its readers parse, a journal's
\* frontier is a number of records that exist, and a file differs from what the
\* disk holds only by renames that are on their way.
TypeOK ==
    /\ DOMAIN vis = Files /\ DOMAIN dur = Files /\ DOMAIN late = Dirs
    /\ \A f \in Git : vis[f] \in Images \cup {None}
    /\ vis["link"] \in {None, "archive"}
    /\ \A c \in ClaimSet : vis[c] \in {"active", "retired"}
    /\ vis["rec"] \in Receipts \cup {None}
    /\ Intent # None => Intent \in Journals /\ Intent.consumed \in 0..native
    /\ \A d \in Dirs : stale[d] \in 0..Len(late[d])
    /\ \A d \in Dirs, f \in Files : f \in d => vis[f] = OnDisk(f, d, Len(late[d]))
    /\ native \in 0..MaxRecords /\ kills \in 0..MaxKills /\ losses \in 0..MaxLosses
    /\ \A i \in 1..Len(todo) : todo[i].do \in {"put", "sync", "expect", "cas"}
    /\ head \in Seq(Commits)

Merges == {i \in 1..Len(head) : head[i].kind = "merge"}

\* Where the branch carries native records.
Carrying == {i \in 1..Len(head) : head[i].kind # "turn"}

\* What the journal pair can be read as, at any moment and after any crash or
\* power loss: read_pair refuses a main file that is neither the receipt's
\* successor nor its predecessor, and nothing repairs it.
JournalReadable ==
    IF vis["rec"] = None THEN vis["main"] = None
    ELSE vis["main"] \in {vis["rec"].next, vis["rec"].prev}

\* Every native record reaches the branch at most once and in order, whatever
\* was retried: the commits that carry records continue each other, starting at
\* the merge, and the journal's frontier never runs ahead of them.  (Not when a power
\* loss takes a dead command's receipt after a later one went on from it.)
CapturedOnce == ~lost =>
    /\ \A i \in Carrying :
         LET before == {k \in Carrying : k < i}
         IN /\ head[i].kind = IF before = {} THEN "merge" ELSE "tail"
            /\ head[i].from = IF before = {} THEN 0 ELSE head[Max(before)].upto
    /\ Intent # None /\ Intent.phase = "landed" =>
         Carrying # {} /\ Intent.consumed <= head[Max(Carrying)].upto

\* A merge that is cancelled never landed: from the cancellation's intent on,
\* the merge commit is not on the branch ("cancellation cannot roll it back").
CancelledNeverLanded ==
    Intent # None /\ Intent.phase \in {"aborting", "aborted"} => Merges = {}

\* The completion carrier is proof: a landed one holds the very transaction the
\* merge commit was built from, an aborted one means the claims are back; there
\* are never both.
CarrierIsProof ==
    /\ vis["landed"] # None =>
         /\ vis["aborted"] = None
         /\ \E i \in Merges : head[i].picks = vis["landed"].picks
    /\ vis["aborted"] # None =>
         /\ Merges = {}
         /\ \A c \in ClaimSet : vis[c] = "active"

\* Who may write the branch: while the exploration is open or has landed every
\* earlier claim is retired and the archive Link is installed, so no other
\* runtime settles turns beside it.  (Not when a power loss takes back a Link that a
\* later command had found installed or retired.)
OneClaimant ==
    (~lost /\ Intent # None /\ Intent.phase \in {"open", "landed"}) =>
        vis["link"] = "archive" /\ \A c \in ClaimSet : vis[c] = "retired"

\* What can still be done with the merge: it can be cancelled or its landing
\* finished, it is completed, or it left no trace that a new one would refuse.
Completable ==
    IF Intent = None
    THEN /\ head = <<>> /\ vis["link"] = None
         /\ \A c \in ClaimSet : vis[c] = "active"
         /\ vis["tx"] # None => ~vis["tx"].bound
    ELSE \/ Abortable
         \/ /\ Intent.phase \in {"landed", "aborted"}
            /\ vis[Intent.phase] = Intent.image

\* No fault wedges the merge: as long as nobody moved the branch by other means,
\* commands that die at any point, and power losses at any point that take back
\* nothing a later command had found, leave a merge that can be completed.
NeverWedged == (Idle /\ Turns = 0 /\ ~lost) => Completable

\* Cancellation recovers every endpoint at which an activation or an earlier
\* cancellation may stop, as abort.rs and its test say.  Violated: an activation dies
\* after renaming the Link, the cancellation retains the Link it sees before the disk
\* holds it, power fails, and no cancellation is accepted any more.
CancellationRecovers ==
    (Idle /\ Turns = 0 /\ Intent # None /\ Intent.phase \in {"preparing", "aborting"})
        => Abortable
=============================================================================
