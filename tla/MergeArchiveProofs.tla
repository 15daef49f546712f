------------------------- MODULE MergeArchiveProofs -------------------------
(***************************************************************************)
(* What a merge's files say of one another, after any number of commands   *)
(* that die and of power losses.                                           *)
(*                                                                         *)
(* A command is a list of effects that it decides on under its locks.  Its *)
(* proof is a plan: the files and the branch after each effect, every one  *)
(* of them safe to be left behind.  Plans of parts compose to the plan of  *)
(* a command, and the tail of a plan is the plan of what is left to do.    *)
(***************************************************************************)
EXTENDS MergeArchive, FiniteSetTheorems, SequenceTheorems, WellFoundedInduction, TLAPS

------------------------------------------------------------------------------
(* What one state of the files says                                          *)

\* The journal that files v are recovered to.
JournalIn(v) == IF v["rec"] = None THEN v["main"] ELSE v["rec"].next

\* The commits of branch h that carry records, by their place on it.
Log(h) == [i \in {k \in 1..Len(h) : h[k].kind # "turn"} |-> h[i]]

\* They continue one another from the merge on; the last one ends at record n.
Chained(l) ==
    \A i \in DOMAIN l :
        LET before == {k \in DOMAIN l : k < i}
        IN /\ l[i].kind = IF before = {} THEN "merge" ELSE "tail"
           /\ l[i].from = IF before = {} THEN 0 ELSE l[Max(before)].upto
EndsAt(l, n) == \E i \in DOMAIN l : l[i].upto = n /\ \A k \in DOMAIN l : k <= i

\* The merge commit was built from transaction image tx.
Merged(l, tx) == \E i \in DOMAIN l : l[i].kind = "merge" /\ l[i].picks = tx.picks

Ours(tx) == tx \in Images /\ tx.gen = "this"
ClaimsAre(v, x) == \A c \in ClaimSet : v[c] = x
NoCarrier(v) == v["landed"] = None /\ v["aborted"] = None

\* A journal by itself, with n records written.
Sound(j, n) ==
    /\ j \in Journals /\ j.consumed <= n
    /\ j.pub # None => j.pub.commit.upto <= n
    /\ j.phase = "preparing" => j.image \in Images /\ j = Preparing(j.image)

\* Each directory by itself: its files parse, and the journal pair is readable.
LocalJournal(v, n) ==
    /\ v["rec"] \in Receipts \cup {None}
    /\ v["rec"] = None => v["main"] = None
    /\ v["rec"] # None => v["main"] \in {v["rec"].next, v["rec"].prev} /\ Sound(v["rec"].next, n)
LocalGit(v) == \A f \in Git : v[f] \in Images \cup {None}
LocalStore(v) == v["link"] \in {None, "archive"} /\ \A c \in ClaimSet : v[c] \in {"active", "retired"}
Whole(v) == v = [f \in Files |-> v[f]]
Local(v, n) == Whole(v) /\ LocalJournal(v, n) /\ LocalGit(v) /\ LocalStore(v)

\* Across directories and with branch log l, by the phase of the journal.
GoodNone(v, l) ==
    /\ DOMAIN l = {} /\ NoCarrier(v)
    /\ v["link"] = None /\ ClaimsAre(v, "active")
    /\ v["tx"] # None => ~v["tx"].bound
GoodPreparing(v, l, j) ==
    /\ DOMAIN l = {} /\ NoCarrier(v)
    /\ Ours(j.image) /\ ~j.image.bound /\ v["tx"] \in {j.image, Bound(j.image)}
GoodOpen(v, l, j) ==
    /\ NoCarrier(v) /\ v["link"] = "archive" /\ ClaimsAre(v, "retired")
    /\ Ours(v["tx"]) /\ v["tx"].bound
    /\ IF j.pub = None THEN DOMAIN l = {}
       ELSE /\ v["tx"] = j.image
            /\ j.pub.old = <<>> /\ j.pub.commit.kind = "merge" /\ j.pub.commit.from = 0
            /\ j.pub.commit.picks = j.image.picks
            /\ DOMAIN l = {} \/ l = Log(Candidate(j.pub))
GoodLanded(v, l, j) ==
    /\ v["link"] = "archive" /\ ClaimsAre(v, "retired")
    /\ v["aborted"] = None /\ Ours(j.image)
    /\ (v["tx"] = j.image /\ v["landed"] \in {None, j.image}) \/ v["landed"] = j.image
    /\ Chained(l) /\ Merged(l, j.image)
    /\ IF j.pub = None THEN EndsAt(l, j.consumed)
       ELSE /\ EndsAt(Log(j.pub.old), j.consumed) /\ Merged(Log(Candidate(j.pub)), j.image)
            /\ Chained(Log(Candidate(j.pub)))
            /\ j.pub.commit.kind = "tail" /\ j.consumed <= j.pub.commit.upto
            /\ l \in {Log(j.pub.old), Log(Candidate(j.pub))}
GoodAborting(v, l, j) ==
    /\ DOMAIN l = {} /\ NoCarrier(v)
    /\ Ours(j.image) /\ v["tx"] = j.image /\ j.linked = (v["link"] # None)
GoodAborted(v, l, j) ==
    /\ DOMAIN l = {} /\ v["landed"] = None /\ ClaimsAre(v, "active") /\ Ours(j.image)
    /\ j.linked = (v["link"] # None)
    /\ (v["tx"] = j.image /\ v["aborted"] \in {None, j.image}) \/ v["aborted"] = j.image

Fits(v, l, j) ==
    /\ j = None => GoodNone(v, l)
    /\ j # None =>
         /\ j.phase = "preparing" => GoodPreparing(v, l, j)
         /\ j.phase = "open" => GoodOpen(v, l, j)
         /\ j.phase = "landed" => GoodLanded(v, l, j)
         /\ j.phase = "aborting" => GoodAborting(v, l, j)
         /\ j.phase = "aborted" => GoodAborted(v, l, j)
Good(v, l) == Fits(v, l, JournalIn(v))

\* What may be left behind: the directories fit together unless a power loss took what
\* a command had found.
Safe(v, l, n) == Local(v, n) /\ (~lost => Good(v, l))

------------------------------------------------------------------------------
(* Plans                                                                     *)

Values == Images \cup Journals \cup Receipts \cup {"archive", "active", "retired", None}
Effects ==
    [do : {"put"}, file : Files, val : Values] \cup [do : {"sync"}, dir : Dirs]
      \cup [do : {"expect"}, head : Seq(Commits)] \cup [do : {"cas"}, pub : Publications]

\* Where a plan stands: the files as readers see them, the directories that may
\* hold renames not yet on disk, and the branch log.
St(v, dirty, l) == [vis |-> v, dirty |-> dirty, log |-> l]

\* One effect of a plan, with n records written: only one directory is ever dirty,
\* and none when the branch moves.
Step(s, e, t, n) ==
    \/ /\ e.do = "put"
       /\ \E d \in Dirs :
            /\ e.file \in d /\ s.dirty \subseteq {d}
            /\ t = St([s.vis EXCEPT ![e.file] = e.val], {d}, s.log)
       /\ Safe(t.vis, s.log, n)
    \/ /\ e.do = "sync" /\ e.dir \in Dirs
       /\ t = St(s.vis, s.dirty \ {e.dir}, s.log)
    \/ /\ e.do = "expect" /\ s.dirty \subseteq {Git}
       /\ t = s
    \/ /\ e.do = "cas" /\ s.dirty = {}
       /\ t = St(s.vis, {}, Log(Candidate(e.pub)))
       /\ ~lost => Good(s.vis, t.log)

\* The effects of seq lead from s to t.
Runs(s, seq, t, n) ==
    /\ seq \in Seq(Effects)
    /\ \E g : /\ g[0] = s /\ g[Len(seq)] = t
              /\ \A i \in 1..Len(seq) : Step(g[i - 1], seq[i], g[i], n)

------------------------------------------------------------------------------
(* The inductive invariant                                                   *)

\* The value of file f under the first n renames of q, b without them.
Last(q, n, f, b) ==
    LET mine == {i \in 1..n : q[i].file = f}
    IN IF mine = {} THEN b ELSE q[Max(mine)].val

\* Directory d of files v under the first k renames of q, on a disk that holds b; the
\* files that a power loss may leave when the renames of each directory are L, and at
\* least its first m of them are kept.
Kept(v, d, q, b, k) == \A f \in d : v[f] = Last(q, k, f, b[f])
Survives(v, L, b, m) ==
    /\ Whole(v)
    /\ \A d \in Dirs : \E k \in m[d]..Len(L[d]) : Kept(v, d, L[d], b, k)
Nothing == [d \in Dirs |-> 0]

ShapeInv ==
    /\ Whole(vis) /\ DOMAIN dur = Files /\ DOMAIN late = Dirs
    /\ \A d \in Dirs :
         /\ late[d] \in Seq(Effects) /\ Kept(vis, d, late[d], dur, Len(late[d]))
         /\ \A i \in 1..Len(late[d]) : late[d][i].file \in d
    /\ DOMAIN stale = Dirs /\ \A d \in Dirs : stale[d] \in 0..Len(late[d])
    /\ head \in Seq(Commits)
    /\ native \in 0..MaxRecords /\ kills \in 0..MaxKills /\ losses \in 0..MaxLosses

\* Whatever a power loss leaves, each directory is safe by itself; and the directories
\* fit together if what a command found of a dead one is left.
DiskInv ==
    /\ \A v : Survives(v, late, dur, Nothing) => Local(v, native)
    /\ ~lost => \A v : Survives(v, late, dur, stale) => Good(v, Log(head))

\* What is left to do is a plan from where the files are, and it ends with at most
\* the transaction not yet on disk.  A command that died has nothing left to do and
\* may have left any directory half-way.
Dirty == {d \in Dirs : Len(late[d]) # stale[d]}
PlanInv ==
    /\ died => todo = <<>>
    /\ \E D, t :
        /\ ~lost /\ ~died => Dirty \subseteq D
        /\ Runs(St(vis, D, Log(head)), todo, t, native)
        /\ t.dirty \subseteq {Git}

IInv == ShapeInv /\ DiskInv /\ PlanInv

------------------------------------------------------------------------------
(* Directories and sequences                                                 *)

\* A set of numbers up to n has a greatest.
LEMMA MaxFacts ==
    ASSUME NEW n \in Nat, NEW S \in SUBSET (0 .. n), S # {}
    PROVE  /\ Max(S) \in S
           /\ \A x \in S : x <= Max(S)
  <1>. DEFINE T == {m \in Nat : \E x \in S : m = n - x}
              less == {ss \in Nat \X Nat : ss[1] < ss[2]}
  <1>1. T \subseteq Nat /\ T # {}
    <2>1. PICK x \in S : TRUE
      OBVIOUS
    <2>2. n - x \in T
      BY <2>1
    <2>. QED
      BY <2>2
  <1>2. PICK m \in T : \A y \in T : ~(<<y, m>> \in less)
    <2>1. IsWellFoundedOn(less, Nat)
      BY NatLessThanWellFounded DEF OpToRel
    <2>. HIDE DEF T, less
    <2>. QED
      BY <1>1, <2>1, WFMin
  <1>3. \A y \in T : m <= y
    <2>1. \A x, y \in Nat : x < y => <<x, y>> \in less
      OBVIOUS
    <2>2. m \in Nat /\ \A y \in T : y \in Nat
      BY <1>2
    <2>. HIDE DEF T, less
    <2>3. \A y \in T : ~(y < m)
      BY <1>2, <2>1, <2>2
    <2>. QED
      BY <2>2, <2>3
  <1>4. PICK a \in S : m = n - a
    BY <1>2
  <1>5. \A y \in S : a >= y
    BY <1>3, <1>4
  <1>. QED
    BY <1>5 DEF Max

\* The greatest is known by its two properties.
LEMMA MaxIs ==
    ASSUME NEW n \in Nat, NEW S \in SUBSET (0 .. n), NEW a \in S, \A x \in S : x <= a
    PROVE  Max(S) = a
  <1>1. S # {}
    OBVIOUS
  <1>2. Max(S) \in S /\ \A x \in S : x <= Max(S)
    BY <1>1, MaxFacts
  <1>. DEFINE m == Max(S)
  <1>. HIDE DEF m
  <1>3. m \in S /\ \A x \in S : x <= m
    BY <1>2 DEF m
  <1>4. m \in Nat /\ a \in Nat /\ m <= a /\ a <= m
    BY <1>3
  <1>5. m = a
    BY <1>4
  <1>. QED
    BY <1>5 DEF m

\* The three directories share no file, and no Link has the name of another file.
LEMMA DirFacts ==
    /\ Journal # Git /\ Journal # Store /\ Git # Store
    /\ \A d, e \in Dirs : \A f : f \in d /\ f \in e => d = e
    /\ Journal \in Dirs /\ Git \in Dirs /\ Store \in Dirs
    /\ \A f : f \in Files <=> f \in Journal \/ f \in Git \/ f \in Store
    /\ \A d \in Dirs : \A f \in d : f \in Files
    /\ \A c \in ClaimSet :
         c \notin {"main", "rec", "tx", "landed", "aborted", "link"} /\ c \in Store
  <1>1. \A c \in ClaimSet : c \notin {"main", "rec", "tx", "landed", "aborted", "link"}
    BY MergeAssumption
  <1>2. \A f : f \in Journal <=> f = "main" \/ f = "rec"
    BY DEF Journal
  <1>3. \A f : f \in Git <=> f = "tx" \/ f = "landed" \/ f = "aborted"
    BY DEF Git
  <1>4. \A f : f \in Store <=> f = "link" \/ f \in ClaimSet
    BY DEF Store
  <1>. QED
    BY <1>1, <1>2, <1>3, <1>4 DEF Dirs, Files

\* The files by name.
LEMMA FileFacts ==
    /\ {"main", "rec", "tx", "landed", "aborted", "link"} \subseteq Files
    /\ ClaimSet \subseteq Files
    /\ \A f \in Files : f \in {"main", "rec", "tx", "landed", "aborted", "link"} \/ f \in ClaimSet
    /\ "main" \in Journal /\ "rec" \in Journal
    /\ "tx" \in Git /\ "landed" \in Git /\ "aborted" \in Git
    /\ "link" \in Store /\ ClaimSet \subseteq Store
  BY DirFacts DEF Journal, Git, Store

\* The claims by their places in the sequence that activation walks.
LEMMA ClaimFacts ==
    /\ Len(Claims) \in Nat
    /\ \A k \in 1..Len(Claims) : Claims[k] \in ClaimSet
    /\ \A c \in ClaimSet : \E k \in 1..Len(Claims) : Claims[k] = c
  <1>1. Claims \in Seq(ClaimSet)
    BY MergeAssumption
  <1>2. Len(Claims) \in Nat
    BY <1>1, LenProperties
  <1>. QED
    BY <1>2 DEF ClaimSet

------------------------------------------------------------------------------
(* Renames                                                                   *)

\* No rename of f among the first n of q; the last one of f is the i-th.
Untouched(q, n, f) == \A i \in 1..n : q[i].file # f
Latest(q, n, f, i) ==
    i \in 1..n /\ q[i].file = f /\ \A k \in 1..n : q[k].file = f => k <= i
Prefixed(q, r, n) == \A i \in 1..n : r[i] = q[i]

Shifted(q, r, n) == \A i \in 1..n : r[i] = q[i + 1]
Appended(q, e, r) == q \in Seq(Effects) /\ e \in Effects /\ r = Append(q, e)

\* File f after rename e, b before it.
Over(e, f, b) == IF e.file = f THEN e.val ELSE b

\* A file that no rename touched is as the disk holds it.
LEMMA LastNone ==
    ASSUME NEW q, NEW n \in Nat, NEW f, NEW b, Untouched(q, n, f)
    PROVE  Last(q, n, f, b) = b
  <1>1. {i \in 1..n : q[i].file = f} = {}
    BY DEF Untouched
  <1>. QED
    BY <1>1 DEF Last

\* The latest rename of a file decides what it holds.
LEMMA LastAt ==
    ASSUME NEW q, NEW n \in Nat, NEW f, NEW b, NEW i, Latest(q, n, f, i)
    PROVE  Last(q, n, f, b) = q[i].val
  <1>. DEFINE mine == {k \in 1..n : q[k].file = f}
  <1>1. mine \in SUBSET (0..n) /\ i \in mine /\ \A k \in mine : k <= i
    BY DEF Latest
  <1>2. Last(q, n, f, b) = IF mine = {} THEN b ELSE q[Max(mine)].val
    BY DEF Last
  <1>. HIDE DEF mine
  <1>3. Max(mine) = i
    BY <1>1, MaxIs
  <1>. QED
    BY <1>1, <1>2, <1>3

\* A file is untouched by the first n renames, or one of them is its latest.
LEMMA LatestRename ==
    ASSUME NEW q, NEW n \in Nat, NEW f
    PROVE  Untouched(q, n, f) \/ \E i : Latest(q, n, f, i)
  <1>. DEFINE mine == {i \in 1..n : q[i].file = f}
              a == Max(mine)
  <1>1. mine = {} => Untouched(q, n, f)
    BY DEF Untouched
  <1>2. ASSUME mine # {} PROVE \E i : Latest(q, n, f, i)
    <2>1. mine \in SUBSET (0..n)
      OBVIOUS
    <2>2. a \in mine /\ \A x \in mine : x <= a
      <3>. HIDE DEF mine
      <3>. QED
        BY <1>2, <2>1, MaxFacts
    <2>. HIDE DEF a
    <2>3. Latest(q, n, f, a)
      BY <2>2 DEF Latest
    <2>. QED
      BY <2>3
  <1>. QED
    BY <1>1, <1>2

\* Without a rename every file is as the disk holds it.
LEMMA LastZero == \A q, f, b : Last(q, 0, f, b) = b
  <1>1. \A q, f : {i \in 1..0 : q[i].file = f} = {}
    OBVIOUS
  <1>. QED
    BY <1>1 DEF Last

\* The first n renames decide.
LEMMA LastSame ==
    ASSUME NEW q, NEW r, NEW n \in Nat, Prefixed(q, r, n), NEW f, NEW b
    PROVE  Last(r, n, f, b) = Last(q, n, f, b)
  <1>1. CASE Untouched(q, n, f)
    <2>1. Untouched(r, n, f)
      BY <1>1 DEF Untouched, Prefixed
    <2>. QED
      BY <1>1, <2>1, LastNone
  <1>2. CASE \E i : Latest(q, n, f, i)
    <2>1. PICK i : Latest(q, n, f, i)
      BY <1>2
    <2>2. Latest(r, n, f, i) /\ r[i] = q[i]
      BY <2>1 DEF Latest, Prefixed
    <2>3. Last(r, n, f, b) = r[i].val
      BY <2>2, LastAt
    <2>4. Last(q, n, f, b) = q[i].val
      BY <2>1, LastAt
    <2>. QED
      BY <2>2, <2>3, <2>4
  <1>. QED
    BY <1>1, <1>2, LatestRename

\* A rename more.
LEMMA LastNext ==
    ASSUME NEW q, NEW n \in Nat, NEW f, NEW b, NEW m, m = n + 1
    PROVE  Last(q, m, f, b) = Over(q[m], f, Last(q, n, f, b))
  <1>1. m \in Nat
    OBVIOUS
  <1>2. CASE q[m].file = f
    <2>1. Latest(q, m, f, m)
      BY <1>2 DEF Latest
    <2>2. Last(q, m, f, b) = q[m].val
      BY <1>1, <2>1, LastAt
    <2>. QED
      BY <1>2, <2>2 DEF Over
  <1>3. CASE q[m].file # f
    <2>1. CASE Untouched(q, n, f)
      <3>1. Untouched(q, m, f)
        BY <1>3, <2>1 DEF Untouched
      <3>2. Last(q, m, f, b) = b
        BY <1>1, <3>1, LastNone
      <3>3. Last(q, n, f, b) = b
        BY <2>1, LastNone
      <3>. QED
        BY <1>3, <3>2, <3>3 DEF Over
    <2>2. CASE \E i : Latest(q, n, f, i)
      <3>1. PICK i : Latest(q, n, f, i)
        BY <2>2
      <3>2. Latest(q, m, f, i)
        BY <1>3, <3>1 DEF Latest
      <3>3. Last(q, m, f, b) = q[i].val
        BY <1>1, <3>2, LastAt
      <3>4. Last(q, n, f, b) = q[i].val
        BY <3>1, LastAt
      <3>. QED
        BY <1>3, <3>3, <3>4 DEF Over
    <2>. QED
      BY <2>1, <2>2, LatestRename
  <1>. QED
    BY <1>2, <1>3

\* The first rename is on disk.
LEMMA LastRest ==
    ASSUME NEW q, NEW r, NEW n \in Nat, Shifted(q, r, n), NEW f, NEW b,
           NEW c, c = Over(q[1], f, b), NEW m, m = n + 1
    PROVE  Last(r, n, f, c) = Last(q, m, f, b)
  <1>1. m \in Nat
    OBVIOUS
  <1>2. \A i \in 2..m : r[i - 1] = q[i] /\ i - 1 \in 1..n
    <2>1. ASSUME NEW i \in 2..m PROVE r[i - 1] = q[i] /\ i - 1 \in 1..n
      <3>1. i - 1 \in 1..n /\ (i - 1) + 1 = i
        OBVIOUS
      <3>. QED
        BY <3>1 DEF Shifted
    <2>. QED
      BY <2>1
  <1>3. CASE Untouched(r, n, f)
    <2>1. Last(r, n, f, c) = c
      BY <1>3, LastNone
    <2>2. \A i \in 2..m : q[i].file # f
      BY <1>2, <1>3 DEF Untouched
    <2>3. CASE q[1].file = f
      <3>1. Latest(q, m, f, 1)
        BY <2>2, <2>3 DEF Latest
      <3>2. Last(q, m, f, b) = q[1].val
        BY <1>1, <3>1, LastAt
      <3>. QED
        BY <2>1, <2>3, <3>2 DEF Over
    <2>4. CASE q[1].file # f
      <3>1. Untouched(q, m, f)
        BY <2>2, <2>4 DEF Untouched
      <3>2. Last(q, m, f, b) = b
        BY <1>1, <3>1, LastNone
      <3>. QED
        BY <2>1, <2>4, <3>2 DEF Over
    <2>. QED
      BY <2>3, <2>4
  <1>4. CASE \E i : Latest(r, n, f, i)
    <2>1. PICK i : Latest(r, n, f, i)
      BY <1>4
    <2>2. Last(r, n, f, c) = r[i].val
      BY <2>1, LastAt
    <2>. DEFINE h == i + 1
    <2>3. i \in 1..n /\ h = i + 1 /\ h \in 1..m /\ r[i] = q[h]
      BY <2>1 DEF Latest, Shifted
    <2>. HIDE DEF h
    <2>4. ASSUME NEW k \in 1..m, q[k].file = f PROVE k <= h
      <3>1. CASE k = 1
        BY <2>3, <3>1
      <3>2. CASE k # 1
        <4>1. k \in 2..m
          BY <3>2
        <4>2. r[k - 1].file = f /\ k - 1 \in 1..n
          BY <1>2, <2>4, <4>1
        <4>3. k - 1 <= i
          BY <2>1, <4>2 DEF Latest
        <4>. QED
          BY <2>3, <4>3
      <3>. QED
        BY <3>1, <3>2
    <2>5. Latest(q, m, f, h)
      BY <2>1, <2>3, <2>4 DEF Latest
    <2>6. Last(q, m, f, b) = q[h].val
      BY <1>1, <2>5, LastAt
    <2>. QED
      BY <2>2, <2>3, <2>6
  <1>. QED
    BY <1>3, <1>4, LatestRename

\* The same, of a rename that is appended.
LEMMA LastAppend ==
    ASSUME NEW q, NEW e, NEW r, Appended(q, e, r), NEW f, NEW b
    PROVE  Last(r, Len(q) + 1, f, b) = Over(e, f, Last(q, Len(q), f, b))
  <1>1. /\ Len(q) \in Nat /\ r[Len(q) + 1] = e
        /\ \A i \in 1..Len(q) : r[i] = q[i]
    BY AppendProperties, LenProperties DEF Appended
  <1>. DEFINE n == Len(q)
              m == n + 1
  <1>2. n \in Nat /\ m = n + 1 /\ r[m] = e /\ n \in 0..n
    BY <1>1
  <1>3. Prefixed(q, r, n)
    BY <1>1 DEF Prefixed
  <1>. HIDE DEF n, m
  <1>5. Last(r, m, f, b) = Over(r[m], f, Last(r, n, f, b))
    BY <1>2, LastNext
  <1>6. Last(r, n, f, b) = Last(q, n, f, b)
    BY <1>2, <1>3, LastSame
  <1>7. Last(r, m, f, b) = Over(e, f, Last(q, n, f, b))
    BY <1>2, <1>5, <1>6
  <1>. QED
    BY <1>7 DEF n, m

\* The disk after a power loss, in the terms of the proofs.
LEMMA OnDiskIsLast == \A f, d, n : OnDisk(f, d, n) = Last(late[d], n, f, dur[f])
  BY DEF OnDisk, Last

------------------------------------------------------------------------------
(* Plans compose                                                             *)

\* A plan without effects goes nowhere.
LEMMA RunsEmpty ==
    ASSUME NEW s, NEW t, NEW n
    PROVE  Runs(s, <<>>, t, n) <=> s = t
  <1>1. <<>> \in Seq(Effects) /\ Len(<<>>) = 0 /\ 1..0 = {}
    BY EmptySeq
  <1>2. ASSUME Runs(s, <<>>, t, n) PROVE s = t
    BY <1>1, <1>2 DEF Runs
  <1>3. ASSUME s = t PROVE Runs(s, <<>>, t, n)
    <2>. DEFINE g == [i \in {0} |-> s]
    <2>1. g[0] = s
      OBVIOUS
    <2>. HIDE DEF g
    <2>2. g[Len(<<>>)] = t /\ \A i \in 1..Len(<<>>) : Step(g[i - 1], <<>>[i], g[i], n)
      BY <1>1, <1>3, <2>1
    <2>. QED
      BY <1>1, <2>1, <2>2 DEF Runs
  <1>. QED
    BY <1>2, <1>3

\* One step is the plan of one effect.
LEMMA RunsOne ==
    ASSUME NEW s, NEW t, NEW n, NEW e \in Effects, Step(s, e, t, n)
    PROVE  Runs(s, <<e>>, t, n)
  <1>. DEFINE g == [i \in {0, 1} |-> IF i = 0 THEN s ELSE t]
  <1>1. g[0] = s /\ g[1] = t
    OBVIOUS
  <1>2. <<e>> \in Seq(Effects) /\ Len(<<e>>) = 1 /\ <<e>>[1] = e
    OBVIOUS
  <1>. HIDE DEF g
  <1>3. \A i \in 1..Len(<<e>>) : i = 1 /\ i - 1 = 0
    BY <1>2
  <1>4. \A i \in 1..Len(<<e>>) : Step(g[i - 1], <<e>>[i], g[i], n)
    BY <1>1, <1>2, <1>3
  <1>. QED
    BY <1>1, <1>2, <1>4 DEF Runs

\* A plan goes on where another ends: the parts of a command compose.
LEMMA RunsConcat ==
    ASSUME NEW a, NEW b, NEW c, NEW p, NEW q, NEW n, Runs(a, p, b, n), Runs(b, q, c, n)
    PROVE  Runs(a, p \o q, c, n)
  <1>1. p \in Seq(Effects) /\ q \in Seq(Effects)
    BY DEF Runs
  <1>2. PICK g : /\ g[0] = a /\ g[Len(p)] = b
                 /\ \A i \in 1..Len(p) : Step(g[i - 1], p[i], g[i], n)
    BY DEF Runs
  <1>3. PICK h : /\ h[0] = b /\ h[Len(q)] = c
                 /\ \A i \in 1..Len(q) : Step(h[i - 1], q[i], h[i], n)
    BY DEF Runs
  <1>4. /\ p \o q \in Seq(Effects) /\ Len(p \o q) = Len(p) + Len(q)
        /\ Len(p) \in Nat /\ Len(q) \in Nat
        /\ \A i \in 1..Len(p) : (p \o q)[i] = p[i]
        /\ \A i \in 1..Len(q) : (p \o q)[Len(p) + i] = q[i]
    BY <1>1, ConcatProperties, LenProperties
  <1>. DEFINE pq == p \o q
              k == [i \in 0..Len(p) + Len(q) |-> IF i <= Len(p) THEN g[i] ELSE h[i - Len(p)]]
  <1>5. \A i \in 0..Len(p) : k[i] = g[i]
    BY <1>4
  <1>6. \A i \in 0..Len(q) : k[Len(p) + i] = h[i]
    <2>1. ASSUME NEW i \in 0..Len(q) PROVE k[Len(p) + i] = h[i]
      <3>1. CASE i = 0
        BY <3>1, <1>2, <1>3, <1>4
      <3>2. CASE i # 0
        <4>1. Len(p) + i \in 0..Len(p) + Len(q) /\ ~(Len(p) + i <= Len(p)) /\ (Len(p) + i) - Len(p) = i
          BY <3>2, <1>4
        <4>. QED
          BY <4>1
      <3>. QED
        BY <3>1, <3>2
    <2>. QED
      BY <2>1
  <1>. HIDE DEF k, pq
  <1>7. k[0] = a /\ k[Len(pq)] = c
    <2>1. 0 \in 0..Len(p) /\ Len(q) \in 0..Len(q) /\ Len(pq) = Len(p) + Len(q)
      BY <1>4 DEF pq
    <2>. QED
      BY <2>1, <1>2, <1>3, <1>5, <1>6
  <1>8. ASSUME NEW i \in 1..Len(pq) PROVE Step(k[i - 1], pq[i], k[i], n)
    <2>0. i \in 1..Len(p) + Len(q)
      BY <1>4 DEF pq
    <2>1. CASE i <= Len(p)
      <3>1. i \in 1..Len(p) /\ i \in 0..Len(p) /\ i - 1 \in 0..Len(p)
        BY <2>0, <2>1, <1>4
      <3>2. pq[i] = p[i]
        BY <3>1, <1>4 DEF pq
      <3>3. k[i] = g[i] /\ k[i - 1] = g[i - 1]
        BY <3>1, <1>5
      <3>4. Step(g[i - 1], p[i], g[i], n)
        BY <3>1, <1>2
      <3>. QED
        BY <3>2, <3>3, <3>4
    <2>2. CASE ~(i <= Len(p))
      <3>1. PICK m \in 1..Len(q) : i = Len(p) + m
        <4>1. i - Len(p) \in 1..Len(q) /\ i = Len(p) + (i - Len(p))
          BY <2>0, <2>2, <1>4
        <4>. QED
          BY <4>1
      <3>2. m \in 0..Len(q) /\ m - 1 \in 0..Len(q) /\ i - 1 = Len(p) + (m - 1)
        BY <3>1, <1>4
      <3>3. pq[i] = q[m]
        BY <3>1, <1>4 DEF pq
      <3>4. k[i] = h[m] /\ k[i - 1] = h[m - 1]
        BY <3>1, <3>2, <1>6
      <3>5. Step(h[m - 1], q[m], h[m], n)
        BY <3>1, <1>3
      <3>. QED
        BY <3>3, <3>4, <3>5
    <2>. QED
      BY <2>1, <2>2
  <1>9. pq \in Seq(Effects)
    BY <1>4 DEF pq
  <1>10. Runs(a, pq, c, n)
    BY <1>7, <1>8, <1>9 DEF Runs
  <1>. QED
    BY <1>10 DEF pq

\* A plan that is not done has a first effect, and the rest is a plan.
LEMMA RunsTail ==
    ASSUME NEW s, NEW t, NEW n, NEW q, Runs(s, q, t, n), q # <<>>
    PROVE  /\ Head(q) \in Effects
           /\ \E u : Step(s, Head(q), u, n) /\ Runs(u, Tail(q), t, n)
  <1>1. q \in Seq(Effects)
    BY DEF Runs
  <1>2. PICK g : /\ g[0] = s /\ g[Len(q)] = t
                 /\ \A i \in 1..Len(q) : Step(g[i - 1], q[i], g[i], n)
    BY DEF Runs
  <1>3. /\ Len(q) \in Nat \ {0} /\ Head(q) = q[1] /\ Head(q) \in Effects
        /\ Tail(q) \in Seq(Effects) /\ Len(Tail(q)) = Len(q) - 1
        /\ \A i \in 1..Len(Tail(q)) : Tail(q)[i] = q[i + 1]
    <2>1. Len(q) \in Nat \ {0} /\ Head(q) = q[1] /\ Head(q) \in Effects
      BY <1>1, HeadTailProperties, EmptySeq, LenProperties
    <2>. QED
      BY <2>1, <1>1, HeadTailProperties
  <1>4. 1 \in 1..Len(q) /\ 1 - 1 = 0
    BY <1>3
  <1>5. Step(s, Head(q), g[1], n)
    BY <1>2, <1>3, <1>4
  <1>. DEFINE r == Tail(q)
              h == [i \in 0..Len(r) |-> g[i + 1]]
  <1>. HIDE DEF r
  <1>6. Len(r) \in Nat /\ Len(r) + 1 = Len(q) /\ \A i \in 1..Len(r) : r[i] = q[i + 1]
    BY <1>3 DEF r
  <1>7. h[0] = g[1] /\ h[Len(r)] = t /\ \A i \in 0..Len(r) : h[i] = g[i + 1]
    BY <1>2, <1>6
  <1>. HIDE DEF h
  <1>8. ASSUME NEW i \in 1..Len(r) PROVE Step(h[i - 1], r[i], h[i], n)
    <2>1. i \in 0..Len(r) /\ i - 1 \in 0..Len(r) /\ i + 1 \in 1..Len(q) /\ (i - 1) + 1 = i /\ (i + 1) - 1 = i
      BY <1>6
    <2>2. h[i] = g[i + 1] /\ h[i - 1] = g[i]
      BY <2>1, <1>7
    <2>3. Step(g[i], q[i + 1], g[i + 1], n)
      BY <2>1, <1>2
    <2>. QED
      BY <2>2, <2>3, <1>6
  <1>9. Runs(g[1], r, t, n)
    BY <1>3, <1>7, <1>8 DEF Runs, r
  <1>. QED
    BY <1>3, <1>5, <1>9 DEF r

\* Records written later endanger no plan.
LEMMA SoundMore ==
    ASSUME NEW m \in Nat, NEW n \in Nat, m <= n, NEW j, Sound(j, m)
    PROVE  Sound(j, n)
  <1>1. j.consumed \in Nat /\ (j.pub # None => j.pub.commit.upto \in Nat)
    BY DEF Sound, Journals, Publications, Commits
  <1>. QED
    BY <1>1 DEF Sound

\* What may be left behind may be left behind with more records written.
LEMMA LocalMore ==
    ASSUME NEW m \in Nat, NEW n \in Nat, m <= n, NEW v, Local(v, m)
    PROVE  Local(v, n)
  BY SoundMore DEF Local, LocalJournal

LEMMA SafeMore ==
    ASSUME NEW m \in Nat, NEW n \in Nat, m <= n, NEW v, NEW l, Safe(v, l, m)
    PROVE  Safe(v, l, n)
  BY LocalMore DEF Safe

\* The plan of a running command stands while the runtime writes records.
LEMMA RunsMore ==
    ASSUME NEW m \in Nat, NEW n \in Nat, m <= n, NEW s, NEW q, NEW t, Runs(s, q, t, m)
    PROVE  Runs(s, q, t, n)
  <1>1. \A a, e, b : Step(a, e, b, m) => Step(a, e, b, n)
    <2>1. \A v, l : Safe(v, l, m) => Safe(v, l, n)
      BY SafeMore
    <2>2. ASSUME NEW a, NEW e, NEW b, Step(a, e, b, m) PROVE Step(a, e, b, n)
      <3>1. CASE e.do = "put"
        <4>1. Safe(b.vis, a.log, n)
          BY <2>1, <2>2, <3>1 DEF Step
        <4>. QED
          BY <2>2, <3>1, <4>1 DEF Step
      <3>2. CASE e.do # "put"
        BY <2>2, <3>2 DEF Step
      <3>. QED
        BY <3>1, <3>2
    <2>. QED
      BY <2>2
  <1>. QED
    BY <1>1 DEF Runs

------------------------------------------------------------------------------
(* Files                                                                     *)

Upd(v, f, x) == [v EXCEPT ![f] = x]
Same(v, w, S) == \A f \in S : w[f] = v[f]
Aside == Files \ Journal

\* Files v are recovered to journal j, and both files of the pair say so.
Settled(v, j, n) == Local(v, n) /\ v["main"] = j /\ JournalIn(v) = j

\* Renaming one file changes that file alone.
LEMMA UpdFacts ==
    ASSUME NEW v, Whole(v), NEW f \in Files, NEW x
    PROVE  /\ Whole(Upd(v, f, x))
           /\ Upd(v, f, x)[f] = x
           /\ \A g \in Files : g # f => Upd(v, f, x)[g] = v[g]
  <1>1. DOMAIN v = Files
    BY DEF Whole
  <1>. QED
    BY <1>1 DEF Upd, Whole

\* The files beside the journal are those of the other two directories.
LEMMA AsideFacts ==
    /\ {"tx", "landed", "aborted", "link"} \subseteq Aside /\ ClaimSet \subseteq Aside
    /\ "main" \notin Aside /\ "rec" \notin Aside
    /\ \A f : f \in Aside <=> f \in Git \/ f \in Store
  BY DirFacts, FileFacts DEF Aside, Journal

\* What the directories say to one another does not depend on the journal's files
\* but through the journal they are recovered to.
LEMMA FitsSame ==
    ASSUME NEW v, NEW w, NEW l, NEW j, Same(v, w, Aside), Fits(v, l, j)
    PROVE  Fits(w, l, j)
  <1>1. /\ w["tx"] = v["tx"] /\ w["landed"] = v["landed"] /\ w["aborted"] = v["aborted"]
        /\ w["link"] = v["link"] /\ \A c \in ClaimSet : w[c] = v[c]
    BY AsideFacts DEF Same
  <1>2. NoCarrier(v) => NoCarrier(w)
    BY <1>1 DEF NoCarrier
  <1>3. \A x : ClaimsAre(v, x) => ClaimsAre(w, x)
    BY <1>1 DEF ClaimsAre
  <1>4. GoodNone(v, l) => GoodNone(w, l)
    BY <1>1, <1>2, <1>3 DEF GoodNone
  <1>5. GoodPreparing(v, l, j) => GoodPreparing(w, l, j)
    BY <1>1, <1>2, <1>3 DEF GoodPreparing
  <1>6. GoodOpen(v, l, j) => GoodOpen(w, l, j)
    BY <1>1, <1>2, <1>3 DEF GoodOpen
  <1>7. GoodLanded(v, l, j) => GoodLanded(w, l, j)
    BY <1>1, <1>2, <1>3 DEF GoodLanded
  <1>8. GoodAborting(v, l, j) => GoodAborting(w, l, j)
    BY <1>1, <1>2, <1>3 DEF GoodAborting
  <1>9. GoodAborted(v, l, j) => GoodAborted(w, l, j)
    BY <1>1, <1>2, <1>3 DEF GoodAborted
  <1>. QED
    BY <1>4, <1>5, <1>6, <1>7, <1>8, <1>9 DEF Fits

\* What git and the Link store hold does not depend on the journal.
LEMMA LocalSame ==
    ASSUME NEW v, NEW w, Same(v, w, Aside)
    PROVE  (LocalGit(v) => LocalGit(w)) /\ (LocalStore(v) => LocalStore(w))
  <1>1. \A f \in Git : w[f] = v[f]
    BY AsideFacts DEF Same
  <1>2. w["link"] = v["link"] /\ \A c \in ClaimSet : w[c] = v[c]
    BY AsideFacts DEF Same
  <1>. QED
    BY <1>1, <1>2 DEF LocalGit, LocalStore

\* A recovered journal that fits may be left behind.
LEMMA SettledSafe ==
    ASSUME NEW v, NEW j, NEW n, NEW l, Settled(v, j, n), ~lost => Fits(v, l, j)
    PROVE  Safe(v, l, n)
  BY DEF Settled, Safe, Good

\* The journal a recovery finds is the successor of a receipt, and sound; without one
\* there is neither file.
LEMMA JournalFacts ==
    ASSUME NEW v, NEW n, Local(v, n)
    PROVE  /\ JournalIn(v) # None => Sound(JournalIn(v), n) /\ v["rec"] # None /\ JournalIn(v) = v["rec"].next
           /\ JournalIn(v) = None => v["rec"] = None /\ v["main"] = None
  <1>1. \A r \in Receipts : r.next \in Journals /\ r.next # None
    BY NoneIsNoRecord DEF Receipts
  <1>. QED
    BY <1>1 DEF Local, LocalJournal, JournalIn

\* Every file of a directory that parses holds one of the values.
LEMMA LocalValues ==
    ASSUME NEW v, NEW n, Local(v, n), NEW f \in Files
    PROVE  v[f] \in Values
  <1>1. CASE f = "rec"
    BY <1>1 DEF Local, LocalJournal, Values
  <1>2. CASE f = "main"
    <2>1. \A r \in Receipts : r.next \in Journals /\ r.prev \in Journals \cup {None}
      BY DEF Receipts
    <2>2. v["main"] \in Journals \cup {None}
      BY <2>1 DEF Local, LocalJournal
    <2>. QED
      BY <1>2, <2>2 DEF Values
  <1>3. CASE f \in Git
    BY <1>3 DEF Local, LocalGit, Values
  <1>4. CASE f \in Store
    <2>1. f = "link" \/ f \in ClaimSet
      BY <1>4 DEF Store
    <2>2. CASE f = "link"
      BY <2>2 DEF Local, LocalStore, Values
    <2>3. CASE f \in ClaimSet
      BY <2>3 DEF Local, LocalStore, Values
    <2>. QED
      BY <2>1, <2>2, <2>3
  <1>. QED
    BY <1>1, <1>2, <1>3, <1>4, DirFacts DEF Journal

------------------------------------------------------------------------------
(* Single effects                                                            *)

\* A rename is a step when its directory is the only dirty one and its result is safe.
LEMMA PutRuns ==
    ASSUME NEW v, NEW l, NEW n, NEW D, NEW d \in Dirs, NEW f \in d, NEW x,
           D \subseteq {d}, Whole(v), Safe(Upd(v, f, x), l, n)
    PROVE  Runs(St(v, D, l), <<Put(f, x)>>, St(Upd(v, f, x), {d}, l), n)
  <1>1. f \in Files
    BY DirFacts
  <1>2. Upd(v, f, x)[f] = x
    BY <1>1, UpdFacts
  <1>3. Upd(v, f, x)[f] \in Values
    BY <1>1, LocalValues DEF Safe
  <1>4. x \in Values
    BY <1>2, <1>3
  <1>5. Put(f, x) \in Effects
    BY <1>1, <1>4 DEF Put, Effects
  <1>6. Put(f, x).do = "put" /\ Put(f, x).file = f /\ Put(f, x).val = x
    BY DEF Put
  <1>7. St(v, D, l).vis = v /\ St(v, D, l).dirty = D /\ St(v, D, l).log = l
    BY DEF St
  <1>8. St(Upd(v, f, x), {d}, l).vis = Upd(v, f, x)
    BY DEF St
  <1>9. Step(St(v, D, l), Put(f, x), St(Upd(v, f, x), {d}, l), n)
    BY <1>6, <1>7, <1>8 DEF Step, Upd
  <1>. QED
    BY <1>5, <1>9, RunsOne

\* A sync makes its directory clean.
LEMMA SyncRuns ==
    ASSUME NEW v, NEW l, NEW n, NEW D, NEW d \in Dirs
    PROVE  Runs(St(v, D, l), <<Sync(d)>>, St(v, D \ {d}, l), n)
  <1>1. Sync(d) \in Effects /\ Sync(d).do = "sync" /\ Sync(d).dir = d
    BY DEF Sync, Effects
  <1>2. St(v, D, l).vis = v /\ St(v, D, l).dirty = D /\ St(v, D, l).log = l
    BY DEF St
  <1>3. Step(St(v, D, l), Sync(d), St(v, D \ {d}, l), n)
    BY <1>1, <1>2 DEF Step
  <1>. QED
    BY <1>1, <1>3, RunsOne

\* A check of the head changes nothing.
LEMMA ExpectRuns ==
    ASSUME NEW v, NEW l, NEW n, NEW h \in Seq(Commits)
    PROVE  Runs(St(v, {}, l), <<Expect(h)>>, St(v, {}, l), n)
  <1>1. Expect(h) \in Effects /\ Expect(h).do = "expect"
    BY DEF Expect, Effects
  <1>2. St(v, {}, l).dirty = {}
    BY DEF St
  <1>3. Step(St(v, {}, l), Expect(h), St(v, {}, l), n)
    BY <1>1, <1>2 DEF Step
  <1>. QED
    BY <1>1, <1>3, RunsOne

\* The branch moves to a candidate that the files fit, with nothing on its way to disk.
LEMMA CasRuns ==
    ASSUME NEW v, NEW l, NEW n, NEW pub \in Publications,
           ~lost => Good(v, Log(Candidate(pub)))
    PROVE  Runs(St(v, {}, l), <<Cas(pub)>>, St(v, {}, Log(Candidate(pub))), n)
  <1>1. Cas(pub) \in Effects /\ Cas(pub).do = "cas" /\ Cas(pub).pub = pub
    BY DEF Cas, Effects
  <1>2. St(v, {}, l).vis = v /\ St(v, {}, l).dirty = {}
    BY DEF St
  <1>3. St(v, {}, Log(Candidate(pub))).log = Log(Candidate(pub))
    BY DEF St
  <1>4. Step(St(v, {}, l), Cas(pub), St(v, {}, Log(Candidate(pub))), n)
    BY <1>1, <1>2, <1>3 DEF Step
  <1>. QED
    BY <1>1, <1>4, RunsOne

\* Two single effects make a pair.
LEMMA TwoConcat ==
    ASSUME NEW a, NEW b
    PROVE  <<a>> \o <<b>> = <<a, b>>
  <1>. DEFINE p == <<a>>
              q == <<b>>
              r == <<a, b>>
              S == {a, b}
  <1>1. /\ p \in Seq(S) /\ q \in Seq(S) /\ r \in Seq(S)
        /\ Len(p) = 1 /\ Len(q) = 1 /\ Len(r) = 2
        /\ p[1] = a /\ q[1] = b /\ r[1] = a /\ r[2] = b
    OBVIOUS
  <1>. HIDE DEF p, q, r, S
  <1>2. /\ p \o q \in Seq(S) /\ Len(p \o q) = 2
        /\ (p \o q)[1] = p[1] /\ (p \o q)[2] = q[1]
    BY <1>1, ConcatProperties
  <1>3. \A i \in 1..Len(p \o q) : (p \o q)[i] = r[i]
    BY <1>1, <1>2
  <1>4. p \o q = r
    BY <1>1, <1>2, <1>3, SeqEqual
  <1>. QED
    BY <1>4 DEF p, q, r

\* durable_publish_bytes: a rename and its sync leave everything clean.
LEMMA DurablyRuns ==
    ASSUME NEW v, NEW l, NEW n, NEW D, NEW d \in Dirs, NEW f \in d, NEW x,
           D \subseteq {d}, Whole(v), Safe(Upd(v, f, x), l, n)
    PROVE  Runs(St(v, D, l), Durably(f, x, d), St(Upd(v, f, x), {}, l), n)
  <1>1. Runs(St(v, D, l), <<Put(f, x)>>, St(Upd(v, f, x), {d}, l), n)
    BY PutRuns
  <1>2. Runs(St(Upd(v, f, x), {d}, l), <<Sync(d)>>, St(Upd(v, f, x), {d} \ {d}, l), n)
    BY SyncRuns
  <1>3. {d} \ {d} = {}
    OBVIOUS
  <1>4. Durably(f, x, d) = <<Put(f, x)>> \o <<Sync(d)>>
    BY TwoConcat DEF Durably
  <1>. QED
    BY <1>1, <1>2, <1>3, <1>4, RunsConcat

------------------------------------------------------------------------------
(* Parts of commands                                                         *)

\* The main file follows its receipt.
LEMMA MainFollows ==
    ASSUME NEW v, NEW n, NEW l, Safe(v, l, n), NEW j, j = JournalIn(v)
    PROVE  /\ Safe(Upd(v, "main", j), l, n) /\ Settled(Upd(v, "main", j), j, n)
           /\ Same(v, Upd(v, "main", j), Aside)
  <1>. DEFINE w == Upd(v, "main", j)
  <1>1. Local(v, n) /\ Whole(v)
    BY DEF Safe, Local
  <1>2. Whole(w) /\ w["main"] = j /\ \A g \in Files : g # "main" => w[g] = v[g]
    BY <1>1, FileFacts, UpdFacts
  <1>. HIDE DEF w
  <1>3. Same(v, w, Aside)
    BY <1>2, AsideFacts DEF Same, Aside
  <1>4. w["rec"] = v["rec"]
    BY <1>2, FileFacts
  <1>5. JournalIn(w) = j
    BY <1>2, <1>4 DEF JournalIn
  <1>6. LocalJournal(w, n)
    <2>1. v["rec"] = None => j = None
      BY <1>1 DEF JournalIn, Local, LocalJournal
    <2>2. v["rec"] # None => j = v["rec"].next
      BY DEF JournalIn
    <2>. QED
      BY <1>1, <1>2, <1>4, <2>1, <2>2 DEF Local, LocalJournal
  <1>7. Local(w, n)
    BY <1>1, <1>2, <1>3, <1>6, LocalSame DEF Local
  <1>8. ~lost => Fits(w, l, j)
    BY <1>3, FitsSame DEF Safe, Good
  <1>9. Settled(w, j, n)
    BY <1>2, <1>5, <1>7 DEF Settled
  <1>10. Safe(w, l, n)
    BY <1>8, <1>9, SettledSafe
  <1>. QED
    BY <1>3, <1>9, <1>10 DEF w

\* The receipt of a successor x of what the main file says.
LEMMA ReceiptPut ==
    ASSUME NEW v, NEW n, NEW l, NEW e, Settled(v, e, n), e \in Journals \cup {None},
           NEW x, Sound(x, n), ~lost => Fits(v, l, x),
           NEW r, r = [prev |-> e, next |-> x]
    PROVE  /\ Safe(Upd(v, "rec", r), l, n) /\ JournalIn(Upd(v, "rec", r)) = x
           /\ Same(v, Upd(v, "rec", r), Aside)
  <1>. DEFINE w == Upd(v, "rec", r)
  <1>1. Local(v, n) /\ Whole(v) /\ v["main"] = e
    BY DEF Settled, Local
  <1>2. Whole(w) /\ w["rec"] = r /\ \A g \in Files : g # "rec" => w[g] = v[g]
    BY <1>1, FileFacts, UpdFacts
  <1>. HIDE DEF w
  <1>3. Same(v, w, Aside)
    BY <1>2, AsideFacts DEF Same, Aside
  <1>4. r \in Receipts /\ r.next = x /\ r.prev = e /\ r # None
    <2>1. r \in Receipts /\ r.next = x /\ r.prev = e
      BY DEF Receipts, Sound
    <2>. QED
      BY <2>1, NoneIsNoRecord
  <1>5. JournalIn(w) = x
    BY <1>2, <1>4 DEF JournalIn
  <1>6. w["main"] = e
    BY <1>1, <1>2, FileFacts
  <1>7. LocalJournal(w, n)
    BY <1>2, <1>4, <1>6 DEF LocalJournal
  <1>8. Local(w, n)
    BY <1>1, <1>2, <1>3, <1>7, LocalSame DEF Local
  <1>9. ~lost => Fits(w, l, x)
    BY <1>3, FitsSame
  <1>10. Safe(w, l, n)
    BY <1>5, <1>8, <1>9 DEF Safe, Good
  <1>. QED
    BY <1>3, <1>5, <1>10 DEF w

\* Files that agree twice agree.
LEMMA SameTrans ==
    ASSUME NEW a, NEW b, NEW c, NEW S, Same(a, b, S), Same(b, c, S)
    PROVE  Same(a, c, S)
  BY DEF Same

\* create.
LEMMA CreateRuns ==
    ASSUME NEW v, NEW n, NEW l, NEW e, Settled(v, e, n), e \in Journals \cup {None},
           NEW x, Sound(x, n), ~lost => Fits(v, l, x)
    PROVE  \E w : /\ Runs(St(v, {}, l), Durably("rec", [prev |-> e, next |-> x], Journal)
                                          \o Durably("main", x, Journal), St(w, {}, l), n)
                  /\ Settled(w, x, n) /\ Safe(w, l, n) /\ Same(v, w, Aside)
  <1>. DEFINE r == [prev |-> e, next |-> x]
              u == Upd(v, "rec", r)
              w == Upd(u, "main", x)
  <1>1. Safe(u, l, n) /\ JournalIn(u) = x /\ Same(v, u, Aside)
    BY ReceiptPut
  <1>2. Safe(w, l, n) /\ Settled(w, x, n) /\ Same(u, w, Aside)
    <2>. HIDE DEF u
    <2>. QED
      BY <1>1, MainFollows
  <1>3. Journal \in Dirs /\ "rec" \in Journal /\ "main" \in Journal
    BY DirFacts, FileFacts
  <1>4. Whole(v) /\ Whole(u)
    BY <1>1 DEF Settled, Safe, Local
  <1>. HIDE DEF r
  <1>5. Runs(St(v, {}, l), Durably("rec", r, Journal), St(u, {}, l), n)
    BY <1>1, <1>3, <1>4, DurablyRuns
  <1>. HIDE DEF u
  <1>6. Runs(St(u, {}, l), Durably("main", x, Journal), St(w, {}, l), n)
    BY <1>2, <1>3, <1>4, DurablyRuns
  <1>7. Runs(St(v, {}, l), Durably("rec", r, Journal) \o Durably("main", x, Journal), St(w, {}, l), n)
    BY <1>5, <1>6, RunsConcat
  <1>8. Same(v, w, Aside)
    BY <1>1, <1>2, SameTrans
  <1>. HIDE DEF w
  <1>. QED
    BY <1>2, <1>7, <1>8 DEF r

\* replace.
LEMMA ReplaceRuns ==
    ASSUME NEW v, NEW n, NEW l, NEW e, Settled(v, e, n), e \in Journals \cup {None},
           NEW x, Sound(x, n), ~lost => Fits(v, l, x)
    PROVE  \E w : /\ Runs(St(v, {}, l), Replace(e, x), St(w, {}, l), n)
                  /\ Settled(w, x, n) /\ Safe(w, l, n) /\ Same(v, w, Aside)
  <1>. DEFINE A == Durably("rec", [prev |-> e, next |-> x], Journal)
              B == Durably("main", x, Journal)
  <1>1. PICK w : Runs(St(v, {}, l), A \o B, St(w, {}, l), n)
                 /\ Settled(w, x, n) /\ Safe(w, l, n) /\ Same(v, w, Aside)
    BY CreateRuns
  <1>2. Runs(St(v, {}, l), <<Sync(Journal)>>, St(v, {}, l), n)
    <2>1. Runs(St(v, {}, l), <<Sync(Journal)>>, St(v, {} \ {Journal}, l), n)
      BY SyncRuns, DirFacts
    <2>2. {} \ {Journal} = {}
      OBVIOUS
    <2>. QED
      BY <2>1, <2>2
  <1>3. Runs(St(v, {}, l), <<Sync(Journal)>> \o (A \o B), St(w, {}, l), n)
    <2>. HIDE DEF A, B
    <2>. QED
      BY <1>1, <1>2, RunsConcat
  <1>4. Replace(e, x) = <<Sync(Journal)>> \o (A \o B)
    BY DEF Replace, Durably
  <1>. HIDE DEF A, B
  <1>. QED
    BY <1>1, <1>3, <1>4

\* Acquiring and recovering the journal.
LEMMA RecoverRuns ==
    ASSUME NEW n, NEW l, Safe(vis, l, n)
    PROVE  \E v : /\ Runs(St(vis, {Git}, l), Recover, St(v, {}, l), n)
                  /\ Settled(v, Intent, n) /\ Safe(v, l, n) /\ Same(vis, v, Aside)
  <1>1. Intent = JournalIn(vis)
    BY DEF Intent, JournalIn
  <1>2. Runs(St(vis, {Git}, l), <<Sync(Git)>>, St(vis, {}, l), n)
    <2>1. Runs(St(vis, {Git}, l), <<Sync(Git)>>, St(vis, {Git} \ {Git}, l), n)
      BY SyncRuns, DirFacts
    <2>2. {Git} \ {Git} = {}
      OBVIOUS
    <2>. QED
      BY <2>1, <2>2
  <1>3. CASE vis["rec"] # None /\ vis["main"] # vis["rec"].next
    <2>. DEFINE w == Upd(vis, "main", Intent)
    <2>1. Safe(w, l, n) /\ Settled(w, Intent, n) /\ Same(vis, w, Aside)
      BY <1>1, MainFollows
    <2>2. Intent = vis["rec"].next
      BY <1>3 DEF Intent
    <2>3. Whole(vis)
      BY DEF Safe, Local
    <2>4. Runs(St(vis, {}, l), Durably("main", Intent, Journal), St(w, {}, l), n)
      BY <2>1, <2>3, DurablyRuns, DirFacts, FileFacts
    <2>5. Recover = <<Sync(Git)>> \o Durably("main", Intent, Journal)
      BY <1>3, <2>2 DEF Recover
    <2>. HIDE DEF w
    <2>6. Runs(St(vis, {Git}, l), Recover, St(w, {}, l), n)
      BY <1>2, <2>4, <2>5, RunsConcat
    <2>. QED
      BY <2>1, <2>6
  <1>4. CASE ~(vis["rec"] # None /\ vis["main"] # vis["rec"].next)
    <2>1. vis["main"] = Intent
      BY <1>4 DEF Intent
    <2>2. Settled(vis, Intent, n) /\ Same(vis, vis, Aside)
      BY <1>1, <2>1 DEF Settled, Safe, Same
    <2>3. Recover = <<Sync(Git)>> \o <<>>
      BY <1>4 DEF Recover
    <2>4. Runs(St(vis, {}, l), <<>>, St(vis, {}, l), n)
      BY RunsEmpty
    <2>5. Runs(St(vis, {Git}, l), Recover, St(vis, {}, l), n)
      BY <1>2, <2>3, <2>4, RunsConcat
    <2>. QED
      BY <2>2, <2>5
  <1>. QED
    BY <1>3, <1>4

\* What a file beside the journal may hold.
FileValue(f, x) ==
    \/ f \in Git /\ x \in Images \cup {None}
    \/ f = "link" /\ x \in {None, "archive"}
    \/ f \in ClaimSet /\ x \in {"active", "retired"}

\* A file beside the journal becomes x.
LEMMA FilePut ==
    ASSUME NEW v, NEW n, NEW l, NEW j, NEW f, NEW x,
           Local(v, n), JournalIn(v) = j, FileValue(f, x),
           ~lost => Fits(Upd(v, f, x), l, j)
    PROVE  /\ Safe(Upd(v, f, x), l, n) /\ JournalIn(Upd(v, f, x)) = j
           /\ v["main"] = j => Settled(Upd(v, f, x), j, n)
           /\ Same(v, Upd(v, f, x), Files \ {f}) /\ Upd(v, f, x)[f] = x
  <1>. DEFINE w == Upd(v, f, x)
  <1>1. f \in Files /\ f # "main" /\ f # "rec"
    BY FileFacts, DirFacts DEF Git, FileValue
  <1>2. Whole(w) /\ w[f] = x /\ \A g \in Files : g # f => w[g] = v[g]
    BY <1>1, UpdFacts DEF Local
  <1>. HIDE DEF w
  <1>3. w["main"] = v["main"] /\ w["rec"] = v["rec"]
    BY <1>1, <1>2, FileFacts
  <1>4. LocalJournal(w, n) /\ JournalIn(w) = j
    BY <1>3 DEF Local, LocalJournal, JournalIn
  <1>5. LocalGit(w)
    <2>1. \A g \in Git : g # f => w[g] = v[g]
      BY <1>2, DirFacts
    <2>2. f \in Git => x \in Images \cup {None}
      BY DirFacts, FileFacts DEF FileValue
    <2>. QED
      BY <1>2, <2>1, <2>2 DEF Local, LocalGit
  <1>6. LocalStore(w)
    <2>1. f # "link" => w["link"] = v["link"]
      BY <1>2, FileFacts
    <2>2. \A c \in ClaimSet : c # f => w[c] = v[c]
      BY <1>2, FileFacts
    <2>3. f = "link" => x \in {None, "archive"}
      BY DirFacts, FileFacts DEF FileValue
    <2>4. f \in ClaimSet => x \in {"active", "retired"}
      BY DirFacts, FileFacts DEF FileValue
    <2>. QED
      BY <1>2, <2>1, <2>2, <2>3, <2>4 DEF Local, LocalStore
  <1>7. Local(w, n)
    BY <1>2, <1>4, <1>5, <1>6 DEF Local
  <1>8. Safe(w, l, n)
    BY <1>4, <1>7 DEF Safe, Good, w
  <1>9. v["main"] = j => Settled(w, j, n)
    BY <1>3, <1>4, <1>7 DEF Settled
  <1>10. Same(v, w, Files \ {f})
    BY <1>2 DEF Same
  <1>. QED
    BY <1>2, <1>4, <1>8, <1>9, <1>10 DEF w

\* The same, durably.
LEMMA FileRuns ==
    ASSUME NEW v, NEW n, NEW l, NEW j, NEW f, NEW x, NEW d \in Dirs, Settled(v, j, n),
           FileValue(f, x), f \in d,
           ~lost => Fits(Upd(v, f, x), l, j)
    PROVE  /\ Runs(St(v, {}, l), Durably(f, x, d), St(Upd(v, f, x), {}, l), n)
           /\ Settled(Upd(v, f, x), j, n)
           /\ Same(v, Upd(v, f, x), Files \ {f}) /\ Upd(v, f, x)[f] = x
  <1>1. /\ Safe(Upd(v, f, x), l, n) /\ Settled(Upd(v, f, x), j, n)
        /\ Same(v, Upd(v, f, x), Files \ {f}) /\ Upd(v, f, x)[f] = x
    <2>1. Local(v, n) /\ JournalIn(v) = j /\ v["main"] = j
      BY DEF Settled
    <2>2. Safe(Upd(v, f, x), l, n)
      BY <2>1, FilePut
    <2>3. Settled(Upd(v, f, x), j, n)
      BY <2>1, FilePut
    <2>4. Same(v, Upd(v, f, x), Files \ {f}) /\ Upd(v, f, x)[f] = x
      BY <2>1, FilePut
    <2>. QED
      BY <2>2, <2>3, <2>4
  <1>2. Whole(v)
    BY DEF Settled, Local
  <1>. QED
    BY <1>1, <1>2, DurablyRuns

\* Before the exploration opens and while it is cancelled the claims are free.
LEMMA ClaimsFree ==
    ASSUME NEW v, NEW w, NEW l, NEW j, j # None, j.phase \in {"preparing", "aborting"},
           Same(v, w, Files \ ClaimSet), Fits(v, l, j)
    PROVE  Fits(w, l, j)
  <1>1. /\ w["tx"] = v["tx"] /\ w["landed"] = v["landed"] /\ w["aborted"] = v["aborted"]
        /\ w["link"] = v["link"]
    BY FileFacts, DirFacts DEF Same
  <1>2. GoodPreparing(v, l, j) => GoodPreparing(w, l, j)
    BY <1>1 DEF GoodPreparing, NoCarrier
  <1>3. GoodAborting(v, l, j) => GoodAborting(w, l, j)
    BY <1>1 DEF GoodAborting, NoCarrier
  <1>. QED
    BY <1>2, <1>3 DEF Fits

\* Between the endpoints of activation and cancellation the claims may be at either value.
LEMMA ClaimsSettled ==
    ASSUME NEW v, NEW w, NEW n, NEW l, NEW j \in Journals, j.phase \in {"preparing", "aborting"},
           Settled(v, j, n), ~lost => Fits(v, l, j),
           Whole(w), Same(v, w, Files \ ClaimSet),
           \A c \in ClaimSet : w[c] \in {"active", "retired"}
    PROVE  Settled(w, j, n) /\ (~lost => Fits(w, l, j)) /\ Safe(w, l, n)
  <1>1. j # None
    BY NoneIsNoRecord
  <1>2. ~lost => Fits(w, l, j)
    BY <1>1, ClaimsFree
  <1>3. /\ w["tx"] = v["tx"] /\ w["landed"] = v["landed"] /\ w["aborted"] = v["aborted"]
        /\ w["link"] = v["link"] /\ w["main"] = v["main"] /\ w["rec"] = v["rec"]
    BY FileFacts, DirFacts DEF Same
  <1>4. LocalJournal(w, n) /\ JournalIn(w) = j /\ w["main"] = j
    BY <1>3 DEF Settled, Local, LocalJournal, JournalIn
  <1>5. LocalGit(w) /\ LocalStore(w)
    BY <1>3 DEF Settled, Local, LocalGit, LocalStore, Git
  <1>6. Settled(w, j, n)
    BY <1>4, <1>5 DEF Settled, Local
  <1>. QED
    BY <1>2, <1>6, SettledSafe

\* The effects of SetClaims come in threes.
LEMMA Threes ==
    ASSUME NEW i \in Nat \ {0}
    PROVE  \E k \in Nat \ {0} :
             \/ i = 3 * k - 2 /\ i % 3 = 1
             \/ i = 3 * k - 1 /\ i % 3 = 2 /\ (i + 2) \div 3 = k
             \/ i = 3 * k /\ i % 3 = 0
  <1>. DEFINE q == i \div 3
              r == i % 3
  <1>1. q \in Nat /\ r \in 0..2 /\ i = 3 * q + r
    OBVIOUS
  <1>2. CASE r = 0
    <2>1. q \in Nat \ {0} /\ i = 3 * q /\ i % 3 = 0
      BY <1>1, <1>2
    <2>. HIDE DEF q
    <2>. QED
      BY <2>1
  <1>3. CASE r = 1
    <2>1. q + 1 \in Nat \ {0} /\ i = 3 * (q + 1) - 2 /\ i % 3 = 1
      BY <1>1, <1>3
    <2>. HIDE DEF q
    <2>. QED
      BY <2>1
  <1>4. CASE r = 2
    <2>1. q + 1 \in Nat \ {0} /\ i = 3 * (q + 1) - 1 /\ i % 3 = 2 /\ (i + 2) \div 3 = q + 1
      BY <1>1, <1>4
    <2>. HIDE DEF q
    <2>. QED
      BY <2>1
  <1>. QED
    BY <1>1, <1>2, <1>3, <1>4

\* The effects of SetClaims by claim: check the target, publish the Link, sync.
LEMMA SetClaimsIs ==
    ASSUME NEW x \in {"active", "retired"}
    PROVE  /\ SetClaims(x) \in Seq(Effects) /\ Len(SetClaims(x)) = 3 * Len(Claims)
           /\ \A k \in 1..Len(Claims) :
                /\ SetClaims(x)[3 * k - 2] = Expect(<<>>)
                /\ SetClaims(x)[3 * k - 1] = Put(Claims[k], x)
                /\ SetClaims(x)[3 * k] = Sync(Store)
           /\ \A i \in 1..3 * Len(Claims) : \E k \in 1..Len(Claims) :
                i = 3 * k - 2 \/ i = 3 * k - 1 \/ i = 3 * k
  <1>. DEFINE N == Len(Claims)
  <1>1. N \in Nat
    BY ClaimFacts
  <1>. HIDE DEF N
  <1>2. \A k \in 1..N :
           /\ 3 * k - 2 \in 1..3 * N /\ (3 * k - 2) % 3 = 1
           /\ 3 * k - 1 \in 1..3 * N /\ (3 * k - 1) % 3 = 2 /\ ((3 * k - 1) + 2) \div 3 = k
           /\ 3 * k \in 1..3 * N /\ (3 * k) % 3 = 0
    BY <1>1
  <1>3. \A k \in 1..N :
           /\ SetClaims(x)[3 * k - 2] = Expect(<<>>)
           /\ SetClaims(x)[3 * k - 1] = Put(Claims[k], x)
           /\ SetClaims(x)[3 * k] = Sync(Store)
    <2>1. SetClaims(x) =
            [i \in 1..3 * N |-> CASE i % 3 = 1 -> Expect(<<>>)
                                  [] i % 3 = 2 -> Put(Claims[(i + 2) \div 3], x)
                                  [] OTHER -> Sync(Store)]
      BY DEF SetClaims, N
    <2>2. ASSUME NEW i \in 1..3 * N
          PROVE  /\ i % 3 = 1 => SetClaims(x)[i] = Expect(<<>>)
                 /\ i % 3 = 2 => SetClaims(x)[i] = Put(Claims[(i + 2) \div 3], x)
                 /\ i % 3 = 0 => SetClaims(x)[i] = Sync(Store)
      BY <2>1
    <2>3. ASSUME NEW k \in 1..N
          PROVE  /\ SetClaims(x)[3 * k - 2] = Expect(<<>>)
                 /\ SetClaims(x)[3 * k - 1] = Put(Claims[k], x)
                 /\ SetClaims(x)[3 * k] = Sync(Store)
      BY <1>2, <2>2
    <2>. QED
      BY <2>3
  <1>4. ASSUME NEW i \in 1..3 * N
        PROVE  \E k \in 1..N : i = 3 * k - 2 \/ i = 3 * k - 1 \/ i = 3 * k
    <2>1. PICK k \in Nat \ {0} : i = 3 * k - 2 \/ i = 3 * k - 1 \/ i = 3 * k
      <3>1. i \in Nat \ {0}
        BY <1>1
      <3>. QED
        BY <3>1, Threes
    <2>2. k \in 1..N
      BY <1>1, <2>1
    <2>. QED
      BY <2>1, <2>2
  <1>5. Expect(<<>>) \in Effects /\ Sync(Store) \in Effects
    BY DirFacts DEF Expect, Sync, Effects
  <1>6. \A k \in 1..N : Put(Claims[k], x) \in Effects
    BY ClaimFacts, FileFacts DEF Put, Effects, Values, N
  <1>7. \A i \in 1..3 * N : SetClaims(x)[i] \in Effects
    BY <1>3, <1>4, <1>5, <1>6
  <1>8. SetClaims(x) = [i \in 1..3 * N |-> SetClaims(x)[i]]
    BY DEF SetClaims, N
  <1>9. SetClaims(x) \in Seq(Effects) /\ Len(SetClaims(x)) = 3 * N
    <2>. DEFINE q == SetClaims(x)
    <2>1. 3 * N \in Nat /\ q = [i \in 1..3 * N |-> q[i]] /\ \A i \in 1..3 * N : q[i] \in Effects
      BY <1>1, <1>7, <1>8
    <2>. HIDE DEF q
    <2>2. q \in [1..3 * N -> Effects]
      BY <2>1
    <2>3. q \in Seq(Effects) /\ Len(q) = 3 * N
      BY <2>1, <2>2, SeqDef, LenProperties
    <2>. QED
      BY <2>3 DEF q
  <1>. QED
    BY <1>3, <1>4, <1>9 DEF N

\* The claims' Links, one after another.
LEMMA ClaimsRuns ==
    ASSUME NEW v, NEW n, NEW l, NEW j \in Journals, j.phase \in {"preparing", "aborting"},
           Settled(v, j, n), ~lost => Fits(v, l, j), NEW x \in {"active", "retired"}
    PROVE  \E w : /\ Runs(St(v, {}, l), SetClaims(x), St(w, {}, l), n)
                  /\ Settled(w, j, n) /\ (~lost => Fits(w, l, j))
                  /\ ClaimsAre(w, x) /\ Same(v, w, Files \ ClaimSet)
  <1>. DEFINE N == Len(Claims)
              mix(i) == [f \in Files |-> IF \E k \in 1..N : 3 * k - 1 <= i /\ f = Claims[k]
                                         THEN x ELSE v[f]]
              dirt(i) == IF \E k \in 1..N : i = 3 * k - 1 THEN {Store} ELSE {}
              g == [i \in 0..3 * N |-> St(mix(i), dirt(i), l)]
  <1>1. N \in Nat
    BY ClaimFacts
  <1>. HIDE DEF N
  <1>2. \A k \in 1..N : Claims[k] \in ClaimSet /\ Claims[k] \in Files /\ Claims[k] \in Store
    BY ClaimFacts, FileFacts DEF N
  <1>3. ASSUME NEW i
        PROVE  /\ Whole(mix(i)) /\ Same(v, mix(i), Files \ ClaimSet)
               /\ Settled(mix(i), j, n) /\ (~lost => Fits(mix(i), l, j)) /\ Safe(mix(i), l, n)
    <2>1. Whole(mix(i))
      BY DEF Whole
    <2>2. Same(v, mix(i), Files \ ClaimSet)
      BY <1>2 DEF Same
    <2>3. \A c \in ClaimSet : mix(i)[c] \in {"active", "retired"}
      <3>1. \A c \in ClaimSet : c \in Files /\ v[c] \in {"active", "retired"}
        BY FileFacts DEF Settled, Local, LocalStore
      <3>. QED
        BY <3>1
    <2>. HIDE DEF mix
    <2>. QED
      BY <2>1, <2>2, <2>3, ClaimsSettled
  <1>4. ASSUME NEW k \in 1..N
        PROVE  /\ mix(3 * k - 2) = mix((3 * k - 2) - 1)
               /\ mix(3 * k - 1) = Upd(mix((3 * k - 1) - 1), Claims[k], x)
               /\ mix(3 * k) = mix(3 * k - 1)
    <2>1. \A m \in 1..N : 3 * m - 1 <= 3 * k - 2 <=> 3 * m - 1 <= (3 * k - 2) - 1
      BY <1>1
    <2>2. \A m \in 1..N : 3 * m - 1 <= 3 * k <=> 3 * m - 1 <= 3 * k - 1
      BY <1>1
    <2>3. \A m \in 1..N : 3 * m - 1 <= 3 * k - 1 <=> (3 * m - 1 <= (3 * k - 1) - 1 \/ m = k)
      BY <1>1
    <2>4. mix(3 * k - 2) = mix((3 * k - 2) - 1) /\ mix(3 * k) = mix(3 * k - 1)
      BY <2>1, <2>2
    <2>. DEFINE u == mix((3 * k - 1) - 1) w == mix(3 * k - 1)
    <2>5. \A f \in Files : w[f] = IF f = Claims[k] THEN x ELSE u[f]
      BY <2>3
    <2>6. w = [f \in Files |-> w[f]] /\ u = [f \in Files |-> u[f]]
      OBVIOUS
    <2>. HIDE DEF u, w
    <2>7. w = Upd(u, Claims[k], x)
      BY <2>5, <2>6 DEF Upd
    <2>. QED
      BY <2>4, <2>7 DEF u, w
  <1>5. ASSUME NEW k \in 1..N
        PROVE  /\ dirt(3 * k - 2) = {} /\ dirt((3 * k - 2) - 1) = {}
               /\ dirt(3 * k - 1) = {Store} /\ dirt((3 * k - 1) - 1) = {}
               /\ dirt(3 * k) = {} /\ dirt(3 * k - 1) \ {Store} = {}
    <2>1. \A m \in 1..N : /\ 3 * k - 2 # 3 * m - 1 /\ (3 * k - 2) - 1 # 3 * m - 1
                          /\ (3 * k - 1) - 1 # 3 * m - 1 /\ 3 * k # 3 * m - 1
      BY <1>1
    <2>2. {Store} \ {Store} = {}
      OBVIOUS
    <2>. QED
      BY <2>1, <2>2
  <1>6. dirt(0) = {} /\ dirt(3 * N) = {}
    <2>1. \A m \in 1..N : 0 # 3 * m - 1 /\ 3 * N # 3 * m - 1
      BY <1>1
    <2>. QED
      BY <2>1
  <1>7. mix(0) = v
    <2>1. \A m \in 1..N : ~(3 * m - 1 <= 0)
      BY <1>1
    <2>2. mix(0) = [f \in Files |-> v[f]]
      BY <2>1
    <2>. QED
      BY <2>2 DEF Settled, Local, Whole
  <1>8. ClaimsAre(mix(3 * N), x)
    <2>1. ASSUME NEW c \in ClaimSet PROVE mix(3 * N)[c] = x
      <3>1. PICK k \in 1..N : Claims[k] = c
        BY ClaimFacts DEF N
      <3>2. 3 * k - 1 <= 3 * N /\ c \in Files
        BY <1>1, FileFacts
      <3>. QED
        BY <3>1, <3>2
    <2>. QED
      BY <2>1 DEF ClaimsAre
  <1>. DEFINE q == SetClaims(x)
  <1>. HIDE DEF mix, dirt, q
  <1>9. \A i \in 0..3 * N : g[i] = St(mix(i), dirt(i), l)
    OBVIOUS
  <1>10. /\ q \in Seq(Effects) /\ Len(q) = 3 * N
         /\ \A k \in 1..N : /\ q[3 * k - 2] = Expect(<<>>)
                             /\ q[3 * k - 1] = Put(Claims[k], x)
                             /\ q[3 * k] = Sync(Store)
         /\ \A i \in 1..3 * N : \E k \in 1..N :
                i = 3 * k - 2 \/ i = 3 * k - 1 \/ i = 3 * k
    BY SetClaimsIs DEF q, N
  <1>. HIDE DEF g
  <1>11. ASSUME NEW i \in 1..Len(q) PROVE Step(g[i - 1], q[i], g[i], n)
    <2>1. i \in 1..3 * N
      BY <1>10
    <2>2. PICK k \in 1..N : i = 3 * k - 2 \/ i = 3 * k - 1 \/ i = 3 * k
      BY <1>10, <2>1
    <2>3. i \in 0..3 * N /\ i - 1 \in 0..3 * N
      BY <1>1, <2>1
    <2>4. g[i] = St(mix(i), dirt(i), l) /\ g[i - 1] = St(mix(i - 1), dirt(i - 1), l)
      BY <1>9, <2>3
    <2>5. /\ g[i].vis = mix(i) /\ g[i].dirty = dirt(i) /\ g[i].log = l
          /\ g[i - 1].vis = mix(i - 1) /\ g[i - 1].dirty = dirt(i - 1) /\ g[i - 1].log = l
      BY <2>4 DEF St
    <2>6. CASE i = 3 * k - 2
      <3>1. q[i] = Expect(<<>>) /\ q[i].do = "expect"
        BY <2>6, <1>10 DEF Expect
      <3>2. mix(i) = mix(i - 1) /\ dirt(i) = {} /\ dirt(i - 1) = {}
        BY <2>6, <1>4, <1>5
      <3>3. g[i] = g[i - 1] /\ g[i - 1].dirty = {}
        BY <2>4, <2>5, <3>2
      <3>. QED
        BY <3>1, <3>3 DEF Step
    <2>7. CASE i = 3 * k - 1
      <3>1. q[i].do = "put" /\ q[i].file = Claims[k] /\ q[i].val = x
        <4>1. q[i] = Put(Claims[k], x)
          BY <2>7, <1>10
        <4>. QED
          BY <4>1 DEF Put
      <3>2. mix(i) = Upd(mix(i - 1), Claims[k], x) /\ dirt(i) = {Store} /\ dirt(i - 1) = {}
        BY <2>7, <1>4, <1>5
      <3>3. Store \in Dirs /\ Claims[k] \in Store
        BY <1>2, DirFacts
      <3>4. g[i] = St([g[i - 1].vis EXCEPT ![q[i].file] = q[i].val], {Store}, g[i - 1].log)
        BY <2>4, <2>5, <3>1, <3>2 DEF Upd
      <3>5. Safe(g[i].vis, g[i - 1].log, n)
        BY <1>3, <2>5
      <3>6. g[i - 1].dirty \subseteq {Store}
        BY <2>5, <3>2
      <3>. QED
        BY <3>1, <3>3, <3>4, <3>5, <3>6 DEF Step
    <2>8. CASE i = 3 * k
      <3>1. q[i].do = "sync" /\ q[i].dir = Store
        BY <2>8, <1>10 DEF Sync
      <3>2. mix(i) = mix(i - 1) /\ dirt(i) = dirt(i - 1) \ {Store}
        BY <2>8, <1>4, <1>5
      <3>3. g[i] = St(g[i - 1].vis, g[i - 1].dirty \ {q[i].dir}, g[i - 1].log)
        BY <2>4, <2>5, <3>1, <3>2
      <3>. QED
        BY <3>1, <3>3, DirFacts DEF Step
    <2>. QED
      BY <2>2, <2>6, <2>7, <2>8
  <1>12. g[0] = St(v, {}, l) /\ g[Len(q)] = St(mix(3 * N), {}, l)
    <2>1. 0 \in 0..3 * N /\ 3 * N \in 0..3 * N
      BY <1>1
    <2>. QED
      BY <2>1, <1>6, <1>7, <1>9, <1>10
  <1>13. Runs(St(v, {}, l), q, St(mix(3 * N), {}, l), n)
    BY <1>10, <1>11, <1>12 DEF Runs
  <1>. QED
    BY <1>3, <1>8, <1>13 DEF q

------------------------------------------------------------------------------
(* The branch                                                                *)

\* A branch without commits carries nothing.
LEMMA LogEmpty == DOMAIN Log(<<>>) = {}
  BY DEF Log

\* The log is the commits that carry records.
LEMMA LogDomain ==
    ASSUME NEW h \in Seq(Commits)
    PROVE  /\ Len(h) \in Nat /\ DOMAIN Log(h) \subseteq 1..Len(h)
           /\ \A i \in DOMAIN Log(h) : Log(h)[i] = h[i]
           /\ \A i \in 1..Len(h) : i \in DOMAIN Log(h) <=> h[i].kind # "turn"
  BY LenProperties DEF Log

\* An ordinary turn leaves the log alone.
LEMMA LogTurn ==
    ASSUME NEW h \in Seq(Commits), NEW c \in Commits, c.kind = "turn"
    PROVE  Log(Append(h, c)) = Log(h)
  <1>. DEFINE k == Append(h, c)
  <1>1. /\ Len(h) \in Nat /\ Len(k) = Len(h) + 1 /\ k[Len(h) + 1] = c
        /\ \A i \in 1..Len(h) : k[i] = h[i]
    BY AppendProperties, LenProperties
  <1>. HIDE DEF k
  <1>2. {i \in 1..Len(k) : k[i].kind # "turn"} = {i \in 1..Len(h) : h[i].kind # "turn"}
    BY <1>1
  <1>3. Log(k) = Log(h)
    BY <1>1, <1>2 DEF Log
  <1>. QED
    BY <1>3 DEF k

\* A commit that carries records is the log's last.
LEMMA LogAppend ==
    ASSUME NEW h \in Seq(Commits), NEW c \in Commits, c.kind # "turn"
    PROVE  LET n == Len(h) + 1
               l == Log(Append(h, c))
           IN /\ n \in Nat /\ DOMAIN Log(h) \subseteq 0..n
              /\ DOMAIN l = DOMAIN Log(h) \cup {n} /\ n \notin DOMAIN Log(h)
              /\ l[n] = c /\ \A i \in DOMAIN Log(h) : l[i] = Log(h)[i] /\ i < n /\ i \in Nat
  <1>. DEFINE k == Append(h, c)
  <1>1. /\ Len(h) \in Nat /\ Len(k) = Len(h) + 1 /\ k[Len(h) + 1] = c
        /\ \A i \in 1..Len(h) : k[i] = h[i]
    BY AppendProperties, LenProperties
  <1>. HIDE DEF k
  <1>2. {i \in 1..Len(k) : k[i].kind # "turn"} = {i \in 1..Len(h) : h[i].kind # "turn"} \cup {Len(h) + 1}
    BY <1>1
  <1>3. DOMAIN Log(k) = DOMAIN Log(h) \cup {Len(h) + 1}
    BY <1>2 DEF Log
  <1>4. Log(k)[Len(h) + 1] = c /\ \A i \in DOMAIN Log(h) : Log(k)[i] = Log(h)[i] /\ i < Len(h) + 1
    BY <1>1, <1>2 DEF Log
  <1>5. /\ Len(h) + 1 \in Nat /\ DOMAIN Log(h) \subseteq 0..Len(h) + 1
        /\ Len(h) + 1 \notin DOMAIN Log(h) /\ \A i \in DOMAIN Log(h) : i \in Nat
    BY <1>1, LogDomain
  <1>. QED
    BY <1>3, <1>4, <1>5 DEF k

\* The log ends where its last commit ends.
LEMMA LogEnds ==
    ASSUME NEW h \in Seq(Commits), NEW c \in Commits, c.kind # "turn"
    PROVE  EndsAt(Log(Append(h, c)), c.upto)
  <1>. DEFINE n == Len(h) + 1
              l == Log(Append(h, c))
  <1>1. /\ n \in Nat /\ DOMAIN l = DOMAIN Log(h) \cup {n}
        /\ l[n] = c /\ \A i \in DOMAIN Log(h) : i \in Nat /\ i < n
    BY LogAppend
  <1>. HIDE DEF n, l
  <1>2. n \in DOMAIN l /\ l[n].upto = c.upto /\ \A k \in DOMAIN l : k <= n
    BY <1>1
  <1>3. EndsAt(l, c.upto)
    BY <1>2 DEF EndsAt
  <1>. QED
    BY <1>3 DEF l

\* The merge commit stays on the branch, and is there once it is made.
LEMMA LogMerged ==
    ASSUME NEW h \in Seq(Commits), NEW c \in Commits, c.kind # "turn", NEW tx
    PROVE  /\ Merged(Log(h), tx) => Merged(Log(Append(h, c)), tx)
           /\ (c.kind = "merge" /\ c.picks = tx.picks) => Merged(Log(Append(h, c)), tx)
  <1>. DEFINE n == Len(h) + 1
              l == Log(Append(h, c))
              m == Log(h)
  <1>1. /\ n \in Nat /\ DOMAIN l = DOMAIN m \cup {n}
        /\ l[n] = c /\ \A i \in DOMAIN m : l[i] = m[i] /\ i < n /\ i \in Nat
    BY LogAppend
  <1>. HIDE DEF n, l, m
  <1>2. /\ Merged(m, tx) => Merged(l, tx)
        /\ (c.kind = "merge" /\ c.picks = tx.picks) => Merged(l, tx)
    BY <1>1 DEF Merged
  <1>. QED
    BY <1>2 DEF l, m

\* A merge on an empty log, or a tail that begins where the log ends, continues it.
LEMMA LogChained ==
    ASSUME NEW h \in Seq(Commits), NEW c \in Commits,
           \/ DOMAIN Log(h) = {} /\ c.kind = "merge" /\ c.from = 0
           \/ Chained(Log(h)) /\ EndsAt(Log(h), c.from) /\ c.kind = "tail"
    PROVE  Chained(Log(Append(h, c)))
  <1>. DEFINE n == Len(h) + 1
              l == Log(Append(h, c))
              m == Log(h)
              before(i) == {k \in DOMAIN l : k < i}
              prior(i) == {k \in DOMAIN m : k < i}
  <1>0. c.kind # "turn"
    OBVIOUS
  <1>1. /\ n \in Nat /\ DOMAIN l = DOMAIN m \cup {n} /\ DOMAIN m \subseteq 0..n
        /\ l[n] = c /\ \A i \in DOMAIN m : l[i] = m[i] /\ i < n /\ i \in Nat
    BY <1>0, LogAppend
  <1>2. \/ DOMAIN m = {} /\ c.kind = "merge" /\ c.from = 0
        \/ Chained(m) /\ EndsAt(m, c.from) /\ c.kind = "tail"
    BY DEF m
  <1>. HIDE DEF n, l, m
  <1>3. ASSUME NEW i \in DOMAIN m
        PROVE  /\ l[i].kind = IF before(i) = {} THEN "merge" ELSE "tail"
               /\ l[i].from = IF before(i) = {} THEN 0 ELSE l[Max(before(i))].upto
    <2>1. Chained(m)
      BY <1>2
    <2>2. before(i) = prior(i)
      BY <1>1
    <2>3. /\ m[i].kind = IF prior(i) = {} THEN "merge" ELSE "tail"
          /\ m[i].from = IF prior(i) = {} THEN 0 ELSE m[Max(prior(i))].upto
      BY <2>1, Zenon DEF Chained
    <2>4. prior(i) # {} => Max(prior(i)) \in prior(i)
      <3>1. prior(i) \in SUBSET (0..n)
        BY <1>1
      <3>. HIDE DEF prior
      <3>. QED
        BY <1>1, <3>1, MaxFacts
    <2>5. prior(i) # {} => l[Max(prior(i))] = m[Max(prior(i))]
      BY <1>1, <2>4
    <2>. HIDE DEF before, prior
    <2>. QED
      BY <1>1, <2>2, <2>3, <2>5
  <1>4. /\ l[n].kind = IF before(n) = {} THEN "merge" ELSE "tail"
        /\ l[n].from = IF before(n) = {} THEN 0 ELSE l[Max(before(n))].upto
    <2>1. before(n) = DOMAIN m
      <3>1. ~(n < n) /\ \A i \in DOMAIN m : i < n
        BY <1>1
      <3>. QED
        BY <1>1, <3>1, Zenon
    <2>2. CASE DOMAIN m = {}
      <3>1. ~EndsAt(m, c.from)
        BY <2>2 DEF EndsAt
      <3>2. c.kind = "merge" /\ c.from = 0
        BY <1>2, <3>1
      <3>. HIDE DEF before
      <3>. QED
        BY <1>1, <2>1, <2>2, <3>2
    <2>3. CASE DOMAIN m # {}
      <3>1. EndsAt(m, c.from) /\ c.kind = "tail"
        BY <1>2, <2>3
      <3>2. PICK a \in DOMAIN m : m[a].upto = c.from /\ \A k \in DOMAIN m : k <= a
        BY <3>1 DEF EndsAt
      <3>3. Max(DOMAIN m) = a
        BY <1>1, <3>2, MaxIs
      <3>4. l[a] = m[a]
        BY <1>1, <3>2
      <3>. HIDE DEF before
      <3>. QED
        BY <1>1, <2>1, <2>3, <3>1, <3>2, <3>3, <3>4
    <2>. QED
      BY <2>2, <2>3
  <1>5. \A i \in DOMAIN l :
           /\ l[i].kind = IF before(i) = {} THEN "merge" ELSE "tail"
           /\ l[i].from = IF before(i) = {} THEN 0 ELSE l[Max(before(i))].upto
    <2>. HIDE DEF before
    <2>1. \A i \in DOMAIN l : i \in DOMAIN m \/ i = n
      BY <1>1
    <2>. QED
      BY <1>3, <1>4, <2>1
  <1>6. Chained(l)
    BY <1>5, Zenon DEF Chained
  <1>. QED
    BY <1>6 DEF l

------------------------------------------------------------------------------
(* Ends of commands                                                          *)

\* Files that hold the same beside the journal, but for one.
LEMMA SameOthers ==
    ASSUME NEW v, NEW w, NEW f \in {"tx", "landed", "aborted", "link"}, Same(v, w, Files \ {f})
    PROVE  /\ \A g \in {"tx", "landed", "aborted", "link"} : g # f => w[g] = v[g]
           /\ \A c \in ClaimSet : w[c] = v[c]
           /\ \A x : ClaimsAre(v, x) => ClaimsAre(w, x)
  BY FileFacts, DirFacts DEF Same, ClaimsAre

\* The carrier is linked, then the transaction removed.
LEMMA RetireRuns ==
    ASSUME NEW v, NEW n, NEW l, NEW how \in {"landed", "aborted"},
           NEW j \in Journals, j.phase = how, Settled(v, j, n), ~lost => Fits(v, l, j)
    PROVE  \E w : Runs(St(v, {}, l), Retire(how, j.image), St(w, {}, l), n)
  <1>. DEFINE u == Upd(v, how, j.image)
              w == Upd(u, "tx", None)
  <1>1. j # None /\ j.image \in Images \cup {None}
    BY NoneIsNoRecord DEF Journals
  <1>2. how \in Git /\ "tx" \in Git /\ Git \in Dirs /\ how \in Files /\ "tx" \in Files
    BY FileFacts, DirFacts
  <1>3. FileValue(how, j.image) /\ FileValue("tx", None)
    BY <1>1, <1>2 DEF FileValue
  <1>4. Whole(v) /\ Whole(u)
    BY <1>2, UpdFacts DEF Settled, Local
  <1>5. Same(v, u, Files \ {how}) /\ u[how] = j.image
    BY <1>2, <1>4, UpdFacts DEF Same
  <1>6. Same(u, w, Files \ {"tx"}) /\ w["tx"] = None
    <2>. HIDE DEF u
    <2>. QED
      BY <1>2, <1>4, UpdFacts DEF Same
  <1>7. /\ \A g \in {"tx", "landed", "aborted", "link"} : g # how => u[g] = v[g]
        /\ \A x : ClaimsAre(v, x) => ClaimsAre(u, x)
    <2>1. how \in {"tx", "landed", "aborted", "link"}
      OBVIOUS
    <2>. HIDE DEF u
    <2>. QED
      BY <1>5, FileFacts, DirFacts DEF Same, ClaimsAre
  <1>8. /\ w["landed"] = u["landed"] /\ w["aborted"] = u["aborted"] /\ w["link"] = u["link"]
        /\ \A x : ClaimsAre(u, x) => ClaimsAre(w, x)
    <2>. HIDE DEF u, w
    <2>1. /\ \A g \in {"tx", "landed", "aborted", "link"} : g # "tx" => w[g] = u[g]
          /\ \A x : ClaimsAre(u, x) => ClaimsAre(w, x)
      <3>1. "tx" \in {"tx", "landed", "aborted", "link"}
        OBVIOUS
      <3>. QED
        BY <1>6, <3>1, SameOthers, Zenon
    <2>. QED
      BY <2>1
  <1>9. ASSUME ~lost PROVE Fits(u, l, j) /\ Fits(w, l, j)
    <2>1. CASE how = "landed"
      <3>1. GoodLanded(v, l, j)
        BY <1>1, <1>9, <2>1 DEF Fits
      <3>2. u["landed"] = j.image /\ u["aborted"] = v["aborted"] /\ u["link"] = v["link"]
        BY <1>5, <1>7, <2>1
      <3>3. w["landed"] = j.image /\ w["aborted"] = v["aborted"] /\ w["link"] = v["link"]
        BY <1>8, <3>2
      <3>4. GoodLanded(u, l, j) /\ GoodLanded(w, l, j)
        BY <1>7, <1>8, <3>1, <3>2, <3>3 DEF GoodLanded
      <3>. QED
        BY <1>1, <2>1, <3>4 DEF Fits
    <2>2. CASE how = "aborted"
      <3>1. GoodAborted(v, l, j)
        BY <1>1, <1>9, <2>2 DEF Fits
      <3>2. u["aborted"] = j.image /\ u["landed"] = v["landed"]
        BY <1>5, <1>7, <2>2
      <3>3. w["aborted"] = j.image /\ w["landed"] = v["landed"]
        BY <1>8, <3>2
      <3>4. GoodAborted(u, l, j) /\ GoodAborted(w, l, j)
        BY <1>7, <1>8, <3>1, <3>2, <3>3 DEF GoodAborted
      <3>. QED
        BY <1>1, <2>2, <3>4 DEF Fits
    <2>. QED
      BY <2>1, <2>2
  <1>10. Runs(St(v, {}, l), Durably(how, j.image, Git), St(u, {}, l), n) /\ Settled(u, j, n)
    BY <1>2, <1>3, <1>9, FileRuns
  <1>11. Runs(St(u, {}, l), Durably("tx", None, Git), St(w, {}, l), n)
    <2>. HIDE DEF u
    <2>. QED
      BY <1>2, <1>3, <1>9, <1>10, FileRuns
  <1>. HIDE DEF u, w
  <1>12. Runs(St(v, {}, l), Durably(how, j.image, Git) \o Durably("tx", None, Git), St(w, {}, l), n)
    BY <1>10, <1>11, RunsConcat
  <1>. QED
    BY <1>12 DEF Retire

\* What a prepared publication is, and the journal once it is published.
LEMMA LandedFacts ==
    ASSUME NEW n, NEW j, Sound(j, n), j.pub # None, j.phase \in {"open", "landed"}
    PROVE  /\ j.pub \in Publications /\ Candidate(j.pub) \in Seq(Commits)
           /\ j.pub.old \in Seq(Commits) /\ j.pub.commit \in Commits
           /\ Candidate(j.pub) = Append(j.pub.old, j.pub.commit)
           /\ Landed(j) \in Journals /\ Landed(j).phase = "landed" /\ Landed(j).pub = None
           /\ Landed(j).image = j.image /\ Landed(j).consumed = j.pub.commit.upto
           /\ Sound(Landed(j), n) /\ Landed(j) # None
  <1>1. j \in Journals /\ j.pub \in Publications
    BY DEF Sound, Journals
  <1>2. j.pub.old \in Seq(Commits) /\ j.pub.commit \in Commits /\ j.pub.commit.upto \in Nat
    BY <1>1 DEF Publications, Commits
  <1>3. Candidate(j.pub) = Append(j.pub.old, j.pub.commit) /\ Candidate(j.pub) \in Seq(Commits)
    BY <1>2, AppendProperties DEF Candidate
  <1>4. /\ Landed(j) \in Journals /\ Landed(j).phase = "landed" /\ Landed(j).pub = None
        /\ Landed(j).image = j.image /\ Landed(j).consumed = j.pub.commit.upto
    BY <1>1, <1>2 DEF Landed, Journals
  <1>5. Sound(Landed(j), n) /\ Landed(j) # None
    BY <1>4, NoneIsNoRecord DEF Sound
  <1>. QED
    BY <1>1, <1>2, <1>3, <1>4, <1>5

\* The branch may be at the candidate, and then the journal may say so.
LEMMA PublishFits ==
    ASSUME NEW v, NEW n, NEW l, NEW j, Sound(j, n), j # None, j.pub # None,
           j.phase \in {"open", "landed"}, Fits(v, l, j)
    PROVE  Fits(v, Log(Candidate(j.pub)), j) /\ Fits(v, Log(Candidate(j.pub)), Landed(j))
  <1>. DEFINE old == j.pub.old
              c == j.pub.commit
              m == Log(Candidate(j.pub))
              k == Landed(j)
  <1>1. /\ old \in Seq(Commits) /\ c \in Commits /\ m = Log(Append(old, c))
        /\ k.phase = "landed" /\ k.pub = None /\ k.image = j.image /\ k.consumed = c.upto /\ k # None
    BY LandedFacts
  <1>2. CASE j.phase = "open"
    <2>1. GoodOpen(v, l, j)
      BY <1>2 DEF Fits
    <2>2. /\ NoCarrier(v) /\ v["link"] = "archive" /\ ClaimsAre(v, "retired")
          /\ Ours(v["tx"]) /\ v["tx"].bound /\ v["tx"] = j.image
          /\ old = <<>> /\ c.kind = "merge" /\ c.from = 0 /\ c.picks = j.image.picks
      BY <2>1 DEF GoodOpen
    <2>3. GoodOpen(v, m, j)
      BY <2>1 DEF GoodOpen
    <2>4. c.kind # "turn" /\ DOMAIN Log(old) = {}
      BY <2>2, LogEmpty
    <2>5. Chained(m)
      BY <1>1, <2>2, <2>4, LogChained
    <2>6. Merged(m, j.image)
      BY <1>1, <2>2, <2>4, LogMerged
    <2>7. EndsAt(m, c.upto)
      BY <1>1, <2>4, LogEnds
    <2>. HIDE DEF m, k, c, old
    <2>8. GoodLanded(v, m, k)
      BY <1>1, <2>2, <2>5, <2>6, <2>7 DEF GoodLanded, NoCarrier
    <2>9. Fits(v, m, j)
      BY <1>2, <2>3 DEF Fits
    <2>10. Fits(v, m, k)
      BY <1>1, <2>8 DEF Fits
    <2>. QED
      BY <2>9, <2>10 DEF m, k
  <1>3. CASE j.phase = "landed"
    <2>1. GoodLanded(v, l, j)
      BY <1>3 DEF Fits
    <2>2. Chained(m) /\ Merged(m, j.image) /\ c.kind = "tail"
      BY <2>1 DEF GoodLanded
    <2>3. GoodLanded(v, m, j)
      BY <2>1 DEF GoodLanded
    <2>4. EndsAt(m, c.upto)
      BY <1>1, <2>2, LogEnds
    <2>. HIDE DEF m, k, c, old
    <2>5. GoodLanded(v, m, k)
      BY <1>1, <2>1, <2>2, <2>4 DEF GoodLanded
    <2>6. Fits(v, m, j)
      BY <1>3, <2>3 DEF Fits
    <2>7. Fits(v, m, k)
      BY <1>1, <2>5 DEF Fits
    <2>. QED
      BY <2>6, <2>7 DEF m, k
  <1>. QED
    BY <1>2, <1>3

\* publish and finish_visible, up to the journal's outcome.
LEMMA OutcomeRuns ==
    ASSUME NEW v, NEW n, NEW l, NEW j, j # None, j.pub # None,
           j.phase \in {"open", "landed"}, Settled(v, j, n), ~lost => Fits(v, l, j)
    PROVE  \E w, m :
             /\ Runs(St(v, {}, l), <<Cas(j.pub), Expect(Candidate(j.pub))>> \o Replace(j, Landed(j)),
                     St(w, {}, m), n)
             /\ Settled(w, Landed(j), n) /\ (~lost => Fits(w, m, Landed(j)))
  <1>. DEFINE m == Log(Candidate(j.pub))
  <1>1. Local(v, n) /\ JournalIn(v) = j
    BY DEF Settled
  <1>2. Sound(j, n) /\ j \in Journals
    BY <1>1, JournalFacts DEF Sound
  <1>3. /\ j.pub \in Publications /\ Candidate(j.pub) \in Seq(Commits) /\ Sound(Landed(j), n)
    BY <1>2, LandedFacts
  <1>4. ~lost => Fits(v, m, j) /\ Fits(v, m, Landed(j))
    BY <1>2, PublishFits
  <1>5. ~lost => Good(v, m)
    BY <1>1, <1>4 DEF Good
  <1>6. Runs(St(v, {}, l), <<Cas(j.pub)>>, St(v, {}, m), n)
    BY <1>3, <1>5, CasRuns
  <1>7. Runs(St(v, {}, m), <<Expect(Candidate(j.pub))>>, St(v, {}, m), n)
    BY <1>3, ExpectRuns
  <1>8. PICK w : /\ Runs(St(v, {}, m), Replace(j, Landed(j)), St(w, {}, m), n)
                 /\ Settled(w, Landed(j), n) /\ Safe(w, m, n)
    <2>. HIDE DEF m
    <2>. QED
      BY <1>2, <1>3, <1>4, ReplaceRuns
  <1>. HIDE DEF m
  <1>9. Runs(St(v, {}, l), <<Cas(j.pub)>> \o <<Expect(Candidate(j.pub))>>, St(v, {}, m), n)
    BY <1>6, <1>7, RunsConcat
  <1>10. <<Cas(j.pub)>> \o <<Expect(Candidate(j.pub))>> = <<Cas(j.pub), Expect(Candidate(j.pub))>>
    BY TwoConcat
  <1>11. Runs(St(v, {}, l), <<Cas(j.pub), Expect(Candidate(j.pub))>> \o Replace(j, Landed(j)),
              St(w, {}, m), n)
    BY <1>8, <1>9, <1>10, RunsConcat
  <1>12. ~lost => Fits(w, m, Landed(j))
    BY <1>8 DEF Safe, Settled, Good
  <1>. QED
    BY <1>8, <1>11, <1>12

------------------------------------------------------------------------------
(* Records                                                                   *)

\* Binding a transaction image.
LEMMA BoundTx ==
    ASSUME NEW b, NEW p
    PROVE  Bound(Tx(b, p)) = Tx(TRUE, p)
  <1>1. \A g, c : [[gen |-> g, bound |-> b, picks |-> p] EXCEPT !.bound = c]
                   = [gen |-> g, bound |-> c, picks |-> p]
    OBVIOUS
  <1>. QED
    BY <1>1, Zenon DEF Bound, Tx

\* Another generation's image is told apart; this one's is a Tx.
LEMMA ImageFacts ==
    /\ None \notin Images /\ Other \in Images /\ Other.gen = "other" /\ ~Other.bound
    /\ \A x \in Images : x # Other <=> x.gen = "this"
    /\ \A x \in Images : x.gen = "this" =>
         /\ x.bound \in BOOLEAN /\ x.picks \in 0..MaxPicks /\ x = Tx(x.bound, x.picks)
         /\ Bound(x) = Tx(TRUE, x.picks)
    /\ \A b \in BOOLEAN, p \in 0..MaxPicks :
         /\ Tx(b, p) \in Images /\ Tx(b, p).gen = "this"
         /\ Tx(b, p).bound = b /\ Tx(b, p).picks = p
  <1>1. None \notin Images
    BY NoneIsNoRecord
  <1>2. Other \in Images /\ Other.gen = "other" /\ ~Other.bound
    BY DEF Images, Other
  <1>3. ASSUME NEW b \in BOOLEAN, NEW p \in 0..MaxPicks
        PROVE  /\ Tx(b, p) \in Images /\ Tx(b, p).gen = "this"
               /\ Tx(b, p).bound = b /\ Tx(b, p).picks = p
               /\ Bound(Tx(b, p)) = Tx(TRUE, p)
    <2>1. Tx(b, p) \in Images
      BY DEF Images
    <2>2. Tx(b, p).gen = "this" /\ Tx(b, p).picks = p
      BY DEF Tx
    <2>3. Tx(b, p).bound = b
      BY Zenon DEF Tx
    <2>4. Bound(Tx(b, p)) = Tx(TRUE, p)
      BY BoundTx
    <2>. QED
      BY <2>1, <2>2, <2>3, <2>4
  <1>4. ASSUME NEW x \in Images
        PROVE  x = Other \/ \E b \in BOOLEAN, p \in 0..MaxPicks : x = Tx(b, p)
    BY DEF Images
  <1>5. ASSUME NEW x \in Images
        PROVE  /\ x # Other <=> x.gen = "this"
               /\ x.gen = "this" =>
                    /\ x.bound \in BOOLEAN /\ x.picks \in 0..MaxPicks /\ x = Tx(x.bound, x.picks)
                    /\ Bound(x) = Tx(TRUE, x.picks)
    <2>1. CASE x = Other
      BY <2>1, <1>2
    <2>2. CASE \E b \in BOOLEAN, p \in 0..MaxPicks : x = Tx(b, p)
      <3>1. PICK b \in BOOLEAN, p \in 0..MaxPicks : x = Tx(b, p)
        BY <2>2
      <3>2. x.gen = "this" /\ x.bound = b /\ x.picks = p /\ Bound(x) = Tx(TRUE, p)
        BY <3>1, <1>3
      <3>. QED
        BY <3>1, <3>2, <1>2
    <2>. QED
      BY <1>4, <2>1, <2>2
  <1>6. /\ \A x \in Images : x # Other <=> x.gen = "this"
        /\ \A x \in Images : x.gen = "this" =>
             /\ x.bound \in BOOLEAN /\ x.picks \in 0..MaxPicks /\ x = Tx(x.bound, x.picks)
             /\ Bound(x) = Tx(TRUE, x.picks)
    BY <1>5
  <1>7. \A b \in BOOLEAN, p \in 0..MaxPicks :
          /\ Tx(b, p) \in Images /\ Tx(b, p).gen = "this"
          /\ Tx(b, p).bound = b /\ Tx(b, p).picks = p
    BY <1>3
  <1>. QED
    BY <1>1, <1>2, <1>6, <1>7, Zenon

\* Binding keeps the generation.
LEMMA BoundFacts ==
    ASSUME NEW x, Ours(x)
    PROVE  /\ Ours(Bound(x)) /\ Bound(x).bound /\ Bound(x) \in Images
           /\ x \in Images /\ x # None /\ x # Other /\ Bound(x) # None /\ Bound(x) # Other
  <1>1. x \in Images /\ x.gen = "this" /\ x.picks \in 0..MaxPicks /\ Bound(x) = Tx(TRUE, x.picks)
    BY ImageFacts DEF Ours
  <1>2. /\ Tx(TRUE, x.picks) \in Images /\ Tx(TRUE, x.picks).gen = "this"
        /\ Tx(TRUE, x.picks).bound
    <2>1. TRUE \in BOOLEAN
      OBVIOUS
    <2>2. /\ Tx(TRUE, x.picks) \in Images /\ Tx(TRUE, x.picks).gen = "this"
          /\ Tx(TRUE, x.picks).bound = TRUE
      BY <1>1, <2>1, ImageFacts, Zenon
    <2>. QED
      BY <2>2
  <1>3. Ours(Bound(x)) /\ Bound(x).bound /\ Bound(x) \in Images
    BY <1>1, <1>2 DEF Ours
  <1>4. \A y \in Images : y.gen = "this" => y # None /\ y # Other
    BY ImageFacts
  <1>. QED
    BY <1>1, <1>3, <1>4 DEF Ours

\* The journal that activation creates, and the one that it opens, are sound.
LEMMA PreparingFacts ==
    ASSUME NEW x \in Images, NEW n \in Nat
    PROVE  LET j == Preparing(x)
           IN /\ j \in Journals /\ Sound(j, n) /\ j # None
              /\ j.phase = "preparing" /\ j.image = x /\ j.pub = None
              /\ Open(j) \in Journals /\ Sound(Open(j), n) /\ Open(j) # None
              /\ Open(j).phase = "open" /\ Open(j).pub = None
  <1>. DEFINE j == Preparing(x)
              o == Open(j)
  <1>1. /\ j \in Journals /\ j.phase = "preparing" /\ j.image = x /\ j.pub = None /\ j.consumed = 0
    BY DEF Preparing, Journals
  <1>2. /\ o \in Journals /\ o.phase = "open" /\ o.pub = None /\ o.consumed = 0
    BY <1>1 DEF Open, Journals
  <1>3. Sound(j, n)
    BY <1>1 DEF Sound
  <1>4. Sound(o, n)
    BY <1>2 DEF Sound
  <1>. QED
    BY <1>1, <1>2, <1>3, <1>4, NoneIsNoRecord

\* Composition, with the places named.
LEMMA RunsLast ==
    ASSUME NEW s, NEW p, NEW q, NEW v, NEW w, NEW D, NEW E, NEW l, NEW m, NEW n,
           Runs(s, p, St(v, D, l), n), Runs(St(v, D, l), q, St(w, E, m), n)
    PROVE  Runs(s, p \o q, St(w, E, m), n)
  BY RunsConcat

------------------------------------------------------------------------------
(* Activation                                                                *)

\* From the journalled intent on.
LEMMA ActivateRest ==
    ASSUME NEW s, NEW p, NEW v, NEW n \in Nat, NEW l, NEW x, Ours(x),
           Runs(s, p, St(v, {}, l), n), Settled(v, Preparing(x), n),
           ~lost => Fits(v, l, Preparing(x))
    PROVE  \E w : Runs(s, p \o <<Expect(<<>>)>> \o Durably("link", "archive", Store)
                            \o SetClaims("retired")
                            \o <<Expect(<<>>)>> \o Durably("tx", Bound(x), Git)
                            \o <<Expect(<<>>)>> \o Replace(Preparing(x), Open(Preparing(x))),
                        St(w, {}, l), n)
  <1>. DEFINE j == Preparing(x)
              u == Upd(v, "link", "archive")
  <1>1. /\ j \in Journals /\ Sound(j, n) /\ j # None
        /\ j.phase = "preparing" /\ j.image = x /\ j.pub = None
        /\ Open(j) \in Journals /\ Sound(Open(j), n) /\ Open(j) # None
        /\ Open(j).phase = "open" /\ Open(j).pub = None
    BY PreparingFacts DEF Ours
  <1>2. Ours(Bound(x)) /\ Bound(x).bound /\ Bound(x) \in Images
    BY BoundFacts
  <1>. HIDE DEF j
  <1>3. Settled(v, j, n) /\ (~lost => Fits(v, l, j)) /\ Whole(v)
    BY DEF j, Settled, Local
  <1>4. <<>> \in Seq(Commits)
    OBVIOUS
  <1>5. FileValue("link", "archive") /\ FileValue("tx", Bound(x))
    BY <1>2, FileFacts DEF FileValue
  <1>6. Runs(St(v, {}, l), <<Expect(<<>>)>>, St(v, {}, l), n)
    BY <1>4, ExpectRuns
  <1>7. ~lost => Fits(u, l, j)
    <2>1. Same(v, u, Files \ {"link"})
      BY <1>3, FileFacts, UpdFacts DEF Same
    <2>. HIDE DEF u
    <2>2. u["tx"] = v["tx"] /\ u["landed"] = v["landed"] /\ u["aborted"] = v["aborted"]
      BY <2>1, FileFacts DEF Same
    <2>3. GoodPreparing(v, l, j) => GoodPreparing(u, l, j)
      BY <2>2 DEF GoodPreparing, NoCarrier
    <2>. QED
      BY <1>1, <1>3, <2>3 DEF Fits
  <1>8. /\ Runs(St(v, {}, l), Durably("link", "archive", Store), St(u, {}, l), n)
        /\ Settled(u, j, n) /\ u["link"] = "archive"
    <2>1. Store \in Dirs /\ "link" \in Store
      BY FileFacts, DirFacts
    <2>2. Runs(St(v, {}, l), Durably("link", "archive", Store), St(u, {}, l), n) /\ Settled(u, j, n)
      BY <1>3, <1>5, <1>7, <2>1, FileRuns
    <2>3. u["link"] = "archive"
      BY <1>3, FileFacts, UpdFacts
    <2>. QED
      BY <2>2, <2>3
  <1>. HIDE DEF u
  <1>9. PICK w : /\ Runs(St(u, {}, l), SetClaims("retired"), St(w, {}, l), n)
                 /\ Settled(w, j, n) /\ (~lost => Fits(w, l, j))
                 /\ ClaimsAre(w, "retired") /\ Same(u, w, Files \ ClaimSet)
    <2>1. "retired" \in {"active", "retired"} /\ j.phase \in {"preparing", "aborting"}
      BY <1>1
    <2>. QED
      BY <1>1, <1>7, <1>8, <2>1, ClaimsRuns
  <1>10. Runs(St(w, {}, l), <<Expect(<<>>)>>, St(w, {}, l), n)
    BY <1>4, ExpectRuns
  <1>. DEFINE y == Upd(w, "tx", Bound(x))
  <1>11. Same(w, y, Files \ {"tx"}) /\ y["tx"] = Bound(x)
    BY <1>9, FileFacts, UpdFacts DEF Same, Settled, Local
  <1>12. /\ y["landed"] = w["landed"] /\ y["aborted"] = w["aborted"] /\ y["link"] = "archive"
         /\ ClaimsAre(y, "retired")
    <2>1. w["link"] = u["link"]
      BY <1>9, FileFacts, DirFacts DEF Same
    <2>. HIDE DEF y
    <2>2. \A g \in {"tx", "landed", "aborted", "link"} : g # "tx" => y[g] = w[g]
      BY <1>11, FileFacts DEF Same
    <2>3. ClaimsAre(y, "retired")
      BY <1>9, <1>11, FileFacts, DirFacts DEF Same, ClaimsAre
    <2>. QED
      BY <1>8, <2>1, <2>2, <2>3
  <1>13. ASSUME ~lost PROVE GoodPreparing(w, l, j) /\ Fits(y, l, j) /\ Fits(y, l, Open(j))
    <2>. HIDE DEF y
    <2>1. GoodPreparing(w, l, j)
      BY <1>1, <1>9, <1>13 DEF Fits
    <2>2. GoodPreparing(y, l, j)
      BY <1>1, <1>11, <1>12, <2>1 DEF GoodPreparing, NoCarrier
    <2>3. GoodOpen(y, l, Open(j))
      BY <1>1, <1>2, <1>11, <1>12, <2>1 DEF GoodPreparing, GoodOpen, NoCarrier
    <2>. QED
      BY <1>1, <2>1, <2>2, <2>3 DEF Fits
  <1>14. Runs(St(w, {}, l), Durably("tx", Bound(x), Git), St(y, {}, l), n) /\ Settled(y, j, n)
    BY <1>5, <1>9, <1>13, FileFacts, DirFacts, FileRuns
  <1>. HIDE DEF y
  <1>15. Runs(St(y, {}, l), <<Expect(<<>>)>>, St(y, {}, l), n)
    BY <1>4, ExpectRuns
  <1>16. PICK z : Runs(St(y, {}, l), Replace(j, Open(j)), St(z, {}, l), n)
    BY <1>1, <1>13, <1>14, ReplaceRuns
  <1>. DEFINE p1 == p \o <<Expect(<<>>)>>
              p2 == p1 \o Durably("link", "archive", Store)
              p3 == p2 \o SetClaims("retired")
              p4 == p3 \o <<Expect(<<>>)>>
              p5 == p4 \o Durably("tx", Bound(x), Git)
              p6 == p5 \o <<Expect(<<>>)>>
              p7 == p6 \o Replace(j, Open(j))
  <1>17. Runs(s, p1, St(v, {}, l), n)
    BY <1>6, RunsLast
  <1>. HIDE DEF p1
  <1>18. Runs(s, p2, St(u, {}, l), n)
    BY <1>8, <1>17, RunsLast
  <1>. HIDE DEF p2
  <1>19. Runs(s, p3, St(w, {}, l), n)
    BY <1>9, <1>18, RunsLast
  <1>. HIDE DEF p3
  <1>20. Runs(s, p4, St(w, {}, l), n)
    BY <1>10, <1>19, RunsLast
  <1>. HIDE DEF p4
  <1>21. Runs(s, p5, St(y, {}, l), n)
    BY <1>14, <1>20, RunsLast
  <1>. HIDE DEF p5
  <1>22. Runs(s, p6, St(y, {}, l), n)
    BY <1>15, <1>21, RunsLast
  <1>. HIDE DEF p6
  <1>23. Runs(s, p7, St(z, {}, l), n)
    BY <1>16, <1>22, RunsLast
  <1>. QED
    BY <1>23 DEF p1, p2, p3, p4, p5, p6, p7, j

------------------------------------------------------------------------------
(* Every command has a plan                                                  *)

\* The effects q, begun where the files are, are safe to the end.
Planned(q) ==
    \E t : Runs(St(vis, {Git}, Log(head)), q, t, native) /\ t.dirty \subseteq {Git}

\* Where a command may begin.
Ready == Safe(vis, Log(head), native) /\ native \in Nat /\ head \in Seq(Commits)

\* A plan that ends clean is one a command may begin.
LEMMA PlannedBy ==
    ASSUME NEW q, NEW w, NEW m, Runs(St(vis, {Git}, Log(head)), q, St(w, {}, m), native)
    PROVE  Planned(q)
  <1>1. St(w, {}, m).dirty = {}
    BY DEF St
  <1>. QED
    BY <1>1 DEF Planned

\* recover_pending from where a command begins: the journal is settled, the rest as it was.
LEMMA RecoverPlan ==
    ASSUME Ready
    PROVE  \E v : /\ Runs(St(vis, {Git}, Log(head)), Recover, St(v, {}, Log(head)), native)
                  /\ Settled(v, Intent, native) /\ Safe(v, Log(head), native) /\ Same(vis, v, Aside)
                  /\ (~lost => Fits(v, Log(head), Intent))
                  /\ (Intent # None => Sound(Intent, native) /\ Intent \in Journals)
  <1>1. PICK v : /\ Runs(St(vis, {Git}, Log(head)), Recover, St(v, {}, Log(head)), native)
                 /\ Settled(v, Intent, native) /\ Safe(v, Log(head), native) /\ Same(vis, v, Aside)
    BY RecoverRuns DEF Ready
  <1>2. ~lost => Fits(v, Log(head), Intent)
    BY <1>1 DEF Settled, Safe, Good
  <1>3. Intent # None => Sound(Intent, native) /\ Intent \in Journals
    BY <1>1, JournalFacts DEF Settled, Sound
  <1>. QED
    BY <1>1, <1>2, <1>3

\* What the commands read beside the journal, before and after its recovery.
LEMMA SameAside ==
    ASSUME NEW v, NEW w, Same(v, w, Aside)
    PROVE  /\ w["tx"] = v["tx"] /\ w["landed"] = v["landed"] /\ w["aborted"] = v["aborted"]
           /\ w["link"] = v["link"] /\ \A c \in ClaimSet : w[c] = v[c]
           /\ \A x : ClaimsAre(v, x) => ClaimsAre(w, x)
  BY AsideFacts DEF Same, ClaimsAre

\* A transaction that is neither missing nor another's is this generation's.
LEMMA TxIsOurs ==
    ASSUME Ready, vis["tx"] \notin {None, Other}
    PROVE  Ours(vis["tx"]) /\ vis["tx"] \in Images
  <1>1. vis["tx"] \in Images
    BY FileFacts DEF Ready, Safe, Local, LocalGit
  <1>. QED
    BY <1>1, ImageFacts DEF Ours

\* activate_under_branch_with: every effect of an activation, first or repeated, is safe.
LEMMA ActivatePlanned ==
    ASSUME Ready, Activate
    PROVE  Planned(todo')
  <1>. DEFINE l == Log(head)
              x == Image
              j == Preparing(x)
  <1>1. /\ head = <<>> /\ vis["tx"] \notin {None, Other}
        /\ \/ /\ Intent = None /\ ~vis["tx"].bound /\ vis["link"] = None
              /\ \A c \in ClaimSet : vis[c] = "active"
           \/ /\ Intent # None /\ Intent.phase = "preparing"
              /\ vis["tx"] \in {Intent.image, Bound(Intent.image)}
    BY DEF Activate, Activatable
  <1>2. todo' = Recover \o Journaled(j)
            \o <<Expect(<<>>)>> \o Durably("link", "archive", Store)
            \o SetClaims("retired")
            \o <<Expect(<<>>)>> \o Durably("tx", Bound(x), Git)
            \o <<Expect(<<>>)>> \o Replace(j, Open(j))
    BY DEF Activate, Begin
  <1>3. Ours(vis["tx"]) /\ DOMAIN l = {} /\ native \in Nat
    BY <1>1, TxIsOurs, LogEmpty DEF Ready
  <1>4. PICK v : /\ Runs(St(vis, {Git}, l), Recover, St(v, {}, l), native)
                 /\ Settled(v, Intent, native) /\ Same(vis, v, Aside)
                 /\ (~lost => Fits(v, l, Intent))
                 /\ (Intent # None => Sound(Intent, native) /\ Intent \in Journals)
    BY RecoverPlan
  <1>5. CASE Intent = None
    <2>1. x = vis["tx"] /\ ~vis["tx"].bound /\ Ours(x)
      BY <1>1, <1>3, <1>5 DEF Image
    <2>2. j \in Journals /\ Sound(j, native) /\ j # None /\ j.phase = "preparing" /\ j.image = x
      BY <1>3, <2>1, PreparingFacts DEF Ours
    <2>. HIDE DEF l, x, j
    <2>3. ASSUME ~lost PROVE Fits(v, l, j)
      <3>1. GoodNone(v, l)
        BY <1>4, <1>5, <2>3 DEF Fits
      <3>2. v["tx"] = x
        BY <1>4, <2>1, SameAside
      <3>3. GoodPreparing(v, l, j)
        BY <1>3, <2>1, <2>2, <3>1, <3>2 DEF GoodNone, GoodPreparing
      <3>. QED
        BY <2>2, <3>3 DEF Fits
    <2>4. PICK w : /\ Runs(St(v, {}, l), Create(j), St(w, {}, l), native)
                   /\ Settled(w, j, native) /\ Safe(w, l, native)
      <3>1. Settled(v, None, native) /\ None \in Journals \cup {None}
        BY <1>4, <1>5
      <3>2. PICK w : /\ Runs(St(v, {}, l), Durably("rec", [prev |-> None, next |-> j], Journal)
                                          \o Durably("main", j, Journal), St(w, {}, l), native)
                     /\ Settled(w, j, native) /\ Safe(w, l, native)
        BY <2>2, <2>3, <3>1, CreateRuns
      <3>. QED
        BY <3>2 DEF Create
    <2>5. Runs(St(vis, {Git}, l), Recover \o Create(j), St(w, {}, l), native)
      BY <1>4, <2>4, RunsConcat
    <2>6. ~lost => Fits(w, l, j)
      BY <2>4 DEF Safe, Settled, Good
    <2>7. Journaled(j) = Create(j)
      BY <1>5 DEF Journaled
    <2>8. \E z : Runs(St(vis, {Git}, l), todo', St(z, {}, l), native)
      BY <1>2, <1>3, <2>1, <2>4, <2>5, <2>6, <2>7, ActivateRest DEF j
    <2>. QED
      BY <2>8, PlannedBy DEF l
  <1>6. CASE Intent # None
    <2>1. Sound(Intent, native) /\ Intent.phase = "preparing"
      BY <1>1, <1>4, <1>6
    <2>2. x = Intent.image /\ x \in Images /\ Intent = Preparing(x)
      BY <1>6, <2>1 DEF Sound, Image
    <2>3. Ours(x)
      <3>1. vis["tx"] = x \/ vis["tx"] = Bound(x)
        BY <1>1, <1>6, <2>2
      <3>2. CASE vis["tx"] = x
        BY <1>3, <3>2
      <3>3. CASE vis["tx"] = Bound(x) /\ x = Other
        <4>1. Bound(Other).gen = "other"
          BY DEF Bound, Other
        <4>. QED
          BY <1>3, <3>3, <4>1 DEF Ours
      <3>4. x # Other => Ours(x)
        BY <2>2, ImageFacts DEF Ours
      <3>. QED
        BY <3>1, <3>2, <3>3, <3>4
    <2>4. Settled(v, j, native) /\ (~lost => Fits(v, l, j))
      BY <1>4, <2>2
    <2>5. Journaled(j) = <<>>
      BY <1>6 DEF Journaled
    <2>. HIDE DEF l, x, j
    <2>6. Runs(St(vis, {Git}, l), Recover \o <<>>, St(v, {}, l), native)
      <3>1. Runs(St(v, {}, l), <<>>, St(v, {}, l), native)
        BY RunsEmpty
      <3>. QED
        BY <1>4, <3>1, RunsConcat
    <2>7. \E z : Runs(St(vis, {Git}, l), todo', St(z, {}, l), native)
      BY <1>2, <1>3, <2>3, <2>4, <2>5, <2>6, ActivateRest DEF j
    <2>. QED
      BY <2>7, PlannedBy DEF l
  <1>. QED
    BY <1>5, <1>6

\* Writing the transaction is a plan, with its sync or without.
LEMMA TxPut ==
    ASSUME Ready, NEW x \in Images \cup {None},
           ~lost => Fits(Upd(vis, "tx", x), Log(head), Intent)
    PROVE  Planned(<<Put("tx", x)>>) /\ Planned(Durably("tx", x, Git))
  <1>. DEFINE w == Upd(vis, "tx", x)
              l == Log(head)
  <1>1. Local(vis, native) /\ Whole(vis) /\ JournalIn(vis) = Intent
    BY DEF Ready, Safe, Local, Intent, JournalIn
  <1>2. "tx" \in Git /\ Git \in Dirs /\ FileValue("tx", x)
    BY FileFacts, DirFacts DEF FileValue
  <1>3. Safe(w, l, native)
    BY <1>1, <1>2, FilePut
  <1>4. Runs(St(vis, {Git}, l), <<Put("tx", x)>>, St(w, {Git}, l), native)
    BY <1>1, <1>2, <1>3, PutRuns
  <1>5. Runs(St(vis, {Git}, l), Durably("tx", x, Git), St(w, {}, l), native)
    BY <1>1, <1>2, <1>3, DurablyRuns
  <1>6. St(w, {Git}, l).dirty = {Git}
    BY DEF St
  <1>. HIDE DEF w
  <1>7. Planned(<<Put("tx", x)>>)
    BY <1>4, <1>6 DEF Planned
  <1>8. Planned(Durably("tx", x, Git))
    BY <1>5, PlannedBy
  <1>. QED
    BY <1>7, <1>8

\* Writing the transaction changes no other file.
LEMMA TxOnly ==
    ASSUME Ready, NEW x
    PROVE  LET w == Upd(vis, "tx", x)
           IN /\ w["tx"] = x /\ w["landed"] = vis["landed"] /\ w["aborted"] = vis["aborted"]
              /\ w["link"] = vis["link"] /\ \A y : ClaimsAre(vis, y) => ClaimsAre(w, y)
  <1>. DEFINE w == Upd(vis, "tx", x)
  <1>1. Whole(vis)
    BY DEF Ready, Safe, Local
  <1>2. w["tx"] = x /\ \A g \in Files : g # "tx" => w[g] = vis[g]
    BY <1>1, FileFacts, UpdFacts
  <1>. HIDE DEF w
  <1>3. w["landed"] = vis["landed"] /\ w["aborted"] = vis["aborted"] /\ w["link"] = vis["link"]
    BY <1>2, FileFacts
  <1>4. \A y : ClaimsAre(vis, y) => ClaimsAre(w, y)
    BY <1>2, FileFacts, DirFacts DEF ClaimsAre
  <1>. QED
    BY <1>2, <1>3, <1>4 DEF w

\* Without a journal the transaction may be anything that is not bound.
LEMMA TxUnbound ==
    ASSUME Ready, NEW x, x # None => ~x.bound, NEW l, Fits(vis, l, None)
    PROVE  Fits(Upd(vis, "tx", x), l, None)
  <1>. DEFINE w == Upd(vis, "tx", x)
  <1>1. /\ w["tx"] = x /\ w["landed"] = vis["landed"] /\ w["aborted"] = vis["aborted"]
        /\ w["link"] = vis["link"] /\ \A y : ClaimsAre(vis, y) => ClaimsAre(w, y)
    BY TxOnly
  <1>. HIDE DEF w
  <1>2. GoodNone(w, l)
    BY <1>1 DEF Fits, GoodNone, NoCarrier
  <1>3. Fits(w, l, None)
    BY <1>2 DEF Fits
  <1>. QED
    BY <1>3 DEF w

\* Another generation's transaction comes and goes beside a completed journal only.
LEMMA TxOther ==
    ASSUME Ready, NEW x \in {None, Other}, vis["tx"] \in {None, Other},
           NEW l, NEW j, Fits(vis, l, j)
    PROVE  Fits(Upd(vis, "tx", x), l, j)
  <1>. DEFINE w == Upd(vis, "tx", x)
  <1>1. /\ w["tx"] = x /\ w["landed"] = vis["landed"] /\ w["aborted"] = vis["aborted"]
        /\ w["link"] = vis["link"] /\ \A y : ClaimsAre(vis, y) => ClaimsAre(w, y)
    BY TxOnly
  <1>. HIDE DEF w
  <1>2. ~Ours(vis["tx"]) /\ \A y : Ours(y) => vis["tx"] # y /\ vis["tx"] # Bound(y)
    <2>1. \A y : Ours(y) => y \notin {None, Other} /\ Bound(y) \notin {None, Other}
      BY BoundFacts
    <2>. QED
      BY <2>1
  <1>3. CASE j = None
    BY <1>3, TxUnbound, ImageFacts DEF w
  <1>4. CASE j # None
    <2>1. j.phase = "preparing" => FALSE
      BY <1>2, <1>4 DEF Fits, GoodPreparing
    <2>2. j.phase = "open" => FALSE
      BY <1>2, <1>4 DEF Fits, GoodOpen
    <2>3. j.phase = "aborting" => FALSE
      BY <1>2, <1>4 DEF Fits, GoodAborting
    <2>4. j.phase = "landed" => GoodLanded(w, l, j)
      <3>1. ASSUME j.phase = "landed" PROVE GoodLanded(w, l, j)
        <4>1. GoodLanded(vis, l, j)
          BY <1>4, <3>1 DEF Fits
        <4>2. vis["landed"] = j.image
          BY <1>2, <4>1 DEF GoodLanded
        <4>. QED
          BY <1>1, <4>1, <4>2 DEF GoodLanded
      <3>. QED
        BY <3>1
    <2>5. j.phase = "aborted" => GoodAborted(w, l, j)
      <3>1. ASSUME j.phase = "aborted" PROVE GoodAborted(w, l, j)
        <4>1. GoodAborted(vis, l, j)
          BY <1>4, <3>1 DEF Fits
        <4>2. vis["aborted"] = j.image
          BY <1>2, <4>1 DEF GoodAborted
        <4>. QED
          BY <1>1, <4>1, <4>2 DEF GoodAborted
      <3>. QED
        BY <3>1
    <2>6. Fits(w, l, j)
      BY <1>4, <2>1, <2>2, <2>3, <2>4, <2>5 DEF Fits
    <2>. QED
      BY <2>6 DEF w
  <1>. QED
    BY <1>3, <1>4

\* Where a command begins, the files fit the journal it will recover.
LEMMA ReadyFits == Ready => (~lost => Fits(vis, Log(head), Intent))
  BY DEF Ready, Safe, Good, Intent, JournalIn

\* Opening a merge is safe.
LEMMA CreateTxPlanned ==
    ASSUME Ready, NEW tx \in {Tx(FALSE, 0), Other}, CreateTx(tx)
    PROVE  Planned(todo')
  <1>1. vis["tx"] = None /\ (tx.gen = "this" => Intent = None) /\ todo' = <<Put("tx", tx)>>
    BY DEF CreateTx, Begin
  <1>2. /\ Tx(FALSE, 0) \in Images /\ Tx(FALSE, 0).gen = "this" /\ ~Tx(FALSE, 0).bound
        /\ Other \in Images
    <2>1. FALSE \in BOOLEAN /\ 0 \in 0..MaxPicks
      BY MergeAssumption
    <2>2. /\ Tx(FALSE, 0) \in Images /\ Tx(FALSE, 0).gen = "this" /\ Tx(FALSE, 0).bound = FALSE
      BY <2>1, ImageFacts, Zenon
    <2>. QED
      BY <2>2, ImageFacts
  <1>3. ASSUME ~lost PROVE Fits(Upd(vis, "tx", tx), Log(head), Intent)
    <2>1. Fits(vis, Log(head), Intent)
      BY <1>3, ReadyFits
    <2>2. CASE tx = Other
      BY <1>1, <2>1, <2>2, TxOther
    <2>3. CASE tx = Tx(FALSE, 0)
      BY <1>1, <1>2, <2>1, <2>3, TxUnbound
    <2>. QED
      BY <2>2, <2>3
  <1>4. Planned(<<Put("tx", tx)>>)
    BY <1>2, <1>3, TxPut
  <1>. QED
    BY <1>1, <1>4

\* Dropping an ordinary transaction is safe.
LEMMA RemoveTxPlanned ==
    ASSUME Ready, RemoveTx
    PROVE  Planned(todo')
  <1>1. /\ vis["tx"] # Other => vis["main"] = None /\ vis["rec"] = None
        /\ todo' = <<Put("tx", None)>>
    BY DEF RemoveTx, Begin
  <1>2. ASSUME ~lost PROVE Fits(Upd(vis, "tx", None), Log(head), Intent)
    <2>1. Fits(vis, Log(head), Intent)
      BY <1>2, ReadyFits
    <2>2. CASE vis["tx"] = Other
      BY <2>1, <2>2, TxOther
    <2>3. CASE vis["tx"] # Other
      <3>1. Intent = None
        BY <1>1, <2>3 DEF Intent
      <3>. QED
        BY <2>1, <3>1, TxUnbound
    <2>. QED
      BY <2>2, <2>3
  <1>3. Planned(<<Put("tx", None)>>)
    BY <1>2, TxPut
  <1>. QED
    BY <1>1, <1>3

\* A pick keeps the transaction this generation's.
LEMMA PickTx ==
    ASSUME NEW x, Ours(x), x.picks < MaxPicks
    PROVE  LET y == [x EXCEPT !.picks = @ + 1]
           IN Ours(y) /\ y \in Images /\ y.bound = x.bound
  <1>. DEFINE b == x.bound
              p == x.picks
              y == [x EXCEPT !.picks = @ + 1]
  <1>1. b \in BOOLEAN /\ p \in 0..MaxPicks /\ x = Tx(b, p)
    BY ImageFacts DEF Ours
  <1>2. p + 1 \in 0..MaxPicks
    BY <1>1, MergeAssumption
  <1>3. y = [x EXCEPT !.picks = p + 1]
    OBVIOUS
  <1>. HIDE DEF y, b, p
  <1>4. [Tx(b, p) EXCEPT !.picks = p + 1] = Tx(b, p + 1)
    <2>1. \A g, c, q, r : [[gen |-> g, bound |-> c, picks |-> q] EXCEPT !.picks = r]
                     = [gen |-> g, bound |-> c, picks |-> r]
      OBVIOUS
    <2>. QED
      BY <2>1, Zenon DEF Tx
  <1>5. y = Tx(b, p + 1)
    BY <1>1, <1>3, <1>4
  <1>6. Tx(b, p + 1) \in Images /\ Tx(b, p + 1).gen = "this" /\ Tx(b, p + 1).bound = b
    BY <1>1, <1>2, ImageFacts, Zenon
  <1>7. Ours(y) /\ y \in Images /\ y.bound = b
    BY <1>5, <1>6 DEF Ours
  <1>. QED
    BY <1>7 DEF y, b

\* pick, drop and summary are safe.
LEMMA ProgressPlanned ==
    ASSUME Ready, Progress
    PROVE  Planned(todo')
  <1>. DEFINE y == [vis["tx"] EXCEPT !.picks = @ + 1]
  <1>1. /\ vis["tx"] \notin {None, Other} /\ vis["tx"].picks < MaxPicks
        /\ vis["tx"].bound =>
             /\ vis["rec"] # None /\ vis["main"] = vis["rec"].next
             /\ vis["main"].phase = "open" /\ vis["main"].pub = None
             /\ todo' = Durably("tx", y, Git)
        /\ ~vis["tx"].bound => /\ vis["main"] = None /\ vis["rec"] = None
                               /\ todo' = <<Put("tx", y)>>
    BY DEF Progress, Begin
  <1>2. Ours(vis["tx"])
    BY <1>1, TxIsOurs
  <1>3. Ours(y) /\ y \in Images /\ y.bound = vis["tx"].bound
    BY <1>1, <1>2, PickTx
  <1>. HIDE DEF y
  <1>4. ASSUME ~lost PROVE Fits(Upd(vis, "tx", y), Log(head), Intent)
    <2>1. Fits(vis, Log(head), Intent)
      BY <1>4, ReadyFits
    <2>2. CASE vis["tx"].bound
      <3>1. Intent # None /\ Intent.phase = "open" /\ Intent.pub = None
        <4>1. Intent = vis["rec"].next /\ Intent.phase = "open" /\ Intent.pub = None
          BY <1>1, <2>2 DEF Intent
        <4>2. Local(vis, native) /\ JournalIn(vis) = Intent /\ vis["rec"] # None
          BY <1>1, <2>2 DEF Ready, Safe, Intent, JournalIn
        <4>. QED
          BY <4>1, <4>2, JournalFacts
      <3>2. GoodOpen(vis, Log(head), Intent)
        BY <2>1, <3>1 DEF Fits
      <3>. DEFINE w == Upd(vis, "tx", y)
      <3>3. /\ w["tx"] = y /\ w["landed"] = vis["landed"] /\ w["aborted"] = vis["aborted"]
            /\ w["link"] = vis["link"] /\ \A z : ClaimsAre(vis, z) => ClaimsAre(w, z)
        BY TxOnly
      <3>. HIDE DEF w
      <3>4. GoodOpen(w, Log(head), Intent)
        BY <1>3, <2>2, <3>1, <3>2, <3>3 DEF GoodOpen, NoCarrier
      <3>5. Fits(w, Log(head), Intent)
        BY <3>1, <3>4 DEF Fits
      <3>. QED
        BY <3>5 DEF w
    <2>3. CASE ~vis["tx"].bound
      <3>1. Intent = None
        BY <1>1, <2>3 DEF Intent
      <3>. QED
        BY <1>3, <2>1, <2>3, <3>1, TxUnbound
    <2>. QED
      BY <2>2, <2>3
  <1>5. Planned(<<Put("tx", y)>>) /\ Planned(Durably("tx", y, Git))
    BY <1>3, <1>4, TxPut
  <1>. QED
    BY <1>1, <1>5

------------------------------------------------------------------------------
(* Landing                                                                   *)

\* publish and finish_visible: move the ref, record it, and retire the transaction if asked.
LEMMA PublishRuns ==
    ASSUME NEW v, NEW n, NEW l, NEW j, j # None, j.pub # None,
           j.phase \in {"open", "landed"}, Settled(v, j, n), ~lost => Fits(v, l, j)
    PROVE  /\ \E w, m : Runs(St(v, {}, l), Publish(j, <<>>), St(w, {}, m), n)
           /\ \E w, m : Runs(St(v, {}, l), Publish(j, Retire("landed", j.image)), St(w, {}, m), n)
  <1>. DEFINE p == <<Cas(j.pub), Expect(Candidate(j.pub))>> \o Replace(j, Landed(j))
  <1>1. PICK w, m : /\ Runs(St(v, {}, l), p, St(w, {}, m), n)
                    /\ Settled(w, Landed(j), n) /\ (~lost => Fits(w, m, Landed(j)))
    BY OutcomeRuns
  <1>2. Sound(j, n)
    BY JournalFacts DEF Settled
  <1>3. Landed(j) \in Journals /\ Landed(j).phase = "landed" /\ Landed(j).image = j.image
    BY <1>2, LandedFacts
  <1>4. PICK z : Runs(St(w, {}, m), Retire("landed", j.image), St(z, {}, m), n)
    <2>1. "landed" \in {"landed", "aborted"}
      OBVIOUS
    <2>2. \E z : Runs(St(w, {}, m), Retire("landed", Landed(j).image), St(z, {}, m), n)
      BY <1>1, <1>3, <2>1, RetireRuns
    <2>. QED
      BY <1>3, <2>2
  <1>5. Publish(j, <<>>) = p \o <<>>
    BY DEF Publish
  <1>6. Publish(j, Retire("landed", j.image)) = p \o Retire("landed", j.image)
    BY DEF Publish
  <1>. HIDE DEF p
  <1>7. Runs(St(w, {}, m), <<>>, St(w, {}, m), n)
    BY RunsEmpty
  <1>8. Runs(St(v, {}, l), p \o <<>>, St(w, {}, m), n)
    BY <1>1, <1>7, RunsConcat
  <1>9. Runs(St(v, {}, l), p \o Retire("landed", j.image), St(z, {}, m), n)
    BY <1>1, <1>4, RunsConcat
  <1>. QED
    BY <1>5, <1>6, <1>8, <1>9

\* A fresh `--continue` is safe at each of its effects.
LEMMA LandPlanned ==
    ASSUME Ready, Land
    PROVE  Planned(todo')
  <1>. DEFINE l == Log(head)
              x == vis["tx"]
              c == Commit("merge", 0, native, x.picks)
              pub == Publication(<<>>, c)
              k == [Intent EXCEPT !.pub = pub, !.image = x]
  <1>1. /\ head = <<>> /\ Intent # None /\ Intent.phase = "open" /\ Intent.pub = None
        /\ x \notin {None, Other} /\ x.bound
        /\ todo' = Recover \o Replace(Intent, k) \o Publish(k, Retire("landed", x))
    BY DEF Land, Begin
  <1>2. PICK v : /\ Runs(St(vis, {Git}, l), Recover, St(v, {}, l), native)
                 /\ Settled(v, Intent, native) /\ Same(vis, v, Aside)
                 /\ (~lost => Fits(v, l, Intent))
                 /\ Sound(Intent, native) /\ Intent \in Journals
    BY <1>1, RecoverPlan
  <1>3. Ours(x) /\ x \in Images /\ native \in Nat
    BY <1>1, TxIsOurs DEF Ready
  <1>4. x.picks \in Nat
    <2>. HIDE DEF x
    <2>1. x.picks \in 0..MaxPicks
      BY <1>3, ImageFacts DEF Ours
    <2>. QED
      BY <2>1, MergeAssumption
  <1>5. /\ c \in Commits /\ c.kind = "merge" /\ c.from = 0 /\ c.upto = native /\ c.picks = x.picks
    BY <1>3, <1>4 DEF Commit, Commits
  <1>6. pub \in Publications /\ pub.old = <<>> /\ pub.commit = c /\ pub # None
    <2>. HIDE DEF c
    <2>1. pub \in Publications /\ pub.old = <<>> /\ pub.commit = c
      BY <1>5 DEF Publication, Publications
    <2>. QED
      BY <2>1, NoneIsNoRecord
  <1>7. /\ k \in Journals /\ k.phase = "open" /\ k.pub = pub /\ k.image = x
        /\ k.consumed = Intent.consumed /\ k # None
    <2>. HIDE DEF pub, x
    <2>1. /\ k \in Journals /\ k.phase = "open" /\ k.pub = pub /\ k.image = x
          /\ k.consumed = Intent.consumed
      BY <1>1, <1>2, <1>3, <1>6 DEF Journals
    <2>. QED
      BY <2>1, NoneIsNoRecord
  <1>. HIDE DEF k, pub, c
  <1>8. Sound(k, native)
    BY <1>2, <1>3, <1>5, <1>6, <1>7 DEF Sound
  <1>9. ASSUME ~lost PROVE Fits(v, l, k)
    <2>1. GoodOpen(v, l, Intent)
      BY <1>1, <1>2, <1>9 DEF Fits
    <2>2. v["tx"] = x
      BY <1>2, SameAside
    <2>3. DOMAIN l = {}
      BY <1>1, LogEmpty
    <2>4. GoodOpen(v, l, k)
      BY <1>5, <1>6, <1>7, <2>1, <2>2, <2>3 DEF GoodOpen
    <2>. QED
      BY <1>7, <2>4 DEF Fits
  <1>10. PICK w : /\ Runs(St(v, {}, l), Replace(Intent, k), St(w, {}, l), native)
                  /\ Settled(w, k, native) /\ Safe(w, l, native)
    BY <1>2, <1>8, <1>9, ReplaceRuns
  <1>11. ~lost => Fits(w, l, k)
    BY <1>10 DEF Safe, Settled, Good
  <1>12. PICK z, m : Runs(St(w, {}, l), Publish(k, Retire("landed", x)), St(z, {}, m), native)
    <2>1. k.phase \in {"open", "landed"} /\ k.pub # None
      BY <1>6, <1>7
    <2>2. \E z, m : Runs(St(w, {}, l), Publish(k, Retire("landed", k.image)), St(z, {}, m), native)
      BY <1>7, <1>10, <1>11, <2>1, PublishRuns
    <2>. QED
      BY <1>7, <2>2
  <1>. HIDE DEF l, x
  <1>13. Runs(St(vis, {Git}, l), Recover \o Replace(Intent, k), St(w, {}, l), native)
    BY <1>2, <1>10, RunsConcat
  <1>14. Runs(St(vis, {Git}, l), todo', St(z, {}, m), native)
    BY <1>1, <1>12, <1>13, RunsConcat
  <1>. QED
    BY <1>14, PlannedBy DEF l

\* A retained candidate is published, and what it completes retired.
LEMMA RetainedPlanned ==
    ASSUME Ready, Intent # None, Intent.phase \in {"open", "landed"}, Intent.pub # None
    PROVE  /\ Planned(Recover \o Publish(Intent, <<>>))
           /\ Planned(Recover \o Publish(Intent, Retire("landed", Intent.image)))
  <1>. DEFINE l == Log(head)
  <1>1. PICK v : /\ Runs(St(vis, {Git}, l), Recover, St(v, {}, l), native)
                 /\ Settled(v, Intent, native) /\ (~lost => Fits(v, l, Intent))
    BY RecoverPlan
  <1>2. PICK w, m : Runs(St(v, {}, l), Publish(Intent, <<>>), St(w, {}, m), native)
    BY <1>1, PublishRuns
  <1>3. PICK y, k : Runs(St(v, {}, l), Publish(Intent, Retire("landed", Intent.image)), St(y, {}, k), native)
    BY <1>1, PublishRuns
  <1>4. Runs(St(vis, {Git}, l), Recover \o Publish(Intent, <<>>), St(w, {}, m), native)
    BY <1>1, <1>2, RunsConcat
  <1>5. Runs(St(vis, {Git}, l), Recover \o Publish(Intent, Retire("landed", Intent.image)), St(y, {}, k), native)
    BY <1>1, <1>3, RunsConcat
  <1>. QED
    BY <1>4, <1>5, PlannedBy

\* What is completed is retired.
LEMMA CompletedPlanned ==
    ASSUME Ready, Intent # None, NEW how \in {"landed", "aborted"}, Intent.phase = how
    PROVE  /\ Planned(Recover \o Retire(how, Intent.image))
           /\ Planned(Recover \o <<Expect(<<>>)>> \o Retire(how, Intent.image))
  <1>. DEFINE l == Log(head)
  <1>1. PICK v : /\ Runs(St(vis, {Git}, l), Recover, St(v, {}, l), native)
                 /\ Settled(v, Intent, native) /\ (~lost => Fits(v, l, Intent))
                 /\ Intent \in Journals
    BY RecoverPlan
  <1>2. PICK w : Runs(St(v, {}, l), Retire(how, Intent.image), St(w, {}, l), native)
    BY <1>1, RetireRuns
  <1>3. Runs(St(v, {}, l), <<Expect(<<>>)>>, St(v, {}, l), native)
    BY ExpectRuns, EmptySeq
  <1>4. Runs(St(vis, {Git}, l), Recover \o Retire(how, Intent.image), St(w, {}, l), native)
    BY <1>1, <1>2, RunsConcat
  <1>5. Runs(St(vis, {Git}, l), Recover \o <<Expect(<<>>)>>, St(v, {}, l), native)
    BY <1>1, <1>3, RunsConcat
  <1>6. Runs(St(vis, {Git}, l), Recover \o <<Expect(<<>>)>> \o Retire(how, Intent.image), St(w, {}, l), native)
    BY <1>2, <1>5, RunsConcat
  <1>. QED
    BY <1>4, <1>6, PlannedBy

\* `--continue` after a crash is safe at each of its effects.
LEMMA ReplayPlanned ==
    ASSUME Ready, Replay
    PROVE  Planned(todo')
  <1>1. Intent # None
    BY DEF Replay
  <1>2. CASE /\ Intent.phase = "open" /\ Intent.pub # None
             /\ todo' = Recover \o Publish(Intent, Retire("landed", Intent.image))
    BY <1>1, <1>2, RetainedPlanned
  <1>3. CASE Intent.phase = "landed" /\ todo' = Recover \o Retire("landed", Intent.image)
    BY <1>1, <1>3, CompletedPlanned
  <1>. QED
    BY <1>2, <1>3 DEF Replay, Begin

\* settle_tail is safe at each of its effects.
LEMMA SettleTailPlanned ==
    ASSUME Ready, SettleTail
    PROVE  Planned(todo')
  <1>. DEFINE l == Log(head)
              c == Commit("tail", Intent.consumed, native, 0)
              pub == Publication(head, c)
              k == [Intent EXCEPT !.pub = pub]
  <1>1. Intent # None /\ Intent.phase = "landed"
    BY DEF SettleTail
  <1>2. CASE Intent.pub # None /\ todo' = Recover \o Publish(Intent, <<>>)
    BY <1>1, <1>2, RetainedPlanned
  <1>3. CASE /\ Intent.pub = None
             /\ todo' = Recover \o Replace(Intent, k) \o Publish(k, <<>>)
    <2>1. PICK v : /\ Runs(St(vis, {Git}, l), Recover, St(v, {}, l), native)
                   /\ Settled(v, Intent, native)
                   /\ (~lost => Fits(v, l, Intent))
                   /\ Sound(Intent, native) /\ Intent \in Journals
      BY <1>1, RecoverPlan
    <2>2. native \in Nat /\ head \in Seq(Commits) /\ Intent.consumed \in Nat
      BY <2>1 DEF Ready, Journals
    <2>3. /\ c \in Commits /\ c.kind = "tail" /\ c.from = Intent.consumed /\ c.upto = native
      BY <2>2 DEF Commit, Commits
    <2>4. pub \in Publications /\ pub.old = head /\ pub.commit = c /\ pub # None
      <3>. HIDE DEF c
      <3>1. pub \in Publications /\ pub.old = head /\ pub.commit = c
        BY <2>2, <2>3 DEF Publication, Publications
      <3>. QED
        BY <3>1, NoneIsNoRecord
    <2>5. /\ k \in Journals /\ k.phase = "landed" /\ k.pub = pub /\ k.image = Intent.image
          /\ k.consumed = Intent.consumed /\ k # None
      <3>. HIDE DEF pub
      <3>1. /\ k \in Journals /\ k.phase = "landed" /\ k.pub = pub /\ k.image = Intent.image
            /\ k.consumed = Intent.consumed
        BY <1>1, <2>1, <2>4 DEF Journals
      <3>. QED
        BY <3>1, NoneIsNoRecord
    <2>. HIDE DEF k, pub, c
    <2>6. Sound(k, native)
      BY <2>1, <2>2, <2>3, <2>4, <2>5 DEF Sound
    <2>7. ASSUME ~lost PROVE Fits(v, l, k)
      <3>1. GoodLanded(v, l, Intent)
        BY <1>1, <2>1, <2>7 DEF Fits
      <3>2. EndsAt(l, Intent.consumed) /\ Chained(l) /\ Merged(l, Intent.image)
        BY <1>3, <3>1 DEF GoodLanded
      <3>3. Candidate(pub) = Append(head, c)
        BY <2>4 DEF Candidate
      <3>4. Chained(Log(Append(head, c)))
        BY <2>2, <2>3, <3>2, LogChained
      <3>5. Merged(Log(Append(head, c)), Intent.image)
        BY <2>2, <2>3, <3>2, LogMerged
      <3>6. Intent.consumed <= native
        BY <2>1 DEF Sound
      <3>7. GoodLanded(v, l, k)
        BY <2>3, <2>4, <2>5, <3>1, <3>2, <3>3, <3>4, <3>5, <3>6 DEF GoodLanded
      <3>. QED
        BY <2>5, <3>7 DEF Fits
    <2>8. PICK w : /\ Runs(St(v, {}, l), Replace(Intent, k), St(w, {}, l), native)
                   /\ Settled(w, k, native) /\ Safe(w, l, native)
      BY <2>1, <2>6, <2>7, ReplaceRuns
    <2>9. ~lost => Fits(w, l, k)
      BY <2>8 DEF Safe, Settled, Good
    <2>10. PICK z, m : Runs(St(w, {}, l), Publish(k, <<>>), St(z, {}, m), native)
      <3>1. k.phase \in {"open", "landed"} /\ k.pub # None
        BY <2>4, <2>5
      <3>. QED
        BY <2>5, <2>8, <2>9, <3>1, PublishRuns
    <2>. HIDE DEF l
    <2>11. Runs(St(vis, {Git}, l), Recover \o Replace(Intent, k), St(w, {}, l), native)
      BY <2>1, <2>8, RunsConcat
    <2>12. Runs(St(vis, {Git}, l), todo', St(z, {}, m), native)
      BY <1>3, <2>10, <2>11, RunsConcat
    <2>. QED
      BY <2>12, PlannedBy DEF l
  <1>. QED
    BY <1>2, <1>3 DEF SettleTail, Begin

------------------------------------------------------------------------------
(* Cancellation                                                              *)

\* The restoration of a cancellation, from its journalled intent to its carrier.
LEMMA RestoreRuns ==
    ASSUME NEW v, NEW n, NEW l, NEW j \in Journals, j.phase = "aborting",
           Settled(v, j, n), ~lost => Fits(v, l, j)
    PROVE  \E w : Runs(St(v, {}, l), Restore(j), St(w, {}, l), n)
  <1>. DEFINE k == [j EXCEPT !.phase = "aborted"]
  <1>1. j # None /\ Sound(j, n)
    BY NoneIsNoRecord, JournalFacts DEF Settled
  <1>2. /\ k \in Journals /\ k.phase = "aborted" /\ k.image = j.image /\ k.pub = j.pub
        /\ k.consumed = j.consumed
    BY DEF Journals
  <1>l. k.linked = j.linked
    <2>1. "phase" # "linked" /\ "linked" \in DOMAIN j
      BY DEF Journals
    <2>. QED
      BY <2>1, Zenon
  <1>. HIDE DEF k
  <1>3. k # None /\ Sound(k, n)
    BY <1>1, <1>2, NoneIsNoRecord DEF Sound
  <1>4. PICK u : /\ Runs(St(v, {}, l), SetClaims("active"), St(u, {}, l), n)
                 /\ Settled(u, j, n) /\ (~lost => Fits(u, l, j)) /\ ClaimsAre(u, "active")
    <2>1. "active" \in {"active", "retired"} /\ j.phase \in {"preparing", "aborting"}
      OBVIOUS
    <2>. QED
      BY <2>1, ClaimsRuns
  <1>5. Runs(St(u, {}, l), <<Expect(<<>>)>>, St(u, {}, l), n)
    BY ExpectRuns, EmptySeq
  <1>6. ASSUME ~lost PROVE Fits(u, l, k)
    <2>1. GoodAborting(u, l, j)
      BY <1>1, <1>4, <1>6 DEF Fits
    <2>2. GoodAborted(u, l, k)
      <3>1. k.linked = (u["link"] # None)
        BY <1>l, <2>1, Zenon DEF GoodAborting
      <3>2. /\ DOMAIN l = {} /\ u["landed"] = None /\ ClaimsAre(u, "active") /\ Ours(k.image)
            /\ u["tx"] = k.image /\ u["aborted"] \in {None, k.image}
        BY <1>2, <1>4, <2>1 DEF GoodAborting, NoCarrier
      <3>. QED
        BY <3>1, <3>2, Zenon DEF GoodAborted
    <2>. QED
      BY <1>2, <1>3, <2>2 DEF Fits
  <1>7. PICK w : /\ Runs(St(u, {}, l), Replace(j, k), St(w, {}, l), n)
                 /\ Settled(w, k, n) /\ Safe(w, l, n)
    BY <1>3, <1>4, <1>6, ReplaceRuns
  <1>8. ~lost => Fits(w, l, k)
    BY <1>7 DEF Safe, Settled, Good
  <1>9. Runs(St(w, {}, l), <<Expect(<<>>)>>, St(w, {}, l), n)
    BY ExpectRuns, EmptySeq
  <1>10. PICK z : Runs(St(w, {}, l), Retire("aborted", j.image), St(z, {}, l), n)
    <2>1. "aborted" \in {"landed", "aborted"}
      OBVIOUS
    <2>2. \E z : Runs(St(w, {}, l), Retire("aborted", k.image), St(z, {}, l), n)
      BY <1>2, <1>7, <1>8, <2>1, RetireRuns
    <2>. QED
      BY <1>2, <2>2
  <1>. DEFINE p1 == SetClaims("active") \o <<Expect(<<>>)>>
              p2 == p1 \o Replace(j, k)
              p3 == p2 \o <<Expect(<<>>)>>
              p4 == p3 \o Retire("aborted", j.image)
  <1>11. Runs(St(v, {}, l), p1, St(u, {}, l), n)
    BY <1>4, <1>5, RunsConcat
  <1>. HIDE DEF p1
  <1>12. Runs(St(v, {}, l), p2, St(w, {}, l), n)
    BY <1>7, <1>11, RunsConcat
  <1>. HIDE DEF p2
  <1>13. Runs(St(v, {}, l), p3, St(w, {}, l), n)
    BY <1>9, <1>12, RunsConcat
  <1>. HIDE DEF p3
  <1>14. Runs(St(v, {}, l), p4, St(z, {}, l), n)
    BY <1>10, <1>13, RunsConcat
  <1>. QED
    BY <1>14 DEF p1, p2, p3, p4, k, Restore

\* A cancellation from its beginning.
LEMMA UnlandedPlanned ==
    ASSUME Ready, Intent # None, IsUnlanded(Intent)
    PROVE  Planned(Recover \o Replace(Intent, Aborting(Intent)) \o Restore(Aborting(Intent)))
  <1>. DEFINE l == Log(head)
              k == Aborting(Intent)
  <1>1. /\ Intent.phase \in {"preparing", "open"} /\ head = <<>>
        /\ vis["tx"] \notin {None, Other}
    BY DEF IsUnlanded, Cancellable
  <1>2. PICK v : /\ Runs(St(vis, {Git}, l), Recover, St(v, {}, l), native)
                 /\ Settled(v, Intent, native) /\ Same(vis, v, Aside)
                 /\ (~lost => Fits(v, l, Intent))
                 /\ Sound(Intent, native) /\ Intent \in Journals
    BY RecoverPlan
  <1>3. Ours(vis["tx"]) /\ vis["tx"] \in Images
    BY <1>1, TxIsOurs
  <1>4. /\ k \in Journals /\ k.phase = "aborting" /\ k.pub = None /\ k.image = vis["tx"]
        /\ k.consumed = Intent.consumed
    BY <1>2, <1>3 DEF Aborting, Journals
  <1>5. k.linked = (vis["link"] # None)
    <2>1. \A r \in Journals : \A a, b, c, d :
             [r EXCEPT !.phase = a, !.pub = b, !.image = c, !.linked = d].linked = d
      BY DEF Journals
    <2>2. k = [Intent EXCEPT !.phase = "aborting", !.pub = None, !.image = vis["tx"],
                             !.linked = vis["link"] # None]
      BY Zenon DEF Aborting
    <2>. DEFINE b == vis["link"] # None
    <2>3. k = [Intent EXCEPT !.phase = "aborting", !.pub = None, !.image = vis["tx"], !.linked = b]
      BY <2>2
    <2>. HIDE DEF b, k
    <2>4. k.linked = b
      BY <1>2, <2>1, <2>3
    <2>. QED
      BY <2>4 DEF b
  <1>. HIDE DEF k
  <1>6. k # None /\ Sound(k, native)
    BY <1>2, <1>4, NoneIsNoRecord DEF Sound
  <1>7. ASSUME ~lost PROVE Fits(v, l, k)
    <2>1. v["tx"] = vis["tx"] /\ v["link"] = vis["link"]
      BY <1>2, SameAside
    <2>2. NoCarrier(v)
      BY <1>1, <1>2, <1>7 DEF Fits, GoodPreparing, GoodOpen
    <2>3. DOMAIN l = {}
      BY <1>1, LogEmpty
    <2>4. GoodAborting(v, l, k)
      BY <1>3, <1>4, <1>5, <2>1, <2>2, <2>3 DEF GoodAborting
    <2>. QED
      BY <1>4, <1>6, <2>4 DEF Fits
  <1>8. PICK w : /\ Runs(St(v, {}, l), Replace(Intent, k), St(w, {}, l), native)
                 /\ Settled(w, k, native) /\ Safe(w, l, native)
    BY <1>2, <1>6, <1>7, ReplaceRuns
  <1>9. ~lost => Fits(w, l, k)
    BY <1>8 DEF Safe, Settled, Good
  <1>10. PICK z : Runs(St(w, {}, l), Restore(k), St(z, {}, l), native)
    BY <1>4, <1>8, <1>9, RestoreRuns
  <1>. HIDE DEF l
  <1>11. Runs(St(vis, {Git}, l), Recover \o Replace(Intent, k), St(w, {}, l), native)
    BY <1>2, <1>8, RunsConcat
  <1>12. Runs(St(vis, {Git}, l), Recover \o Replace(Intent, k) \o Restore(k), St(z, {}, l), native)
    BY <1>10, <1>11, RunsConcat
  <1>. QED
    BY <1>12, PlannedBy DEF l, k

\* `--abort` is safe at each of its effects, from every endpoint that it accepts.
LEMMA AbortPlanned ==
    ASSUME Ready, Abort
    PROVE  Planned(todo')
  <1>1. Intent # None
    BY DEF Abort
  <1>2. CASE HasLanded(Intent) /\ todo' = Recover \o Retire("landed", Intent.image)
    BY <1>1, <1>2, CompletedPlanned DEF HasLanded
  <1>3. CASE IsLanding(Intent) /\ todo' = Recover \o Publish(Intent, Retire("landed", Intent.image))
    BY <1>1, <1>3, RetainedPlanned DEF IsLanding, Visible
  <1>4. CASE /\ IsUnlanded(Intent)
             /\ todo' = Recover \o Replace(Intent, Aborting(Intent)) \o Restore(Aborting(Intent))
    BY <1>1, <1>4, UnlandedPlanned
  <1>5. CASE IsAborting(Intent) /\ todo' = Recover \o Restore(Intent)
    <2>. DEFINE l == Log(head)
    <2>1. PICK v : /\ Runs(St(vis, {Git}, l), Recover, St(v, {}, l), native)
                   /\ Settled(v, Intent, native) /\ (~lost => Fits(v, l, Intent))
                   /\ Intent \in Journals
      BY <1>1, RecoverPlan
    <2>2. PICK z : Runs(St(v, {}, l), Restore(Intent), St(z, {}, l), native)
      BY <1>5, <2>1, RestoreRuns DEF IsAborting
    <2>3. Runs(St(vis, {Git}, l), todo', St(z, {}, l), native)
      BY <1>5, <2>1, <2>2, RunsConcat
    <2>. QED
      BY <2>3, PlannedBy
  <1>6. CASE /\ HasAborted(Intent)
             /\ todo' = Recover \o <<Expect(<<>>)>> \o Retire("aborted", Intent.image)
    BY <1>1, <1>6, CompletedPlanned DEF HasAborted
  <1>. QED
    BY <1>2, <1>3, <1>4, <1>5, <1>6 DEF Abort, Begin

------------------------------------------------------------------------------
(* What a power loss may leave                                               *)

\* The renames and the disk belong to the files that readers see.
Shaped(v, L, b) ==
    /\ Whole(v) /\ DOMAIN b = Files /\ DOMAIN L = Dirs
    /\ \A d \in Dirs : /\ L[d] \in Seq(Effects) /\ Kept(v, d, L[d], b, Len(L[d]))
                       /\ \A i \in 1..Len(L[d]) : L[d][i].file \in d

\* Renames M on disk c, the first y kept, leave each directory as renames L on disk b
\* could, the first m kept.
Within(M, c, y, L, b, m) ==
    \A d \in Dirs : \A k \in y[d]..Len(M[d]) : \E i \in m[d]..Len(L[d]) :
        \A f \in d : Last(M[d], k, f, c[f]) = Last(L[d], i, f, b[f])

\* Then nothing is left that could not have been left before.
LEMMA Shift ==
    ASSUME NEW L, NEW b, NEW m, NEW M, NEW c, NEW y, Within(M, c, y, L, b, m),
           NEW v, Survives(v, M, c, y)
    PROVE  Survives(v, L, b, m)
  <1>1. ASSUME NEW d \in Dirs PROVE \E i \in m[d]..Len(L[d]) : Kept(v, d, L[d], b, i)
    <2>1. PICK k \in y[d]..Len(M[d]) : Kept(v, d, M[d], c, k)
      BY DEF Survives
    <2>2. PICK i \in m[d]..Len(L[d]) :
              \A f \in d : Last(M[d], k, f, c[f]) = Last(L[d], i, f, b[f])
      BY DEF Within
    <2>3. Kept(v, d, L[d], b, i)
      BY <2>1, <2>2 DEF Kept
    <2>. QED
      BY <2>3
  <1>. QED
    BY <1>1 DEF Survives

\* Fewer files are left when more renames are kept.
LEMMA KeepMore ==
    ASSUME NEW L, NEW b, NEW m, NEW y, NEW v, Survives(v, L, b, y),
           \A d \in Dirs : m[d] \in Nat /\ y[d] \in Nat /\ m[d] <= y[d] /\ Len(L[d]) \in Nat
    PROVE  Survives(v, L, b, m)
  <1>1. ASSUME NEW d \in Dirs PROVE \E k \in m[d]..Len(L[d]) : Kept(v, d, L[d], b, k)
    <2>1. PICK k \in y[d]..Len(L[d]) : Kept(v, d, L[d], b, k)
      BY DEF Survives
    <2>2. k \in m[d]..Len(L[d])
      OBVIOUS
    <2>. QED
      BY <2>1, <2>2
  <1>. QED
    BY <1>1 DEF Survives

\* When nothing is on its way the disk is what is left.
LEMMA CleanSurvives ==
    ASSUME NEW L, NEW w, Whole(w), \A d \in Dirs : L[d] = <<>>
    PROVE  /\ Survives(w, L, w, Nothing) /\ \A d \in Dirs : Kept(w, d, L[d], w, Len(L[d]))
           /\ \A v : Survives(v, L, w, Nothing) => v = w
  <1>1. \A d \in Dirs : Len(L[d]) = 0 /\ Nothing[d] = 0 /\ Nothing[d]..Len(L[d]) = {0}
    BY DEF Nothing
  <1>2. \A v : \A d \in Dirs : Kept(v, d, L[d], w, 0) <=> \A f \in d : v[f] = w[f]
    BY LastZero DEF Kept
  <1>3. \A d \in Dirs : Kept(w, d, L[d], w, 0)
    BY <1>2
  <1>4. Survives(w, L, w, Nothing)
    <2>1. ASSUME NEW d \in Dirs PROVE \E k \in Nothing[d]..Len(L[d]) : Kept(w, d, L[d], w, k)
      BY <1>1, <1>3
    <2>. QED
      BY <2>1 DEF Survives
  <1>5. ASSUME NEW v, Survives(v, L, w, Nothing) PROVE v = w
    <2>1. \A d \in Dirs : Kept(v, d, L[d], w, 0)
      BY <1>1, <1>5 DEF Survives
    <2>2. \A d \in Dirs : \A f \in d : v[f] = w[f]
      BY <1>2, <2>1
    <2>3. \A f \in Files : v[f] = w[f]
      BY <2>2, DirFacts
    <2>. QED
      BY <1>5, <2>3 DEF Survives, Whole
  <1>. QED
    BY <1>1, <1>3, <1>4, <1>5

\* How many renames there are and how many of them were found.
LEMMA Lengths ==
    ASSUME ShapeInv
    PROVE  \A d \in Dirs : /\ late[d] \in Seq(Effects) /\ Len(late[d]) \in Nat
                           /\ stale[d] \in Nat /\ stale[d] <= Len(late[d])
                           /\ Nothing[d] = 0
  <1>1. \A d \in Dirs : late[d] \in Seq(Effects) /\ Len(late[d]) \in Nat /\ stale[d] \in 0..Len(late[d])
    BY LenProperties DEF ShapeInv
  <1>. QED
    BY <1>1 DEF Nothing

\* What readers see is left when every rename is.
LEMMA VisSurvives ==
    ASSUME ShapeInv
    PROVE  Survives(vis, late, dur, Nothing) /\ Survives(vis, late, dur, stale)
  <1>1. ASSUME NEW d \in Dirs
        PROVE  /\ \E k \in Nothing[d]..Len(late[d]) : Kept(vis, d, late[d], dur, k)
               /\ \E k \in stale[d]..Len(late[d]) : Kept(vis, d, late[d], dur, k)
    <2>1. Len(late[d]) \in stale[d]..Len(late[d]) /\ Len(late[d]) \in Nothing[d]..Len(late[d])
      BY Lengths
    <2>. QED
      BY <2>1 DEF ShapeInv
  <1>. QED
    BY <1>1 DEF Survives, ShapeInv

\* What is left of every command is safe.
LEMMA LeftSafe ==
    ASSUME ShapeInv, DiskInv, NEW v, Survives(v, late, dur, stale)
    PROVE  Safe(v, Log(head), native)
  <1>1. Survives(v, late, dur, Nothing)
    BY Lengths, KeepMore
  <1>. QED
    BY <1>1 DEF DiskInv, Safe

\* Each directory is as safe as the files it comes from.
LEMMA LocalMix ==
    ASSUME NEW v, NEW u, NEW w, NEW n, Whole(v), Local(u, n), Local(w, n),
           \A d \in Dirs : Same(u, v, d) \/ Same(w, v, d)
    PROVE  Local(v, n)
  <1>1. \A x : Local(x, n) /\ Same(x, v, Journal) => LocalJournal(v, n)
    <2>1. ASSUME NEW x, Local(x, n), Same(x, v, Journal) PROVE LocalJournal(v, n)
      <3>1. v["main"] = x["main"] /\ v["rec"] = x["rec"]
        BY <2>1, FileFacts DEF Same
      <3>. QED
        BY <2>1, <3>1 DEF Local, LocalJournal
    <2>. QED
      BY <2>1
  <1>2. \A x : Local(x, n) /\ Same(x, v, Git) => LocalGit(v)
    BY DEF Local, LocalGit, Same
  <1>3. \A x : Local(x, n) /\ Same(x, v, Store) => LocalStore(v)
    <2>1. ASSUME NEW x, Local(x, n), Same(x, v, Store) PROVE LocalStore(v)
      <3>1. v["link"] = x["link"] /\ \A c \in ClaimSet : v[c] = x[c]
        BY <2>1, FileFacts DEF Same
      <3>. QED
        BY <2>1, <3>1 DEF Local, LocalStore
    <2>. QED
      BY <2>1
  <1>. QED
    BY <1>1, <1>2, <1>3, DirFacts DEF Local

\* A rename in directory d0, the only one that is not clean.
Renamed(e, d0, w, M) ==
    /\ e \in Effects /\ d0 \in Dirs /\ e.file \in d0
    /\ ~lost => Dirty \subseteq {d0}
    /\ w = [vis EXCEPT ![e.file] = e.val]
    /\ M = [d \in Dirs |-> IF e.file \in d THEN Append(late[d], e) ELSE late[d]]

\* A rename adds one survivor per directory that the disk may be at: the new files
\* themselves, or, where other directories are half-way, a mixture that is safe locally.
LEMMA PutSurvives ==
    ASSUME ShapeInv, DiskInv, NEW d0, NEW e, NEW w, NEW M, Renamed(e, d0, w, M),
           Safe(w, Log(head), native)
    PROVE  /\ \A v : Survives(v, M, dur, Nothing) => Local(v, native)
           /\ ~lost => \A v : Survives(v, M, dur, stale) => Good(v, Log(head))
           /\ Shaped(w, M, dur) /\ Len(M[d0]) = Len(late[d0]) + 1 /\ \A d \in Dirs : d # d0 => M[d] = late[d]
  <1>. DEFINE q == late[d0]
              l == Log(head)
  <1>r. /\ e \in Effects /\ d0 \in Dirs /\ e.file \in d0
        /\ ~lost => Dirty \subseteq {d0}
        /\ w = [vis EXCEPT ![e.file] = e.val]
        /\ M = [d \in Dirs |-> IF e.file \in d THEN Append(late[d], e) ELSE late[d]]
    BY DEF Renamed
  <1>1. /\ Whole(vis) /\ \A d \in Dirs : late[d] \in Seq(Effects) /\ Len(late[d]) \in Nat
        /\ \A d \in Dirs : Kept(vis, d, late[d], dur, Len(late[d]))
        /\ \A d \in Dirs : \A i \in 1..Len(late[d]) : late[d][i].file \in d
    BY LenProperties DEF ShapeInv
  <1>11. \A d \in Dirs : stale[d] \in Nat /\ stale[d] <= Len(late[d]) /\ Nothing[d] = 0
    BY Lengths
  <1>2. M[d0] = Append(q, e) /\ \A d \in Dirs : d # d0 => M[d] = late[d]
    BY <1>r, DirFacts
  <1>3. e.file \in Files /\ Whole(w) /\ w[e.file] = e.val /\ \A g \in Files : g # e.file => w[g] = vis[g]
    <2>1. e.file \in Files
      BY <1>r, DirFacts
    <2>2. w = Upd(vis, e.file, e.val)
      BY <1>r DEF Upd
    <2>. DEFINE y == Upd(vis, e.file, e.val)
    <2>3. Whole(y) /\ y[e.file] = e.val /\ \A g \in Files : g # e.file => y[g] = vis[g]
      BY <1>1, <2>1, UpdFacts
    <2>. HIDE DEF y
    <2>4. w = y
      BY <2>2 DEF y
    <2>. QED
      BY <2>1, <2>3, <2>4
  <1>4. /\ q \in Seq(Effects) /\ Len(q) \in Nat /\ M[d0] \in Seq(Effects) /\ Len(M[d0]) = Len(q) + 1
        /\ M[d0][Len(q) + 1] = e /\ \A i \in 1..Len(q) : M[d0][i] = q[i]
    BY <1>1, <1>2, <1>r, AppendProperties
  <1>0. ASSUME NEW f
        PROVE  /\ \A k \in 0..Len(q) : Last(M[d0], k, f, dur[f]) = Last(q, k, f, dur[f])
               /\ Last(M[d0], Len(q) + 1, f, dur[f]) = Over(e, f, Last(q, Len(q), f, dur[f]))
    <2>1. PICK c, r, p : c = dur[f] /\ r = M[d0] /\ p = q
      OBVIOUS
    <2>2. Appended(p, e, r)
      BY <1>2, <1>4, <1>r, <2>1 DEF Appended
    <2>3. \A k \in 0..Len(p) : Last(r, k, f, c) = Last(p, k, f, c)
      <3>1. ASSUME NEW k \in 0..Len(p) PROVE Last(r, k, f, c) = Last(p, k, f, c)
        <4>1. k \in Nat
          BY <1>4, <2>1
        <4>2. Prefixed(p, r, k)
          BY <1>4, <2>1 DEF Prefixed
        <4>. QED
          BY <4>1, <4>2, LastSame
      <3>. QED
        BY <3>1
    <2>4. Last(r, Len(p) + 1, f, c) = Over(e, f, Last(p, Len(p), f, c))
      BY <2>2, LastAppend
    <2>. QED
      BY <2>1, <2>3, <2>4
  <1>5. \A f \in d0 : Last(M[d0], Len(q) + 1, f, dur[f]) = w[f]
    <2>1. ASSUME NEW f \in d0 PROVE Last(M[d0], Len(q) + 1, f, dur[f]) = w[f]
      <3>1. Last(M[d0], Len(q) + 1, f, dur[f]) = Over(e, f, Last(q, Len(q), f, dur[f]))
        BY <1>0
      <3>2. Last(q, Len(q), f, dur[f]) = vis[f]
        BY <1>1, <1>r DEF Kept
      <3>3. f \in Files
        BY <1>r, DirFacts
      <3>. QED
        BY <1>3, <3>1, <3>2, <3>3 DEF Over
    <2>. QED
      BY <2>1
  <1>6. \A k \in 0..Len(q) : \A f \in d0 : Last(M[d0], k, f, dur[f]) = Last(q, k, f, dur[f])
    BY <1>0
  <1>. HIDE DEF q
  <1>7. ASSUME NEW d \in Dirs, d # d0 PROVE \A f \in d : w[f] = vis[f]
    BY <1>3, <1>7, <1>r, DirFacts
  <1>8. ASSUME NEW d \in Dirs
        PROVE  /\ M[d] \in Seq(Effects) /\ Kept(w, d, M[d], dur, Len(M[d]))
               /\ \A i \in 1..Len(M[d]) : M[d][i].file \in d
    <2>1. CASE d = d0
      <3>1. Kept(w, d0, M[d0], dur, Len(M[d0]))
        BY <1>4, <1>5 DEF Kept
      <3>2. ASSUME NEW i \in 1..Len(M[d0]) PROVE M[d0][i].file \in d0
        <4>1. i \in 1..Len(q) \/ i = Len(q) + 1
          BY <1>4
        <4>2. i \in 1..Len(q) => q[i].file \in d0
          BY <1>1, <1>r DEF q
        <4>. QED
          BY <1>4, <1>r, <4>1, <4>2
      <3>. QED
        BY <1>4, <2>1, <3>1, <3>2
    <2>2. CASE d # d0
      <3>1. Kept(w, d, late[d], dur, Len(late[d]))
        BY <1>1, <1>7, <2>2 DEF Kept
      <3>. QED
        BY <1>1, <1>2, <2>2, <3>1
    <2>. QED
      BY <2>1, <2>2
  <1>9. ASSUME NEW m \in {Nothing, stale}, NEW v, Survives(v, M, dur, m)
        PROVE  \/ Survives(v, late, dur, m)
               \/ /\ Whole(v) /\ Same(w, v, d0)
                  /\ \A d \in Dirs : d # d0 =>
                        \E i \in m[d]..Len(late[d]) : Kept(v, d, late[d], dur, i)
    <2>0. \A d \in Dirs : m[d] \in Nat
      BY <1>11
    <2>1. Whole(v) /\ \A d \in Dirs : \E k \in m[d]..Len(M[d]) : Kept(v, d, M[d], dur, k)
      BY <1>9 DEF Survives
    <2>2. PICK k \in m[d0]..Len(M[d0]) : Kept(v, d0, M[d0], dur, k)
      BY <1>r, <2>1
    <2>3. \A d \in Dirs : d # d0 => \E i \in m[d]..Len(late[d]) : Kept(v, d, late[d], dur, i)
      BY <1>2, <2>1
    <2>6. k \in m[d0]..Len(q) \/ k = Len(q) + 1
      BY <1>4, <1>r, <2>0
    <2>4. CASE k \in m[d0]..Len(q)
      <3>0. k \in 0..Len(q)
        BY <1>r, <2>0, <2>4
      <3>1. Kept(v, d0, q, dur, k)
        BY <1>6, <2>2, <3>0 DEF Kept
      <3>2. \A d \in Dirs : \E i \in m[d]..Len(late[d]) : Kept(v, d, late[d], dur, i)
        BY <2>3, <2>4, <3>1 DEF q
      <3>. QED
        BY <2>1, <3>2 DEF Survives
    <2>5. CASE k = Len(q) + 1
      <3>1. Same(w, v, d0)
        BY <1>5, <2>2, <2>5 DEF Same, Kept
      <3>. QED
        BY <2>1, <2>3, <3>1
    <2>. QED
      BY <2>4, <2>5, <2>6
  <1>12. ASSUME NEW v, Survives(v, M, dur, Nothing) PROVE Local(v, native)
    <2>1. CASE Survives(v, late, dur, Nothing)
      BY <2>1 DEF DiskInv
    <2>2. CASE /\ Whole(v) /\ Same(w, v, d0)
               /\ \A d \in Dirs : d # d0 =>
                     \E i \in Nothing[d]..Len(late[d]) : Kept(v, d, late[d], dur, i)
      <3>. DEFINE u == [f \in Files |-> IF f \in d0 THEN vis[f] ELSE v[f]]
      <3>2. Whole(u)
        BY DEF Whole
      <3>3. \A d \in Dirs : d # d0 => \A f \in d : u[f] = v[f]
        BY <1>r, DirFacts
      <3>4. \A f \in d0 : u[f] = vis[f]
        BY <1>r, DirFacts
      <3>. HIDE DEF u
      <3>5. ASSUME NEW d \in Dirs PROVE \E i \in Nothing[d]..Len(late[d]) : Kept(u, d, late[d], dur, i)
        <4>1. CASE d = d0
          <5>1. Kept(u, d0, late[d0], dur, Len(late[d0]))
            BY <1>1, <1>r, <3>4 DEF Kept
          <5>2. Len(late[d0]) \in Nothing[d0]..Len(late[d0])
            BY <1>1, <1>11, <1>r
          <5>. QED
            BY <4>1, <5>1, <5>2
        <4>2. CASE d # d0
          BY <2>2, <3>3, <4>2 DEF Kept
        <4>. QED
          BY <4>1, <4>2
      <3>6. Survives(u, late, dur, Nothing)
        BY <3>2, <3>5 DEF Survives
      <3>7. Local(u, native) /\ Local(w, native)
        BY <3>6 DEF DiskInv, Safe
      <3>8. \A d \in Dirs : Same(u, v, d) \/ Same(w, v, d)
        BY <2>2, <3>3 DEF Same
      <3>. QED
        BY <2>2, <3>7, <3>8, LocalMix
    <2>. QED
      BY <1>9, <1>12, <2>1, <2>2
  <1>13. ASSUME ~lost, NEW v, Survives(v, M, dur, stale) PROVE Good(v, l)
    <2>1. CASE Survives(v, late, dur, stale)
      BY <1>13, <2>1 DEF DiskInv
    <2>2. CASE /\ Whole(v) /\ Same(w, v, d0)
               /\ \A d \in Dirs : d # d0 =>
                     \E i \in stale[d]..Len(late[d]) : Kept(v, d, late[d], dur, i)
      <3>1. \A d \in Dirs : d # d0 => Len(late[d]) = stale[d]
        BY <1>r, <1>13 DEF Dirty
      <3>2. ASSUME NEW d \in Dirs, d # d0 PROVE \A f \in d : v[f] = w[f]
        <4>1. stale[d]..Len(late[d]) = {Len(late[d])}
          BY <1>1, <1>11, <3>1, <3>2
        <4>2. Kept(v, d, late[d], dur, Len(late[d])) /\ Kept(vis, d, late[d], dur, Len(late[d]))
          BY <1>1, <2>2, <3>2, <4>1
        <4>3. \A f \in d : v[f] = vis[f]
          BY <4>2 DEF Kept
        <4>. QED
          BY <1>7, <3>2, <4>3
      <3>3. \A d \in Dirs : \A f \in d : v[f] = w[f]
        BY <2>2, <3>2 DEF Same
      <3>4. \A f \in Files : v[f] = w[f]
        BY <3>3, DirFacts
      <3>5. v = w
        BY <1>3, <2>2, <3>4 DEF Whole
      <3>. QED
        BY <1>13, <3>5 DEF Safe
    <2>. QED
      BY <1>9, <1>13, <2>1, <2>2
  <1>10. DOMAIN M = Dirs /\ DOMAIN dur = Files
    BY <1>r DEF ShapeInv
  <1>. QED
    BY <1>2, <1>3, <1>4, <1>8, <1>10, <1>12, <1>13 DEF Shaped, q

\* A directory is synced.
Synced(d0, u, L, b, M, c) ==
    /\ d0 \in Dirs /\ M = [L EXCEPT ![d0] = <<>>]
    /\ c = [f \in Files |-> IF f \in d0 THEN u[f] ELSE b[f]]

\* A number of renames of each directory that are kept.
Bounds(m, L) == \A d \in Dirs : m[d] \in Nat /\ m[d] <= Len(L[d])

\* A sync leaves fewer survivors.
LEMMA SyncSurvives ==
    ASSUME NEW u, NEW L, NEW b, Shaped(u, L, b), NEW d0, NEW M, NEW c, Synced(d0, u, L, b, M, c),
           NEW m, Bounds(m, L), NEW y, \A d \in Dirs : y[d] = IF d = d0 THEN 0 ELSE m[d]
    PROVE  Within(M, c, y, L, b, m) /\ Shaped(u, M, c)
  <1>1. /\ Whole(u) /\ DOMAIN L = Dirs
        /\ \A d \in Dirs : L[d] \in Seq(Effects) /\ Len(L[d]) \in Nat
        /\ \A d \in Dirs : Kept(u, d, L[d], b, Len(L[d]))
        /\ \A d \in Dirs : \A i \in 1..Len(L[d]) : L[d][i].file \in d
    BY LenProperties DEF Shaped
  <1>2. /\ DOMAIN M = Dirs /\ M[d0] = <<>> /\ Len(M[d0]) = 0 /\ M[d0] \in Seq(Effects)
        /\ \A d \in Dirs : d # d0 => M[d] = L[d]
    BY <1>1 DEF Synced
  <1>3. d0 \in Dirs /\ DOMAIN c = Files /\ \A f \in d0 : c[f] = u[f]
    BY DirFacts DEF Synced
  <1>4. ASSUME NEW d \in Dirs, d # d0 PROVE \A f \in d : c[f] = b[f]
    BY <1>4, DirFacts DEF Synced
  <1>5. ASSUME NEW f \in d0 PROVE Last(M[d0], 0, f, c[f]) = Last(L[d0], Len(L[d0]), f, b[f])
    <2>1. Last(M[d0], 0, f, c[f]) = c[f]
      BY LastZero
    <2>2. Last(L[d0], Len(L[d0]), f, b[f]) = u[f]
      BY <1>1, <1>3 DEF Kept
    <2>. QED
      BY <1>3, <2>1, <2>2
  <1>6. ASSUME NEW d \in Dirs, NEW k \in y[d]..Len(M[d])
        PROVE  \E i \in m[d]..Len(L[d]) : \A f \in d : Last(M[d], k, f, c[f]) = Last(L[d], i, f, b[f])
    <2>1. CASE d = d0
      <3>1. k = 0 /\ Len(L[d0]) \in m[d0]..Len(L[d0])
        BY <1>1, <1>2, <1>3, <2>1 DEF Bounds
      <3>. QED
        BY <1>5, <2>1, <3>1
    <2>2. CASE d # d0
      <3>1. k \in m[d]..Len(L[d]) /\ M[d] = L[d]
        BY <1>2, <2>2
      <3>2. \A f \in d : Last(M[d], k, f, c[f]) = Last(L[d], k, f, b[f])
        BY <1>4, <2>2, <3>1
      <3>. QED
        BY <3>1, <3>2
    <2>. QED
      BY <2>1, <2>2
  <1>7. ASSUME NEW d \in Dirs
        PROVE  /\ M[d] \in Seq(Effects) /\ Kept(u, d, M[d], c, Len(M[d]))
               /\ \A i \in 1..Len(M[d]) : M[d][i].file \in d
    <2>1. CASE d = d0
      <3>1. Kept(u, d0, M[d0], c, 0)
        BY <1>3, LastZero DEF Kept
      <3>2. \A i \in 1..Len(M[d0]) : M[d0][i].file \in d0
        BY <1>2
      <3>3. M[d0] \in Seq(Effects) /\ Kept(u, d0, M[d0], c, Len(M[d0]))
        BY <1>2, <3>1
      <3>. QED
        BY <2>1, <3>2, <3>3
    <2>2. CASE d # d0
      <3>1. Kept(u, d, L[d], c, Len(L[d]))
        <4>1. Kept(u, d, L[d], b, Len(L[d])) /\ \A f \in d : c[f] = b[f]
          BY <1>1, <1>4, <2>2
        <4>. QED
          BY <4>1 DEF Kept
      <3>. QED
        BY <1>1, <1>2, <2>2, <3>1
    <2>. QED
      BY <2>1, <2>2
  <1>8. Within(M, c, y, L, b, m)
    BY <1>6 DEF Within
  <1>. QED
    BY <1>1, <1>2, <1>3, <1>7, <1>8 DEF Shaped

\* The first rename of a directory reaches the disk, and need not be kept any more.
WrittenBack(d0, L, b, M, c) ==
    /\ d0 \in Dirs /\ L[d0] # <<>> /\ M = [L EXCEPT ![d0] = Tail(@)]
    /\ c = [b EXCEPT ![Head(L[d0]).file] = Head(L[d0]).val]
OneLess(d0, m, y) == \A d \in Dirs : y[d] = IF d = d0 /\ m[d] > 0 THEN m[d] - 1 ELSE m[d]

LEMMA WriteBackSurvives ==
    ASSUME NEW u, NEW L, NEW b, Shaped(u, L, b), NEW d0, NEW M, NEW c, WrittenBack(d0, L, b, M, c),
           NEW m, Bounds(m, L), NEW y, OneLess(d0, m, y)
    PROVE  Within(M, c, y, L, b, m) /\ Shaped(u, M, c)
  <1>1. /\ Whole(u) /\ DOMAIN b = Files /\ DOMAIN L = Dirs
        /\ \A d \in Dirs : L[d] \in Seq(Effects) /\ Len(L[d]) \in Nat
        /\ \A d \in Dirs : Kept(u, d, L[d], b, Len(L[d]))
        /\ \A d \in Dirs : \A i \in 1..Len(L[d]) : L[d][i].file \in d
    BY LenProperties DEF Shaped
  <1>0. /\ d0 \in Dirs /\ L[d0] # <<>> /\ M = [L EXCEPT ![d0] = Tail(@)]
        /\ c = [b EXCEPT ![Head(L[d0]).file] = Head(L[d0]).val]
    BY DEF WrittenBack
  <1>2. PICK q, e, r : q = L[d0] /\ e = q[1] /\ r = M[d0]
    OBVIOUS
  <1>3. /\ DOMAIN M = Dirs /\ r = Tail(q)
        /\ \A d \in Dirs : d # d0 => M[d] = L[d]
    BY <1>0, <1>1, <1>2
  <1>4. /\ q \in Seq(Effects) /\ q # <<>> /\ Head(q) = e /\ r \in Seq(Effects)
        /\ Len(q) \in Nat /\ Len(r) \in Nat /\ Len(q) = Len(r) + 1
        /\ \A i \in 1..Len(r) : r[i] = q[i + 1]
    BY <1>0, <1>1, <1>2, <1>3, HeadTailProperties, LenProperties
  <1>5. e.file \in d0 /\ \A i \in 1..Len(q) : q[i].file \in d0
    BY <1>0, <1>1, <1>2, <1>4
  <1>6. c = [b EXCEPT ![e.file] = e.val]
    BY <1>0, <1>2, <1>4
  <1>7. DOMAIN c = Files /\ \A f \in Files : c[f] = Over(e, f, b[f])
    BY <1>1, <1>6 DEF Over
  <1>8. ASSUME NEW d \in Dirs, d # d0 PROVE \A f \in d : c[f] = b[f]
    BY <1>0, <1>5, <1>7, <1>8, DirFacts DEF Over
  <1>9. ASSUME NEW f \in d0, NEW k \in 0..Len(r) PROVE Last(r, k, f, c[f]) = Last(q, k + 1, f, b[f])
    <2>1. PICK x, z, h : x = c[f] /\ z = b[f] /\ h = k + 1
      OBVIOUS
    <2>2. k \in Nat /\ Shifted(q, r, k)
      BY <1>4 DEF Shifted
    <2>3. x = Over(q[1], f, z)
      BY <1>0, <1>2, <1>7, <2>1, DirFacts
    <2>4. Last(r, k, f, x) = Last(q, h, f, z)
      BY <2>1, <2>2, <2>3, LastRest
    <2>. QED
      BY <2>1, <2>4
  <1>10. ASSUME NEW d \in Dirs, NEW k \in y[d]..Len(M[d])
         PROVE  \E i \in m[d]..Len(L[d]) : \A f \in d : Last(M[d], k, f, c[f]) = Last(L[d], i, f, b[f])
    <2>1. CASE d = d0
      <3>0. m[d0] \in Nat /\ y[d0] = IF m[d0] > 0 THEN m[d0] - 1 ELSE m[d0]
        BY <1>0 DEF Bounds, OneLess
      <3>1. k \in 0..Len(r) /\ k + 1 \in m[d0]..Len(q)
        BY <1>2, <1>4, <2>1, <3>0
      <3>. QED
        BY <1>2, <1>9, <2>1, <3>1
    <2>2. CASE d # d0
      <3>1. k \in m[d]..Len(L[d]) /\ M[d] = L[d]
        BY <1>3, <2>2 DEF OneLess
      <3>2. \A f \in d : Last(M[d], k, f, c[f]) = Last(L[d], k, f, b[f])
        BY <1>8, <2>2, <3>1
      <3>. QED
        BY <3>1, <3>2
    <2>. QED
      BY <2>1, <2>2
  <1>11. ASSUME NEW d \in Dirs
         PROVE  /\ M[d] \in Seq(Effects) /\ Kept(u, d, M[d], c, Len(M[d]))
                /\ \A i \in 1..Len(M[d]) : M[d][i].file \in d
    <2>1. CASE d = d0
      <3>1. Len(r) \in 0..Len(r)
        BY <1>4
      <3>2. \A f \in d0 : u[f] = Last(q, Len(q), f, b[f])
        BY <1>0, <1>1, <1>2 DEF Kept
      <3>3. Kept(u, d0, r, c, Len(r))
        BY <1>4, <1>9, <3>1, <3>2 DEF Kept
      <3>4. ASSUME NEW i \in 1..Len(r) PROVE r[i].file \in d0
        <4>1. i + 1 \in 1..Len(q)
          BY <1>4
        <4>. QED
          BY <1>4, <1>5, <4>1
      <3>. QED
        BY <1>2, <1>4, <2>1, <3>3, <3>4
    <2>2. CASE d # d0
      <3>1. Kept(u, d, L[d], c, Len(L[d]))
        BY <1>1, <1>8, <2>2 DEF Kept
      <3>. QED
        BY <1>1, <1>3, <2>2, <3>1
    <2>. QED
      BY <2>1, <2>2
  <1>12. Within(M, c, y, L, b, m)
    BY <1>10 DEF Within
  <1>. QED
    BY <1>1, <1>3, <1>7, <1>11, <1>12 DEF Shaped

------------------------------------------------------------------------------
(* The invariant is inductive                                                *)

\* The parts of a place in a plan.
LEMMA StFacts ==
    \A v, D, l : St(v, D, l).vis = v /\ St(v, D, l).dirty = D /\ St(v, D, l).log = l
  BY DEF St

\* The shape of the state, by its parts.
LEMMA ShapeIs ==
    ShapeInv <=> /\ Shaped(vis, late, dur)
                 /\ DOMAIN stale = Dirs /\ (\A d \in Dirs : stale[d] \in 0..Len(late[d]))
                 /\ head \in Seq(Commits)
                 /\ native \in 0..MaxRecords /\ kills \in 0..MaxKills /\ losses \in 0..MaxLosses
  BY DEF ShapeInv, Shaped

\* A step that loses nothing changes neither what is safe nor what is a plan.
LEMMA SameLost ==
    ASSUME lost' = lost
    PROVE  /\ \A v, l, n : Safe(v, l, n)' <=> Safe(v, l, n)
           /\ \A s, q, t, n : Runs(s, q, t, n)' <=> Runs(s, q, t, n)
  <1>1. \A v, l, n : Safe(v, l, n)' <=> Safe(v, l, n)
    BY DEF Safe
  <1>2. \A s, e, t, n : Step(s, e, t, n)' <=> Step(s, e, t, n)
    <2>. SUFFICES ASSUME NEW s, NEW e, NEW t, NEW n PROVE Step(s, e, t, n)' <=> Step(s, e, t, n)
      OBVIOUS
    <2>1. PICK v, l : v = t.vis /\ l = s.log
      OBVIOUS
    <2>2. Safe(v, l, n)' <=> Safe(v, l, n)
      BY <1>1
    <2>3. Safe(t.vis, s.log, n)' <=> Safe(t.vis, s.log, n)
      BY <2>1, <2>2
    <2>. QED
      BY <2>3 DEF Step
  <1>3. \A s, q, t, n : Runs(s, q, t, n)' <=> Runs(s, q, t, n)
    BY <1>2 DEF Runs
  <1>. QED
    BY <1>1, <1>3

\* When nothing is left to do every plan is at its end, whatever a step lost.
LEMMA NothingLeft == \A y, n : Runs(y, <<>>, y, n)'
  <1>. SUFFICES ASSUME NEW y, NEW n PROVE Runs(y, <<>>, y, n)'
    OBVIOUS
  <1>. DEFINE g == [i \in {0} |-> y]
  <1>1. <<>> \in Seq(Effects) /\ Len(<<>>) = 0 /\ 1..Len(<<>>) = {}
    BY EmptySeq
  <1>2. g[0] = y /\ g[Len(<<>>)] = y
    BY <1>1
  <1>. HIDE DEF g
  <1>. QED
    BY <1>1, <1>2 DEF Runs

\* The plan of the next state, from its files.
LEMMA PlanIs ==
    ASSUME lost' = lost, died' => todo' = <<>>, NEW D, NEW t,
           ~lost /\ ~died' => Dirty' \subseteq D,
           Runs(St(vis', D, Log(head')), todo', t, native'), t.dirty \subseteq {Git}
    PROVE  PlanInv'
  <1>1. Runs(St(vis, D, Log(head)), todo, t, native)'
    BY SameLost
  <1>. QED
    BY <1>1 DEF PlanInv

\* The merge begins with nothing on disk, nothing running and a branch at its base.
LEMMA InitInv == Init => IInv
  <1>. SUFFICES ASSUME Init PROVE IInv
    OBVIOUS
  <1>1. Whole(vis) /\ DOMAIN dur = Files /\ DOMAIN late = Dirs /\ \A d \in Dirs : late[d] = <<>>
    BY DEF Init, Whole
  <1>2. /\ \A d \in Dirs : Kept(vis, d, late[d], dur, Len(late[d]))
        /\ \A v : Survives(v, late, dur, Nothing) => v = vis
        /\ stale = Nothing
    <2>1. dur = vis /\ stale = Nothing
      BY DEF Init, Nothing
    <2>. QED
      BY <1>1, <2>1, CleanSurvives
  <1>3. ASSUME NEW d \in Dirs
        PROVE  /\ late[d] \in Seq(Effects) /\ \A i \in 1..Len(late[d]) : late[d][i].file \in d
               /\ stale[d] \in 0..Len(late[d]) /\ Len(late[d]) = stale[d]
    <2>1. late[d] = <<>> /\ <<>> \in Seq(Effects) /\ Len(<<>>) = 0 /\ 1..Len(<<>>) = {}
      BY <1>1, EmptySeq
    <2>2. stale[d] = 0
      BY <1>2 DEF Nothing
    <2>. QED
      BY <2>1, <2>2
  <1>4. /\ head \in Seq(Commits) /\ native \in 0..MaxRecords
        /\ kills \in 0..MaxKills /\ losses \in 0..MaxLosses
    BY MergeAssumption, EmptySeq DEF Init
  <1>5. ShapeInv
    <2>1. DOMAIN stale = Dirs
      BY <1>2 DEF Nothing
    <2>. QED
      BY <1>1, <1>2, <1>3, <1>4, <2>1 DEF ShapeInv
  <1>6. /\ \A c \in ClaimSet : vis[c] = "active"
        /\ vis["main"] = None /\ vis["rec"] = None /\ vis["link"] = None
        /\ vis["tx"] = None /\ vis["landed"] = None /\ vis["aborted"] = None
    BY FileFacts, ClaimFacts, MergeAssumption DEF Init
  <1>7. Local(vis, native)
    <2>1. LocalJournal(vis, native)
      BY <1>6 DEF LocalJournal
    <2>2. LocalGit(vis)
      BY <1>6 DEF LocalGit, Git
    <2>3. LocalStore(vis)
      BY <1>6 DEF LocalStore
    <2>. QED
      BY <1>1, <2>1, <2>2, <2>3 DEF Local
  <1>8. Good(vis, Log(head))
    <2>1. DOMAIN Log(head) = {}
      BY LogEmpty DEF Init
    <2>2. JournalIn(vis) = None
      BY <1>6 DEF JournalIn
    <2>3. GoodNone(vis, Log(head))
      BY <1>6, <2>1 DEF GoodNone, NoCarrier, ClaimsAre
    <2>. QED
      BY <2>2, <2>3 DEF Good, Fits
  <1>9. DiskInv
    BY <1>2, <1>7, <1>8 DEF DiskInv
  <1>10. PlanInv
    <2>. DEFINE s == St(vis, {}, Log(head))
    <2>1. Dirty = {}
      BY <1>3 DEF Dirty
    <2>2. todo = <<>> /\ s.dirty = {}
      BY StFacts DEF Init
    <2>3. Runs(s, todo, s, native)
      BY <2>2, RunsEmpty
    <2>. QED
      BY <2>1, <2>2, <2>3 DEF PlanInv
  <1>. QED
    BY <1>5, <1>9, <1>10 DEF IInv

\* A command may begin wherever the invariant holds.
LEMMA InvReady == IInv => Ready
  <1>. SUFFICES ASSUME IInv PROVE Ready
    OBVIOUS
  <1>1. ShapeInv /\ DiskInv
    BY DEF IInv
  <1>2. Safe(vis, Log(head), native)
    BY <1>1, VisSurvives, LeftSafe
  <1>3. native \in Nat /\ head \in Seq(Commits)
    BY <1>1, MergeAssumption DEF ShapeInv
  <1>. QED
    BY <1>2, <1>3 DEF Ready

\* A command decides on its plan and touches nothing; what a dead one left counts as
\* found from then on.
LEMMA CommandKeeps ==
    ASSUME IInv, Idle, Planned(todo'), died' = FALSE,
           stale' = IF died THEN [d \in Dirs |-> Len(late[d])] ELSE stale,
           UNCHANGED <<vis, dur, late, head, native, kills, losses, lost>>
    PROVE  IInv'
  <1>0. ShapeInv /\ DiskInv
    BY DEF IInv
  <1>1. /\ DOMAIN stale' = Dirs
        /\ \A d \in Dirs : /\ stale'[d] \in 0..Len(late[d]) /\ stale'[d] \in Nat
                           /\ stale[d] <= stale'[d] /\ (died => stale'[d] = Len(late[d]))
    <2>1. CASE died
      BY <1>0, <2>1, Lengths
    <2>2. CASE ~died
      BY <1>0, <2>2, Lengths DEF ShapeInv
    <2>. QED
      BY <2>1, <2>2
  <1>2. ShapeInv'
    BY <1>0, <1>1 DEF ShapeInv
  <1>3. DiskInv'
    <2>1. PICK y, L, b, m : y = stale' /\ L = late /\ b = dur /\ m = stale
      OBVIOUS
    <2>2. \A d \in Dirs : m[d] \in Nat /\ y[d] \in Nat /\ m[d] <= y[d] /\ Len(L[d]) \in Nat
      BY <1>0, <1>1, <2>1, Lengths
    <2>3. \A v : Survives(v, L, b, y) => Survives(v, L, b, m)
      BY <2>2, KeepMore
    <2>. QED
      BY <1>0, <2>1, <2>3 DEF DiskInv
  <1>4. ~lost => Dirty' \subseteq {Git}
    <2>1. CASE died
      BY <1>1, <2>1 DEF Dirty
    <2>2. CASE ~died
      <3>1. PICK D, t : /\ ~lost => Dirty \subseteq D
                        /\ Runs(St(vis, D, Log(head)), todo, t, native)
                        /\ t.dirty \subseteq {Git}
        BY <2>2 DEF IInv, PlanInv
      <3>2. St(vis, D, Log(head)) = t
        BY <3>1, RunsEmpty DEF Idle
      <3>3. t.dirty = D
        BY <3>2, StFacts
      <3>4. Dirty' = Dirty
        BY <2>2 DEF Dirty
      <3>. QED
        BY <3>1, <3>3, <3>4
    <2>. QED
      BY <2>1, <2>2
  <1>5. PICK t : Runs(St(vis, {Git}, Log(head)), todo', t, native) /\ t.dirty \subseteq {Git}
    BY DEF Planned
  <1>6. Runs(St(vis', {Git}, Log(head')), todo', t, native')
    BY <1>5
  <1>7. PlanInv'
    BY <1>4, <1>5, <1>6, PlanIs
  <1>. QED
    BY <1>2, <1>3, <1>7 DEF IInv

\* The exploring runtime writes a record.
LEMMA WriteKeeps ==
    ASSUME IInv, Write
    PROVE  IInv'
  <1>1. /\ native' = native + 1 /\ native < MaxRecords /\ native \in 0..MaxRecords
        /\ vis' = vis /\ dur' = dur /\ late' = late /\ head' = head /\ todo' = todo
        /\ kills' = kills /\ losses' = losses /\ died' = died /\ stale' = stale /\ lost' = lost
    BY DEF Write, IInv, ShapeInv
  <1>2. native \in Nat /\ native' \in Nat /\ native <= native' /\ native' \in 0..MaxRecords
    BY <1>1, MergeAssumption
  <1>3. ShapeInv'
    BY <1>1, <1>2 DEF IInv, ShapeInv
  <1>4. DiskInv'
    <2>1. ASSUME NEW v, Survives(v, late, dur, Nothing) PROVE Local(v, native')
      <3>1. Local(v, native)
        BY <2>1 DEF IInv, DiskInv
      <3>. QED
        BY <1>2, <3>1, LocalMore
    <2>. QED
      BY <1>1, <2>1 DEF IInv, DiskInv
  <1>5. PlanInv'
    <2>1. PICK D, t : /\ ~lost /\ ~died => Dirty \subseteq D
                      /\ Runs(St(vis, D, Log(head)), todo, t, native)
                      /\ t.dirty \subseteq {Git}
      BY DEF IInv, PlanInv
    <2>2. Runs(St(vis, D, Log(head)), todo, t, native')
      BY <1>2, <2>1, RunsMore
    <2>3. Dirty' = Dirty
      BY <1>1 DEF Dirty
    <2>4. died' => todo' = <<>>
      BY <1>1 DEF IInv, PlanInv
    <2>5. Runs(St(vis', D, Log(head')), todo', t, native')
      BY <1>1, <2>2
    <2>. QED
      BY <1>1, <2>1, <2>3, <2>4, <2>5, PlanIs
  <1>. QED
    BY <1>3, <1>4, <1>5 DEF IInv

\* An ordinary commit moves the branch.
LEMMA TurnKeeps ==
    ASSUME IInv, Turn
    PROVE  IInv'
  <1>. DEFINE c == Commit("turn", 0, 0, 0)
  <1>1. /\ head' = Append(head, c) /\ head \in Seq(Commits)
        /\ vis' = vis /\ dur' = dur /\ late' = late /\ native' = native /\ todo' = todo
        /\ kills' = kills /\ losses' = losses /\ died' = died /\ stale' = stale /\ lost' = lost
    BY DEF Turn, IInv, ShapeInv
  <1>2. c \in Commits /\ c.kind = "turn"
    BY DEF Commit, Commits
  <1>. HIDE DEF c
  <1>3. Log(head') = Log(head) /\ head' \in Seq(Commits)
    BY <1>1, <1>2, LogTurn, AppendProperties
  <1>4. ShapeInv'
    BY <1>1, <1>3 DEF IInv, ShapeInv
  <1>5. DiskInv'
    BY <1>1, <1>3 DEF IInv, DiskInv
  <1>6. Dirty' = Dirty
    BY <1>1 DEF Dirty
  <1>7. PlanInv'
    <2>1. PICK D, t : /\ ~lost /\ ~died => Dirty \subseteq D
                      /\ Runs(St(vis, D, Log(head)), todo, t, native)
                      /\ t.dirty \subseteq {Git}
      BY DEF IInv, PlanInv
    <2>2. Runs(St(vis', D, Log(head')), todo', t, native')
      BY <1>1, <1>3, <2>1
    <2>3. died' => todo' = <<>>
      BY <1>1 DEF IInv, PlanInv
    <2>. QED
      BY <1>1, <1>6, <2>1, <2>2, <2>3, PlanIs
  <1>. QED
    BY <1>4, <1>5, <1>7 DEF IInv

\* Effects that leave each directory within what it could hold, for a plan that goes on.
LEMMA WithinDisk ==
    ASSUME DiskInv, Within(late', dur', Nothing, late, dur, Nothing),
           Within(late', dur', stale', late, dur, stale),
           Log(head') = Log(head), native' = native, lost' = lost
    PROVE  DiskInv'
  <1>1. PICK L, b, m, M, c, y : /\ L = late /\ b = dur /\ m = stale
                                /\ M = late' /\ c = dur' /\ y = stale'
    OBVIOUS
  <1>2. ASSUME NEW v, Survives(v, M, c, Nothing) PROVE Local(v, native)
    <2>1. Survives(v, L, b, Nothing)
      BY <1>1, <1>2, Shift
    <2>. QED
      BY <1>1, <2>1 DEF DiskInv
  <1>3. ASSUME ~lost, NEW v, Survives(v, M, c, y) PROVE Good(v, Log(head))
    <2>1. Survives(v, L, b, m)
      BY <1>1, <1>3, Shift
    <2>. QED
      BY <1>1, <1>3, <2>1 DEF DiskInv
  <1>. QED
    BY <1>1, <1>2, <1>3 DEF DiskInv

\* The system writes a rename back.
LEMMA WriteBackKeeps ==
    ASSUME IInv, NEW d \in Dirs, WriteBack(d)
    PROVE  IInv'
  <1>1. /\ ShapeInv /\ DiskInv /\ PlanInv /\ late[d] # <<>>
        /\ dur' = [dur EXCEPT ![Head(late[d]).file] = Head(late[d]).val]
        /\ late' = [late EXCEPT ![d] = Tail(@)]
        /\ stale' = [stale EXCEPT ![d] = IF @ = 0 THEN 0 ELSE @ - 1]
        /\ vis' = vis /\ head' = head /\ native' = native /\ todo' = todo
        /\ kills' = kills /\ losses' = losses /\ died' = died /\ lost' = lost
    BY DEF WriteBack, IInv
  <1>2. /\ \A x \in Dirs : Len(late[x]) \in Nat /\ stale[x] \in Nat /\ stale[x] <= Len(late[x])
        /\ \A x \in Dirs : Nothing[x] = 0
        /\ DOMAIN stale' = Dirs /\ Len(late'[d]) = Len(late[d]) - 1 /\ Len(late[d]) > 0
        /\ \A x \in Dirs : x # d => late'[x] = late[x]
        /\ \A x \in Dirs : stale'[x] = IF x = d /\ stale[x] > 0 THEN stale[x] - 1 ELSE stale[x]
    <2>1. late[d] \in Seq(Effects) /\ DOMAIN late = Dirs /\ DOMAIN stale = Dirs
      BY <1>1 DEF ShapeInv
    <2>2. Len(Tail(late[d])) = Len(late[d]) - 1 /\ Len(late[d]) > 0
      BY <1>1, <2>1, HeadTailProperties, EmptySeq, LenProperties
    <2>3. \A x \in Dirs : Len(late[x]) \in Nat /\ stale[x] \in Nat /\ stale[x] <= Len(late[x])
      BY <1>1, Lengths
    <2>4. \A x \in Dirs : stale'[x] = IF x = d /\ stale[x] > 0 THEN stale[x] - 1 ELSE stale[x]
      BY <1>1, <2>1, <2>3
    <2>. QED
      BY <1>1, <2>1, <2>2, <2>3, <2>4, Lengths
  <1>3. /\ Within(late', dur', Nothing, late, dur, Nothing) /\ Shaped(vis, late', dur')
        /\ Within(late', dur', stale', late, dur, stale)
    <2>1. Shaped(vis, late, dur)
      BY <1>1, ShapeIs
    <2>2. PICK u, L, b, m, M, c, y : /\ u = vis /\ L = late /\ b = dur /\ m = stale
                                     /\ M = late' /\ c = dur' /\ y = stale'
      OBVIOUS
    <2>3. Shaped(u, L, b) /\ WrittenBack(d, L, b, M, c)
      BY <1>1, <2>1, <2>2 DEF WrittenBack
    <2>4. /\ Bounds(m, L) /\ Bounds(Nothing, L)
          /\ OneLess(d, m, y) /\ OneLess(d, Nothing, Nothing)
      BY <1>2, <2>2 DEF Bounds, OneLess
    <2>5. Within(M, c, y, L, b, m) /\ Shaped(u, M, c)
      BY <2>3, <2>4, WriteBackSurvives
    <2>6. Within(M, c, Nothing, L, b, Nothing)
      <3>1. PICK z : z = Nothing
        OBVIOUS
      <3>2. Within(M, c, z, L, b, z)
        BY <2>3, <2>4, <3>1, WriteBackSurvives
      <3>. QED
        BY <3>1, <3>2
    <2>. QED
      BY <2>2, <2>5, <2>6
  <1>4. \A x \in Dirs : /\ stale'[x] \in 0..Len(late'[x])
                        /\ Len(late'[x]) # stale'[x] => Len(late[x]) # stale[x]
    BY <1>2
  <1>5. ShapeInv'
    BY <1>1, <1>2, <1>3, <1>4 DEF ShapeInv, Shaped
  <1>6. DiskInv'
    BY <1>1, <1>3, WithinDisk
  <1>7. Dirty' \subseteq Dirty
    BY <1>4 DEF Dirty
  <1>8. PlanInv'
    <2>1. PICK D, t : /\ ~lost /\ ~died => Dirty \subseteq D
                      /\ Runs(St(vis, D, Log(head)), todo, t, native)
                      /\ t.dirty \subseteq {Git}
      BY <1>1 DEF PlanInv
    <2>2. Runs(St(vis', D, Log(head')), todo', t, native')
      BY <1>1, <2>1
    <2>3. died' => todo' = <<>>
      BY <1>1 DEF PlanInv
    <2>. QED
      BY <1>1, <1>7, <2>1, <2>2, <2>3, PlanIs
  <1>. QED
    BY <1>5, <1>6, <1>8 DEF IInv

\* The command dies: what it renamed is on its way as before, and any directory may
\* be half-way.
LEMMA CrashKeeps ==
    ASSUME IInv, Crash
    PROVE  IInv'
  <1>1. /\ kills \in 0..MaxKills /\ losses \in 0..MaxLosses /\ kills < MaxKills
        /\ kills' = kills + 1 /\ todo' = <<>> /\ died' = TRUE
        /\ vis' = vis /\ dur' = dur /\ late' = late /\ head' = head /\ native' = native
        /\ losses' = losses /\ stale' = stale /\ lost' = lost
    BY DEF Crash, IInv, ShapeInv
  <1>2. kills' \in 0..MaxKills
    BY <1>1, MergeAssumption
  <1>3. ShapeInv' /\ DiskInv'
    BY <1>1, <1>2 DEF IInv, ShapeInv, DiskInv
  <1>4. PlanInv'
    <2>. DEFINE s == St(vis', {}, Log(head'))
    <2>1. s.dirty = {}
      BY StFacts
    <2>2. Runs(s, todo', s, native')
      BY <1>1, RunsEmpty
    <2>. QED
      BY <1>1, <2>1, <2>2, PlanIs
  <1>. QED
    BY <1>3, <1>4 DEF IInv

\* The files of a power loss, and how many renames of each directory it kept.
LEMMA LossLeaves ==
    ASSUME ShapeInv, NEW j \in 0..Len(late[Journal]), NEW g \in 0..Len(late[Git]),
           NEW s \in 0..Len(late[Store]), NEW w, w = Survivor(j, g, s)
    PROVE  /\ Survives(w, late, dur, Nothing)
           /\ ~(j < stale[Journal] \/ g < stale[Git] \/ s < stale[Store])
                => Survives(w, late, dur, stale)
  <1>5. /\ Whole(w)
        /\ \A f \in Journal : w[f] = Last(late[Journal], j, f, dur[f])
        /\ \A f \in Git : w[f] = Last(late[Git], g, f, dur[f])
        /\ \A f \in Store : w[f] = Last(late[Store], s, f, dur[f])
    <2>1. w = [f \in Files |-> IF f \in Journal THEN OnDisk(f, Journal, j)
                     ELSE IF f \in Git THEN OnDisk(f, Git, g) ELSE OnDisk(f, Store, s)]
      BY DEF Survivor
    <2>2. Whole(w)
      BY <2>1 DEF Whole
    <2>3. /\ \A f \in Journal : w[f] = OnDisk(f, Journal, j)
          /\ \A f \in Git : w[f] = OnDisk(f, Git, g)
          /\ \A f \in Store : w[f] = OnDisk(f, Store, s)
      BY <2>1, DirFacts
    <2>. QED
      BY <2>2, <2>3, OnDiskIsLast
  <1>6. /\ Kept(w, Journal, late[Journal], dur, j) /\ Kept(w, Git, late[Git], dur, g)
        /\ Kept(w, Store, late[Store], dur, s)
    BY <1>5 DEF Kept
  <1>7. Survives(w, late, dur, Nothing)
    <2>1. Nothing[Journal] = 0 /\ Nothing[Git] = 0 /\ Nothing[Store] = 0
      BY DirFacts DEF Nothing
    <2>2. \A d \in Dirs : \E k \in Nothing[d]..Len(late[d]) : Kept(w, d, late[d], dur, k)
      BY <1>6, <2>1 DEF Dirs
    <2>. QED
      BY <1>5, <2>2 DEF Survives
  <1>8. ASSUME ~(j < stale[Journal] \/ g < stale[Git] \/ s < stale[Store])
        PROVE  Survives(w, late, dur, stale)
    <2>1. stale[Journal] \in Nat /\ stale[Git] \in Nat /\ stale[Store] \in Nat
      BY Lengths, DirFacts
    <2>2. /\ j \in stale[Journal]..Len(late[Journal]) /\ g \in stale[Git]..Len(late[Git])
          /\ s \in stale[Store]..Len(late[Store])
      BY <1>8, <2>1
    <2>3. \A d \in Dirs : \E k \in stale[d]..Len(late[d]) : Kept(w, d, late[d], dur, k)
      BY <1>6, <2>2 DEF Dirs
    <2>. QED
      BY <1>5, <2>3 DEF Survives
  <1>. QED
    BY <1>7, <1>8

\* Power is lost: the files of some survivor are what the next command reads.
LEMMA PowerLossKeeps ==
    ASSUME IInv, PowerLoss
    PROVE  IInv'
  <1>1. /\ kills \in 0..MaxKills /\ losses \in 0..MaxLosses /\ losses < MaxLosses
        /\ losses' = losses + 1 /\ todo' = <<>>
        /\ dur' = vis' /\ late' = [d \in Dirs |-> <<>>] /\ stale' = Nothing /\ died' = FALSE
        /\ head' = head /\ native' = native /\ kills' = kills
    BY DEF PowerLoss, IInv, ShapeInv, Nothing
  <1>2. losses' \in 0..MaxLosses
    BY <1>1, MergeAssumption
  <1>3. PICK j \in 0..Len(late[Journal]), g \in 0..Len(late[Git]), s \in 0..Len(late[Store]) :
            /\ vis' = Survivor(j, g, s)
            /\ lost' = (lost \/ j < stale[Journal] \/ g < stale[Git] \/ s < stale[Store])
    BY DEF PowerLoss
  <1>4. PICK w, M : w = vis' /\ M = late'
    OBVIOUS
  <1>5. /\ Survives(w, late, dur, Nothing)
        /\ ~(j < stale[Journal] \/ g < stale[Git] \/ s < stale[Store])
             => Survives(w, late, dur, stale)
    BY <1>3, <1>4, LossLeaves DEF IInv
  <1>6. Local(w, native) /\ (~lost' => Good(w, Log(head)))
    BY <1>3, <1>5 DEF IInv, DiskInv
  <1>7. Whole(w) /\ DOMAIN w = Files /\ \A d \in Dirs : M[d] = <<>>
    BY <1>1, <1>4, <1>5 DEF Survives, Whole
  <1>8. /\ \A d \in Dirs : Kept(w, d, M[d], w, Len(M[d]))
        /\ \A v : Survives(v, M, w, Nothing) => v = w
    BY <1>7, CleanSurvives
  <1>9. ASSUME NEW d \in Dirs
        PROVE  /\ M[d] \in Seq(Effects) /\ \A i \in 1..Len(M[d]) : M[d][i].file \in d
               /\ Nothing[d] \in 0..Len(M[d]) /\ Len(M[d]) = Nothing[d]
    <2>1. M[d] = <<>> /\ <<>> \in Seq(Effects) /\ Len(<<>>) = 0 /\ 1..Len(<<>>) = {}
      BY <1>7, EmptySeq
    <2>2. Nothing[d] = 0
      BY DEF Nothing
    <2>. QED
      BY <2>1, <2>2
  <1>10. ShapeInv'
    <2>1. DOMAIN Nothing = Dirs
      BY DEF Nothing
    <2>. QED
      BY <1>1, <1>2, <1>4, <1>7, <1>8, <1>9, <2>1 DEF IInv, ShapeInv
  <1>11. DiskInv'
    BY <1>1, <1>4, <1>6, <1>8 DEF DiskInv
  <1>12. PlanInv'
    <2>1. Dirty' = {}
      BY <1>1, <1>4, <1>9 DEF Dirty
    <2>0. PICK x : x = St(vis', {}, Log(head'))
      OBVIOUS
    <2>2. x.dirty = {}
      BY <2>0, StFacts
    <2>3. Runs(x, todo, x, native)'
      <3>1. todo' = <<>>
        BY <1>1
      <3>2. \A y, n : Runs(y, <<>>, y, n)'
        BY NothingLeft
      <3>. QED
        BY <3>1, <3>2
    <2>. QED
      BY <1>1, <2>0, <2>1, <2>2, <2>3 DEF PlanInv
  <1>. QED
    BY <1>10, <1>11, <1>12 DEF IInv

\* The survivors when no directory is half-way: what readers see.
LEMMA CleanIsVis ==
    ASSUME ShapeInv, Dirty = {}, NEW v, Survives(v, late, dur, stale)
    PROVE  v = vis
  <1>1. ASSUME NEW d \in Dirs PROVE \A f \in d : v[f] = vis[f]
    <2>1. stale[d] = Len(late[d]) /\ Len(late[d]) \in Nat
      BY Lengths DEF Dirty
    <2>2. stale[d]..Len(late[d]) = {Len(late[d])}
      BY <2>1
    <2>3. Kept(v, d, late[d], dur, Len(late[d]))
      BY <2>2 DEF Survives
    <2>4. Kept(vis, d, late[d], dur, Len(late[d]))
      BY DEF ShapeInv
    <2>. QED
      BY <2>3, <2>4 DEF Kept
  <1>2. \A f \in Files : v[f] = vis[f]
    BY <1>1, DirFacts
  <1>. QED
    BY <1>2 DEF Survives, ShapeInv, Whole

\* A rename in a plan.
LEMMA StepPut ==
    ASSUME NEW v, NEW D, NEW l, NEW e, NEW u, NEW n, Step(St(v, D, l), e, u, n), e.do = "put"
    PROVE  \E d \in Dirs : /\ e.file \in d /\ D \subseteq {d}
                           /\ u = St([v EXCEPT ![e.file] = e.val], {d}, l)
                           /\ Safe([v EXCEPT ![e.file] = e.val], l, n)
  <1>. DEFINE s == St(v, D, l)
  <1>0. Step(s, e, u, n) /\ s.vis = v /\ s.dirty = D /\ s.log = l
    BY StFacts
  <1>. HIDE DEF s
  <1>1. PICK d \in Dirs : /\ e.file \in d /\ D \subseteq {d}
                          /\ u = St([v EXCEPT ![e.file] = e.val], {d}, l)
    BY <1>0 DEF Step
  <1>2. Safe(u.vis, l, n)
    BY <1>0 DEF Step
  <1>3. u.vis = [v EXCEPT ![e.file] = e.val]
    BY <1>1, StFacts
  <1>. QED
    BY <1>1, <1>2, <1>3

\* A sync in a plan.
LEMMA StepSync ==
    ASSUME NEW v, NEW D, NEW l, NEW e, NEW u, NEW n, Step(St(v, D, l), e, u, n), e.do = "sync"
    PROVE  e.dir \in Dirs /\ u = St(v, D \ {e.dir}, l)
  <1>. DEFINE s == St(v, D, l)
  <1>1. Step(s, e, u, n) /\ s.vis = v /\ s.dirty = D /\ s.log = l
    BY StFacts
  <1>2. s = St(v, D, l)
    OBVIOUS
  <1>. HIDE DEF s
  <1>. QED
    BY <1>1, <1>2 DEF Step

\* A check of the head in a plan.
LEMMA StepExpect ==
    ASSUME NEW v, NEW D, NEW l, NEW e, NEW u, NEW n, Step(St(v, D, l), e, u, n), e.do = "expect"
    PROVE  D \subseteq {Git} /\ u = St(v, D, l)
  <1>. DEFINE s == St(v, D, l)
  <1>1. Step(s, e, u, n) /\ s.vis = v /\ s.dirty = D /\ s.log = l
    BY StFacts
  <1>2. s = St(v, D, l)
    OBVIOUS
  <1>. HIDE DEF s
  <1>. QED
    BY <1>1, <1>2 DEF Step

\* A move of the branch in a plan.
LEMMA StepCas ==
    ASSUME NEW v, NEW D, NEW l, NEW e, NEW u, NEW n, Step(St(v, D, l), e, u, n), e.do = "cas"
    PROVE  /\ D = {} /\ u = St(v, {}, Log(Candidate(e.pub)))
           /\ ~lost => Good(v, Log(Candidate(e.pub)))
  <1>1. D = {} /\ u = St(v, {}, Log(Candidate(e.pub))) /\ (~lost => Good(v, u.log))
    BY StFacts DEF Step
  <1>2. u.log = Log(Candidate(e.pub))
    BY <1>1, StFacts
  <1>. QED
    BY <1>1, <1>2

\* The running command makes its next effect, or gives up at a check.
LEMMA EffectKeeps ==
    ASSUME IInv, Effect
    PROVE  IInv'
  <1>. DEFINE e == Head(todo)
              l == Log(head)
  <1>1. ShapeInv /\ DiskInv /\ PlanInv /\ todo # <<>>
    BY DEF IInv, Effect, Idle
  <1>2. /\ native' = native /\ kills' = kills /\ losses' = losses
        /\ died' = died /\ lost' = lost /\ ~died
    BY <1>1 DEF Effect, PlanInv
  <1>3. PICK D, t : /\ ~lost => Dirty \subseteq D
                    /\ Runs(St(vis, D, l), todo, t, native)
                    /\ t.dirty \subseteq {Git}
    BY <1>1, <1>2 DEF PlanInv
  <1>4. e \in Effects /\ \E x : Step(St(vis, D, l), e, x, native) /\ Runs(x, Tail(todo), t, native)
    BY <1>1, <1>3, RunsTail
  <1>5. PICK u : Step(St(vis, D, l), e, u, native) /\ Runs(u, Tail(todo), t, native)
    BY <1>4
  <1>6. PICK a : a = e
    OBVIOUS
  <1>7. a \in Effects /\ Step(St(vis, D, l), a, u, native)
    BY <1>4, <1>5, <1>6
  <1>8. \/ /\ a.do = "put"
           /\ vis' = [vis EXCEPT ![a.file] = a.val]
           /\ late' = [d \in Dirs |-> IF a.file \in d THEN Append(late[d], a) ELSE late[d]]
           /\ todo' = Tail(todo) /\ dur' = dur /\ head' = head /\ stale' = stale
        \/ /\ a.do = "sync"
           /\ dur' = [f \in Files |-> IF f \in a.dir THEN vis[f] ELSE dur[f]]
           /\ late' = [late EXCEPT ![a.dir] = <<>>]
           /\ stale' = [stale EXCEPT ![a.dir] = 0]
           /\ todo' = Tail(todo) /\ vis' = vis /\ head' = head
        \/ /\ a.do = "expect"
           /\ todo' \in {Tail(todo), <<>>}
           /\ vis' = vis /\ dur' = dur /\ late' = late /\ head' = head /\ stale' = stale
        \/ /\ a.do = "cas"
           /\ vis' = vis /\ dur' = dur /\ late' = late /\ stale' = stale
           /\ todo' = IF head \in {a.pub.old, Candidate(a.pub)} THEN Tail(todo) ELSE <<>>
           /\ head' = IF head = a.pub.old THEN Candidate(a.pub) ELSE head
    BY <1>6 DEF Effect
  <1>. HIDE DEF e
  <1>9. CASE a.do = "put"
    <2>1. PICK d0 \in Dirs : /\ a.file \in d0 /\ D \subseteq {d0}
                             /\ u = St([vis EXCEPT ![a.file] = a.val], {d0}, l)
                             /\ Safe([vis EXCEPT ![a.file] = a.val], l, native)
      BY <1>7, <1>9, StepPut
    <2>2. PICK w, M : w = vis' /\ M = late'
      OBVIOUS
    <2>3. /\ w = [vis EXCEPT ![a.file] = a.val] /\ Safe(w, Log(head), native)
          /\ M = [d \in Dirs |-> IF a.file \in d THEN Append(late[d], a) ELSE late[d]]
          /\ todo' = Tail(todo) /\ dur' = dur /\ head' = head /\ stale' = stale
          /\ (~lost => Dirty \subseteq {d0}) /\ u = St(w, {d0}, l)
      BY <1>3, <1>8, <1>9, <2>1, <2>2
    <2>4. /\ \A v : Survives(v, M, dur, Nothing) => Local(v, native)
          /\ ~lost => \A v : Survives(v, M, dur, stale) => Good(v, Log(head))
          /\ Shaped(w, M, dur) /\ Len(M[d0]) = Len(late[d0]) + 1 /\ \A d \in Dirs : d # d0 => M[d] = late[d]
      <3>1. Renamed(a, d0, w, M)
        BY <1>7, <2>1, <2>3 DEF Renamed
      <3>2. Safe(w, Log(head), native)
        BY <2>3
      <3>. QED
        BY <1>1, <3>1, <3>2, PutSurvives
    <2>5. Shaped(vis', late', dur') /\ head' = head
      BY <2>2, <2>3, <2>4
    <2>11. \A d \in Dirs : stale[d] \in 0..Len(M[d])
      BY <1>1, <2>1, <2>4, Lengths
    <2>6. ShapeInv'
      BY <1>1, <1>2, <2>2, <2>3, <2>5, <2>11 DEF ShapeInv, Shaped
    <2>7. DiskInv'
      BY <1>2, <2>2, <2>3, <2>4 DEF DiskInv
    <2>8. ~lost => Dirty' \subseteq {d0}
      BY <2>2, <2>3, <2>4 DEF Dirty
    <2>9. Runs(St(vis', {d0}, Log(head')), todo', t, native')
      BY <1>2, <1>5, <2>2, <2>3
    <2>10. PlanInv'
      BY <1>2, <1>3, <2>8, <2>9, PlanIs
    <2>. QED
      BY <2>6, <2>7, <2>10 DEF IInv
  <1>10. CASE a.do = "sync"
    <2>1. a.dir \in Dirs /\ u = St(vis, D \ {a.dir}, l)
      <3>1. PICK v, m, n : v = vis /\ m = l /\ n = native
        OBVIOUS
      <3>2. Step(St(v, D, m), a, u, n)
        BY <1>7, <3>1
      <3>3. a.dir \in Dirs /\ u = St(v, D \ {a.dir}, m)
        BY <3>2, <1>10, StepSync
      <3>. QED
        BY <3>1, <3>3
    <2>2. /\ dur' = [f \in Files |-> IF f \in a.dir THEN vis[f] ELSE dur[f]]
          /\ late' = [late EXCEPT ![a.dir] = <<>>]
          /\ stale' = [stale EXCEPT ![a.dir] = 0]
          /\ todo' = Tail(todo) /\ vis' = vis /\ head' = head
      BY <1>8, <1>10
    <2>10. /\ DOMAIN stale' = Dirs
           /\ \A d \in Dirs : stale'[d] = IF d = a.dir THEN 0 ELSE stale[d]
           /\ \A d \in Dirs : late'[d] = IF d = a.dir THEN <<>> ELSE late[d]
      BY <1>1, <2>1, <2>2 DEF ShapeInv
    <2>3. /\ Within(late', dur', Nothing, late, dur, Nothing) /\ Shaped(vis, late', dur')
          /\ Within(late', dur', stale', late, dur, stale)
      <3>1. PICK v, L, b, h, M, c, y, d0 :
                /\ v = vis /\ L = late /\ b = dur /\ h = stale
                /\ M = late' /\ c = dur' /\ y = stale' /\ d0 = a.dir
        OBVIOUS
      <3>2. Shaped(v, L, b)
        BY <1>1, <3>1, ShapeIs
      <3>3. d0 \in Dirs /\ M = [L EXCEPT ![d0] = <<>>]
        BY <2>1, <2>2, <3>1
      <3>4. c = [f \in Files |-> IF f \in d0 THEN v[f] ELSE b[f]]
        BY <2>2, <3>1
      <3>5. Synced(d0, v, L, b, M, c)
        BY <3>3, <3>4 DEF Synced
      <3>6. /\ Bounds(h, L) /\ Bounds(Nothing, L)
            /\ \A d \in Dirs : y[d] = IF d = d0 THEN 0 ELSE h[d]
            /\ \A d \in Dirs : Nothing[d] = IF d = d0 THEN 0 ELSE Nothing[d]
        BY <1>1, <2>10, <3>1, Lengths DEF Bounds
      <3>7. Within(M, c, y, L, b, h) /\ Shaped(v, M, c)
        BY <3>2, <3>5, <3>6, SyncSurvives
      <3>8. Within(M, c, Nothing, L, b, Nothing)
        <4>1. PICK z : z = Nothing
          OBVIOUS
        <4>2. Within(M, c, z, L, b, z)
          BY <3>2, <3>5, <3>6, <4>1, SyncSurvives
        <4>. QED
          BY <4>1, <4>2
      <3>. QED
        BY <3>1, <3>7, <3>8
    <2>11. \A d \in Dirs : stale'[d] \in 0..Len(late'[d])
      <3>1. Len(<<>>) = 0
        BY EmptySeq
      <3>. QED
        BY <1>1, <2>10, <3>1, Lengths
    <2>4. ShapeInv'
      BY <1>1, <1>2, <2>2, <2>3, <2>10, <2>11 DEF ShapeInv, Shaped
    <2>5. DiskInv'
      BY <1>1, <1>2, <2>2, <2>3, WithinDisk
    <2>6. Dirty' \subseteq Dirty \ {a.dir}
      <3>1. Len(<<>>) = 0
        BY EmptySeq
      <3>. QED
        BY <2>10, <3>1 DEF Dirty
    <2>7. Runs(St(vis', D \ {a.dir}, Log(head')), todo', t, native')
      BY <1>2, <1>5, <2>1, <2>2
    <2>8. ~lost => Dirty' \subseteq D \ {a.dir}
      BY <1>3, <2>6
    <2>9. PlanInv'
      BY <1>2, <1>3, <2>7, <2>8, PlanIs
    <2>. QED
      BY <2>4, <2>5, <2>9 DEF IInv
  <1>11. CASE a.do = "expect"
    <2>1. D \subseteq {Git} /\ u = St(vis, D, l)
      BY <1>7, <1>11, StepExpect
    <2>2. /\ todo' \in {Tail(todo), <<>>}
          /\ vis' = vis /\ dur' = dur /\ late' = late /\ head' = head /\ stale' = stale
      BY <1>8, <1>11
    <2>3. ShapeInv' /\ DiskInv'
      BY <1>1, <1>2, <2>2 DEF ShapeInv, DiskInv
    <2>4. Dirty' = Dirty
      BY <2>2 DEF Dirty
    <2>5. u.dirty = D
      BY <2>1, StFacts
    <2>6. \E x : Runs(u, todo', x, native) /\ x.dirty \subseteq {Git}
      <3>1. CASE todo' = Tail(todo)
        BY <1>3, <1>5, <3>1
      <3>2. CASE todo' = <<>>
        <4>1. Runs(u, todo', u, native)
          BY <3>2, RunsEmpty
        <4>. QED
          BY <2>1, <2>5, <4>1
      <3>. QED
        BY <2>2, <3>1, <3>2
    <2>7. PlanInv'
      <3>1. PICK x : Runs(u, todo', x, native) /\ x.dirty \subseteq {Git}
        BY <2>6
      <3>2. Runs(St(vis', D, Log(head')), todo', x, native')
        BY <1>2, <2>1, <2>2, <3>1
      <3>. QED
        BY <1>2, <1>3, <2>4, <3>1, <3>2, PlanIs
    <2>. QED
      BY <2>3, <2>7 DEF IInv
  <1>12. CASE a.do = "cas"
    <2>. DEFINE m == Log(Candidate(a.pub))
    <2>1. D = {} /\ u = St(vis, {}, m) /\ (~lost => Good(vis, m))
      BY <1>7, <1>12, StepCas
    <2>2. /\ vis' = vis /\ dur' = dur /\ late' = late /\ stale' = stale
          /\ todo' = IF head \in {a.pub.old, Candidate(a.pub)} THEN Tail(todo) ELSE <<>>
          /\ head' = IF head = a.pub.old THEN Candidate(a.pub) ELSE head
      BY <1>8, <1>12
    <2>3. Dirty' = Dirty /\ (~lost => Dirty = {})
      BY <1>3, <2>1, <2>2 DEF Dirty
    <2>4. Candidate(a.pub) \in Seq(Commits)
      <3>1. a.pub \in Publications
        BY <1>7, <1>12 DEF Effects
      <3>2. a.pub.old \in Seq(Commits) /\ a.pub.commit \in Commits
        BY <3>1 DEF Publications
      <3>. QED
        BY <3>2, AppendProperties DEF Candidate
    <2>. HIDE DEF m
    <2>5. CASE head \in {a.pub.old, Candidate(a.pub)}
      <3>1. head' = Candidate(a.pub) /\ todo' = Tail(todo)
        BY <2>2, <2>5
      <3>2. Log(head') = m
        BY <3>1 DEF m
      <3>3. ShapeInv'
        BY <1>1, <1>2, <2>2, <2>4, <3>1 DEF ShapeInv
      <3>4. ASSUME ~lost, NEW v, Survives(v, late, dur, stale) PROVE Good(v, m)
        <4>1. v = vis
          BY <1>1, <2>3, <3>4, CleanIsVis
        <4>. QED
          BY <2>1, <3>4, <4>1
      <3>5. DiskInv'
        BY <1>1, <1>2, <2>2, <3>2, <3>4 DEF DiskInv
      <3>6. Runs(St(vis', {}, Log(head')), todo', t, native')
        BY <1>2, <1>5, <2>1, <2>2, <3>1, <3>2
      <3>7. PlanInv'
        BY <1>2, <1>3, <2>3, <3>6, PlanIs
      <3>. QED
        BY <3>3, <3>5, <3>7 DEF IInv
    <2>6. CASE head \notin {a.pub.old, Candidate(a.pub)}
      <3>1. head' = head /\ todo' = <<>>
        BY <2>2, <2>6
      <3>2. ShapeInv' /\ DiskInv'
        BY <1>1, <1>2, <2>2, <3>1 DEF ShapeInv, DiskInv
      <3>. DEFINE s == St(vis', {}, Log(head'))
      <3>3. s.dirty = {} /\ Runs(s, todo', s, native')
        BY <3>1, StFacts, RunsEmpty
      <3>4. PlanInv'
        BY <1>2, <2>3, <3>3, PlanIs
      <3>. QED
        BY <3>2, <3>4 DEF IInv
    <2>. QED
      BY <2>5, <2>6
  <1>. QED
    BY <1>8, <1>9, <1>10, <1>11, <1>12

\* Nothing happens.
LEMMA StutterKeeps ==
    ASSUME IInv, UNCHANGED vars
    PROVE  IInv'
  <1>1. ShapeInv'
    BY DEF IInv, ShapeInv, vars
  <1>2. DiskInv'
    BY DEF IInv, DiskInv, vars
  <1>3. Dirty' = Dirty
    BY DEF Dirty, vars
  <1>4. PlanInv'
    <2>1. PICK D, t : /\ ~lost /\ ~died => Dirty \subseteq D
                      /\ Runs(St(vis, D, Log(head)), todo, t, native)
                      /\ t.dirty \subseteq {Git}
      BY DEF IInv, PlanInv
    <2>2. Runs(St(vis', D, Log(head')), todo', t, native')
      BY <2>1 DEF vars
    <2>3. (died' => todo' = <<>>) /\ died' = died /\ lost' = lost
      BY DEF IInv, PlanInv, vars
    <2>. QED
      BY <1>3, <2>1, <2>2, <2>3, PlanIs
  <1>. QED
    BY <1>1, <1>2, <1>4 DEF IInv

\* Every command begins with a plan.
LEMMA CommandsKeep ==
    ASSUME IInv,
           \/ \E tx \in {Tx(FALSE, 0), Other} : CreateTx(tx)
           \/ Progress \/ RemoveTx \/ Activate \/ Land \/ Replay \/ Abort \/ SettleTail
    PROVE  IInv'
  <1>1. Ready
    BY InvReady
  <1>2. Planned(todo')
    BY <1>1, CreateTxPlanned, ProgressPlanned, RemoveTxPlanned, ActivatePlanned, LandPlanned,
       ReplayPlanned, AbortPlanned, SettleTailPlanned
  <1>3. /\ Idle /\ UNCHANGED <<vis, dur, late, head, native, kills, losses, lost>>
        /\ died' = FALSE /\ stale' = IF died THEN [d \in Dirs |-> Len(late[d])] ELSE stale
    BY DEF CreateTx, Progress, RemoveTx, Activate, Land, Replay, Abort, SettleTail, Begin
  <1>. QED
    BY <1>2, <1>3, CommandKeeps

\* The inductive invariant: whatever a power loss may leave is safe, and what the
\* running command has still to do keeps it so.
THEOREM InvHolds == Spec => []IInv
  <1>1. Init => IInv
    BY InitInv
  <1>2. IInv /\ [Next]_vars => IInv'
    <2>. SUFFICES ASSUME IInv, [Next]_vars PROVE IInv'
      OBVIOUS
    <2>. QED
      BY CommandsKeep, EffectKeeps, CrashKeeps, PowerLossKeeps, WriteBackKeeps, WriteKeeps,
         TurnKeeps, StutterKeeps DEF Next
  <1>. QED
    BY <1>1, <1>2, PTL DEF Spec

------------------------------------------------------------------------------
(* What the invariant gives                                                  *)

\* The type of the state holds in every behaviour, whatever a power loss took.
THEOREM TypeCorrect == Spec => []TypeOK
  <1>1. IInv => TypeOK
    <2>. SUFFICES ASSUME IInv PROVE TypeOK
      OBVIOUS
    <2>1. ShapeInv /\ Local(vis, native) /\ native \in Nat
      BY InvReady DEF IInv, Ready, Safe
    <2>2. DOMAIN vis = Files /\ DOMAIN dur = Files /\ DOMAIN late = Dirs
      BY <2>1 DEF ShapeInv, Whole
    <2>3. /\ \A f \in Git : vis[f] \in Images \cup {None}
          /\ vis["link"] \in {None, "archive"}
          /\ \A c \in ClaimSet : vis[c] \in {"active", "retired"}
          /\ vis["rec"] \in Receipts \cup {None}
      BY <2>1 DEF Local, LocalGit, LocalStore, LocalJournal
    <2>4. Intent # None => Intent \in Journals /\ Intent.consumed \in 0..native
      <3>1. Intent # None => Sound(Intent, native)
        BY <2>1, JournalFacts DEF Intent, JournalIn
      <3>2. Intent # None => Intent \in Journals /\ Intent.consumed <= native
        BY <3>1 DEF Sound
      <3>3. \A j \in Journals : j.consumed \in Nat
        BY DEF Journals
      <3>. QED
        BY <2>1, <3>2, <3>3
    <2>5. ASSUME NEW d \in Dirs, NEW f \in Files, f \in d
          PROVE  vis[f] = OnDisk(f, d, Len(late[d]))
      <3>1. Kept(vis, d, late[d], dur, Len(late[d]))
        BY <2>1 DEF ShapeInv
      <3>2. vis[f] = Last(late[d], Len(late[d]), f, dur[f])
        BY <2>5, <3>1 DEF Kept
      <3>. QED
        BY <3>2, OnDiskIsLast
    <2>6. \A i \in 1..Len(todo) : todo[i].do \in {"put", "sync", "expect", "cas"}
      <3>1. todo \in Seq(Effects)
        BY DEF IInv, PlanInv, Runs
      <3>2. ASSUME NEW i \in 1..Len(todo) PROVE todo[i] \in Effects
        BY <3>1, ElementOfSeq
      <3>3. \A e \in Effects : e.do \in {"put", "sync", "expect", "cas"}
        BY DEF Effects
      <3>. QED
        BY <3>2, <3>3
    <2>7. /\ native \in 0..MaxRecords /\ kills \in 0..MaxKills /\ losses \in 0..MaxLosses
          /\ head \in Seq(Commits) /\ \A d \in Dirs : stale[d] \in 0..Len(late[d])
      BY <2>1 DEF ShapeInv
    <2>. QED
      BY <2>2, <2>3, <2>4, <2>5, <2>6, <2>7 DEF TypeOK
  <1>. QED
    BY <1>1, InvHolds, PTL

\* The journal pair can be read at every moment and after any power loss, even one that
\* takes what a command had found.
THEOREM AlwaysReadable == Spec => []JournalReadable
  <1>1. IInv => JournalReadable
    <2>. SUFFICES ASSUME IInv PROVE JournalReadable
      OBVIOUS
    <2>1. Local(vis, native)
      BY InvReady DEF Ready, Safe
    <2>. QED
      BY <2>1 DEF Local, LocalJournal, JournalReadable
  <1>. QED
    BY <1>1, InvHolds, PTL

\* What the files and the branch have to do with each other unless a power
\* loss took what a command had found.
LEMMA InvFits ==
    ASSUME IInv, ~lost
    PROVE  /\ Fits(vis, Log(head), Intent) /\ head \in Seq(Commits) /\ Local(vis, native)
           /\ (Intent # None => Intent \in Journals /\ Sound(Intent, native))
  <1>1. Ready
    BY InvReady
  <1>2. Local(vis, native) /\ head \in Seq(Commits)
    BY <1>1 DEF Ready, Safe
  <1>3. Intent # None => Sound(Intent, native)
    BY <1>2, JournalFacts DEF Intent, JournalIn
  <1>4. Intent # None => Intent \in Journals
    BY <1>3 DEF Sound
  <1>. QED
    BY <1>1, <1>2, <1>3, <1>4, ReadyFits

\* The commits that carry records are the log.
LEMMA CarryingIs ==
    ASSUME head \in Seq(Commits)
    PROVE  /\ Carrying = DOMAIN Log(head) /\ Merges \subseteq Carrying
           /\ \A i \in Carrying : Log(head)[i] = head[i] /\ i \in Nat
           /\ Carrying \in SUBSET (0..Len(head)) /\ Len(head) \in Nat
  <1>1. Len(head) \in Nat
    BY LenProperties
  <1>. QED
    BY <1>1 DEF Carrying, Log, Merges

\* The log of a branch with one commit.
LEMMA LogSingle ==
    ASSUME NEW c \in Commits, c.kind = "merge", NEW p, p = <<>>
    PROVE  /\ DOMAIN Log(Append(p, c)) = {1} /\ Log(Append(p, c))[1] = c
           /\ (c.from = 0 => Chained(Log(Append(p, c))))
  <1>1. p \in Seq(Commits) /\ Len(p) + 1 = 1 /\ DOMAIN Log(p) = {} /\ c.kind # "turn"
    BY LogEmpty, EmptySeq
  <1>2. DOMAIN Log(Append(p, c)) = {1} /\ Log(Append(p, c))[1] = c
    <2>. DEFINE n == Len(p) + 1
                l == Log(Append(p, c))
    <2>1. DOMAIN l = DOMAIN Log(p) \cup {n} /\ l[n] = c
      BY <1>1, LogAppend
    <2>2. n = 1 /\ DOMAIN Log(p) = {}
      BY <1>1
    <2>. HIDE DEF n, l
    <2>3. DOMAIN l = {1} /\ l[1] = c
      BY <2>1, <2>2
    <2>. QED
      BY <2>3 DEF l
  <1>3. c.from = 0 => Chained(Log(Append(p, c)))
    BY <1>1, LogChained
  <1>. QED
    BY <1>2, <1>3

\* The publication of a journal is well formed.
LEMMA PubFacts ==
    ASSUME NEW j \in Journals, j.pub # None
    PROVE  /\ j.pub \in Publications /\ j.pub.old \in Seq(Commits) /\ j.pub.commit \in Commits
           /\ Candidate(j.pub) = Append(j.pub.old, j.pub.commit)
           /\ j.pub.commit.upto \in Nat /\ j.consumed \in Nat
  <1>1. j.pub \in Publications /\ j.consumed \in Nat
    BY DEF Journals
  <1>2. j.pub.old \in Seq(Commits) /\ j.pub.commit \in Commits
    BY <1>1 DEF Publications
  <1>3. j.pub.commit.upto \in Nat
    BY <1>2 DEF Commits
  <1>. QED
    BY <1>1, <1>2, <1>3 DEF Candidate

\* Whatever the journal says, the records on the branch are chained.
LEMMA FitsChained ==
    ASSUME NEW v, NEW l, NEW j, Fits(v, l, j), j # None => j \in Journals
    PROVE  Chained(l)
  <1>1. CASE DOMAIN l = {}
    BY <1>1 DEF Chained
  <1>2. CASE DOMAIN l # {}
    <2>1. j # None /\ j \in Journals
      BY <1>2 DEF Fits, GoodNone
    <2>2. j.phase \in {"preparing", "open", "landed", "aborting", "aborted"}
      BY <2>1 DEF Journals
    <2>3. j.phase \in {"open", "landed"}
      BY <1>2, <2>1, <2>2 DEF Fits, GoodPreparing, GoodAborting, GoodAborted
    <2>4. CASE j.phase = "landed"
      BY <2>1, <2>4 DEF Fits, GoodLanded
    <2>5. CASE j.phase = "open"
      <3>1. GoodOpen(v, l, j)
        BY <2>1, <2>5 DEF Fits
      <3>2. /\ j.pub # None /\ j.pub.old = <<>> /\ j.pub.commit.kind = "merge"
            /\ j.pub.commit.from = 0 /\ l = Log(Candidate(j.pub))
        BY <1>2, <3>1 DEF GoodOpen
      <3>3. j.pub.commit \in Commits /\ Candidate(j.pub) = Append(j.pub.old, j.pub.commit)
        BY <2>1, <3>2, PubFacts
      <3>. QED
        BY <3>2, <3>3, LogSingle
    <2>. QED
      BY <2>3, <2>4, <2>5
  <1>. QED
    BY <1>1, <1>2

\* A landed journal's frontier does not run ahead of the branch.
LEMMA LandedEnds ==
    ASSUME NEW v, NEW l, NEW j \in Journals, GoodLanded(v, l, j)
    PROVE  \E n \in Nat : EndsAt(l, n) /\ j.consumed <= n
  <1>1. j.consumed \in Nat
    BY DEF Journals
  <1>2. CASE j.pub = None
    BY <1>1, <1>2 DEF GoodLanded
  <1>3. CASE j.pub # None
    <2>1. /\ EndsAt(Log(j.pub.old), j.consumed) /\ j.pub.commit.kind = "tail"
          /\ j.consumed <= j.pub.commit.upto /\ l \in {Log(j.pub.old), Log(Candidate(j.pub))}
      BY <1>3 DEF GoodLanded
    <2>2. /\ j.pub.old \in Seq(Commits) /\ j.pub.commit \in Commits /\ j.pub.commit.upto \in Nat
          /\ Candidate(j.pub) = Append(j.pub.old, j.pub.commit)
      BY <1>3, PubFacts
    <2>3. CASE l = Log(j.pub.old)
      BY <1>1, <2>1, <2>3
    <2>4. CASE l = Log(Candidate(j.pub))
      <3>1. PICK p, c : p = j.pub.old /\ c = j.pub.commit
        OBVIOUS
      <3>2. EndsAt(Log(Append(p, c)), c.upto)
        BY <2>1, <2>2, <3>1, LogEnds
      <3>. QED
        BY <2>1, <2>2, <2>4, <3>1, <3>2
    <2>. QED
      BY <2>1, <2>3, <2>4
  <1>. QED
    BY <1>2, <1>3

\* The records on the branch, from the phase of the journal.
LEMMA InvCaptured == IInv => CapturedOnce
  <1>. SUFFICES ASSUME IInv, ~lost PROVE CapturedOnce
    BY DEF CapturedOnce
  <1>. DEFINE l == Log(head)
              n == Len(head)
  <1>1. /\ Fits(vis, l, Intent) /\ head \in Seq(Commits)
        /\ (Intent # None => Intent \in Journals)
    BY InvFits
  <1>2. /\ Carrying = DOMAIN l /\ n \in Nat /\ Carrying \in SUBSET (0..n)
        /\ \A i \in Carrying : l[i] = head[i] /\ i \in Nat
    BY <1>1, CarryingIs
  <1>3. Chained(l)
    BY <1>1, FitsChained
  <1>. HIDE DEF l, n
  <1>4. ASSUME NEW i \in Carrying
        PROVE  LET before == {k \in Carrying : k < i}
               IN /\ head[i].kind = IF before = {} THEN "merge" ELSE "tail"
                  /\ head[i].from = IF before = {} THEN 0 ELSE head[Max(before)].upto
    <2>. DEFINE before == {k \in Carrying : k < i}
    <2>1. /\ l[i].kind = IF before = {} THEN "merge" ELSE "tail"
          /\ l[i].from = IF before = {} THEN 0 ELSE l[Max(before)].upto
      BY <1>2, <1>3, Zenon DEF Chained
    <2>2. before \in SUBSET (0..n) /\ before \subseteq Carrying
      BY <1>2
    <2>. HIDE DEF before
    <2>3. before # {} => Max(before) \in Carrying
      BY <1>2, <2>2, MaxFacts
    <2>4. before # {} => l[Max(before)] = head[Max(before)]
      BY <1>2, <2>3
    <2>5. l[i] = head[i]
      BY <1>2
    <2>6. /\ head[i].kind = IF before = {} THEN "merge" ELSE "tail"
          /\ head[i].from = IF before = {} THEN 0 ELSE head[Max(before)].upto
      BY <2>1, <2>4, <2>5
    <2>. QED
      BY <2>6 DEF before
  <1>5. ASSUME Intent # None, Intent.phase = "landed"
        PROVE  Carrying # {} /\ Intent.consumed <= head[Max(Carrying)].upto
    <2>1. Intent \in Journals /\ GoodLanded(vis, l, Intent)
      BY <1>1, <1>5 DEF Fits
    <2>2. PICK m \in Nat : EndsAt(l, m) /\ Intent.consumed <= m
      BY <2>1, LandedEnds
    <2>3. PICK a \in Carrying : l[a].upto = m /\ \A k \in Carrying : k <= a
      BY <1>2, <2>2 DEF EndsAt
    <2>4. Max(Carrying) = a
      BY <1>2, <2>3, MaxIs
    <2>. QED
      BY <1>2, <2>2, <2>3, <2>4
  <1>. QED
    BY <1>4, <1>5 DEF CapturedOnce

\* Every native record reaches the branch at most once and in order, for every number
\* of crashes, power losses and retries, unless a power loss takes what a command
\* had found of a dead one.
THEOREM RecordsCapturedOnce == Spec => []CapturedOnce
  <1>1. IInv => CapturedOnce
    BY InvCaptured
  <1>. QED
    BY <1>1, InvHolds, PTL

\* A journal that cancels has an empty log beside it.
LEMMA InvCancelled == IInv /\ ~lost => CancelledNeverLanded
  <1>. SUFFICES ASSUME IInv, ~lost PROVE CancelledNeverLanded
    OBVIOUS
  <1>1. Fits(vis, Log(head), Intent) /\ head \in Seq(Commits)
    BY InvFits
  <1>2. Merges \subseteq DOMAIN Log(head)
    BY <1>1, CarryingIs
  <1>. QED
    BY <1>1, <1>2 DEF CancelledNeverLanded, Fits, GoodAborting, GoodAborted

\* A merge that is being cancelled, or was, is not on the branch, unless a power loss
\* took what a command had found of a dead one.
THEOREM CancelledStaysOut == Spec => [](~lost => CancelledNeverLanded)
  <1>1. IInv => (~lost => CancelledNeverLanded)
    BY InvCancelled
  <1>. QED
    BY <1>1, InvHolds, PTL

\* A carrier, from the phase of the journal beside it.
LEMMA InvCarrier == IInv /\ ~lost => CarrierIsProof
  <1>. SUFFICES ASSUME IInv, ~lost PROVE CarrierIsProof
    OBVIOUS
  <1>. DEFINE l == Log(head)
  <1>1. /\ Fits(vis, l, Intent) /\ head \in Seq(Commits)
        /\ (Intent # None => Intent \in Journals)
    BY InvFits
  <1>2. /\ Carrying = DOMAIN l /\ Merges \subseteq DOMAIN l
        /\ \A i \in Carrying : l[i] = head[i]
    BY <1>1, CarryingIs
  <1>3. Intent # None => Intent.phase \in {"preparing", "open", "landed", "aborting", "aborted"}
    BY <1>1 DEF Journals
  <1>. HIDE DEF l
  <1>4. ASSUME vis["landed"] # None
        PROVE  /\ vis["aborted"] = None
               /\ \E i \in Merges : head[i].picks = vis["landed"].picks
    <2>1. Intent # None /\ Intent.phase = "landed"
      BY <1>1, <1>3, <1>4
         DEF Fits, GoodNone, GoodPreparing, GoodOpen, GoodAborting, GoodAborted, NoCarrier
    <2>2. vis["aborted"] = None /\ vis["landed"] = Intent.image /\ Merged(l, Intent.image)
      BY <1>1, <1>4, <2>1 DEF Fits, GoodLanded
    <2>3. PICK i \in DOMAIN l : l[i].kind = "merge" /\ l[i].picks = Intent.image.picks
      BY <2>2 DEF Merged
    <2>4. i \in Merges /\ head[i].picks = vis["landed"].picks
      BY <1>2, <2>2, <2>3 DEF Carrying, Merges
    <2>. QED
      BY <2>2, <2>4
  <1>5. ASSUME vis["aborted"] # None
        PROVE  Merges = {} /\ \A c \in ClaimSet : vis[c] = "active"
    <2>1. Intent # None /\ Intent.phase = "aborted"
      BY <1>1, <1>3, <1>5
         DEF Fits, GoodNone, GoodPreparing, GoodOpen, GoodAborting, GoodLanded, NoCarrier
    <2>2. DOMAIN l = {} /\ ClaimsAre(vis, "active")
      BY <1>1, <2>1 DEF Fits, GoodAborted
    <2>. QED
      BY <1>2, <2>2 DEF ClaimsAre
  <1>. QED
    BY <1>4, <1>5 DEF CarrierIsProof

\* A completion carrier proves what it says: the landing it names is on the branch, or
\* the claims are back, unless a power loss took what a command had found of a dead one.
THEOREM CarriersProve == Spec => [](~lost => CarrierIsProof)
  <1>1. IInv => (~lost => CarrierIsProof)
    BY InvCarrier
  <1>. QED
    BY <1>1, InvHolds, PTL

\* While the exploration is open or has landed it is the branch's only writer, unless a
\* power loss took what a command had found of a dead one.
THEOREM OnlyClaimant == Spec => []OneClaimant
  <1>1. IInv => OneClaimant
    <2>. SUFFICES ASSUME IInv, ~lost PROVE OneClaimant
      BY DEF OneClaimant
    <2>1. Fits(vis, Log(head), Intent)
      BY InvFits
    <2>. QED
      BY <2>1 DEF OneClaimant, Fits, GoodOpen, GoodLanded, ClaimsAre
  <1>. QED
    BY <1>1, InvHolds, PTL

\* A branch without ordinary turns is its log.
LEMMA NoTurns ==
    ASSUME head \in Seq(Commits), Turns = 0
    PROVE  DOMAIN Log(head) = 1..Len(head) /\ Len(head) \in Nat
           /\ (DOMAIN Log(head) = {} => head = <<>>)
  <1>. DEFINE S == {i \in 1..Len(head) : head[i].kind = "turn"}
  <1>1. Len(head) \in Nat
    BY LenProperties
  <1>2. S = {}
    <2>1. IsFiniteSet(1..Len(head))
      BY <1>1, FS_Interval
    <2>2. IsFiniteSet(S)
      BY <2>1, FS_Subset
    <2>3. Cardinality(S) = 0
      BY DEF Turns
    <2>. HIDE DEF S
    <2>. QED
      BY <2>2, <2>3, FS_EmptySet
  <1>3. DOMAIN Log(head) = 1..Len(head)
    BY <1>2, LogDomain
  <1>4. DOMAIN Log(head) = {} => Len(head) = 0
    <2>. DEFINE n == Len(head)
    <2>1. n # 0 => 1 \in 1..n
      BY <1>1
    <2>. HIDE DEF n
    <2>2. DOMAIN Log(head) = {} => n = 0
      BY <1>3, <2>1 DEF n
    <2>. QED
      BY <2>2 DEF n
  <1>. QED
    BY <1>1, <1>3, <1>4, EmptySeq

\* Before the exploration opens and while it is being cancelled, `--abort` is accepted.
LEMMA InvAbortable ==
    ASSUME IInv, ~lost, Turns = 0, Intent # None, Intent.phase \in {"preparing", "aborting"}
    PROVE  Abortable
  <1>. DEFINE l == Log(head)
              j == Intent
  <1>1. Fits(vis, l, j) /\ head \in Seq(Commits)
    BY InvFits
  <1>2. DOMAIN l = {} => head = <<>>
    BY <1>1, NoTurns
  <1>. HIDE DEF l
  <1>3. CASE j.phase = "preparing"
    <2>1. GoodPreparing(vis, l, j)
      BY <1>1, <1>3 DEF Fits
    <2>2. head = <<>> /\ Ours(j.image) /\ vis["tx"] \in {j.image, Bound(j.image)}
      BY <1>2, <2>1 DEF GoodPreparing
    <2>3. vis["tx"] \notin {None, Other}
      BY <2>2, BoundFacts
    <2>4. IsUnlanded(j)
      BY <1>3, <2>2, <2>3 DEF IsUnlanded, Cancellable
    <2>. QED
      BY <2>4 DEF Abortable
  <1>4. CASE j.phase = "aborting"
    <2>1. GoodAborting(vis, l, j)
      BY <1>1, <1>4 DEF Fits
    <2>2. head = <<>> /\ vis["tx"] = j.image /\ j.linked = (vis["link"] # None)
      BY <1>2, <2>1 DEF GoodAborting
    <2>3. IsAborting(j)
      BY <1>4, <2>2, Zenon DEF IsAborting
    <2>. QED
      BY <2>3 DEF Abortable
  <1>. QED
    BY <1>3, <1>4

\* What can be done with the merge, by the phase of its journal.
LEMMA InvWedged == IInv => NeverWedged
  <1>. SUFFICES ASSUME IInv, ~lost, Turns = 0 PROVE Completable
    BY DEF NeverWedged
  <1>. DEFINE l == Log(head)
              j == Intent
  <1>1. Fits(vis, l, j) /\ head \in Seq(Commits) /\ (j # None => j \in Journals)
    BY InvFits
  <1>2. DOMAIN l = 1..Len(head) /\ Len(head) \in Nat /\ (DOMAIN l = {} => head = <<>>)
    BY <1>1, NoTurns
  <1>3. CASE j = None
    <2>1. GoodNone(vis, l)
      BY <1>1, <1>3 DEF Fits
    <2>. QED
      BY <1>2, <1>3, <2>1 DEF GoodNone, ClaimsAre, Completable
  <1>4. CASE j # None
    <2>1. j.phase \in {"preparing", "open", "landed", "aborting", "aborted"} /\ j \in Journals
      BY <1>1, <1>4 DEF Journals
    <2>2. ASSUME Abortable PROVE Completable
      BY <1>4, <2>2 DEF Completable
    <2>. HIDE DEF l
    <2>3. CASE j.phase \in {"preparing", "aborting"}
      BY <1>4, <2>2, <2>3, InvAbortable
    <2>4. CASE j.phase = "open"
      <3>1. GoodOpen(vis, l, j)
        BY <1>1, <1>4, <2>4 DEF Fits
      <3>2. /\ vis["link"] = "archive" /\ \A c \in ClaimSet : vis[c] = "retired"
            /\ Ours(vis["tx"]) /\ vis["tx"].bound
        BY <3>1 DEF GoodOpen, ClaimsAre
      <3>3. vis["tx"] \notin {None, Other}
        BY <3>2, BoundFacts
      <3>4. CASE DOMAIN l = {}
        <4>1. IsUnlanded(j)
          BY <1>2, <2>4, <3>2, <3>3, <3>4 DEF IsUnlanded, Cancellable
        <4>. QED
          BY <1>4, <2>2, <4>1 DEF Abortable
      <3>5. CASE DOMAIN l # {}
        <4>1. /\ j.pub # None /\ vis["tx"] = j.image /\ j.pub.old = <<>>
              /\ j.pub.commit.kind = "merge" /\ l = Log(Candidate(j.pub))
          BY <3>1, <3>5 DEF GoodOpen
        <4>2. PICK p, c : p = j.pub.old /\ c = j.pub.commit
          OBVIOUS
        <4>3. c \in Commits /\ c.kind = "merge" /\ p = <<>> /\ Candidate(j.pub) = Append(p, c)
          BY <2>1, <4>1, <4>2, PubFacts
        <4>4. DOMAIN l = {1} /\ l[1] = c
          <5>. DEFINE m == Log(Append(p, c))
          <5>1. DOMAIN m = {1} /\ m[1] = c
            BY <4>3, LogSingle
          <5>2. l = m
            BY <4>1, <4>3
          <5>. HIDE DEF m
          <5>. QED
            BY <5>1, <5>2
        <4>5. Len(head) = 1
          BY <1>2, <4>4
        <4>6. head[1] = c
          BY <1>1, <4>4, LogDomain DEF l
        <4>7. head = <<c>> /\ Append(p, c) = <<c>>
          BY <1>1, <4>3, <4>5, <4>6
        <4>8. IsLanding(j)
          BY <2>4, <4>1, <4>3, <4>7 DEF IsLanding, Visible
        <4>. QED
          BY <1>4, <2>2, <4>8 DEF Abortable
      <3>. QED
        BY <3>4, <3>5
    <2>5. CASE j.phase = "landed"
      <3>1. (vis["tx"] = j.image /\ vis["landed"] \in {None, j.image}) \/ vis["landed"] = j.image
        BY <1>1, <1>4, <2>5 DEF Fits, GoodLanded
      <3>2. CASE vis["landed"] = j.image
        BY <1>4, <2>5, <3>2 DEF Completable
      <3>3. CASE vis["tx"] = j.image /\ vis["landed"] \in {None, j.image}
        <4>1. HasLanded(j)
          BY <2>5, <3>3 DEF HasLanded, Retirable
        <4>. QED
          BY <1>4, <2>2, <4>1 DEF Abortable
      <3>. QED
        BY <3>1, <3>2, <3>3
    <2>6. CASE j.phase = "aborted"
      <3>1. GoodAborted(vis, l, j)
        BY <1>1, <1>4, <2>6 DEF Fits
      <3>2. /\ head = <<>> /\ \A c \in ClaimSet : vis[c] = "active"
            /\ (vis["tx"] = j.image /\ vis["aborted"] \in {None, j.image}) \/ vis["aborted"] = j.image
        BY <1>2, <3>1 DEF GoodAborted, ClaimsAre
      <3>5. (vis["link"] # None) = j.linked
        BY <3>1, Zenon DEF GoodAborted
      <3>3. CASE vis["aborted"] = j.image
        BY <1>4, <2>6, <3>3 DEF Completable
      <3>4. CASE vis["tx"] = j.image /\ vis["aborted"] \in {None, j.image}
        <4>1. HasAborted(j)
          <5>1. Retirable("aborted", j.image)
            BY <3>4 DEF Retirable
          <5>. QED
            BY <2>6, <3>2, <3>5, <5>1, Zenon DEF HasAborted
        <4>. QED
          BY <1>4, <2>2, <4>1 DEF Abortable
      <3>. QED
        BY <3>2, <3>3, <3>4
    <2>. QED
      BY <2>1, <2>3, <2>4, <2>5, <2>6
  <1>. QED
    BY <1>3, <1>4

\* No fault wedges the merge: at every moment at which nobody moved the branch by
\* other means it can be cancelled, its landing finished, or it is completed, for every
\* number of commands that die and of power losses, unless one took what a later
\* command had found.
THEOREM MergeNeverWedged == Spec => []NeverWedged
  <1>1. IInv => NeverWedged
    BY InvWedged
  <1>. QED
    BY <1>1, InvHolds, PTL

=============================================================================
