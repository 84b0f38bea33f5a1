---------------------------- MODULE SnapshotCopy ----------------------------
(***************************************************************************)
(* safe_copy_chatdb (imsg/db.py): chat.db and its WAL are copied file by   *)
(* file while Messages.app commits, checkpoints and begins the WAL anew,   *)
(* and the copy is then checkpointed.  The WAL protocol is SQLite's.       *)
(* chat.db-shm is left out: whoever opens the copy rebuilds it.            *)
(*                                                                         *)
(* A page holds the transactions that wrote it.  A WAL holds the           *)
(* transactions from + 1 .. to, each with the whole pages it left behind.  *)
(***************************************************************************)
EXTENDS Integers

CONSTANTS
  Pages,        \* number of pages of chat.db
  MaxCommits,   \* bound: Messages.app stops there
  Writes,       \* Writes[i]: the pages that transaction i writes
  Dirs          \* destination directories

ASSUME CopyAssumption ==
  /\ Pages \in Nat /\ MaxCommits \in Nat
  /\ Writes \in [1..MaxCommits -> SUBSET (1..Pages)]

VARIABLES
  commits,    \* transactions Messages.app has committed
  db,         \* the file chat.db
  walFrom,    \* chat.db-wal holds walFrom + 1 .. commits; no such file if none
  step,       \* where safe_copy_chatdb is
  at,         \* the next page it copies
  into,       \* dst_dir
  disk,       \* the files of each directory
  began,      \* history: commits when the copy began
  got,        \* history: commits when the WAL was copied
  restarted,  \* history: the WAL was begun anew or removed under the copy
  leftover    \* history: dst_dir held a WAL that this copy did not replace

appVars == <<commits, db, walFrom>>
copyVars == <<step, at, into, disk, began, got, leftover>>
copierVars == <<appVars, copyVars, restarted>>

Page == SUBSET (1..MaxCommits)
Files == [db : [1..Pages -> Page], from : 0..MaxCommits, to : 0..MaxCommits]

\* the page p as transaction n left it
PageAt(p, n) == {i \in 1..n : p \in Writes[i]}
StateAt(n) == [p \in 1..Pages |-> PageAt(p, n)]

\* a database d with the WAL from + 1 .. to folded into it
Replay(d, from, to) ==
  [p \in 1..Pages |-> IF \E i \in from + 1..to : p \in Writes[i] THEN PageAt(p, to) ELSE d[p]]

NoFiles == [db |-> StateAt(0), from |-> 0, to |-> 0]

CopyTypeOK ==
  /\ commits \in 0..MaxCommits /\ walFrom \in 0..commits
  /\ db \in [1..Pages -> Page]
  /\ step \in {"idle", "db", "checkpoint", "done"}
  /\ at \in 1..Pages + 1 /\ into \in Dirs
  /\ disk \in [Dirs -> Files]
  /\ began \in 0..commits /\ got \in 0..commits
  /\ restarted \in BOOLEAN /\ leftover \in BOOLEAN

CopyInit ==
  /\ commits = 0 /\ db = StateAt(0) /\ walFrom = 0
  /\ step = "idle" /\ at = 1 /\ into \in Dirs
  /\ disk = [d \in Dirs |-> NoFiles]
  /\ began = 0 /\ got = 0 /\ restarted = FALSE /\ leftover = FALSE

-----------------------------------------------------------------------------
(* Messages.app                                                              *)

Checkpointed == db = StateAt(commits)

\* chat.db or its WAL is still to be copied
Copying == step = "db"

\* a WAL that is wholly checkpointed may be begun anew by the next transaction
Commit ==
  /\ commits < MaxCommits /\ commits' = commits + 1
  /\ \/ UNCHANGED <<walFrom, restarted>>
     \/ /\ Checkpointed /\ walFrom' = commits
        /\ restarted' = (restarted \/ (Copying /\ walFrom' # walFrom))
  /\ UNCHANGED <<db, copyVars>>

\* a checkpoint moves the newest version of a page from the WAL to chat.db
CheckpointPage(p) ==
  /\ db' = [db EXCEPT ![p] = PageAt(p, commits)] /\ db' # db
  /\ UNCHANGED <<commits, walFrom, copyVars, restarted>>

\* the last connection is closed: SQLite removes the WAL
Close ==
  /\ Checkpointed /\ walFrom < commits /\ walFrom' = commits
  /\ restarted' = (restarted \/ Copying)
  /\ UNCHANGED <<commits, db, copyVars>>

AppStep == Commit \/ Close \/ \E p \in 1..Pages : CheckpointPage(p)

-----------------------------------------------------------------------------
(* safe_copy_chatdb                                                          *)

Begin(d) ==
  /\ step = "idle" /\ step' = "db" /\ at' = 1 /\ into' = d
  /\ began' = commits /\ restarted' = FALSE /\ leftover' = FALSE
  /\ UNCHANGED <<appVars, disk, got>>

\* what dst_dir holds next: the pages, and a WAL with from + 1 .. to
Puts(pages, from, to) ==
  disk' = [disk EXCEPT ![into] = [db |-> pages, from |-> from, to |-> to]]

\* shutil.copy2 of chat.db, page after page
CopyPage ==
  /\ step = "db" /\ at <= Pages
  /\ Puts([disk[into].db EXCEPT ![at] = db[at]], disk[into].from, disk[into].to)
  /\ at' = at + 1
  /\ UNCHANGED <<appVars, step, into, began, got, restarted, leftover>>

\* only chat.db is copied
CopyWal_Skipped ==
  /\ step = "db" /\ at > Pages /\ step' = "checkpoint"
  /\ got' = commits
  /\ UNCHANGED <<appVars, at, into, disk, began, restarted, leftover>>

\* src.exists(): a WAL that is not there is not copied, and the one that an
\* earlier copy may have left in dst_dir stays
CopyWal ==
  /\ step = "db" /\ at > Pages /\ step' = "checkpoint"
  /\ IF walFrom < commits THEN Puts(disk[into].db, walFrom, commits) ELSE UNCHANGED disk
  /\ leftover' = (walFrom = commits /\ disk[into].from < disk[into].to)
  /\ got' = commits
  /\ UNCHANGED <<appVars, at, into, began, restarted>>

\* the copy is opened as it is, immutable=1: its WAL is not read
Checkpoint_Skipped ==
  /\ step = "checkpoint" /\ step' = "done"
  /\ UNCHANGED <<appVars, at, into, disk, began, got, restarted, leftover>>

\* PRAGMA wal_checkpoint(TRUNCATE); the last close removes the copy's WAL
Checkpoint ==
  /\ step = "checkpoint" /\ step' = "done"
  /\ Puts(Replay(disk[into].db, disk[into].from, disk[into].to), 0, 0)
  /\ UNCHANGED <<appVars, at, into, began, got, restarted, leftover>>

CopyStep == CopyPage \/ CopyWal \/ Checkpoint

\* a file that is gone or refused, a full disk, the death of the process
CopyFails ==
  /\ step \in {"db", "checkpoint"} /\ step' = "idle"
  /\ UNCHANGED <<appVars, at, into, disk, began, got, restarted, leftover>>

\* the snapshot has been read
Release ==
  /\ step = "done" /\ step' = "idle"
  /\ UNCHANGED <<appVars, at, into, disk, began, got, restarted, leftover>>

CopyNext ==
  AppStep \/ CopyStep \/ CopyFails \/ Release \/ \E d \in Dirs : Begin(d)

CopySpec == CopyInit /\ [][CopyNext]_copierVars

-----------------------------------------------------------------------------
(* Properties                                                                *)

\* db.py:24-43.  What Messages.app commits and checkpoints during a copy does no
\* harm as long as it does not begin the WAL anew and no WAL was left behind:
\* the copy is then chat.db as it was when the WAL was copied, whole.
CopyIsExact ==
  step = "done" /\ ~restarted /\ ~leftover => disk[into].db = StateAt(got)

\* DOCUMENTATION.md:101, "runs PRAGMA wal_checkpoint on the copy so you don't
\* miss any in-flight messages": what was committed before the copy is in it.
NothingMissed ==
  step = "done" => \A i \in 1..began : \A p \in Writes[i] : i \in disk[into].db[p]

-----------------------------------------------------------------------------
(* The inductive invariant behind CopyIsExact                                *)

\* the version of page p is one that the WAL begins with or has a successor of
SinceWal(p, v) == \E n \in walFrom..commits : v = PageAt(p, n)

\* what is copied of chat.db the WAL completes, and after it the copy's own does
CopyInv ==
  /\ CopyTypeOK
  /\ \A p \in 1..Pages : SinceWal(p, db[p])
  /\ step = "db" /\ ~restarted =>
       \A p \in 1..Pages : p < at => SinceWal(p, disk[into].db[p])
  /\ step = "checkpoint" /\ ~restarted /\ ~leftover =>
       Replay(disk[into].db, disk[into].from, disk[into].to) = StateAt(got)
  /\ CopyIsExact
=============================================================================
