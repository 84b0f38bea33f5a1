--------------------------- MODULE SnapshotCache ---------------------------
(***************************************************************************)
(* Cache.snapshot (imsg_mcp/store_cache.py): the threads of the server     *)
(* share one copy of chat.db per TTL.  A refresh copies, under the lock,   *)
(* into a directory of its own; a timer removes the directory of the copy  *)
(* before, while its readers finish.  How a copy is made is SnapshotCopy's *)
(* subject: here it is chat.db as it was at one moment.                    *)
(***************************************************************************)
EXTENDS Integers

CONSTANTS
  Threads,
  SnapDirs,  \* snap-<milliseconds>: every refresh has its own
  NoDir, NoThread,
  TTL,       \* SNAPSHOT_TTL_SECONDS
  Grace,     \* OLD_SNAPSHOT_GRACE_SECONDS
  MaxNow     \* bound: the clock stops there

ASSUME CacheAssumption ==
  /\ TTL \in Nat /\ Grace \in Nat /\ MaxNow \in Nat
  /\ NoDir \notin SnapDirs /\ NoThread \notin Threads

VARIABLES
  now,       \* time.monotonic()
  holder,    \* the thread that has the lock and refreshes
  dstDir,    \* the directory it copies into
  copied,    \* whether its copy is made
  path,      \* _snapshot_path
  takenAt,   \* _snapshot_taken_at
  used,      \* the directories made so far
  gone,      \* those removed since
  due,       \* when the timer of a directory fires; -1: it has none
  copiedAt,  \* the moment the copy in a directory is of
  phase,     \* Threads: "idle", "waiting" for the lock, "reading"
  asked,     \* Threads: the local now of its snapshot() call
  has,       \* Threads: the directory it reads
  since      \* history, Threads: when it was given that directory

refreshVars == <<holder, dstDir, copied>>
dirVars == <<path, takenAt, used, gone, due>>
threadVars == <<phase, asked, has, since>>
vars == <<now, refreshVars, dirVars, copiedAt, threadVars>>

TypeOK ==
  /\ now \in 0..MaxNow
  /\ holder \in Threads \cup {NoThread} /\ dstDir \in SnapDirs \cup {NoDir} /\ copied \in BOOLEAN
  /\ path \in SnapDirs \cup {NoDir} /\ takenAt \in 0..now
  /\ used \subseteq SnapDirs /\ gone \subseteq used
  /\ due \in [SnapDirs -> {-1} \cup Nat] /\ copiedAt \in [SnapDirs -> 0..now]
  /\ phase \in [Threads -> {"idle", "waiting", "reading"}]
  /\ asked \in [Threads -> 0..now] /\ since \in [Threads -> 0..now]
  /\ has \in [Threads -> SnapDirs \cup {NoDir}]

Init ==
  /\ now = 0 /\ holder = NoThread /\ dstDir = NoDir /\ copied = FALSE
  /\ path = NoDir /\ takenAt = 0 /\ used = {} /\ gone = {}
  /\ due = [d \in SnapDirs |-> -1] /\ copiedAt = [d \in SnapDirs |-> 0]
  /\ phase = [t \in Threads |-> "idle"] /\ asked = [t \in Threads |-> 0]
  /\ has = [t \in Threads |-> NoDir] /\ since = [t \in Threads |-> 0]

-----------------------------------------------------------------------------
Tick ==
  /\ now < MaxNow /\ now' = now + 1
  /\ UNCHANGED <<refreshVars, dirVars, copiedAt, threadVars>>

\* time.monotonic() comes before the lock
Call(t) ==
  /\ phase[t] = "idle"
  /\ phase' = [phase EXCEPT ![t] = "waiting"] /\ asked' = [asked EXCEPT ![t] = now]
  /\ UNCHANGED <<now, refreshVars, dirVars, copiedAt, has, since>>

Expired(t) == path = NoDir \/ asked[t] - takenAt > TTL

\* t is inside snapshot() with the lock
Enters(t) == phase[t] = "waiting" /\ holder = NoThread

\* t leaves snapshot() with directory d
Given(t, d) ==
  /\ phase' = [phase EXCEPT ![t] = "reading"]
  /\ has' = [has EXCEPT ![t] = d] /\ since' = [since EXCEPT ![t] = now]
  /\ UNCHANGED asked

Hit(t) ==
  /\ Enters(t) /\ ~Expired(t) /\ Given(t, path)
  /\ UNCHANGED <<now, refreshVars, dirVars, copiedAt>>

\* every copy into the one directory, the default of safe_copy_chatdb
Refresh_SameDir(t) ==
  /\ Enters(t) /\ Expired(t) /\ holder' = t /\ copied' = FALSE
  /\ \E d \in SnapDirs : used \subseteq {d} /\ dstDir' = d /\ used' = {d}
  /\ UNCHANGED <<now, path, takenAt, gone, due, copiedAt, threadVars>>
Refresh(t) ==
  /\ Enters(t) /\ Expired(t) /\ holder' = t /\ copied' = FALSE
  /\ \E d \in SnapDirs \ used : dstDir' = d /\ used' = used \cup {d}
  /\ UNCHANGED <<now, path, takenAt, gone, due, copiedAt, threadVars>>

\* safe_copy_chatdb: the copy is of the moment its WAL was copied
Copy ==
  /\ holder # NoThread /\ ~copied /\ copied' = TRUE
  /\ copiedAt' = [copiedAt EXCEPT ![dstDir] = now]
  /\ UNCHANGED <<now, holder, dstDir, dirVars, threadVars>>

\* threading.Timer(delay, _rm).start() for the directory of the copy before
Schedules_AtOnce(d) == due' = IF d = NoDir THEN due ELSE [due EXCEPT ![d] = now]
Schedules(d) == due' = IF d = NoDir THEN due ELSE [due EXCEPT ![d] = now + Grace]

\* what is kept of the copy that t has made
Remembers_WhenDone(t) == path' = dstDir /\ takenAt' = now
Remembers(t) == path' = dstDir /\ takenAt' = asked[t]

Refreshed ==
  /\ holder # NoThread /\ copied
  /\ Remembers(holder) /\ Schedules(path) /\ Given(holder, dstDir)
  /\ holder' = NoThread /\ dstDir' = NoDir /\ copied' = FALSE
  /\ UNCHANGED <<now, used, gone, copiedAt>>

\* an exception leaves snapshot(): what it was to refresh stays, the directory too
RefreshFails ==
  /\ holder # NoThread
  /\ holder' = NoThread /\ dstDir' = NoDir /\ copied' = FALSE
  /\ phase' = [phase EXCEPT ![holder] = "idle"]
  /\ UNCHANGED <<now, dirVars, copiedAt, asked, has, since>>

\* the caller is done with the files: MessageStore.close, or the end of a query
StopReading(t) ==
  /\ phase[t] = "reading" /\ phase' = [phase EXCEPT ![t] = "idle"]
  /\ has' = [has EXCEPT ![t] = NoDir]
  /\ UNCHANGED <<now, refreshVars, dirVars, copiedAt, asked, since>>

\* _rm, when its timer has fired
Remove(d) ==
  /\ due[d] >= 0 /\ due[d] <= now
  /\ gone' = gone \cup {d} /\ due' = [due EXCEPT ![d] = -1]
  /\ UNCHANGED <<now, refreshVars, path, takenAt, used, copiedAt, threadVars>>

Next ==
  \/ Tick \/ Copy \/ Refreshed \/ RefreshFails
  \/ \E t \in Threads : Call(t) \/ Hit(t) \/ Refresh(t) \/ StopReading(t)
  \/ \E d \in SnapDirs : Remove(d)

Spec == Init /\ [][Next]_vars

-----------------------------------------------------------------------------
(* Properties                                                                *)

\* store_cache.py:25-27, 63-64.  A reader's files stay where they are for the
\* grace window from the moment it was given them, although the timer knows
\* nothing of readers and other threads refresh meanwhile.
GraceIsKept ==
  \A t \in Threads : phase[t] = "reading" /\ has[t] \in gone => now - since[t] >= Grace

\* store_cache.py:52-65.  However long a thread waited for the lock and the copy
\* took, what it reads is chat.db of at most a TTL before its call.
FreshEnough ==
  \A t \in Threads : phase[t] = "reading" => copiedAt[has[t]] >= asked[t] - TTL

-----------------------------------------------------------------------------
(* The inductive invariant behind both                                       *)

\* the cached copy is on disk, without a timer, and as fresh as takenAt says
PathInv ==
  path # NoDir => path \in used \ gone /\ due[path] = -1 /\ copiedAt[path] >= takenAt

\* the thread that refreshes has called, and its directory is nobody else's
RefreshInv ==
  /\ holder = NoThread <=> dstDir = NoDir
  /\ holder # NoThread =>
       /\ phase[holder] = "waiting" /\ dstDir \in used \ gone /\ due[dstDir] = -1 /\ dstDir # path
       /\ copied => copiedAt[dstDir] >= asked[holder]

\* a reader's files are the cached copy, or their timer leaves it the window
ReaderInv ==
  \A t \in Threads : phase[t] = "reading" =>
    /\ has[t] \in used /\ has[t] # dstDir
    /\ \/ has[t] = path
       \/ has[t] \in gone /\ due[has[t]] = -1
       \/ due[has[t]] >= since[t] + Grace

\* the directories that nobody has made yet have no timer
CacheInv ==
  /\ TypeOK /\ PathInv /\ RefreshInv /\ ReaderInv
  /\ \A d \in SnapDirs \ used : due[d] = -1
  /\ GraceIsKept /\ FreshEnough
=============================================================================
