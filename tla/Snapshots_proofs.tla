------------------------- MODULE Snapshots_proofs -------------------------
(* A snapshot is a copy that is made (SnapshotCopy) and then kept for its    *)
(* readers (SnapshotCache): the invariants of both, for every number of      *)
(* pages, commits and threads, any directories, time to live and grace       *)
(* window.  The two have no name in common but those of the libraries.       *)
EXTENDS SnapshotCopy, SnapshotCache, TLAPS

-----------------------------------------------------------------------------
(* The copy                                                                  *)


\* A page is the same after two transactions if none between them writes it.
LEMMA SamePage ==
  ASSUME NEW p, NEW k \in Nat, NEW n \in Nat, k <= n,
         ~ \E i \in k + 1..n : p \in Writes[i]
  PROVE  PageAt(p, k) = PageAt(p, n)
BY DEF PageAt

\* Pages and states are what they should be.
LEMMA PageType ==
  ASSUME NEW n \in 0..MaxCommits
  PROVE  /\ \A p : PageAt(p, n) \in Page
         /\ StateAt(n) \in [1..Pages -> Page]
BY CopyAssumption DEF PageAt, StateAt, Page

\* A database whose pages are versions since the WAL began becomes, with the WAL
\* folded into it, the state the WAL ends with.
LEMMA ReplayCompletes ==
  ASSUME NEW from \in Nat, NEW to \in Nat, NEW d,
         \A p \in 1..Pages : \E n \in from..to : d[p] = PageAt(p, n)
  PROVE  Replay(d, from, to) = StateAt(to)
<1> SUFFICES ASSUME NEW p \in 1..Pages, ~ \E i \in from + 1..to : p \in Writes[i]
             PROVE  d[p] = PageAt(p, to)
  BY DEF Replay, StateAt
<1>1. PICK n \in from..to : d[p] = PageAt(p, n)
  OBVIOUS
<1>2. ~ \E i \in n + 1..to : p \in Writes[i]
  BY <1>1
<1> QED BY <1>1, <1>2, SamePage

\* Files put into dst_dir are what is read from it.
LEMMA PutFiles ==
  ASSUME CopyTypeOK, NEW pages \in [1..Pages -> Page],
         NEW from \in 0..MaxCommits, NEW to \in 0..MaxCommits, Puts(pages, from, to)
  PROVE  /\ disk' \in [Dirs -> Files]
         /\ disk'[into].db = pages /\ disk'[into].from = from /\ disk'[into].to = to
<1> DEFINE files == [db |-> pages, from |-> from, to |-> to]
<1>1. files \in Files
  BY DEF Files
<1> HIDE DEF files
<1>2. disk' = [disk EXCEPT ![into] = files] /\ disk \in [Dirs -> Files] /\ into \in Dirs
  BY DEF Puts, CopyTypeOK, files
<1>3. disk' \in [Dirs -> Files] /\ disk'[into] = files
  BY <1>1, <1>2
<1> QED BY <1>3 DEF files

\* A transaction or a checkpoint of Messages.app preserves the invariant.
LEMMA AppKeepsInv ==
  ASSUME CopyInv, AppStep
  PROVE  CopyInv'
<1> USE CopyAssumption DEF CopyInv
<1>0. /\ commits \in 0..MaxCommits /\ walFrom \in 0..commits /\ restarted \in BOOLEAN
      /\ db \in [1..Pages -> Page] /\ Pages \in Nat /\ MaxCommits \in Nat
  BY DEF CopyTypeOK
<1>1. /\ commits' \in 0..MaxCommits /\ commits <= commits'
      /\ walFrom' \in 0..commits' /\ restarted' \in BOOLEAN
      /\ UNCHANGED copyVars
  <2> HIDE DEF CopyInv
  <2>1. CASE Commit
    <3>1. /\ commits' = commits + 1 /\ commits + 1 <= MaxCommits /\ UNCHANGED copyVars
          /\ walFrom' = walFrom \/ walFrom' = commits
      BY <1>0, <2>1 DEF Commit
    <3>2. restarted' \in BOOLEAN
      BY <1>0, <2>1, Zenon DEF Commit
    <3> QED BY <1>0, <3>1, <3>2
  <2>2. CASE Close
    <3>1. commits' = commits /\ walFrom' = commits /\ UNCHANGED copyVars
      BY <2>2 DEF Close
    <3>2. restarted' \in BOOLEAN
      BY <1>0, <2>2, Zenon DEF Close
    <3> QED BY <1>0, <3>1, <3>2
  <2>3. ASSUME NEW p \in 1..Pages, CheckpointPage(p)
        PROVE  UNCHANGED <<commits, walFrom, copyVars, restarted>>
    BY <2>3 DEF CheckpointPage
  <2> QED BY <1>0, <2>1, <2>2, <2>3 DEF AppStep
<1>2. db' \in [1..Pages -> Page]
  <2>1. ASSUME NEW p \in 1..Pages, CheckpointPage(p)  PROVE db' \in [1..Pages -> Page]
    BY <2>1, PageType DEF CheckpointPage, CopyTypeOK
  <2> QED BY <2>1 DEF AppStep, Commit, Close, CopyTypeOK
<1>3. CopyTypeOK'
  BY <1>1, <1>2 DEF CopyTypeOK, copyVars
<1>4. ASSUME NEW p \in 1..Pages  PROVE SinceWal(p, db[p])'
  <2>1. CASE walFrom' = walFrom /\ db'[p] = db[p]
    <3>1. SinceWal(p, db[p])
      OBVIOUS
    <3> HIDE DEF CopyInv
    <3>2. \E n \in walFrom'..commits' : db'[p] = PageAt(p, n)
      BY <1>0, <1>1, <2>1, <3>1 DEF SinceWal
    <3> QED BY <3>2 DEF SinceWal, PageAt
  <2>2. CASE db'[p] = PageAt(p, commits) /\ walFrom' <= commits
    <3>1. \E n \in walFrom'..commits' : db'[p] = PageAt(p, n)
      BY <1>0, <1>1, <2>2
    <3> QED BY <3>1 DEF SinceWal, PageAt
  <2>3. CASE Commit \/ Close
    <3>1. db'[p] = db[p] /\ (walFrom' # walFrom => db[p] = PageAt(p, commits) /\ walFrom' = commits)
      BY <2>3 DEF Commit, Close, Checkpointed, StateAt
    <3> QED BY <1>0, <2>1, <2>2, <3>1
  <2>4. ASSUME NEW q \in 1..Pages, CheckpointPage(q)
        PROVE  walFrom' = walFrom /\ db'[p] = IF p = q THEN PageAt(p, commits) ELSE db[p]
    BY <1>0, <2>4 DEF CheckpointPage
  <2> QED BY <1>0, <2>1, <2>2, <2>3, <2>4 DEF AppStep
<1>5. ASSUME step' = "db", ~restarted', NEW p \in 1..Pages, p < at'
      PROVE  SinceWal(p, disk[into].db[p])'
  <2>1. step = "db" /\ ~restarted /\ walFrom' = walFrom /\ p < at
    BY <1>1, <1>5 DEF AppStep, Commit, Close, CheckpointPage, Copying, copyVars, CopyTypeOK
  <2>2. \E n \in walFrom..commits : disk[into].db[p] = PageAt(p, n)
    BY <2>1 DEF SinceWal
  <2> QED BY <1>1, <2>1, <2>2 DEF SinceWal, PageAt, copyVars, CopyTypeOK
<1>6. step # "db" => restarted' = restarted
  BY DEF AppStep, Commit, Close, CheckpointPage, Copying, CopyTypeOK
<1>7. /\ step' = step /\ disk' = disk /\ into' = into /\ got' = got /\ leftover' = leftover
  BY <1>1 DEF copyVars
<1>8. (step = "checkpoint" /\ ~restarted /\ ~leftover =>
         Replay(disk[into].db, disk[into].from, disk[into].to) = StateAt(got))'
  BY <1>6, <1>7 DEF Replay, StateAt, PageAt
<1>9. CopyIsExact'
  BY <1>6, <1>7 DEF CopyIsExact, StateAt, PageAt
<1> QED BY <1>3, <1>4, <1>5, <1>8, <1>9

\* safe_copy_chatdb preserves it, wherever it stops.
LEMMA CopyKeepsInv ==
  ASSUME CopyInv, CopyStep \/ CopyFails \/ Release \/ (\E d \in Dirs : Begin(d))
  PROVE  CopyInv'
<1> USE CopyAssumption DEF CopyInv
<1>1. UNCHANGED appVars
  BY DEF CopyStep, CopyPage, CopyWal, Checkpoint, CopyFails, Release, Begin
<1>2. \A p \in 1..Pages : SinceWal(p, db[p])'
  BY <1>1 DEF appVars, SinceWal, PageAt
<1>3. disk[into] \in Files /\ into \in Dirs
  BY DEF CopyTypeOK
<1>4. ASSUME NEW d \in Dirs, Begin(d)  PROVE CopyInv'
  <2>1. at' \in 1..Pages + 1 /\ began' \in 0..commits'
    BY <1>4 DEF Begin, CopyTypeOK, appVars
  <2>2. CopyTypeOK'
    BY <1>4, <2>1 DEF Begin, CopyTypeOK, appVars
  <2>3. \A p \in 1..Pages : ~(p < at')
    BY <1>4 DEF Begin
  <2>4. step' = "db"
    BY <1>4 DEF Begin
  <2> QED BY <1>2, <2>2, <2>3, <2>4 DEF CopyIsExact
<1>5. CASE CopyPage
  <2>1. db[at] \in Page
    BY <1>5 DEF CopyPage, CopyTypeOK
  <2> DEFINE pages == [disk[into].db EXCEPT ![at] = db[at]]
  <2>2. /\ disk' \in [Dirs -> Files]
        /\ \A p \in 1..Pages : disk'[into].db[p] = IF p = at THEN db[at] ELSE disk[into].db[p]
    <3>1. /\ pages \in [1..Pages -> Page] /\ disk[into].from \in 0..MaxCommits
          /\ disk[into].to \in 0..MaxCommits
          /\ \A p \in 1..Pages : pages[p] = IF p = at THEN db[at] ELSE disk[into].db[p]
      BY <1>3, <2>1 DEF Files
    <3> HIDE DEF pages
    <3>2. Puts(pages, disk[into].from, disk[into].to)
      BY <1>5 DEF CopyPage, pages
    <3> QED BY <3>1, <3>2, PutFiles
  <2>3. CopyTypeOK'
    BY <1>5, <2>2 DEF CopyPage, CopyTypeOK, appVars
  <2>4. ASSUME ~restarted', NEW p \in 1..Pages, p < at'
        PROVE  SinceWal(p, disk[into].db[p])'
    <3>1. \E n \in walFrom..commits : disk'[into].db[p] = PageAt(p, n)
      <4>1. step = "db" /\ ~restarted /\ at' = at + 1 /\ at \in 1..Pages + 1
        BY <1>5, <2>4 DEF CopyPage, CopyTypeOK
      <4>2. CASE p = at
        BY <2>2, <4>2 DEF SinceWal
      <4>3. CASE p < at
        BY <2>2, <4>1, <4>3 DEF SinceWal
      <4> QED BY <2>4, <4>1, <4>2, <4>3
    <3> QED BY <1>1, <1>5, <3>1 DEF CopyPage, SinceWal, PageAt, appVars
  <2> QED BY <1>2, <1>5, <2>3, <2>4 DEF CopyPage, CopyIsExact
<1>6. CASE CopyWal
  <2>0. /\ disk[into].db \in [1..Pages -> Page]
        /\ walFrom \in 0..MaxCommits /\ commits \in 0..MaxCommits
    BY <1>3 DEF Files, CopyTypeOK
  <2>1. /\ disk' \in [Dirs -> Files] /\ disk'[into].db = disk[into].db
        /\ walFrom < commits => disk'[into].from = walFrom /\ disk'[into].to = commits
    BY <1>3, <1>6, <2>0, PutFiles DEF CopyWal, CopyTypeOK
  <2>2. CopyTypeOK'
    BY <1>6, <2>1 DEF CopyWal, CopyTypeOK, appVars
  <2>3. ASSUME ~restarted, ~leftover'
        PROVE  Replay(disk'[into].db, disk'[into].from, disk'[into].to) = StateAt(commits)
    <3> DEFINE files == disk'[into]
    <3>1. /\ files.db = disk[into].db
          /\ walFrom < commits => files.from = walFrom /\ files.to = commits
          /\ walFrom = commits => ~(files.from < files.to)
          /\ files.from \in Nat /\ files.to \in Nat
      <4>1. walFrom = commits => ~(disk[into].from < disk[into].to) /\ disk' = disk
        <5>1. ~(walFrom = commits /\ disk[into].from < disk[into].to)
          BY <1>6, <2>3, Zenon DEF CopyWal
        <5>2. walFrom = commits => UNCHANGED disk
          BY <1>6, <2>0 DEF CopyWal
        <5> QED BY <5>1, <5>2
      <4>2. files.from \in Nat /\ files.to \in Nat
        BY <1>3, <2>1, CopyAssumption DEF Files
      <4> QED BY <2>1, <4>1, <4>2
    <3>2. \A p \in 1..Pages : \E n \in walFrom..commits : files.db[p] = PageAt(p, n)
      <4>1. step = "db" /\ ~restarted /\ \A p \in 1..Pages : p < at
        BY <1>6, <2>3 DEF CopyWal, CopyTypeOK
      <4>2. \A p \in 1..Pages : SinceWal(p, disk[into].db[p])
        BY <4>1
      <4> QED BY <3>1, <4>2 DEF SinceWal
    <3>3. walFrom \in Nat /\ commits \in Nat /\ walFrom <= commits
      BY DEF CopyTypeOK
    <3> HIDE DEF files
    <3>4. Replay(files.db, walFrom, commits) = StateAt(commits)
      <4> DEFINE pages == files.db
      <4>1. \A p \in 1..Pages : \E n \in walFrom..commits : pages[p] = PageAt(p, n)
        BY <3>2
      <4>2. walFrom \in Nat /\ commits \in Nat
        BY <3>3
      <4> HIDE DEF pages, CopyInv
      <4>3. Replay(pages, walFrom, commits) = StateAt(commits)
        BY <4>1, <4>2, ReplayCompletes
      <4> QED BY <4>3 DEF pages
    <3> SUFFICES Replay(files.db, files.from, files.to) = StateAt(commits)
      BY DEF files
    <3>5. CASE walFrom < commits
      BY <3>1, <3>4, <3>5
    <3>6. CASE walFrom = commits
      <4>1. /\ \A i \in files.from + 1..files.to : FALSE
            /\ \A i \in walFrom + 1..commits : FALSE
        BY <3>1, <3>3, <3>6
      <4>2. Replay(files.db, files.from, files.to) = [p \in 1..Pages |-> files.db[p]]
        BY <4>1 DEF Replay
      <4>3. Replay(files.db, walFrom, commits) = [p \in 1..Pages |-> files.db[p]]
        BY <4>1 DEF Replay
      <4> QED BY <3>4, <4>2, <4>3
    <3> QED BY <3>3, <3>5, <3>6
  <2> QED BY <1>2, <1>6, <2>2, <2>3 DEF CopyWal, CopyIsExact, Replay, StateAt, PageAt
<1>7. CASE Checkpoint
  <2> DEFINE folded == Replay(disk[into].db, disk[into].from, disk[into].to)
  <2>1. folded \in [1..Pages -> Page]
    <3>1. disk[into].to \in 0..MaxCommits /\ disk[into].db \in [1..Pages -> Page]
      BY <1>3 DEF Files
    <3> QED BY <3>1, PageType DEF Replay
  <2>2. disk' \in [Dirs -> Files] /\ disk'[into].db = folded
    <3> HIDE DEF folded
    <3>1. Puts(folded, 0, 0)
      BY <1>7 DEF Checkpoint, folded
    <3> QED BY <2>1, <3>1, PutFiles
  <2>3. CopyTypeOK'
    BY <1>7, <2>2 DEF Checkpoint, CopyTypeOK, appVars
  <2>4. CopyIsExact'
    BY <1>7, <2>2 DEF Checkpoint, CopyIsExact, StateAt, PageAt
  <2> QED BY <1>2, <1>7, <2>3, <2>4 DEF Checkpoint
<1>8. CASE CopyFails
  BY <1>2, <1>8 DEF CopyFails, CopyTypeOK, CopyIsExact, appVars
<1>9. CASE Release
  BY <1>2, <1>9 DEF Release, CopyTypeOK, CopyIsExact, appVars
<1> QED BY <1>4, <1>5, <1>6, <1>7, <1>8, <1>9 DEF CopyStep

\* In every reachable state CopyInv holds.
THEOREM CopyInvariant == CopySpec => []CopyInv
<1>1. CopyInit => CopyInv
  <2> SUFFICES ASSUME CopyInit PROVE CopyInv
    OBVIOUS
  <2>1. StateAt(0) \in [1..Pages -> Page]
    BY CopyAssumption, PageType
  <2>2. NoFiles \in Files
    BY <2>1, CopyAssumption DEF NoFiles, Files
  <2>3. CopyTypeOK
    <3>1. disk \in [Dirs -> Files] /\ db \in [1..Pages -> Page]
      BY <2>1, <2>2 DEF CopyInit
    <3>2. /\ commits \in 0..MaxCommits /\ walFrom \in 0..commits
          /\ at \in 1..Pages + 1 /\ began \in 0..commits /\ got \in 0..commits
      BY CopyAssumption DEF CopyInit
    <3> QED BY <3>1, <3>2 DEF CopyInit, CopyTypeOK
  <2>4. \A p \in 1..Pages : SinceWal(p, db[p])
    BY DEF CopyInit, SinceWal, StateAt
  <2> QED BY <2>3, <2>4 DEF CopyInit, CopyInv, CopyIsExact
<1>2. CopyInv /\ [CopyNext]_copierVars => CopyInv'
  <2>1. CopyInv /\ CopyNext => CopyInv'
    BY AppKeepsInv, CopyKeepsInv DEF CopyNext
  <2>2. CopyInv /\ UNCHANGED copierVars => CopyInv'
    BY DEF copierVars, appVars, copyVars, CopyInv, CopyTypeOK, SinceWal, CopyIsExact, Replay,
           StateAt, PageAt
  <2> QED BY <2>1, <2>2
<1> QED BY <1>1, <1>2, PTL DEF CopySpec

\* db.py:24-43.  Unless Messages.app begins its WAL anew under the copy, or an
\* earlier copy left a WAL behind, a copy is the state that was committed when
\* its WAL was copied, for any pages, transactions and checkpoints.
THEOREM ExactTheorem == CopySpec => []CopyIsExact
<1>1. CopyInv => CopyIsExact
  BY DEF CopyInv
<1> QED BY <1>1, CopyInvariant, PTL

-----------------------------------------------------------------------------
(* The cache                                                                 *)


\* What an action leaves of the state keeps its types.
LEMMA TypesKept ==
  ASSUME CacheInv, [Next]_vars
  PROVE  TypeOK'
<1> USE CacheAssumption DEF CacheInv, TypeOK
<1>1. CASE Tick
  BY <1>1 DEF Tick, refreshVars, dirVars, threadVars
<1>2. CASE Copy
  BY <1>2 DEF Copy, RefreshInv, dirVars, threadVars
<1>3. CASE Refreshed
  <2>1. due' \in [SnapDirs -> {-1} \cup Nat]
    BY <1>3 DEF Refreshed, Schedules
  <2>2. holder \in Threads /\ dstDir \in SnapDirs
    BY <1>3 DEF Refreshed, RefreshInv
  <2>3. /\ phase' \in [Threads -> {"idle", "waiting", "reading"}]
        /\ has' \in [Threads -> SnapDirs \cup {NoDir}] /\ since' \in [Threads -> 0..now]
        /\ now' = now /\ asked' = asked
    BY <1>3, <2>2 DEF Refreshed, Given
  <2>4. path' = dstDir /\ takenAt' \in 0..now
    BY <1>3, <2>2 DEF Refreshed, Remembers
  <2>5. /\ holder' = NoThread /\ dstDir' = NoDir /\ copied' = FALSE
        /\ UNCHANGED <<used, gone, copiedAt>>
    BY <1>3 DEF Refreshed
  <2> QED BY <2>1, <2>2, <2>3, <2>4, <2>5
<1>4. CASE RefreshFails
  BY <1>4 DEF RefreshFails, dirVars
<1>5. ASSUME NEW t \in Threads, Call(t)  PROVE TypeOK'
  BY <1>5 DEF Call, refreshVars, dirVars
<1>6. ASSUME NEW t \in Threads, Hit(t)  PROVE TypeOK'
  BY <1>6 DEF Hit, Given, Enters, Expired, refreshVars, dirVars
<1>7. ASSUME NEW t \in Threads, Refresh(t)  PROVE TypeOK'
  BY <1>7 DEF Refresh, threadVars
<1>8. ASSUME NEW t \in Threads, StopReading(t)  PROVE TypeOK'
  BY <1>8 DEF StopReading, refreshVars, dirVars
<1>9. ASSUME NEW d \in SnapDirs, Remove(d)  PROVE TypeOK'
  BY <1>9 DEF Remove, refreshVars, threadVars
<1>10. CASE UNCHANGED vars
  BY <1>10 DEF vars, refreshVars, dirVars, threadVars
<1> QED BY <1>1, <1>2, <1>3, <1>4, <1>5, <1>6, <1>7, <1>8, <1>9, <1>10 DEF Next

\* The cached copy keeps what PathInv says of it.
LEMMA PathKept ==
  ASSUME CacheInv, [Next]_vars
  PROVE  PathInv'
<1> USE CacheAssumption DEF CacheInv, TypeOK, PathInv
<1>1. CASE Tick
  BY <1>1 DEF Tick, refreshVars, dirVars, threadVars
<1>2. CASE Copy
  BY <1>2 DEF Copy, RefreshInv, dirVars, threadVars
<1>3. CASE Refreshed
  <2>1. /\ path' = dstDir /\ takenAt' = asked[holder] /\ dstDir \in used \ gone
        /\ copiedAt[dstDir] >= asked[holder] /\ due[dstDir] = -1 /\ dstDir # path
        /\ used' = used /\ gone' = gone /\ copiedAt' = copiedAt
    BY <1>3 DEF Refreshed, Remembers, RefreshInv
  <2>2. due'[dstDir] = due[dstDir]
    BY <1>3, <2>1 DEF Refreshed, Schedules
  <2> QED BY <2>1, <2>2
<1>4. CASE RefreshFails
  BY <1>4 DEF RefreshFails, dirVars
<1>5. ASSUME NEW t \in Threads, Call(t)  PROVE PathInv'
  BY <1>5 DEF Call, refreshVars, dirVars
<1>6. ASSUME NEW t \in Threads, Hit(t)  PROVE PathInv'
  BY <1>6 DEF Hit, refreshVars, dirVars
<1>7. ASSUME NEW t \in Threads, Refresh(t)  PROVE PathInv'
  BY <1>7 DEF Refresh, threadVars
<1>8. ASSUME NEW t \in Threads, StopReading(t)  PROVE PathInv'
  BY <1>8 DEF StopReading, refreshVars, dirVars
<1>9. ASSUME NEW d \in SnapDirs, Remove(d)  PROVE PathInv'
  BY <1>9 DEF Remove, refreshVars, threadVars
<1>10. CASE UNCHANGED vars
  BY <1>10 DEF vars, refreshVars, dirVars, threadVars
<1> QED BY <1>1, <1>2, <1>3, <1>4, <1>5, <1>6, <1>7, <1>8, <1>9, <1>10 DEF Next

\* The thread that refreshes stays the only one, with a directory of its own.
LEMMA RefreshKept ==
  ASSUME CacheInv, [Next]_vars
  PROVE  RefreshInv'
<1> USE CacheAssumption DEF CacheInv, TypeOK, RefreshInv
<1>1. CASE Tick
  BY <1>1 DEF Tick, refreshVars, dirVars, threadVars
<1>2. CASE Copy
  BY <1>2 DEF Copy, dirVars, threadVars
<1>3. CASE Refreshed
  BY <1>3 DEF Refreshed
<1>4. CASE RefreshFails
  BY <1>4 DEF RefreshFails, dirVars
<1>5. ASSUME NEW t \in Threads, Call(t)  PROVE RefreshInv'
  BY <1>5 DEF Call, refreshVars, dirVars
<1>6. ASSUME NEW t \in Threads, Hit(t)  PROVE RefreshInv'
  BY <1>6 DEF Hit, Given, Enters, refreshVars, dirVars
<1>7. ASSUME NEW t \in Threads, Refresh(t)  PROVE RefreshInv'
  BY <1>7 DEF Refresh, Enters, PathInv, threadVars
<1>8. ASSUME NEW t \in Threads, StopReading(t)  PROVE RefreshInv'
  BY <1>8 DEF StopReading, refreshVars, dirVars
<1>9. ASSUME NEW d \in SnapDirs, Remove(d)  PROVE RefreshInv'
  BY <1>9 DEF Remove, refreshVars, threadVars
<1>10. CASE UNCHANGED vars
  BY <1>10 DEF vars, refreshVars, dirVars, threadVars
<1> QED BY <1>1, <1>2, <1>3, <1>4, <1>5, <1>6, <1>7, <1>8, <1>9, <1>10 DEF Next

Reads(t) ==
  phase[t] = "reading" =>
    /\ has[t] \in used /\ has[t] # dstDir
    /\ \/ has[t] = path
       \/ has[t] \in gone /\ due[has[t]] = -1
       \/ due[has[t]] >= since[t] + Grace
    /\ has[t] \in gone => now - since[t] >= Grace
    /\ copiedAt[has[t]] >= asked[t] - TTL

\* A reader keeps its files for the window, and they stay as fresh as they were.
LEMMA ReadersKept ==
  ASSUME CacheInv, [Next]_vars, NEW t \in Threads
  PROVE  Reads(t)'
<1>0. Reads(t)
  BY DEF CacheInv, ReaderInv, GraceIsKept, FreshEnough, Reads
<1> USE CacheAssumption DEF CacheInv, TypeOK, Reads
<1>1. CASE Tick
  BY <1>0, <1>1 DEF Tick, refreshVars, dirVars, threadVars
<1>2. CASE Copy
  BY <1>0, <1>2 DEF Copy, RefreshInv, dirVars, threadVars
<1>3. CASE Refreshed
  <2>1. /\ path' = dstDir /\ dstDir' = NoDir /\ dstDir \in used \ gone /\ dstDir # path
        /\ copiedAt[dstDir] >= asked[holder] /\ holder \in Threads
        /\ used' = used /\ gone' = gone /\ copiedAt' = copiedAt /\ now' = now
        /\ asked' = asked
    BY <1>3 DEF Refreshed, Remembers, RefreshInv, Given
  <2>2. CASE t = holder
    BY <1>3, <2>1, <2>2 DEF Refreshed, Given
  <2>3. CASE t # holder
    <3>1. phase'[t] = phase[t] /\ has'[t] = has[t] /\ since'[t] = since[t]
      BY <1>3, <2>3 DEF Refreshed, Given
    <3>2. \A d \in SnapDirs : due'[d] = IF d = path THEN now + Grace ELSE due[d]
      BY <1>3 DEF Refreshed, Schedules
    <3> QED BY <1>0, <2>1, <3>1, <3>2 DEF PathInv
  <2> QED BY <2>2, <2>3
<1>4. CASE RefreshFails
  BY <1>0, <1>4 DEF RefreshFails, RefreshInv, dirVars
<1>5. ASSUME NEW u \in Threads, Call(u)  PROVE Reads(t)'
  BY <1>0, <1>5 DEF Call, refreshVars, dirVars
<1>6. ASSUME NEW u \in Threads, Hit(u)  PROVE Reads(t)'
  BY <1>0, <1>6 DEF Hit, Given, Enters, Expired, PathInv, RefreshInv, refreshVars, dirVars
<1>7. ASSUME NEW u \in Threads, Refresh(u)  PROVE Reads(t)'
  BY <1>0, <1>7 DEF Refresh, threadVars
<1>8. ASSUME NEW u \in Threads, StopReading(u)  PROVE Reads(t)'
  BY <1>0, <1>8 DEF StopReading, refreshVars, dirVars
<1>9. ASSUME NEW d \in SnapDirs, Remove(d)  PROVE Reads(t)'
  BY <1>0, <1>9 DEF Remove, PathInv, refreshVars, threadVars
<1>10. CASE UNCHANGED vars
  BY <1>0, <1>10 DEF vars, refreshVars, dirVars, threadVars
<1> QED BY <1>1, <1>2, <1>3, <1>4, <1>5, <1>6, <1>7, <1>8, <1>9, <1>10 DEF Next

\* No timer runs for a directory that nobody has made.
LEMMA UnusedKept ==
  ASSUME CacheInv, [Next]_vars, NEW d \in SnapDirs \ used'
  PROVE  due'[d] = -1
<1> USE DEF CacheInv, TypeOK
<1>1. CASE Refreshed
  BY <1>1 DEF Refreshed, Schedules, PathInv
<1>2. ASSUME NEW e \in SnapDirs, Remove(e)  PROVE due'[d] = -1
  BY <1>2 DEF Remove
<1>3. CASE UNCHANGED due /\ used \subseteq used'
  BY <1>3
<1> QED BY <1>1, <1>2, <1>3 DEF Next, vars, Tick, Copy, RefreshFails, Call, Hit, Refresh,
                                StopReading, dirVars

\* In every reachable state CacheInv holds.
THEOREM CacheInvariant == Spec => []CacheInv
<1>1. Init => CacheInv
  <2> SUFFICES ASSUME Init PROVE CacheInv
    OBVIOUS
  <2>1. TypeOK
    <3>1. /\ now \in 0..MaxNow /\ takenAt \in 0..now
          /\ copiedAt \in [SnapDirs -> 0..now] /\ due \in [SnapDirs -> {-1} \cup Nat]
      BY CacheAssumption DEF Init
    <3>2. /\ asked \in [Threads -> 0..now] /\ since \in [Threads -> 0..now]
          /\ phase \in [Threads -> {"idle", "waiting", "reading"}]
          /\ has \in [Threads -> SnapDirs \cup {NoDir}]
      BY DEF Init
    <3> QED BY <3>1, <3>2 DEF Init, TypeOK
  <2>2. PathInv /\ RefreshInv
    BY DEF Init, PathInv, RefreshInv
  <2>3. ReaderInv /\ GraceIsKept /\ FreshEnough
    BY DEF Init, ReaderInv, GraceIsKept, FreshEnough
  <2>4. \A d \in SnapDirs \ used : due[d] = -1
    BY DEF Init
  <2> QED BY <2>1, <2>2, <2>3, <2>4 DEF CacheInv
<1>2. CacheInv /\ [Next]_vars => CacheInv'
  <2> SUFFICES ASSUME CacheInv, [Next]_vars PROVE CacheInv'
    OBVIOUS
  <2>1. \A t \in Threads : Reads(t)'
    BY ReadersKept
  <2>2. ReaderInv' /\ GraceIsKept' /\ FreshEnough'
    BY <2>1 DEF Reads, ReaderInv, GraceIsKept, FreshEnough
  <2> QED BY <2>2, TypesKept, PathKept, RefreshKept, UnusedKept DEF CacheInv
<1> QED BY <1>1, <1>2, PTL DEF Spec

\* store_cache.py:25-27, 63-64.  For any number of threads and refreshes, the
\* files a reader was given are there for the grace window.
THEOREM GraceTheorem == Spec => []GraceIsKept
<1>1. CacheInv => GraceIsKept
  BY DEF CacheInv
<1> QED BY <1>1, CacheInvariant, PTL

\* store_cache.py:52-65.  However long locks and copies take, nobody reads a copy
\* that is more than a TTL older than its call.
THEOREM FreshTheorem == Spec => []FreshEnough
<1>1. CacheInv => FreshEnough
  BY DEF CacheInv
<1> QED BY <1>1, CacheInvariant, PTL
=============================================================================
