------------------------ MODULE OwnedFileLease_proof ------------------------
(***************************************************************************)
(* The safety properties of OwnedFileLease for any processes, inodes and   *)
(* faults, as long as nobody runs between a re-check and the unlink of a   *)
(* reclaim.  The argument: the contents of the file at the path tell       *)
(* whose it is.  While a contender fills its candidate the inode is nobody *)
(* else's, and a reclaim finds the same contents again that it judged, so  *)
(* it takes a live contender's file only if that is not filled.  A file    *)
(* that was taken can mislead only a contender that discards a failed      *)
(* candidate.  So without faults, or as long as no live contender's file   *)
(* was taken, every candidate is at the path until its creator removes it. *)
(***************************************************************************)
EXTENDS OwnedFileLease, TLAPS

\* A file of its own: the candidate may be at the path by now.
Filling == {"identify", "write"}
Discarding == {"discardStat", "discardUnlink"}
Filled == {"verify", "owned", "checkOwned", "checkAgain", "unlinkOwn"}

\* The stale file a reclaim is about to remove is nobody's who lives.
Reclaims(p) == judged[p] \in
    [text : (Contenders \ alive) \union {Malformed}, inode : Inodes]

\* What the file at the path says of its creator, whatever happened before.
CreatorInv ==
    /\ path = None => contents = Malformed
    /\ contents # Malformed => creator = contents
    /\ \A p \in Contenders :
          pc[p] \in Filling =>
             /\ p \in open /\ contents # p /\ handle[p] \in Inodes
             /\ path = handle[p] => contents = Malformed /\ creator = p
    /\ \A p, q \in Contenders :
          pc[p] \in Filling /\ pc[q] \in Filling /\ p # q
          => handle[p] # handle[q]

\* What a reclaim has judged is still what it says.
ReclaimInv ==
    \A p \in Contenders :
       /\ pc[p] \in {"recheck", "unlinkStale"} => Reclaims(p)
       /\ pc[p] = "recheck" /\ text[p] # Unread =>
             text[p] = IF path = None THEN None ELSE contents
       /\ pc[p] = "unlinkStale" => contents = judged[p].text

\* As long as no live contender was robbed, every candidate is in place.
CandidateInv ==
    ~misjudged => \A p \in Contenders :
       /\ pc[p] \in Filling \union Filled \union Discarding
          => path = handle[p] /\ handle[p] # None /\ creator = p
       /\ pc[p] \in Filled => contents = p
       /\ pc[p] \in Discarding => contents \in {p, Malformed}

\* Without faults no candidate is discarded, and contents that are a
\* contender's are at its path, in a snapshot too.
FaultlessInv ==
    ~Faults =>
       /\ ~failing
       /\ \A p \in Contenders :
             /\ pc[p] \notin Discarding
             /\ pc[p] \in Filled /\ contents = p => path = handle[p]
             /\ pc[p] \in {"owned", "unlinkOwn"} => contents = p
             /\ pc[p] \in {"verify", "checkOwned", "checkAgain"} /\ text[p] = p
                => contents = p

\* One contender at a time is between a re-check and its unlink.
WindowInv ==
    \A p, q \in Contenders : pc[p] \in Window /\ pc[q] \in Window => p = q

AliveInv == \A p \in Contenders : pc[p] = "dead" <=> p \notin alive

\* The inductive invariant.
IInv ==
    /\ TypeOK /\ CreatorInv /\ ReclaimInv /\ CandidateInv /\ FaultlessInv
    /\ WindowInv /\ AliveInv

\* All of it but the types.
Rest ==
    /\ CreatorInv /\ ReclaimInv /\ CandidateInv /\ FaultlessInv
    /\ WindowInv /\ AliveInv

----------------------------------------------------------------------------
(* Types.                                                                  *)

USE NameAssumption, InodeAssumption

\* The initial state is of the types.
LEMMA TypeInit == Init => TypeOK
  BY FlagAssumption DEF Init, TypeOK, Locations, Reading, Texts, Stats

\* Every step keeps the types.
LEMMA TypeStep == TypeOK /\ [Next]_vars => TypeOK'
<1> SUFFICES ASSUME TypeOK, [Next]_vars PROVE TypeOK'
  OBVIOUS
<1> USE DEF TypeOK, Goto, Proceed, Return, Leave, CreateCandidate, RemovePath,
      file, Locations, Reading, Texts, Stats, Snapshots
<1>1. ASSUME NEW p \in Contenders, ReadText(p), UNCHANGED failing
      PROVE  TypeOK'
  BY <1>1 DEF ReadText
<1>2. ASSUME NEW p \in Contenders, StatPath(p), UNCHANGED failing
      PROVE  TypeOK'
  BY <1>2 DEF StatPath
<1>3. ASSUME NEW p \in Contenders, TryAcquire(p), UNCHANGED failing
      PROVE  TypeOK'
  BY <1>3 DEF TryAcquire
<1>4. ASSUME NEW p \in Contenders, Judge(p), UNCHANGED failing
      PROVE  TypeOK'
  BY <1>4 DEF Judge, HasRead, SnapshotMissing, Reclaimable
<1>5. ASSUME NEW p \in Contenders, Recheck(p), UNCHANGED failing
      PROVE  TypeOK'
  BY <1>5 DEF Recheck
<1>6. ASSUME NEW p \in Contenders, UnlinkStale(p), UNCHANGED failing
      PROVE  TypeOK'
  BY <1>6 DEF UnlinkStale
<1>7. ASSUME NEW p \in Contenders, Reopen(p), UNCHANGED failing
      PROVE  TypeOK'
  BY <1>7 DEF Reopen
<1>8. ASSUME NEW p \in Contenders, Identify(p), UNCHANGED failing
      PROVE  TypeOK'
  BY <1>8 DEF Identify
<1>9. ASSUME NEW p \in Contenders, WriteMetadata(p), UNCHANGED failing
      PROVE  TypeOK'
  BY <1>9 DEF WriteMetadata
<1>10. ASSUME NEW p \in Contenders, Verify(p), UNCHANGED failing
       PROVE  TypeOK'
  BY <1>10 DEF Verify
<1>11. ASSUME NEW p \in Contenders, DiscardStat(p), UNCHANGED failing
       PROVE  TypeOK'
  BY <1>11 DEF DiscardStat
<1>12. ASSUME NEW p \in Contenders, DiscardUnlink(p), UNCHANGED failing
       PROVE  TypeOK'
  BY <1>12 DEF DiscardUnlink
<1>13. ASSUME NEW p \in Contenders, Release(p), UNCHANGED failing
       PROVE  TypeOK'
  BY <1>13 DEF Release
<1>14. ASSUME NEW p \in Contenders, CloseHandle(p), UNCHANGED failing
       PROVE  TypeOK'
  BY <1>14 DEF CloseHandle
<1>15. ASSUME NEW p \in Contenders, CheckAgain(p), UNCHANGED failing
       PROVE  TypeOK'
  BY <1>15 DEF CheckAgain
<1>16. ASSUME NEW p \in Contenders, UnlinkOwn(p), UNCHANGED failing
       PROVE  TypeOK'
  BY <1>16 DEF UnlinkOwn
<1>17. ASSUME NEW p \in Contenders, Crash(p) PROVE TypeOK'
  BY <1>17 DEF Crash
<1>18. CASE Age
  BY <1>18 DEF Age, locals
<1>19. CASE Recover
  BY <1>19 DEF Recover, locals
<1>20. CASE UNCHANGED vars
  BY <1>20 DEF vars, locals
<1>21. QED
  BY <1>1, <1>2, <1>3, <1>4, <1>5, <1>6, <1>7, <1>8, <1>9, <1>10, <1>11,
     <1>12, <1>13, <1>14, <1>15, <1>16, <1>17, <1>18, <1>19, <1>20
     DEF Next, ContenderStep
----------------------------------------------------------------------------
(* What each step does to the rest of the invariant.                       *)

LEMMA ReadTextStep ==
  ASSUME IInv, NEW p \in Contenders, ReadText(p), UNCHANGED failing,
         ~WindowRaces, Scheduled(p)
  PROVE  Rest'
<1> USE DEF IInv, TypeOK, ReadText, Goto, Proceed, Return, Leave, file,
            CreateCandidate, RemovePath
<1>1. CreatorInv'
  BY DEF CreatorInv, Filling
<1>2. ReclaimInv'
  BY DEF ReclaimInv, Reclaims, CreatorInv, AliveInv, Window, Scheduled, Filling,
         HasRead, SnapshotMissing, Unchanged, Reclaimable
<1>3. CandidateInv'
  BY DEF CandidateInv, Filling, Filled, Discarding, CreatorInv, ReclaimInv,
         Reclaims, AliveInv, Matches, Unfinished
<1>4. FaultlessInv'
  BY DEF FaultlessInv, Filling, Filled, Discarding, CreatorInv, ReclaimInv,
         Reclaims, AliveInv, Matches
<1>5. WindowInv'
  BY DEF WindowInv, Window, Scheduled
<1>6. AliveInv'
  BY DEF AliveInv
<1>7. QED
  BY <1>1, <1>2, <1>3, <1>4, <1>5, <1>6 DEF Rest

LEMMA StatPathStep ==
  ASSUME IInv, NEW p \in Contenders, StatPath(p), UNCHANGED failing,
         ~WindowRaces, Scheduled(p)
  PROVE  Rest'
<1> USE DEF IInv, TypeOK, StatPath, Goto, Proceed, Return, Leave, file,
            CreateCandidate, RemovePath
<1>1. CreatorInv'
  BY DEF CreatorInv, Filling
<1>2. ReclaimInv'
  BY DEF ReclaimInv, Reclaims, CreatorInv, AliveInv, Window, Scheduled, Filling,
         HasRead, SnapshotMissing, Unchanged, Reclaimable
<1>3. CandidateInv'
  BY DEF CandidateInv, Filling, Filled, Discarding, CreatorInv, ReclaimInv,
         Reclaims, AliveInv, Matches, Unfinished
<1>4. FaultlessInv'
  BY DEF FaultlessInv, Filling, Filled, Discarding, CreatorInv, ReclaimInv,
         Reclaims, AliveInv, Matches
<1>5. WindowInv'
  BY DEF WindowInv, Window, Scheduled
<1>6. AliveInv'
  BY DEF AliveInv
<1>7. QED
  BY <1>1, <1>2, <1>3, <1>4, <1>5, <1>6 DEF Rest

\* A new file has an inode that no open candidate has.
LEMMA TryAcquireStep ==
  ASSUME IInv, NEW p \in Contenders, TryAcquire(p), UNCHANGED failing,
         ~WindowRaces, Scheduled(p)
  PROVE  Rest'
<1> USE DEF IInv, TypeOK, TryAcquire, Goto, Proceed, Return, Leave, file,
            CreateCandidate, RemovePath
<1>1. CreatorInv'
  BY DEF CreatorInv, Filling
<1>2. ReclaimInv'
  BY DEF ReclaimInv, Reclaims, CreatorInv, AliveInv, Window, Scheduled, Filling,
         HasRead, SnapshotMissing, Unchanged, Reclaimable
<1>3. CandidateInv'
  BY DEF CandidateInv, Filling, Filled, Discarding, CreatorInv, ReclaimInv,
         Reclaims, AliveInv, Matches, Unfinished
<1>4. FaultlessInv'
  BY DEF FaultlessInv, Filling, Filled, Discarding, CreatorInv, ReclaimInv,
         Reclaims, AliveInv, Matches
<1>5. WindowInv'
  BY DEF WindowInv, Window, Scheduled
<1>6. AliveInv'
  BY DEF AliveInv
<1>7. QED
  BY <1>1, <1>2, <1>3, <1>4, <1>5, <1>6 DEF Rest

\* What is judged stale names nobody who lives.
LEMMA JudgeStep ==
  ASSUME IInv, NEW p \in Contenders, Judge(p), UNCHANGED failing,
         ~WindowRaces, Scheduled(p)
  PROVE  Rest'
<1> USE DEF IInv, TypeOK, Judge, Goto, Proceed, Return, Leave, file,
            CreateCandidate, RemovePath
<1>1. CreatorInv'
  BY DEF CreatorInv, Filling
<1>2. ReclaimInv'
  BY DEF ReclaimInv, Reclaims, CreatorInv, AliveInv, Window, Scheduled, Filling,
         HasRead, SnapshotMissing, Reclaimable, Texts, Stats, Snapshots, Reading
<1>3. CandidateInv'
  BY DEF CandidateInv, Filling, Filled, Discarding, CreatorInv, ReclaimInv,
         Reclaims, AliveInv, Matches, Unfinished
<1>4. FaultlessInv'
  BY DEF FaultlessInv, Filling, Filled, Discarding, CreatorInv, ReclaimInv,
         Reclaims, AliveInv, Matches
<1>5. WindowInv'
  BY DEF WindowInv, Window, Scheduled
<1>6. AliveInv'
  BY DEF AliveInv
<1>7. QED
  BY <1>1, <1>2, <1>3, <1>4, <1>5, <1>6 DEF Rest

\* The file is still the one that was judged: nobody else runs.
LEMMA RecheckStep ==
  ASSUME IInv, NEW p \in Contenders, Recheck(p), UNCHANGED failing,
         ~WindowRaces, Scheduled(p)
  PROVE  Rest'
<1> USE DEF IInv, TypeOK, Recheck, Goto, Proceed, Return, Leave, file,
            CreateCandidate, RemovePath
<1>1. CreatorInv'
  BY DEF CreatorInv, Filling
<1>2. ReclaimInv'
  BY DEF ReclaimInv, Reclaims, CreatorInv, AliveInv, Window, Scheduled, Filling,
         HasRead, SnapshotMissing, Unchanged, Reclaimable
<1>3. CandidateInv'
  BY DEF CandidateInv, Filling, Filled, Discarding, CreatorInv, ReclaimInv,
         Reclaims, AliveInv, Matches, Unfinished
<1>4. FaultlessInv'
  BY DEF FaultlessInv, Filling, Filled, Discarding, CreatorInv, ReclaimInv,
         Reclaims, AliveInv, Matches
<1>5. WindowInv'
  BY DEF WindowInv, Window, Scheduled
<1>6. AliveInv'
  BY DEF AliveInv
<1>7. QED
  BY <1>1, <1>2, <1>3, <1>4, <1>5, <1>6 DEF Rest

\* The file removed names nobody who lives.
LEMMA UnlinkStaleStep ==
  ASSUME IInv, NEW p \in Contenders, UnlinkStale(p), UNCHANGED failing,
         ~WindowRaces, Scheduled(p)
  PROVE  Rest'
<1> USE DEF IInv, TypeOK, UnlinkStale, Goto, Proceed, Return, Leave, file,
            CreateCandidate, RemovePath
<1>1. CreatorInv'
  BY DEF CreatorInv, Filling
<1>2. ReclaimInv'
  BY DEF ReclaimInv, Reclaims, CreatorInv, AliveInv, Window, Scheduled, Filling,
         HasRead, SnapshotMissing, Unchanged, Reclaimable
<1>3. CandidateInv'
  <2> SUFFICES ASSUME ~misjudged', NEW q \in Contenders
               PROVE  /\ pc'[q] \in Filling \union Filled \union Discarding
                         => path' = handle'[q] /\ handle'[q] # None /\ creator' = q
                      /\ pc'[q] \in Filled => contents' = q
                      /\ pc'[q] \in Discarding => contents' \in {q, Malformed}
    BY DEF CandidateInv
  <2>1. CASE path' = path /\ contents' = contents /\ creator' = creator
    BY <2>1 DEF CandidateInv, Filling, Filled, Discarding, UnlinkStale
  <2>2. CASE misjudged' = (misjudged \/ (creator \in alive /\ pc[creator] \in Unfinished))
    <3>1. CASE q = p
      BY <3>1 DEF Filling, Filled, Discarding
    <3>2. CASE q # p /\ pc[q] \in Filling \union Discarding
      <4>1. creator = q /\ q \in alive /\ pc[q] \in Unfinished
        BY <2>2, <3>2 DEF CandidateInv, AliveInv, Filling, Discarding, Unfinished
      <4>2. QED
        BY <2>2, <4>1
    <3>3. CASE q # p /\ pc[q] \in Filled
      <4>1. contents = q /\ q \in alive
        BY <2>2, <3>3 DEF CandidateInv, AliveInv, Filled
      <4>2. contents \notin alive
        BY DEF ReclaimInv, Reclaims
      <4>3. QED
        BY <4>1, <4>2
    <3>4. QED
      BY <3>1, <3>2, <3>3 DEF Filling, Filled, Discarding
  <2>3. QED
    BY <2>1, <2>2
<1>4. FaultlessInv'
  BY DEF FaultlessInv, Filling, Filled, Discarding, CreatorInv, ReclaimInv,
         Reclaims, AliveInv, Matches
<1>5. WindowInv'
  BY DEF WindowInv, Window, Scheduled
<1>6. AliveInv'
  BY DEF AliveInv
<1>7. QED
  BY <1>1, <1>2, <1>3, <1>4, <1>5, <1>6 DEF Rest

LEMMA ReopenStep ==
  ASSUME IInv, NEW p \in Contenders, Reopen(p), UNCHANGED failing,
         ~WindowRaces, Scheduled(p)
  PROVE  Rest'
<1> USE DEF IInv, TypeOK, Reopen, Goto, Proceed, Return, Leave, file,
            CreateCandidate, RemovePath
<1>1. CreatorInv'
  BY DEF CreatorInv, Filling
<1>2. ReclaimInv'
  BY DEF ReclaimInv, Reclaims, CreatorInv, AliveInv, Window, Scheduled, Filling,
         HasRead, SnapshotMissing, Unchanged, Reclaimable
<1>3. CandidateInv'
  BY DEF CandidateInv, Filling, Filled, Discarding, CreatorInv, ReclaimInv,
         Reclaims, AliveInv, Matches, Unfinished
<1>4. FaultlessInv'
  BY DEF FaultlessInv, Filling, Filled, Discarding, CreatorInv, ReclaimInv,
         Reclaims, AliveInv, Matches
<1>5. WindowInv'
  BY DEF WindowInv, Window, Scheduled
<1>6. AliveInv'
  BY DEF AliveInv
<1>7. QED
  BY <1>1, <1>2, <1>3, <1>4, <1>5, <1>6 DEF Rest

LEMMA IdentifyStep ==
  ASSUME IInv, NEW p \in Contenders, Identify(p), UNCHANGED failing,
         ~WindowRaces, Scheduled(p)
  PROVE  Rest'
<1> USE DEF IInv, TypeOK, Identify, Goto, Proceed, Return, Leave, file,
            CreateCandidate, RemovePath
<1>1. CreatorInv'
  BY DEF CreatorInv, Filling
<1>2. ReclaimInv'
  BY DEF ReclaimInv, Reclaims, CreatorInv, AliveInv, Window, Scheduled, Filling,
         HasRead, SnapshotMissing, Unchanged, Reclaimable
<1>3. CandidateInv'
  BY DEF CandidateInv, Filling, Filled, Discarding, CreatorInv, ReclaimInv,
         Reclaims, AliveInv, Matches, Unfinished
<1>4. FaultlessInv'
  BY DEF FaultlessInv, Filling, Filled, Discarding, CreatorInv, ReclaimInv,
         Reclaims, AliveInv, Matches
<1>5. WindowInv'
  BY DEF WindowInv, Window, Scheduled
<1>6. AliveInv'
  BY DEF AliveInv
<1>7. QED
  BY <1>1, <1>2, <1>3, <1>4, <1>5, <1>6 DEF Rest

\* Only one's own candidate, still empty, is written to.
LEMMA WriteMetadataStep ==
  ASSUME IInv, NEW p \in Contenders, WriteMetadata(p), UNCHANGED failing,
         ~WindowRaces, Scheduled(p)
  PROVE  Rest'
<1> USE DEF IInv, TypeOK, WriteMetadata, Goto, Proceed, Return, Leave, file,
            CreateCandidate, RemovePath
<1>1. CreatorInv'
  BY DEF CreatorInv, Filling
<1>2. ReclaimInv'
  BY DEF ReclaimInv, Reclaims, CreatorInv, AliveInv, Window, Scheduled, Filling,
         HasRead, SnapshotMissing, Unchanged, Reclaimable
<1>3. CandidateInv'
  BY DEF CandidateInv, Filling, Filled, Discarding, CreatorInv, ReclaimInv,
         Reclaims, AliveInv, Matches, Unfinished
<1>4. FaultlessInv'
  BY DEF FaultlessInv, Filling, Filled, Discarding, CreatorInv, ReclaimInv,
         Reclaims, AliveInv, Matches
<1>5. WindowInv'
  BY DEF WindowInv, Window, Scheduled
<1>6. AliveInv'
  BY DEF AliveInv
<1>7. QED
  BY <1>1, <1>2, <1>3, <1>4, <1>5, <1>6 DEF Rest

\* Complete contents of one's own are at the path.
LEMMA VerifyStep ==
  ASSUME IInv, NEW p \in Contenders, Verify(p), UNCHANGED failing,
         ~WindowRaces, Scheduled(p)
  PROVE  Rest'
<1> USE DEF IInv, TypeOK, Verify, Goto, Proceed, Return, Leave, file,
            CreateCandidate, RemovePath
<1>1. CreatorInv'
  BY DEF CreatorInv, Filling
<1>2. ReclaimInv'
  BY DEF ReclaimInv, Reclaims, CreatorInv, AliveInv, Window, Scheduled, Filling,
         HasRead, SnapshotMissing, Unchanged, Reclaimable
<1>3. CandidateInv'
  BY DEF CandidateInv, Filling, Filled, Discarding, CreatorInv, ReclaimInv,
         Reclaims, AliveInv, Matches, Unfinished
<1>4. FaultlessInv'
  BY DEF FaultlessInv, Filling, Filled, Discarding, CreatorInv, ReclaimInv,
         Reclaims, AliveInv, Matches
<1>5. WindowInv'
  BY DEF WindowInv, Window, Scheduled
<1>6. AliveInv'
  BY DEF AliveInv
<1>7. QED
  BY <1>1, <1>2, <1>3, <1>4, <1>5, <1>6 DEF Rest

LEMMA DiscardStatStep ==
  ASSUME IInv, NEW p \in Contenders, DiscardStat(p), UNCHANGED failing,
         ~WindowRaces, Scheduled(p)
  PROVE  Rest'
<1> USE DEF IInv, TypeOK, DiscardStat, Goto, Proceed, Return, Leave, file,
            CreateCandidate, RemovePath
<1>1. CreatorInv'
  BY DEF CreatorInv, Filling
<1>2. ReclaimInv'
  BY DEF ReclaimInv, Reclaims, CreatorInv, AliveInv, Window, Scheduled, Filling,
         HasRead, SnapshotMissing, Unchanged, Reclaimable
<1>3. CandidateInv'
  BY DEF CandidateInv, Filling, Filled, Discarding, CreatorInv, ReclaimInv,
         Reclaims, AliveInv, Matches, Unfinished
<1>4. FaultlessInv'
  BY DEF FaultlessInv, Filling, Filled, Discarding, CreatorInv, ReclaimInv,
         Reclaims, AliveInv, Matches
<1>5. WindowInv'
  BY DEF WindowInv, Window, Scheduled
<1>6. AliveInv'
  BY DEF AliveInv
<1>7. QED
  BY <1>1, <1>2, <1>3, <1>4, <1>5, <1>6 DEF Rest

\* The candidate removed was nobody else's file, unless one was robbed.
LEMMA DiscardUnlinkStep ==
  ASSUME IInv, NEW p \in Contenders, DiscardUnlink(p), UNCHANGED failing,
         ~WindowRaces, Scheduled(p)
  PROVE  Rest'
<1> USE DEF IInv, TypeOK, DiscardUnlink, Goto, Proceed, Return, Leave, file,
            CreateCandidate, RemovePath
<1>1. CreatorInv'
  BY DEF CreatorInv, Filling
<1>2. ReclaimInv'
  BY DEF ReclaimInv, Reclaims, CreatorInv, AliveInv, Window, Scheduled, Filling,
         HasRead, SnapshotMissing, Unchanged, Reclaimable
<1>3. CandidateInv'
  BY DEF CandidateInv, Filling, Filled, Discarding, CreatorInv, ReclaimInv,
         Reclaims, AliveInv, Matches, Unfinished
<1>4. FaultlessInv'
  BY DEF FaultlessInv, Filling, Filled, Discarding, CreatorInv, ReclaimInv,
         Reclaims, AliveInv, Matches
<1>5. WindowInv'
  BY DEF WindowInv, Window, Scheduled
<1>6. AliveInv'
  BY DEF AliveInv
<1>7. QED
  BY <1>1, <1>2, <1>3, <1>4, <1>5, <1>6 DEF Rest

LEMMA ReleaseStep ==
  ASSUME IInv, NEW p \in Contenders, Release(p), UNCHANGED failing,
         ~WindowRaces, Scheduled(p)
  PROVE  Rest'
<1> USE DEF IInv, TypeOK, Release, Goto, Proceed, Return, Leave, file,
            CreateCandidate, RemovePath
<1>1. CreatorInv'
  BY DEF CreatorInv, Filling
<1>2. ReclaimInv'
  BY DEF ReclaimInv, Reclaims, CreatorInv, AliveInv, Window, Scheduled, Filling,
         HasRead, SnapshotMissing, Unchanged, Reclaimable
<1>3. CandidateInv'
  BY DEF CandidateInv, Filling, Filled, Discarding, CreatorInv, ReclaimInv,
         Reclaims, AliveInv, Matches, Unfinished
<1>4. FaultlessInv'
  BY DEF FaultlessInv, Filling, Filled, Discarding, CreatorInv, ReclaimInv,
         Reclaims, AliveInv, Matches
<1>5. WindowInv'
  BY DEF WindowInv, Window, Scheduled
<1>6. AliveInv'
  BY DEF AliveInv
<1>7. QED
  BY <1>1, <1>2, <1>3, <1>4, <1>5, <1>6 DEF Rest

LEMMA CloseHandleStep ==
  ASSUME IInv, NEW p \in Contenders, CloseHandle(p), UNCHANGED failing,
         ~WindowRaces, Scheduled(p)
  PROVE  Rest'
<1> USE DEF IInv, TypeOK, CloseHandle, Goto, Proceed, Return, Leave, file,
            CreateCandidate, RemovePath
<1>1. CreatorInv'
  BY DEF CreatorInv, Filling
<1>2. ReclaimInv'
  BY DEF ReclaimInv, Reclaims, CreatorInv, AliveInv, Window, Scheduled, Filling,
         HasRead, SnapshotMissing, Unchanged, Reclaimable
<1>3. CandidateInv'
  BY DEF CandidateInv, Filling, Filled, Discarding, CreatorInv, ReclaimInv,
         Reclaims, AliveInv, Matches, Unfinished
<1>4. FaultlessInv'
  BY DEF FaultlessInv, Filling, Filled, Discarding, CreatorInv, ReclaimInv,
         Reclaims, AliveInv, Matches
<1>5. WindowInv'
  BY DEF WindowInv, Window, Scheduled
<1>6. AliveInv'
  BY DEF AliveInv
<1>7. QED
  BY <1>1, <1>2, <1>3, <1>4, <1>5, <1>6 DEF Rest

\* Contents seen to be one's own still are.
LEMMA CheckAgainStep ==
  ASSUME IInv, NEW p \in Contenders, CheckAgain(p), UNCHANGED failing,
         ~WindowRaces, Scheduled(p)
  PROVE  Rest'
<1> USE DEF IInv, TypeOK, CheckAgain, Goto, Proceed, Return, Leave, file,
            CreateCandidate, RemovePath
<1>1. CreatorInv'
  BY DEF CreatorInv, Filling
<1>2. ReclaimInv'
  BY DEF ReclaimInv, Reclaims, CreatorInv, AliveInv, Window, Scheduled, Filling,
         HasRead, SnapshotMissing, Unchanged, Reclaimable
<1>3. CandidateInv'
  BY DEF CandidateInv, Filling, Filled, Discarding, CreatorInv, ReclaimInv,
         Reclaims, AliveInv, Matches, Unfinished
<1>4. FaultlessInv'
  BY DEF FaultlessInv, Filling, Filled, Discarding, CreatorInv, ReclaimInv,
         Reclaims, AliveInv, Matches
<1>5. WindowInv'
  BY DEF WindowInv, Window, Scheduled
<1>6. AliveInv'
  BY DEF AliveInv
<1>7. QED
  BY <1>1, <1>2, <1>3, <1>4, <1>5, <1>6 DEF Rest

\* The file removed is one's own, unless one was robbed.
LEMMA UnlinkOwnStep ==
  ASSUME IInv, NEW p \in Contenders, UnlinkOwn(p), UNCHANGED failing,
         ~WindowRaces, Scheduled(p)
  PROVE  Rest'
<1> USE DEF IInv, TypeOK, UnlinkOwn, Goto, Proceed, Return, Leave, file,
            CreateCandidate, RemovePath
<1>1. CreatorInv'
  BY DEF CreatorInv, Filling
<1>2. ReclaimInv'
  BY DEF ReclaimInv, Reclaims, CreatorInv, AliveInv, Window, Scheduled, Filling,
         HasRead, SnapshotMissing, Unchanged, Reclaimable
<1>3. CandidateInv'
  BY DEF CandidateInv, Filling, Filled, Discarding, CreatorInv, ReclaimInv,
         Reclaims, AliveInv, Matches, Unfinished
<1>4. FaultlessInv'
  BY DEF FaultlessInv, Filling, Filled, Discarding, CreatorInv, ReclaimInv,
         Reclaims, AliveInv, Matches
<1>5. WindowInv'
  BY DEF WindowInv, Window, Scheduled
<1>6. AliveInv'
  BY DEF AliveInv
<1>7. QED
  BY <1>1, <1>2, <1>3, <1>4, <1>5, <1>6 DEF Rest

\* A contender that dies leaves its file behind.
LEMMA CrashStep ==
  ASSUME IInv, NEW p \in Contenders, Crash(p)
  PROVE  Rest'
<1> USE DEF IInv, TypeOK, Crash, Goto, Proceed, Return, Leave, file,
            CreateCandidate, RemovePath
<1>1. CreatorInv'
  BY DEF CreatorInv, Filling
<1>2. ReclaimInv'
  BY DEF ReclaimInv, Reclaims, CreatorInv, AliveInv, Window, Scheduled, Filling,
         HasRead, SnapshotMissing, Unchanged, Reclaimable
<1>3. CandidateInv'
  BY DEF CandidateInv, Filling, Filled, Discarding, CreatorInv, ReclaimInv,
         Reclaims, AliveInv, Matches, Unfinished
<1>4. FaultlessInv'
  BY DEF FaultlessInv, Filling, Filled, Discarding, CreatorInv, ReclaimInv,
         Reclaims, AliveInv, Matches
<1>5. WindowInv'
  BY DEF WindowInv, Window, Scheduled
<1>6. AliveInv'
  BY DEF AliveInv
<1>7. QED
  BY <1>1, <1>2, <1>3, <1>4, <1>5, <1>6 DEF Rest

----------------------------------------------------------------------------
(* The invariant, and what follows from it.                                *)

\* Time and storage concern nobody's file.
LEMMA EnvironmentStep ==
  ASSUME IInv, Age \/ Recover \/ UNCHANGED vars
  PROVE  Rest'
<1>1. UNCHANGED <<alive, path, contents, creator, misjudged, locals>>
  BY DEF Age, Recover, vars, file
<1>2. failing' = failing \/ ~failing'
  BY DEF Age, Recover, vars
<1>3. CreatorInv' /\ AliveInv' /\ CandidateInv' /\ WindowInv'
  BY <1>1 DEF IInv, CreatorInv, AliveInv, CandidateInv, WindowInv, locals
<1>4. ReclaimInv'
  BY <1>1 DEF IInv, ReclaimInv, Reclaims, locals
<1>5. FaultlessInv'
  BY <1>1, <1>2 DEF IInv, FaultlessInv, locals
<1>6. QED
  BY <1>3, <1>4, <1>5 DEF Rest

\* The initial state and every step keep the inductive invariant.
LEMMA Inductive ==
  ASSUME WindowRaces = FALSE
  PROVE  (Init => IInv) /\ (IInv /\ [Next]_vars => IInv')
<1>1. Init => IInv
  BY TypeInit DEF Init, IInv, CreatorInv, ReclaimInv, CandidateInv,
     FaultlessInv, WindowInv, AliveInv, Filling, Filled, Discarding, Window
<1>2. ASSUME IInv, [Next]_vars PROVE IInv'
  <2>1. TypeOK'
    BY <1>2, TypeStep DEF IInv
  <2>2. ASSUME NEW p \in Contenders, ContenderStep(p)
        PROVE  Rest'
    <3>1. CASE ReadText(p)
      BY <1>2, <2>2, <3>1, ReadTextStep DEF ContenderStep
    <3>2. CASE StatPath(p)
      BY <1>2, <2>2, <3>2, StatPathStep DEF ContenderStep
    <3>3. CASE TryAcquire(p)
      BY <1>2, <2>2, <3>3, TryAcquireStep DEF ContenderStep
    <3>4. CASE Judge(p)
      BY <1>2, <2>2, <3>4, JudgeStep DEF ContenderStep
    <3>5. CASE Recheck(p)
      BY <1>2, <2>2, <3>5, RecheckStep DEF ContenderStep
    <3>6. CASE UnlinkStale(p)
      BY <1>2, <2>2, <3>6, UnlinkStaleStep DEF ContenderStep
    <3>7. CASE Reopen(p)
      BY <1>2, <2>2, <3>7, ReopenStep DEF ContenderStep
    <3>8. CASE Identify(p)
      BY <1>2, <2>2, <3>8, IdentifyStep DEF ContenderStep
    <3>9. CASE WriteMetadata(p)
      BY <1>2, <2>2, <3>9, WriteMetadataStep DEF ContenderStep
    <3>10. CASE Verify(p)
      BY <1>2, <2>2, <3>10, VerifyStep DEF ContenderStep
    <3>11. CASE DiscardStat(p)
      BY <1>2, <2>2, <3>11, DiscardStatStep DEF ContenderStep
    <3>12. CASE DiscardUnlink(p)
      BY <1>2, <2>2, <3>12, DiscardUnlinkStep DEF ContenderStep
    <3>13. CASE Release(p)
      BY <1>2, <2>2, <3>13, ReleaseStep DEF ContenderStep
    <3>14. CASE CloseHandle(p)
      BY <1>2, <2>2, <3>14, CloseHandleStep DEF ContenderStep
    <3>15. CASE CheckAgain(p)
      BY <1>2, <2>2, <3>15, CheckAgainStep DEF ContenderStep
    <3>16. CASE UnlinkOwn(p)
      BY <1>2, <2>2, <3>16, UnlinkOwnStep DEF ContenderStep
    <3>17. QED
      BY <2>2, <3>1, <3>2, <3>3, <3>4, <3>5, <3>6, <3>7, <3>8, <3>9,
         <3>10, <3>11, <3>12, <3>13, <3>14, <3>15, <3>16
         DEF ContenderStep
  <2>3. ASSUME NEW p \in Contenders, Crash(p)
        PROVE  Rest'
    BY <1>2, <2>3, CrashStep
  <2>4. CASE Age \/ Recover \/ UNCHANGED vars
    BY <1>2, <2>1, <2>4, EnvironmentStep DEF IInv, Rest
  <2>5. QED
    BY <1>2, <2>1, <2>2, <2>3, <2>4 DEF Next, IInv, Rest
<1>3. QED
  BY <1>1, <1>2

\* All variables keep their types.
THEOREM TypeCorrect == Spec => []TypeOK
  BY TypeInit, TypeStep, PTL DEF Spec

\* Without faults, the lease file of a live owner stays in place until the
\* owner releases it (owned-file-lease.ts: cleanupStaleOwnedFileLease,
\* releaseNow), whoever dies or stalls: so there are never two owners.
THEOREM LiveLeaseKeptHolds ==
  ASSUME WindowRaces = FALSE, Faults = FALSE
  PROVE  Spec => []LiveLeaseKept
<1>1. IInv => LiveLeaseKept
  BY DEF IInv, FaultlessInv, LiveLeaseKept, Owners, Filled
<1>2. QED
  BY <1>1, Inductive, PTL DEF Spec

\* With faults, it does as long as no live contender's unfilled file has been
\* reclaimed; without, always: at most one process owns the lease at a time.
THEOREM OneOwner ==
  ASSUME WindowRaces = FALSE
  PROVE  Spec => []((Faults /\ misjudged) \/ \A p, q \in Owners : p = q)
<1>1. IInv => (Faults /\ misjudged) \/ \A p, q \in Owners : p = q
  BY DEF IInv, FaultlessInv, CandidateInv, Owners, Filled
<1>2. QED
  BY <1>1, Inductive, PTL DEF Spec

\* A reclaim takes a live process's file only while it is unfilled, and until
\* one has, releasing a lease or discarding a failed candidate removes no file
\* but one's own (cleanupStaleOwnedFileLease, releaseNow,
\* discardLeaseCandidate), with others running between the look and the unlink.
THEOREM OnlyOwnFileRemovedHolds ==
  ASSUME WindowRaces = FALSE
  PROVE  Spec => OnlyOwnFileRemoved
<1> DEFINE Own(p) ==
      path # None /\ path' = None /\ pc'[p] # pc[p] =>
         /\ pc[p] = "unlinkStale" => creator \notin alive \/ contents = Malformed
         /\ pc[p] \in {"unlinkOwn", "discardUnlink"} => creator = p \/ misjudged
<1>1. ASSUME IInv PROVE \A p \in Contenders : Own(p)
  <2> SUFFICES ASSUME NEW p \in Contenders PROVE Own(p)
    OBVIOUS
  <2>1. pc[p] = "unlinkStale" => creator \notin alive \/ contents = Malformed
    BY <1>1 DEF IInv, ReclaimInv, Reclaims, CreatorInv
  <2>2. pc[p] \in {"unlinkOwn", "discardUnlink"} => creator = p \/ misjudged
    BY <1>1 DEF IInv, CandidateInv, Filled, Discarding
  <2>3. QED
    BY <2>1, <2>2
<1>2. IInv /\ [Next]_vars => [\A p \in Contenders : Own(p)]_vars
  BY <1>1
<1>3. QED
  BY <1>2, Inductive, PTL DEF Spec, OnlyOwnFileRemoved
=============================================================================
