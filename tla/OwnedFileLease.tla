--------------------------- MODULE OwnedFileLease ---------------------------
(***************************************************************************)
(* src/service/owned-file-lease.ts: a lease is a file that its owner       *)
(* creates with O_EXCL, fills with its token and pid, and unlinks.  Every  *)
(* file operation is a step of its own, so contenders interleave between   *)
(* any two of them, and a contender may be killed anywhere.                *)
(*                                                                         *)
(* One lease path is modelled.  The inode number of a file is its identity *)
(* (isSameFile) and is used again once the file is removed and closed.     *)
(* Contents are Malformed (empty, or cut short by a crash), or the         *)
(* contender whose valid v1 metadata they are; token and pid are one.  A   *)
(* removed file is never read again, so only the contents and the age of   *)
(* the file at the path are kept.  A contender starts over with no locals. *)
(***************************************************************************)
EXTENDS Naturals

CONSTANTS
    Contenders,     \* processes that use the lease
    Mortal,         \* those that may be killed
    Inodes,         \* inode numbers, reused when free
    Faults,         \* do file operations fail until the storage recovers?
    Stalls,         \* may a live candidate outlast invalidStaleMs?
    WindowRaces,    \* may others run between a reclaim's re-check and unlink?
    None,           \* no file, no inode
    Malformed,      \* contents that are not lease metadata
    Unread          \* a read that has not settled

ASSUME MortalAssumption == Mortal \subseteq Contenders
ASSUME FlagAssumption == {Faults, Stalls, WindowRaces} \subseteq BOOLEAN

ASSUME InodeAssumption == None \notin Inodes
ASSUME NameAssumption == {None, Malformed, Unread} \intersect Contenders = {}

VARIABLES
    alive,      \* contenders whose process runs
    path,       \* inode the lease path names, or None
    contents,   \* what that file contains
    old,        \* was it last written longer than invalidStaleMs ago?
    creator,    \* history: the contender that created it, or None
    misjudged,  \* history: was a live contender's unfilled file reclaimed?
    failing,    \* may file operations fail at the moment?
    handle,     \* inode of the candidate a contender created (fileIdentity)
    open,       \* contenders whose file handle is open
    text,       \* what the pending readText saw, Unread before
    stat,       \* what the pending stat saw, Unread before
    judged,     \* the snapshot a reclaim was decided on
    pc

locals == <<handle, open, text, stat, judged, pc>>
file == <<path, contents, old, creator, misjudged>>
vars == <<alive, file, failing, locals>>

\* Where a contender stands.  In the reading locations it collects a snapshot.
Reading == {"inspect", "recheck", "verify", "checkOwned", "checkAgain"}
Locations == Reading \union
    {"idle", "unlinkStale", "reopen", "identify", "write", "discardStat",
     "discardUnlink", "owned", "unlinkOwn", "dead"}

Texts == Contenders \union {Malformed, None, Unread}
Stats == [inode : Inodes \union {None}, old : BOOLEAN]
Snapshots == [text : Contenders \union {Malformed}, inode : Inodes]

TypeOK ==
    /\ alive \subseteq Contenders
    /\ path \in Inodes \union {None}
    /\ contents \in Contenders \union {Malformed}
    /\ creator \in Contenders \union {None}
    /\ {old, misjudged, failing} \subseteq BOOLEAN
    /\ handle \in [Contenders -> Inodes \union {None}]
    /\ open \subseteq Contenders
    /\ text \in [Contenders -> Texts]
    /\ stat \in [Contenders -> Stats \union {Unread}]
    /\ judged \in [Contenders -> Snapshots \union {Unread}]
    /\ pc \in [Contenders -> Locations]

Init ==
    /\ alive = Contenders
    /\ path = None
    /\ contents = Malformed
    /\ old = FALSE
    /\ creator = None
    /\ misjudged = FALSE
    /\ failing = Faults
    /\ handle = [p \in Contenders |-> None]
    /\ open = {}
    /\ text = [p \in Contenders |-> Unread]
    /\ stat = [p \in Contenders |-> Unread]
    /\ judged = [p \in Contenders |-> Unread]
    /\ pc = [p \in Contenders |-> "idle"]

----------------------------------------------------------------------------
(* Steps between locations.                                                *)

\* The snapshot, if any, has been used.
Goto(p, location) ==
    /\ pc' = [pc EXCEPT ![p] = location]
    /\ text' = [text EXCEPT ![p] = Unread]
    /\ stat' = [stat EXCEPT ![p] = Unread]

\* The call ends, or the process does; its locals are gone.
Leave(p, location) ==
    /\ Goto(p, location)
    /\ handle' = [handle EXCEPT ![p] = None]
    /\ open' = open \ {p}
    /\ judged' = [judged EXCEPT ![p] = Unread]

Return(p) == Leave(p, "idle")

\* Nothing else changes on the way to a location.
Proceed(p, location) ==
    Goto(p, location) /\ UNCHANGED <<handle, open, judged>>

HasRead(p) ==
    /\ pc[p] \in Reading
    /\ text[p] # Unread
    /\ stat[p] # Unread

SnapshotMissing(p) == text[p] = None \/ stat[p].inode = None

\* readLeaseSnapshot: its two reads settle in either order.  Only the first
\* snapshot of a reclaim is asked for the age of the file.
ReadText(p) ==
    /\ pc[p] \in Reading /\ text[p] = Unread
    /\ text' = [text EXCEPT ![p] = IF path = None THEN None ELSE contents]
    /\ UNCHANGED <<alive, file, handle, open, stat, judged, pc>>

StatPath(p) ==
    /\ pc[p] \in Reading /\ stat[p] = Unread
    /\ stat' = [stat EXCEPT
                   ![p] = [inode |-> path, old |-> pc[p] = "inspect" /\ old]]
    /\ UNCHANGED <<alive, file, handle, open, text, judged, pc>>

\* unlink() removes whatever the path names by now.
RemovePath ==
    /\ path' = None
    /\ contents' = Malformed
    /\ old' = FALSE
    /\ creator' = None

----------------------------------------------------------------------------
(* Acquiring: tryAcquireOwnedFileLease.                                    *)

\* openExclusive succeeds: an empty file with an unused inode.
CreateCandidate(p) ==
    /\ path = None
    /\ \E i \in Inodes \ {handle[q] : q \in open} :
          /\ path' = i
          /\ handle' = [handle EXCEPT ![p] = i]
    /\ open' = open \union {p}
    /\ creator' = p
    /\ Goto(p, "identify")
    /\ UNCHANGED <<contents, old, misjudged, judged>>

\* Create the file, or inspect the one in the way.
TryAcquire(p) ==
    /\ pc[p] = "idle"
    /\ \/ CreateCandidate(p)
       \/ path # None /\ Proceed(p, "inspect") /\ UNCHANGED file
    /\ UNCHANGED alive

\* Mutants: a file is reclaimed for its age alone; an empty one never is.
ReclaimableByAge(p) == text[p] \in Contenders \ alive \/ stat[p].old
ReclaimableIfDead(p) == text[p] \in Contenders \ alive

\* cleanupStaleOwnedFileLease after its first snapshot: metadata of a dead
\* process, or no metadata and old, make a file reclaimable.
Reclaimable(p) ==
    \/ text[p] \in Contenders \ alive
    \/ text[p] = Malformed /\ stat[p].old

Judge(p) ==
    /\ pc[p] = "inspect" /\ HasRead(p)
    /\ \/ SnapshotMissing(p) /\ Proceed(p, "reopen")
       \/ failing /\ Return(p)
       \/ ~SnapshotMissing(p) /\ ~Reclaimable(p) /\ Return(p)
       \/ /\ ~SnapshotMissing(p) /\ Reclaimable(p)
          /\ judged' = [judged EXCEPT
                ![p] = [text |-> text[p], inode |-> stat[p].inode]]
          /\ Goto(p, "recheck")
          /\ UNCHANGED <<handle, open>>
    /\ UNCHANGED <<alive, file>>

\* Mutant: the contents are not compared, and an inode number is used again.
UnchangedInode(p) == stat[p].inode = judged[p].inode

\* And after its second snapshot: give up when the file was replaced.
Unchanged(p) ==
    text[p] = judged[p].text /\ stat[p].inode = judged[p].inode

Recheck(p) ==
    /\ pc[p] = "recheck" /\ HasRead(p)
    /\ \/ SnapshotMissing(p) /\ Proceed(p, "reopen")
       \/ failing /\ Return(p)
       \/ ~SnapshotMissing(p) /\ ~Unchanged(p) /\ Return(p)
       \/ ~SnapshotMissing(p) /\ Unchanged(p) /\ Proceed(p, "unlinkStale")
    /\ UNCHANGED <<alive, file>>

\* Contenders in these locations have created a file and not filled it yet, or
\* have failed to.
Unfinished == {"identify", "write", "discardStat", "discardUnlink"}

\* ENOENT counts as done; any other error is thrown.
UnlinkStale(p) ==
    /\ pc[p] = "unlinkStale"
    /\ \/ /\ RemovePath
          /\ misjudged' =
                (misjudged \/ (creator \in alive /\ pc[creator] \in Unfinished))
          /\ Proceed(p, "reopen")
       \/ failing /\ UNCHANGED file /\ Return(p)
    /\ UNCHANGED alive

\* The second openExclusive; a peer that was faster wins.
Reopen(p) ==
    /\ pc[p] = "reopen"
    /\ \/ CreateCandidate(p)
       \/ path # None /\ Return(p) /\ UNCHANGED file
    /\ UNCHANGED alive

\* The identity is read from the handle; on an error the empty file stays.
Identify(p) ==
    /\ pc[p] = "identify"
    /\ \/ Proceed(p, "write")
       \/ failing /\ Return(p)
    /\ UNCHANGED <<alive, file>>

\* The metadata is written through the handle, to a file that may no longer be
\* at the path, and the identity read again.  On an error the candidate, with
\* or without complete contents, is closed and discarded.
WriteMetadata(p) ==
    /\ pc[p] = "write"
    /\ old' = (old /\ path # handle[p])
    /\ \E c \in {p} \union (IF failing THEN {Malformed} ELSE {}) :
          contents' = IF path = handle[p] THEN c ELSE contents
    /\ \/ /\ path = handle[p] => contents' = p
          /\ Proceed(p, "verify")
       \/ /\ failing
          /\ open' = open \ {p}
          /\ Goto(p, "discardStat")
          /\ UNCHANGED <<handle, judged>>
    /\ UNCHANGED <<alive, path, creator, misjudged>>

\* discardLeaseCandidate unlinks the path if it still names the candidate.
DiscardStat(p) ==
    /\ pc[p] = "discardStat"
    /\ \/ path = handle[p] /\ Proceed(p, "discardUnlink")
       \/ path # handle[p] /\ Return(p)
    /\ UNCHANGED <<alive, file>>

DiscardUnlink(p) ==
    /\ pc[p] = "discardUnlink"
    /\ \/ RemovePath /\ UNCHANGED misjudged
       \/ failing /\ UNCHANGED file
    /\ Return(p)
    /\ UNCHANGED alive

\* matchesCurrentFile, on a complete snapshot.
Matches(p) == text[p] = p /\ stat[p].inode = handle[p]

\* lease.isOwner() decides whether the attempt succeeded; if not, or when it
\* cannot tell, the lease is released at once.
Verify(p) ==
    /\ pc[p] = "verify" /\ HasRead(p)
    /\ \/ Matches(p) /\ Proceed(p, "owned")
       \/ (~Matches(p) \/ failing) /\ Proceed(p, "checkOwned")
    /\ UNCHANGED <<alive, file>>

----------------------------------------------------------------------------
(* Releasing: releaseNow.                                                  *)

Release(p) ==
    /\ pc[p] = "owned"
    /\ Proceed(p, "checkOwned")
    /\ UNCHANGED <<alive, file>>

\* Close the handle, and look again if the file was still ours.
CloseHandle(p) ==
    /\ pc[p] = "checkOwned" /\ HasRead(p)
    /\ \/ /\ Matches(p)
          /\ open' = open \ {p}
          /\ Goto(p, "checkAgain")
          /\ UNCHANGED <<handle, judged>>
       \/ (~Matches(p) \/ failing) /\ Return(p)
    /\ UNCHANGED <<alive, file>>

CheckAgain(p) ==
    /\ pc[p] = "checkAgain" /\ HasRead(p)
    /\ \/ Matches(p) /\ Proceed(p, "unlinkOwn")
       \/ (~Matches(p) \/ failing) /\ Return(p)
    /\ UNCHANGED <<alive, file>>

UnlinkOwn(p) ==
    /\ pc[p] = "unlinkOwn"
    /\ \/ RemovePath /\ UNCHANGED misjudged
       \/ failing /\ UNCHANGED file
    /\ Return(p)
    /\ UNCHANGED alive

----------------------------------------------------------------------------
(* The environment.                                                        *)

\* The file at the path grows older than invalidStaleMs.  A live process fills
\* or discards its candidate within that time unless it is stalled.
Age ==
    /\ path # None /\ ~old
    /\ Stalls \/ \A p \in alive : handle[p] = path => pc[p] \notin Unfinished
    /\ old' = TRUE
    /\ UNCHANGED <<alive, path, contents, creator, misjudged, failing, locals>>

\* The storage is back: from now on file operations succeed.
Recover ==
    /\ failing
    /\ failing' = FALSE
    /\ UNCHANGED <<alive, file, locals>>

\* The process is killed: its handles are closed, its file stays.
Crash(p) ==
    /\ p \in alive \intersect Mortal
    /\ alive' = alive \ {p}
    /\ Leave(p, "dead")
    /\ UNCHANGED <<failing, file>>

\* Between the re-check of a file to reclaim and the unlink that relies on it.
Window == {"recheck", "unlinkStale"}

Scheduled(p) ==
    WindowRaces \/ \A q \in Contenders \ {p} : pc[q] \notin Window

ContenderStep(p) ==
    /\ Scheduled(p)
    /\ UNCHANGED failing
    /\ \/ ReadText(p) \/ StatPath(p)
       \/ TryAcquire(p) \/ Judge(p) \/ Recheck(p) \/ UnlinkStale(p)
       \/ Reopen(p) \/ Identify(p) \/ WriteMetadata(p) \/ Verify(p)
       \/ DiscardStat(p) \/ DiscardUnlink(p)
       \/ Release(p) \/ CloseHandle(p) \/ CheckAgain(p) \/ UnlinkOwn(p)

Next ==
    \/ \E p \in Contenders : ContenderStep(p) \/ Crash(p)
    \/ Age \/ Recover

Spec == Init /\ [][Next]_vars

(* Every pending file operation settles, callers poll until they get the    *)
(* lease (acquireGlobal, acquireManifestLock), an owner eventually releases *)
(* it, time passes and the storage recovers.  No process has to crash.      *)
Fairness ==
    /\ \A p \in Contenders : SF_vars(ContenderStep(p))
    /\ WF_vars(Age) /\ WF_vars(Recover)

FairSpec == Spec /\ Fairness

----------------------------------------------------------------------------
(* Properties.                                                             *)

\* Those whose tryAcquireOwnedFileLease returned a lease not yet released.
Owners == {p \in Contenders : pc[p] = "owned"}

\* The lease file of a live owner stays in place until the owner releases it,
\* however old it gets and whatever its peers find out about it; so there are
\* never two live owners.
LiveLeaseKept == \A p \in Owners : path = handle[p] /\ contents = p

\* Reclaiming, release() and the discarding of a failed candidate unlink by
\* path, after a look at the file that may be outdated by then.  A reclaim
\* takes a live process's file only while it is unfilled: the process is late,
\* or its new file has the inode number of an empty one judged before.  As
\* long as that has not happened, releasing and discarding remove the
\* contender's own file, whichever inode numbers are used again; once it has,
\* a contender may look at its candidate, be robbed of it, and unlink the
\* lease of a peer.
OnlyOwnFileRemoved ==
    [][\A p \in Contenders :
          path # None /\ path' = None /\ pc'[p] # pc[p] =>
             /\ pc[p] = "unlinkStale" =>
                   creator \notin alive \/ contents = Malformed
             /\ pc[p] \in {"unlinkOwn", "discardUnlink"} =>
                   creator = p \/ misjudged]_vars

\* Processes have been killed, and the file in the way belongs to none that runs.
Abandoned ==
    /\ alive # Contenders
    /\ path # None
    /\ contents \notin alive
    /\ \A p \in open : handle[p] # path

\* A live process could not remove its file: it is kept while the process lives.
Stranded == path # None /\ contents \in alive \ open

\* A file left behind by a killed owner, or by a candidate killed before it was
\* filled, does not block the lease once the storage works: a contender that
\* goes on trying gets it, unless it has failed to remove a file of its own.
AbandonedReclaimed == Abandoned ~> Owners # {} \/ Stranded
=============================================================================
