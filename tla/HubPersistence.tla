---------------------------- MODULE HubPersistence ----------------------------
(***************************************************************************)
(* How tools/camera-server.ts keeps its registry and each camera's last    *)
(* JPEG on disk: dirty marks, one delayed timer, a flush that writes every *)
(* dirty JPEG and then registry.json, each through a temporary file and a  *)
(* rename.  A flush is synchronous, so nothing else of the hub runs during *)
(* it; but each file operation may fail, and the hub may crash between any *)
(* two.  Where rename does not replace (Windows, says the code) the old    *)
(* file is removed first.  A start that cannot read registry.json goes on  *)
(* without it.  JPEGs are numbered in the order of arrival.                *)
(***************************************************************************)
EXTENDS Naturals

CONSTANTS Devices,
          MaxFrames,   \* bound: JPEGs received, per device
          MaxNews,     \* bound: changes of a record without a JPEG
          MaxFaults,   \* bound: file operations that fail
          MaxCrashes,  \* bound: crashes of the hub
          MaxUnread    \* bound: starts that cannot read registry.json

ASSUME BoundsAssumption == /\ MaxFrames \in Nat /\ MaxNews \in Nat
                           /\ MaxFaults \in Nat /\ MaxCrashes \in Nat
                           /\ MaxUnread \in Nat
ASSUME DevicesAssumption == "registry" \notin Devices

Unknown == [frame |-> 0, news |-> 0]       \* no record, or none on disk

Targets == Devices \cup {"registry"}

VARIABLES
  replaces,                \* the platform's renameSync replaces an existing file
  running, closed,         \* the hub runs; registry.close() was called
  records,                 \* per device: the JPEG and news its record tells of
  image,                   \* per device: latestFrame, 0 when there is none
  stateDirty, dirtyFrames, timer,
  todo,                    \* targets the running flush has not written
  target, at,              \* the one it writes, and the file operation
  byTimer,                 \* the timer called flush
  frameFile, registryFile, \* what is on disk
  saved,                   \* devices a completed flush has saved with a JPEG, and
                           \* every later start has found in the registry
  removed,                 \* targets removed whose new content is not yet in place
  unread,                  \* starts that could not read registry.json
  taken, faults, crashes   \* counters of the bounds

memory == <<records, image>>
dirt == <<stateDirty, dirtyFrames, timer>>
flushing == <<todo, target, at, byTimer>>
files == <<frameFile, registryFile, removed>>
disk == <<files, saved>>
bounds == <<taken, faults, crashes, unread>>
persistVars == <<replaces, running, closed, memory, dirt, flushing, disk, bounds>>

PersistInit ==
  /\ replaces \in BOOLEAN
  /\ running = TRUE /\ closed = FALSE
  /\ records = [d \in Devices |-> Unknown] /\ image = [d \in Devices |-> 0]
  /\ stateDirty = FALSE /\ dirtyFrames = {} /\ timer = FALSE
  /\ todo = {} /\ target = "registry" /\ at = "idle" /\ byTimer = FALSE
  /\ frameFile = [d \in Devices |-> 0] /\ registryFile = [d \in Devices |-> Unknown]
  /\ saved = {} /\ removed = {}
  /\ taken = [d \in Devices |-> 0] /\ faults = 0 /\ crashes = 0 /\ unread = 0

-----------------------------------------------------------------------------
(* The hub's changes.  An operator whose name starts with Bug is a plausible *)
(* mistake in the definition after it; no specification uses it.            *)

\* markDirty: remember what changed, and let one timer run.
MarkDirty(frames) == /\ stateDirty' = TRUE
                     /\ dirtyFrames' = dirtyFrames \cup frames
                     /\ timer' = TRUE

Awake == running /\ at = "idle"

\* acceptHello, sendCommand, acceptAck, onclose
Change(d) == /\ Awake /\ records[d].news < MaxNews
             /\ records' = [records EXCEPT ![d].news = @ + 1]
             /\ MarkDirty({})
             /\ UNCHANGED <<replaces, running, closed, image, flushing, disk, bounds>>

PublishFrame(d) == /\ Awake /\ records[d] # Unknown /\ taken[d] < MaxFrames
                   /\ taken' = [taken EXCEPT ![d] = @ + 1]
                   /\ image' = [image EXCEPT ![d] = taken'[d]]
                   /\ records' = [records EXCEPT ![d].frame = taken'[d]]
                   /\ MarkDirty({d})
                   /\ UNCHANGED <<replaces, running, closed, flushing, disk, faults, crashes,
                                  unread>>

-----------------------------------------------------------------------------
(* flush *)

BugFirst(frames) == {"registry"}      \* registry.json first, then the JPEGs
First(frames) == IF frames = {} THEN {"registry"} ELSE frames

Begin(frames) == /\ todo' = frames \cup {"registry"}
                 /\ target' \in First(frames)
                 /\ at' = "write"

TimerFires == /\ Awake /\ timer
              /\ timer' = FALSE
              /\ IF stateDirty
                 THEN byTimer' = TRUE /\ Begin(dirtyFrames)
                 ELSE UNCHANGED flushing
              /\ UNCHANGED <<replaces, running, closed, memory, stateDirty, dirtyFrames, disk,
                             bounds>>

\* registry.close(): connected cameras go offline, then a last flush.
Close ==
  /\ Awake /\ ~closed
  /\ closed' = TRUE
  /\ \E online \in SUBSET {d \in Devices : records[d] # Unknown /\ records[d].news < MaxNews} :
       /\ records' = [d \in Devices |-> IF d \in online
                                        THEN [records[d] EXCEPT !.news = @ + 1] ELSE records[d]]
       /\ stateDirty' = (stateDirty \/ online # {})
  /\ timer' = FALSE
  /\ IF stateDirty' THEN byTimer' = FALSE /\ Begin(dirtyFrames) ELSE UNCHANGED flushing
  /\ UNCHANGED <<replaces, running, image, dirtyFrames, disk, bounds>>

\* What a reader of the target would find while its new content is written.
BugDuring(old, none) == none          \* writes in place
During(old, none) == old

Put(new, registry) ==
  IF target = "registry"
  THEN registryFile' = registry /\ UNCHANGED frameFile
  ELSE frameFile' = [frameFile EXCEPT ![target] = new] /\ UNCHANGED registryFile

\* The new content takes the target's name.
Replace == /\ Put(IF target = "registry" THEN 0 ELSE image[target], records)
           /\ removed' = removed \ {target}

NoRegistry == [d \in Devices |-> Unknown]

Absent == IF target = "registry" THEN registryFile = NoRegistry ELSE frameFile[target] = 0

WriteTemporary ==
  /\ running /\ at = "write"
  /\ at' = "rename"
  /\ Put(During(IF target = "registry" THEN 0 ELSE frameFile[target], 0),
         During(registryFile, NoRegistry))
  /\ UNCHANGED <<replaces, running, closed, memory, dirt, todo, target, byTimer, saved, removed,
                 bounds>>

BugStillDirty == todo                 \* forgets the wrong set
StillDirty == {}

\* The new content is in place; after the last target nothing is dirty.
Done ==
  LET rest == todo \ {target}
  IN /\ Replace
     /\ todo' = rest
     /\ IF rest = {}
        THEN /\ at' = "idle"
             /\ stateDirty' = FALSE /\ dirtyFrames' = StillDirty
             /\ saved' = saved \cup {d \in Devices : image[d] # 0}
             /\ UNCHANGED target
        ELSE /\ at' = "write"
             /\ target' \in IF rest = {"registry"} THEN rest ELSE rest \ {"registry"}
             /\ UNCHANGED <<stateDirty, dirtyFrames, saved>>
     /\ UNCHANGED <<replaces, running, closed, memory, timer, byTimer, bounds>>

MayRename == at = "again" \/ (at = "rename" /\ (replaces \/ Absent))

Rename == running /\ MayRename /\ Done

AlreadyExists == /\ running /\ at = "rename" /\ ~replaces /\ ~Absent
                 /\ at' = "remove"
                 /\ UNCHANGED <<replaces, running, closed, memory, dirt, todo, target, byTimer,
                                disk, bounds>>

RemoveOld == /\ running /\ at = "remove"
             /\ at' = "again"
             /\ Put(0, NoRegistry) /\ removed' = removed \cup {target}
             /\ UNCHANGED <<replaces, running, closed, memory, dirt, todo, target, byTimer, saved,
                            bounds>>

BugRetries == FALSE                   \* a failed flush is only logged
Retries == byTimer

BugMarked == FALSE                    \* the mark is cleared before the writes
Marked == stateDirty

\* A file operation throws, be it the removal of the temporary file after the
\* rename: everything stays dirty, and the timer's callback schedules another try.
Fault == /\ running /\ at # "idle" /\ faults < MaxFaults
         /\ faults' = faults + 1
         /\ at' = "idle"
         /\ todo' = {}
         /\ timer' = Retries
         /\ stateDirty' = Marked
         /\ \/ UNCHANGED files
            \/ MayRename /\ Replace
         /\ UNCHANGED <<replaces, running, closed, memory, dirtyFrames, target, byTimer, saved,
                        taken, crashes, unread>>

FlushStep == WriteTemporary \/ Rename \/ AlreadyExists \/ RemoveOld

-----------------------------------------------------------------------------
(* The process *)

Stop == /\ running' = FALSE
        /\ records' = NoRegistry /\ image' = [d \in Devices |-> 0]
        /\ stateDirty' = FALSE /\ dirtyFrames' = {} /\ timer' = FALSE
        /\ todo' = {} /\ target' = "registry" /\ at' = "idle" /\ byTimer' = FALSE

\* A closed hub exits once no timer keeps it alive.
Exit == /\ Awake /\ closed /\ ~timer
        /\ Stop
        /\ UNCHANGED <<replaces, closed, disk, bounds>>

Crash == /\ running /\ crashes < MaxCrashes
         /\ crashes' = crashes + 1
         /\ Stop
         /\ UNCHANGED <<replaces, closed, disk, taken, faults, unread>>

\* loadState finds the records of registry.json, each with its JPEG ...
Found == [d \in Devices |-> IF registryFile[d] = Unknown THEN 0 ELSE frameFile[d]]
Load == records' = registryFile /\ image' = Found /\ UNCHANGED <<faults, unread>>

\* ... or without one JPEG, which it could not read ...
LoadAllButOne == /\ faults < MaxFaults
                 /\ faults' = faults + 1
                 /\ records' = registryFile
                 /\ \E d \in Devices : image' = [Found EXCEPT ![d] = 0]
                 /\ UNCHANGED unread

\* ... or nothing: it logs that registry.json cannot be read or is invalid, and
\* the hub starts as if there were none.
LoadNothing == /\ unread < MaxUnread
               /\ unread' = unread + 1
               /\ records' = NoRegistry /\ image' = [d \in Devices |-> 0]
               /\ UNCHANGED faults

Restart == /\ ~running
           /\ running' = TRUE /\ closed' = FALSE
           /\ Load \/ LoadAllButOne \/ LoadNothing
           /\ saved' = {d \in saved : records'[d] # Unknown}
           /\ UNCHANGED <<replaces, dirt, flushing, files, taken, crashes>>

PersistNext == \/ \E d \in Devices : Change(d) \/ PublishFrame(d)
               \/ TimerFires \/ Close \/ FlushStep \/ Fault \/ Exit \/ Crash \/ Restart

PersistSpec == PersistInit /\ [][PersistNext]_persistVars

\* The event loop runs the timer; a flush, once begun, is not interrupted.
PersistFairSpec == PersistSpec /\ WF_persistVars(TimerFires) /\ WF_persistVars(FlushStep)

-----------------------------------------------------------------------------
\* The values the variables range over.
PersistTypeOK ==
  /\ replaces \in BOOLEAN /\ running \in BOOLEAN /\ closed \in BOOLEAN
  /\ records \in [Devices -> [frame : 0..MaxFrames, news : 0..MaxNews]]
  /\ image \in [Devices -> 0..MaxFrames]
  /\ stateDirty \in BOOLEAN /\ dirtyFrames \subseteq Devices /\ timer \in BOOLEAN
  /\ todo \subseteq Targets /\ target \in Targets
  /\ at \in {"idle", "write", "rename", "remove", "again"} /\ byTimer \in BOOLEAN
  /\ frameFile \in [Devices -> 0..MaxFrames]
  /\ registryFile \in [Devices -> [frame : 0..MaxFrames, news : 0..MaxNews]]
  /\ saved \subseteq Devices /\ removed \subseteq Targets
  /\ taken \in [Devices -> 0..MaxFrames] /\ faults \in 0..MaxFaults /\ crashes \in 0..MaxCrashes
  /\ unread \in 0..MaxUnread

\* registry.json never tells of a JPEG newer than the one on disk, whichever write
\* failed and wherever the hub crashed: the JPEG is that new, or removed.
FrameBeforeRegistry ==
  \A d \in Devices : d \in removed \/ registryFile[d].frame <= frameFile[d]

\* Nothing marked clean differs from the disk, unless nothing was read of it: a
\* flush that failed half way leaves its marks behind.
CleanIsDurable ==
  running /\ ~stateDirty /\ at = "idle" =>
    /\ dirtyFrames = {}
    /\ records \in {registryFile, NoRegistry}
    /\ \A d \in Devices : image[d] # 0 => frameFile[d] = image[d]

\* What is dirty will be written: a timer runs, or the flush itself, unless
\* the last flush of a closed hub failed.
DirtyIsScheduled == running /\ stateDirty => timer \/ at # "idle" \/ closed

\* After a restart of the hub each camera is restored, offline, with its last image
\* (README.md, lines 100-102): one that a flush has saved is found on disk, with a
\* JPEG, whenever the hub is to start and whatever failed before, until a start goes
\* on without it.  The one exception: where rename does not replace, a file is
\* missing after a failure or a crash between its removal and the second rename.
SavedIsRestored ==
  /\ replaces => removed = {}
  /\ ~running => \A d \in saved : /\ "registry" \in removed \/ registryFile[d] # Unknown
                                  /\ d \in removed \/ frameFile[d] # 0

\* What the next start of the hub finds on disk: no image older than its record
\* says, and every camera that was saved.
DiskIsTrue == FrameBeforeRegistry /\ SavedIsRestored

\* The marks, the timer and the disk agree, whichever file operation failed.
MarksAreTrue == PersistTypeOK /\ CleanIsDurable /\ DirtyIsScheduled

-----------------------------------------------------------------------------
\* Whatever fails for a while, a change reaches the disk, unless the hub
\* crashes or is closed first.
DirtyIsSaved == stateDirty ~> (~stateDirty \/ ~running \/ closed)
=============================================================================
