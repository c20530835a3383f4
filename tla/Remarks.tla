------------------------------ MODULE Remarks ------------------------------
(***************************************************************************)
(* The remarks of the devices and their file: every edit starts a          *)
(* goroutine that copies the remarks under the lock and then, outside it,  *)
(* writes the copy to one shared temporary file and renames that over the  *)
(* remark file.  The process may end anywhere and be started again.        *)
(*                                                                         *)
(* The remarks as a whole are known by the number of the edit that made    *)
(* them.  Files are inodes, because a goroutine may still write through a  *)
(* descriptor after another has renamed the file.                          *)
(***************************************************************************)
EXTENDS Naturals, Sequences

CONSTANT MaxEdits  \* bound: edits made; edit g starts saving goroutine g

ASSUME RemarksAssumption == MaxEdits \in Nat

Savers == 1 .. MaxEdits
None   == 0                      \* no inode; the remarks before any edit

VARIABLES
  up,        \* the process runs
  edits,     \* edits made so far
  remarks,   \* Scanner.remarks: the edit that made them
  dirty,     \* Scanner.remarkDirty
  pc,        \* pc[g]: "none", "start", "open", "write", "rename" or "done"
  snap,      \* snap[g]: saveRemarks' copy
  fd,        \* fd[g]: the inode g writes to
  tmp, file, \* the inodes of remarkFile + ".tmp" and of remarkFile
  content,   \* content[i]: <<>> empty, <<v>> the remarks v, <<v, w>> neither
  \* History variables, read by properties only.
  overlapped,  \* two goroutines were between open and rename at once
  failed,      \* some WriteFile failed
  unread,      \* a start could not read the file that was there
  kept         \* the remarks that were last known to be in the file whole

memVars  == <<remarks, dirty>>
goVars   == <<pc, snap, fd>>
diskVars == <<tmp, file, content>>
pastVars == <<overlapped, failed, unread, kept>>
vars == <<up, edits, memVars, goVars, diskVars, pastVars>>

TypeOK ==
  /\ up \in BOOLEAN /\ dirty \in BOOLEAN
  /\ edits \in 0 .. MaxEdits /\ remarks \in 0 .. edits
  /\ pc \in [Savers -> {"none", "start", "open", "write", "rename", "done"}]
  /\ snap \in [Savers -> 0 .. edits]
  /\ fd \in [Savers -> Savers \cup {None}]
  /\ tmp \in Savers \cup {None} /\ file \in Savers \cup {None}
  /\ \A i \in Savers :
       Len(content[i]) <= 2 /\ \A k \in DOMAIN content[i] : content[i][k] \in Savers
  /\ overlapped \in BOOLEAN /\ failed \in BOOLEAN /\ unread \in BOOLEAN
  /\ kept \in 0 .. edits

Init ==
  /\ up = TRUE /\ edits = 0 /\ remarks = 0 /\ dirty = FALSE
  /\ pc = [g \in Savers |-> "none"]
  /\ snap = [g \in Savers |-> 0]
  /\ fd = [g \in Savers |-> None]
  /\ tmp = None /\ file = None
  /\ content = [i \in Savers |-> <<>>]
  /\ overlapped = FALSE /\ failed = FALSE /\ unread = FALSE /\ kept = 0

Goto(g, p) == pc' = [pc EXCEPT ![g] = p]
Saving     == {g \in Savers : pc[g] \in {"open", "write", "rename"}}

-----------------------------------------------------------------------------
\* SetRemark, called by the API: new remarks, and a goroutine to save them.
SetRemark(g) ==
  /\ up /\ g = edits + 1
  /\ edits' = g /\ remarks' = g /\ dirty' = TRUE
  /\ Goto(g, "start")
  /\ UNCHANGED <<up, snap, fd, diskVars, pastVars>>

(***************************************************************************)
(* saveRemarks.                                                            *)
(***************************************************************************)
\* Another goroutine has copied the edit of this one.
NothingToSave(g) ==
  /\ up /\ pc[g] = "start" /\ ~dirty
  /\ Goto(g, "done")
  /\ UNCHANGED <<up, edits, memVars, snap, fd, diskVars, pastVars>>

TakeCopy(g) ==
  /\ up /\ pc[g] = "start" /\ dirty
  /\ dirty' = FALSE
  /\ snap' = [snap EXCEPT ![g] = remarks]
  /\ Goto(g, "open")
  /\ overlapped' = (overlapped \/ Saving # {})
  /\ UNCHANGED <<up, edits, remarks, fd, diskVars, failed, unread, kept>>

\* (slip: the remark file is written in place)
OpenInPlace(g) ==
  /\ up /\ pc[g] = "open"
  /\ LET i == IF file = None THEN g ELSE file IN
     /\ fd' = [fd EXCEPT ![g] = i]
     /\ file' = i /\ tmp' = i
     /\ content' = [content EXCEPT ![i] = <<>>]
  /\ Goto(g, "write")
  /\ UNCHANGED <<up, edits, memVars, snap, pastVars>>

\* WriteFile opens the temporary file: what is there is truncated.
OpenTmp(g) ==
  /\ up /\ pc[g] = "open"
  /\ LET i == IF tmp = None THEN g ELSE tmp IN
     /\ fd' = [fd EXCEPT ![g] = i]
     /\ tmp' = i
     /\ content' = [content EXCEPT ![i] = <<>>]
  /\ Goto(g, "write")
  /\ UNCHANGED <<up, edits, memVars, snap, file, pastVars>>

\* Written from offset 0 over what another goroutine wrote meanwhile: a shorter
\* text leaves the tail of the longer one.
WrittenOver(old, v) == IF old = <<>> THEN {<<v>>} ELSE {<<v>>, <<v, old[1]>>}

WriteTmp(g) ==
  /\ up /\ pc[g] = "write"
  /\ \E c \in WrittenOver(content[fd[g]], snap[g]) :
       content' = [content EXCEPT ![fd[g]] = c]
  /\ Goto(g, "rename")
  /\ UNCHANGED <<up, edits, memVars, snap, fd, tmp, file, pastVars>>

\* (slip: a failed write is not noticed)
WriteFailsRenamed(g) ==
  /\ up /\ pc[g] \in {"open", "write"}
  /\ Goto(g, IF pc[g] = "write" THEN "rename" ELSE "done") /\ failed' = TRUE
  /\ UNCHANGED <<up, edits, memVars, snap, fd, diskVars, overlapped, unread, kept>>

\* The directory, the open or the write fails: no rename, and no other try.
WriteFails(g) ==
  /\ up /\ pc[g] \in {"open", "write"}
  /\ Goto(g, "done") /\ failed' = TRUE
  /\ UNCHANGED <<up, edits, memVars, snap, fd, diskVars, overlapped, unread, kept>>

\* (slip: the flag is cleared once more when the file is in place)
RenameClearsDirty(g) ==
  /\ up /\ pc[g] = "rename" /\ tmp # None
  /\ file' = tmp /\ tmp' = None /\ dirty' = FALSE
  /\ kept' = IF content[tmp] = <<snap[g]>> THEN snap[g] ELSE kept
  /\ Goto(g, "done")
  /\ UNCHANGED <<up, edits, remarks, snap, fd, content, overlapped, failed, unread>>

Rename(g) ==
  /\ up /\ pc[g] = "rename" /\ tmp # None
  /\ file' = tmp /\ tmp' = None
  /\ kept' = IF content[tmp] = <<snap[g]>> THEN snap[g] ELSE kept
  /\ Goto(g, "done")
  /\ UNCHANGED <<up, edits, memVars, snap, fd, content, overlapped, failed, unread>>

\* Another goroutine has renamed the temporary file: the error is ignored.
RenameFails(g) ==
  /\ up /\ pc[g] = "rename" /\ tmp = None
  /\ Goto(g, "done")
  /\ UNCHANGED <<up, edits, memVars, snap, fd, diskVars, pastVars>>

SaveStep(g) ==
  \/ NothingToSave(g) \/ TakeCopy(g) \/ OpenTmp(g) \/ WriteTmp(g)
  \/ WriteFails(g) \/ Rename(g) \/ RenameFails(g)

-----------------------------------------------------------------------------
\* The process ends, orderly or not: nobody waits for the goroutines.
Exit ==
  /\ up
  /\ up' = FALSE /\ remarks' = 0 /\ dirty' = FALSE
  /\ pc' = [g \in Savers |-> IF pc[g] = "none" THEN "none" ELSE "done"]
  /\ UNCHANGED <<edits, snap, fd, diskVars, pastVars>>

\* Unmarshal of a text that is not one JSON value leaves the map as it is.
Parsed(text) == IF Len(text) = 1 THEN text[1] ELSE 0

\* New calls loadRemarks: a file that cannot be read is taken for none.
Restart ==
  /\ ~up
  /\ up' = TRUE
  /\ \/ remarks' = (IF file = None THEN 0 ELSE Parsed(content[file])) /\ UNCHANGED unread
     \/ file # None /\ remarks' = 0 /\ unread' = TRUE
  /\ UNCHANGED <<edits, dirty, goVars, diskVars, overlapped, failed, kept>>

Next ==
  \/ Exit \/ Restart
  \/ \E g \in Savers : SetRemark(g) \/ SaveStep(g)

Spec == Init /\ [][Next]_vars

\* The saving goroutines are scheduled.
FairSpec == Spec /\ \A g \in Savers : WF_vars(SaveStep(g))

-----------------------------------------------------------------------------
(***************************************************************************)
(* Properties.                                                             *)
(***************************************************************************)
Whole(i) == Len(content[i]) = 1
InFile   == IF file = None THEN <<>> ELSE content[file]

\* Saves that never overlap keep the file whole at every moment, through every
\* failed write and every end of the process (device.go saveRemarks: write to a
\* temporary file, then replace atomically).
LoneSavesKeepFileWhole == ~overlapped => (file = None \/ Whole(file))

\* ... and replace it by newer remarks only: once an edit is in the file no
\* failed write and no restart takes it back.  One failure does, and is left
\* out: a start that cannot read the file goes on without its remarks, and the
\* next edit saves over them, so that the number of an edit no longer stands
\* for all edits up to it (device.go:235-238).
LoneSavesGoForward ==
  [][~overlapped' /\ ~unread' =>
       /\ kept' >= kept
       /\ kept # 0 => InFile' # <<>> /\ InFile'[1] >= kept]_vars

\* When the goroutines have come to rest, and none overlapped or failed, the
\* file holds the last edit: an edit that comes while a save is under way is
\* not forgotten (device.go SetRemark, remarkDirty).
RestIsSaved ==
  (up /\ ~overlapped /\ ~failed /\ ~unread /\ \A g \in Savers : pc[g] \in {"none", "done"})
    => Parsed(InFile) = remarks

\* Every edit is copied for saving, by its own goroutine or an earlier one,
\* unless the process ends first.
EditsAreCopied ==
  \A g \in Savers :
    (up /\ pc[g] = "start") ~> (~up \/ \E h \in Savers : snap[h] >= g)

(***************************************************************************)
(* A claim of the repository that a run refutes.                           *)
(***************************************************************************)
\* device.go:258: the file is replaced atomically, so that a process that
\* crashes in the middle of a write does not damage it.
CrashKeepsFileWhole == ~up /\ ~failed => (file = None \/ Whole(file))
=============================================================================
