--------------------------- MODULE DevicesProofs ---------------------------
(***************************************************************************)
(* Proofs about Devices and, in the first half, about its part Remarks:    *)
(* for any number of edits, what the saving goroutines, the two files and  *)
(* the ends of the process do to each other.  The scan loop leaves the     *)
(* remarks alone, so that this holds beside it.  The second half is about  *)
(* the names, for any set of devices, names and length of an hour.         *)
(***************************************************************************)
EXTENDS Devices, TLAPS

Text(e) == {<<>>} \cup {<<v>> : v \in 1 .. e} \cup {<<v, w>> : v, w \in 1 .. e}

\* Files hold edits that were made, and a goroutine at work copied one; a
\* goroutine that has not opened its file has made no inode; nobody is at work
\* when the process is down.
Past ==
  /\ content \in [Savers -> Text(edits)]
  /\ dirty => up /\ remarks >= 1
  /\ \A g \in Savers :
       /\ pc[g] \in {"open", "write", "rename"} => snap[g] >= 1
       /\ pc[g] \in {"write", "rename"} => fd[g] # None
       /\ pc[g] \in {"none", "start", "open"} =>
            tmp # g /\ file # g /\ \A h \in Savers : fd[h] # g
       /\ g > edits => pc[g] = "none"
       /\ ~up => pc[g] \in {"none", "done"}

\* As long as no two goroutines were at work at once: the one that is at work
\* owns the temporary file, the remark file holds the remarks known to be kept,
\* and, if every start has read it, memory holds them too and what is neither
\* kept nor being written is still to be copied.
Lone ==
  ~overlapped =>
    /\ \A g, h \in Saving : g = h
    /\ \A g \in Savers :
         /\ pc[g] = "write" => fd[g] = tmp /\ content[tmp] = <<>>
         /\ pc[g] = "rename" => tmp # None /\ content[tmp] = <<snap[g]>>
         /\ pc[g] \in {"open", "write", "rename"} =>
              snap[g] <= remarks /\ (~unread => kept <= snap[g])
    /\ tmp # None => tmp # file
    /\ file = None => kept = 0
    /\ file # None => content[file] = <<kept>>
    /\ up /\ ~unread => kept <= remarks
    /\ up /\ ~failed /\ dirty => \E g \in Savers : pc[g] = "start"
    /\ up /\ ~failed /\ ~unread /\ ~dirty =>
         (\E g \in Saving : snap[g] = remarks) \/ kept = remarks

-----------------------------------------------------------------------------
\* What a text may be, and what is read from it.
LEMMA Texts ==
  ASSUME NEW e \in Nat, e <= MaxEdits, NEW t \in Text(e)
  PROVE  /\ Len(t) <= 2 /\ \A k \in DOMAIN t : t[k] \in Savers
         /\ Parsed(t) \in 0 .. e
         /\ t # <<>> => t[1] \in 1 .. e
         /\ t \in Text(e + 1)
<1>1. CASE t = <<>> BY <1>1 DEF Parsed, Text
<1>2. ASSUME NEW v \in 1 .. e, t = <<v>>
      PROVE  /\ Len(t) <= 2 /\ \A k \in DOMAIN t : t[k] \in Savers
             /\ Parsed(t) \in 0 .. e /\ t[1] \in 1 .. e /\ t \in Text(e + 1)
  <2>1. Len(t) = 1 /\ DOMAIN t = {1} /\ t[1] = v BY <1>2
  <2>2. v \in 1 .. e + 1 OBVIOUS
  <2>3. t \in Text(e + 1) BY <1>2, <2>2 DEF Text
  <2> QED BY <2>1, <2>3, RemarksAssumption DEF Parsed, Savers
<1>3. ASSUME NEW v \in 1 .. e, NEW w \in 1 .. e, t = <<v, w>>
      PROVE  /\ Len(t) <= 2 /\ \A k \in DOMAIN t : t[k] \in Savers
             /\ Parsed(t) \in 0 .. e /\ t[1] \in 1 .. e /\ t \in Text(e + 1)
  <2>1. Len(t) = 2 /\ DOMAIN t = {1, 2} /\ t[1] = v /\ t[2] = w BY <1>3
  <2>2. v \in 1 .. e + 1 /\ w \in 1 .. e + 1 OBVIOUS
  <2>3. t \in Text(e + 1) BY <1>3, <2>2 DEF Text
  <2> QED BY <2>1, <2>3, RemarksAssumption DEF Parsed, Savers
<1> QED BY <1>1, <1>2, <1>3 DEF Text

\* The part of TypeOK about the files follows from Past.
Types ==
  /\ up \in BOOLEAN /\ dirty \in BOOLEAN
  /\ edits \in 0 .. MaxEdits /\ remarks \in 0 .. edits
  /\ pc \in [Savers -> {"none", "start", "open", "write", "rename", "done"}]
  /\ snap \in [Savers -> 0 .. edits]
  /\ fd \in [Savers -> Savers \cup {None}]
  /\ tmp \in Savers \cup {None} /\ file \in Savers \cup {None}
  /\ overlapped \in BOOLEAN /\ failed \in BOOLEAN /\ unread \in BOOLEAN
  /\ kept \in 0 .. edits

LEMMA TypesSuffice == Types /\ Past => TypeOK
<1> SUFFICES ASSUME Types, Past PROVE TypeOK OBVIOUS
<1>1. edits \in Nat /\ edits <= MaxEdits BY RemarksAssumption DEF Types
<1>2. \A i \in Savers :
        Len(content[i]) <= 2 /\ \A k \in DOMAIN content[i] : content[i][k] \in Savers
  BY <1>1, Texts DEF Past
<1> QED BY <1>2 DEF Types, TypeOK

IInv == Types /\ Past /\ Lone

LEMMA InitHolds == Init => IInv
<1> SUFFICES ASSUME Init PROVE IInv OBVIOUS
<1>1. Types
  <2>1. /\ up \in BOOLEAN /\ dirty \in BOOLEAN /\ overlapped \in BOOLEAN
        /\ failed \in BOOLEAN /\ unread \in BOOLEAN
    BY DEF Init
  <2>2. edits \in 0 .. MaxEdits /\ remarks \in 0 .. edits /\ kept \in 0 .. edits
    BY RemarksAssumption DEF Init
  <2>3. /\ pc \in [Savers -> {"none", "start", "open", "write", "rename", "done"}]
        /\ snap \in [Savers -> 0 .. edits]
    BY DEF Init
  <2>4. /\ fd \in [Savers -> Savers \cup {None}]
        /\ tmp \in Savers \cup {None} /\ file \in Savers \cup {None}
    BY DEF Init
  <2> QED BY <2>1, <2>2, <2>3, <2>4 DEF Types
<1>2. Past BY RemarksAssumption DEF Init, Past, Text, Savers, None
<1>3. Lone BY DEF Init, Lone, Saving
<1> QED BY <1>1, <1>2, <1>3 DEF IInv

-----------------------------------------------------------------------------
LEMMA Facts ==
  ASSUME IInv
  PROVE  /\ edits \in Nat /\ edits <= MaxEdits /\ remarks \in Nat /\ kept \in Nat
         /\ \A g \in Savers : g \in Nat /\ g # None /\ snap[g] \in Nat
BY RemarksAssumption DEF IInv, Types, Savers, None

LEMMA SetRemarkKeeps == ASSUME IInv, NEW g \in Savers, SetRemark(g) PROVE IInv'
<1> USE DEF IInv, memVars, goVars, diskVars, pastVars
<1>0. /\ g = edits + 1 /\ g \in 1 .. MaxEdits /\ edits \in 0 .. MaxEdits
  BY Facts DEF SetRemark, Savers, Types
<1>1. Types' BY <1>0, Facts DEF SetRemark, Types, Goto
<1>2. Past'
  <2>1. \A i \in Savers : content'[i] \in Text(edits')
    BY <1>0, Facts, Texts DEF SetRemark, Past
  <2>2. content' \in [Savers -> Text(edits')] BY <2>1 DEF SetRemark, Past
  <2>3. dirty' => up' /\ remarks' >= 1 BY <1>0, Facts DEF SetRemark
  <2>4. pc' = [pc EXCEPT ![g] = "start"] /\ up
        /\ UNCHANGED <<snap, fd, tmp, file>>
    BY DEF SetRemark, Goto
  <2>5. pc[g] = "none" BY <1>0 DEF Past
  <2>6. \A h \in Savers : h > edits' => h # g /\ h > edits BY <1>0, Facts DEF SetRemark
  <2>7. up' = up BY DEF SetRemark
  <2> QED BY <2>2, <2>3, <2>4, <2>5, <2>6, <2>7 DEF Past, Types
<1>3. Lone'
  <2>1. Saving' \subseteq Saving BY DEF SetRemark, Goto, Saving, Types
  <2> QED BY <1>0, <2>1, Facts DEF SetRemark, Lone, Goto, Types
<1> QED BY <1>1, <1>2, <1>3

LEMMA StartKeeps ==
  ASSUME IInv, NEW g \in Savers, NothingToSave(g) \/ TakeCopy(g) PROVE IInv'
<1> USE DEF IInv, memVars, goVars, diskVars, pastVars, Goto
<1>1. CASE NothingToSave(g)
  <2> USE <1>1 DEF NothingToSave
  <2>1. Types' BY DEF Types
  <2>2. Past' BY DEF Past, Types
  <2>3. Saving' = Saving BY DEF Saving, Types
  <2>4. Lone' BY <2>3 DEF Lone, Types
  <2> QED BY <2>1, <2>2, <2>4
<1>2. CASE TakeCopy(g)
  <2> USE <1>2 DEF TakeCopy
  <2>1. Types'
    <3>1. overlapped' \in BOOLEAN BY DEF Types
    <3> QED BY <3>1 DEF Types
  <2>2. Past' BY Facts DEF Past, Types
  <2>3. ASSUME ~overlapped' PROVE ~overlapped /\ Saving = {} /\ Saving' = {g}
    BY <2>3 DEF Saving, Types
  <2>4. Lone'
    <3> SUFFICES ASSUME ~overlapped' PROVE Lone' BY DEF Lone
    <3>1. ~overlapped /\ Saving = {} /\ Saving' = {g} BY <2>3
    <3>2. snap'[g] = remarks' /\ pc'[g] = "open" BY DEF Types
    <3>3. \A h \in Savers : h # g => pc'[h] \notin {"open", "write", "rename"}
      BY <3>1 DEF Saving, Types
    <3>4. ~unread => kept <= remarks BY <3>1 DEF Lone
    <3> QED BY <3>1, <3>2, <3>3, <3>4, Facts DEF Lone
  <2> QED BY <2>1, <2>2, <2>4
<1> QED BY <1>1, <1>2

LEMMA OpenKeeps == ASSUME IInv, NEW g \in Savers, OpenTmp(g) PROVE IInv'
<1> USE DEF IInv, memVars, pastVars, Goto
<1> DEFINE i == IF tmp = None THEN g ELSE tmp
<1>0. /\ i \in Savers /\ i # None /\ tmp' = i /\ fd' = [fd EXCEPT ![g] = i]
      /\ content' = [content EXCEPT ![i] = <<>>]
  BY Facts DEF OpenTmp, Types
<1>1. Types' BY <1>0 DEF OpenTmp, Types
<1>2. Past'
  <2>1. content' \in [Savers -> Text(edits')] BY <1>0 DEF OpenTmp, Past, Text
  <2>2. \A h \in Savers : pc'[h] \in {"none", "start", "open"} =>
           h # g /\ pc[h] \in {"none", "start", "open"}
    BY DEF OpenTmp, Types
  <2>3. \A h \in Savers : pc'[h] \in {"none", "start", "open"} => i # h
    BY <2>2 DEF Past
  <2> HIDE DEF i
  <2> QED BY <1>0, <2>1, <2>2, <2>3 DEF OpenTmp, Past, Types
<1>3. Lone'
  <2> SUFFICES ASSUME ~overlapped PROVE Lone' BY DEF Lone, OpenTmp
  <2>1. Saving' = Saving /\ g \in Saving BY DEF OpenTmp, Saving, Types
  <2>2. i # file BY DEF OpenTmp, Past, Lone
  <2>3. \A h \in Savers : h # g => pc[h] \notin {"open", "write", "rename"}
    BY <2>1 DEF Lone, Saving
  <2>4. pc' = [pc EXCEPT ![g] = "write"] BY DEF OpenTmp
  <2> HIDE DEF i
  <2> QED BY <1>0, <2>1, <2>2, <2>3, <2>4 DEF OpenTmp, Lone, Types, Past
<1> QED BY <1>1, <1>2, <1>3

LEMMA WriteKeeps == ASSUME IInv, NEW g \in Savers, WriteTmp(g) PROVE IInv'
<1> USE DEF IInv, memVars, pastVars, Goto
<1>0. fd[g] \in Savers BY DEF WriteTmp, Types, Past
<1>1. PICK c \in WrittenOver(content[fd[g]], snap[g]) :
        content' = [content EXCEPT ![fd[g]] = c]
  BY DEF WriteTmp
<1>2. c \in Text(edits)
  <2>1. snap[g] \in 1 .. edits BY Facts DEF WriteTmp, Types, Past
  <2>2. content[fd[g]] \in Text(edits) BY <1>0 DEF Past
  <2>3. content[fd[g]] # <<>> => content[fd[g]][1] \in 1 .. edits
    BY <2>2, Facts, Texts
  <2> QED BY <2>1, <2>3 DEF WrittenOver, Text
<1>3. Types' BY DEF WriteTmp, Types
<1>4. Past' BY <1>0, <1>1, <1>2 DEF WriteTmp, Past, Types
<1>5. Lone'
  <2> SUFFICES ASSUME ~overlapped PROVE Lone' BY DEF Lone, WriteTmp
  <2>1. Saving' = Saving /\ g \in Saving BY DEF WriteTmp, Saving, Types
  <2>2. fd[g] = tmp /\ content[tmp] = <<>> BY DEF WriteTmp, Lone
  <2>3. c = <<snap[g]>> BY <2>2 DEF WrittenOver
  <2>4. \A h \in Savers : h # g => pc[h] \notin {"open", "write", "rename"}
    BY <2>1 DEF Lone, Saving
  <2>5. tmp # None /\ content'[tmp] = <<snap[g]>> BY <1>0, <1>1, <2>2, <2>3, Facts DEF Past
  <2>6. tmp # file BY <2>5 DEF Lone
  <2>7. file # None => content'[file] = content[file]
    BY <1>1, <2>2, <2>6 DEF Past, Types
  <2>8. pc' = [pc EXCEPT ![g] = "rename"] BY DEF WriteTmp
  <2> QED BY <2>1, <2>4, <2>5, <2>6, <2>7, <2>8 DEF WriteTmp, Lone, Types
<1> QED BY <1>3, <1>4, <1>5

LEMMA RenameKeeps == ASSUME IInv, NEW g \in Savers, Rename(g) PROVE IInv'
<1> USE DEF IInv, memVars, Goto
<1>1. Types'
  <2>1. kept' \in 0 .. edits'
    <3>1. kept' \in {kept, snap[g]} /\ edits' = edits BY DEF Rename
    <3> QED BY <3>1 DEF Types
  <2>2. file' \in Savers \cup {None} /\ tmp' \in Savers \cup {None} BY DEF Rename, Types
  <2>3. pc' \in [Savers -> {"none", "start", "open", "write", "rename", "done"}]
    BY DEF Rename, Types
  <2>4. UNCHANGED <<up, edits, remarks, dirty, snap, fd, overlapped, failed, unread>> BY DEF Rename
  <2> QED BY <2>1, <2>2, <2>3, <2>4 DEF Types
<1>2. Past'
  <2>1. /\ pc' = [pc EXCEPT ![g] = "done"] /\ pc[g] = "rename"
        /\ file' = tmp /\ tmp' = None /\ up
        /\ UNCHANGED <<up, edits, remarks, dirty, snap, fd, content>>
    BY DEF Rename
  <2>2. content' \in [Savers -> Text(edits')] BY <2>1 DEF Past
  <2>3. dirty' => up' /\ remarks' >= 1 BY <2>1 DEF Past
  <2>4. \A h \in Savers : pc'[h] = IF h = g THEN "done" ELSE pc[h] BY <2>1 DEF Types
  <2>5. \A h \in Savers : tmp' # h BY <2>1, Facts
  <2>6. ASSUME NEW h \in Savers
        PROVE  /\ pc'[h] \in {"open", "write", "rename"} => snap[h] >= 1
               /\ pc'[h] \in {"write", "rename"} => fd[h] # None
               /\ pc'[h] \in {"none", "start", "open"} =>
                    file' # h /\ \A k \in Savers : fd[k] # h
               /\ h > edits => pc'[h] = "none"
    BY <2>1, <2>4 DEF Past
  <2> HIDE DEF Rename, IInv
  <2> QED BY <2>1, <2>2, <2>3, <2>5, <2>6 DEF Past
<1>3. Lone'
  <2> SUFFICES ASSUME ~overlapped PROVE Lone' BY DEF Lone, Rename
  <2>1. g \in Saving /\ Saving' = Saving \ {g} BY DEF Rename, Saving, Types
  <2>2. Saving' = {} BY <2>1 DEF Lone
  <2>3. \A h \in Savers : pc'[h] \notin {"open", "write", "rename"}
    BY <2>2 DEF Saving
  <2>4. kept' = snap[g] /\ content'[file'] = <<kept'>> /\ file' # None /\ tmp' = None
    BY DEF Rename, Lone
  <2>5. snap[g] <= remarks /\ (~unread => kept <= snap[g]) BY DEF Rename, Lone
  <2>6. \A h \in Savers : pc[h] = "start" => pc'[h] = "start" BY DEF Rename, Types
  <2>7. up /\ ~failed /\ ~unread /\ ~dirty => snap[g] = remarks
    <3> SUFFICES ASSUME up, ~failed, ~unread, ~dirty PROVE snap[g] = remarks OBVIOUS
    <3>1. CASE kept = remarks BY <2>5, <3>1, Facts
    <3>2. CASE \E h \in Saving : snap[h] = remarks BY <2>1, <3>2 DEF Lone
    <3> QED BY <3>1, <3>2 DEF Lone
  <2> QED BY <2>2, <2>3, <2>4, <2>5, <2>6, <2>7, Facts DEF Rename, Lone
<1> QED BY <1>1, <1>2, <1>3

LEMMA FailureKeeps ==
  ASSUME IInv, NEW g \in Savers, WriteFails(g) \/ RenameFails(g) PROVE IInv'
<1> USE DEF IInv, memVars, goVars, diskVars, pastVars, Goto, WriteFails, RenameFails
<1>1. Types' BY DEF Types
<1>2. Past' BY DEF Past, Types
<1>3. Lone'
  <2> SUFFICES ASSUME ~overlapped PROVE Lone' BY DEF Lone
  <2>1. WriteFails(g) /\ failed' BY DEF Lone
  <2>2. Saving' \subseteq Saving BY DEF Saving, Types
  <2> HIDE DEF WriteFails
  <2>3. UNCHANGED <<up, remarks, dirty, snap, fd, tmp, file, content, unread, kept>>
        /\ pc' = [pc EXCEPT ![g] = "done"]
    BY <2>1 DEF WriteFails
  <2> QED BY <2>1, <2>2, <2>3 DEF Lone, Types
<1> QED BY <1>1, <1>2, <1>3

LEMMA EndsKeep == ASSUME IInv, Exit \/ Restart PROVE IInv'
<1> USE DEF IInv, goVars, diskVars, pastVars
<1>1. CASE Exit
  <2> USE <1>1 DEF Exit
  <2>1. Types'
    <3>1. pc' \in [Savers -> {"none", "start", "open", "write", "rename", "done"}]
      BY DEF Types
    <3>2. remarks' \in 0 .. edits' /\ edits' \in 0 .. MaxEdits
      BY Facts DEF Types
    <3>3. up' \in BOOLEAN /\ dirty' \in BOOLEAN OBVIOUS
    <3> QED BY <3>1, <3>2, <3>3 DEF Types
  <2>2. Past' BY DEF Past, Types
  <2>3. Saving' = {} BY DEF Saving, Types
  <2>4. Lone' BY <2>3 DEF Lone, Types
  <2> QED BY <2>1, <2>2, <2>4
<1>2. CASE Restart
  <2> USE <1>2 DEF Restart
  <2>1. remarks' \in 0 .. edits /\ unread' \in BOOLEAN
    <3>1. remarks' = 0 \/ (file # None /\ remarks' = Parsed(content[file]))
      BY <1>2 DEF Restart
    <3>2. file # None => Parsed(content[file]) \in 0 .. edits
      BY Facts, Texts DEF Types, Past
    <3>3. 0 \in 0 .. edits BY Facts
    <3>4. unread' \in BOOLEAN BY DEF Types
    <3> QED BY <3>1, <3>2, <3>3, <3>4
  <2>2. Types' BY <2>1 DEF Types
  <2>3. Past' BY DEF Past
  <2>4. ~overlapped /\ ~unread' => remarks' = kept /\ ~unread
    <3>1. Parsed(<<kept>>) = kept BY DEF Parsed
    <3> QED BY <3>1 DEF Lone
  <2>5. Lone'
    <3>1. Saving' = Saving BY DEF Saving
    <3>2. \A g \in Savers : pc[g] \in {"none", "done"} /\ ~dirty BY DEF Past
    <3>3. ~dirty' BY <3>2 DEF Past
    <3> SUFFICES ASSUME ~overlapped PROVE Lone' BY DEF Lone
    <3>4. (~unread' => remarks' = kept) /\ kept \in Nat BY <2>4, Facts
    <3>5. UNCHANGED <<dirty, pc, snap, fd, tmp, file, content, kept, failed>> OBVIOUS
    <3>6. \A g \in Savers : pc[g] \notin {"open", "write", "rename"} BY DEF Past
    <3> HIDE DEF Restart
    <3> QED BY <3>1, <3>3, <3>4, <3>5, <3>6 DEF Lone
  <2> QED BY <2>2, <2>3, <2>5
<1> QED BY <1>1, <1>2

LEMMA Inductive == IInv /\ [Next]_vars => IInv'
<1> SUFFICES ASSUME IInv, [Next]_vars PROVE IInv' OBVIOUS
<1>1. CASE Exit \/ Restart BY <1>1, EndsKeep
<1>2. ASSUME NEW g \in Savers, SetRemark(g) \/ SaveStep(g) PROVE IInv'
  BY <1>2, SetRemarkKeeps, StartKeeps, OpenKeeps, WriteKeeps, RenameKeeps, FailureKeeps
     DEF SaveStep
<1>3. CASE UNCHANGED vars
  BY <1>3 DEF vars, memVars, goVars, diskVars, pastVars, IInv, Types, Past, Lone, Saving
<1> QED BY <1>1, <1>2, <1>3 DEF Next

LEMMA Invariant == Spec => []IInv
<1> QED BY InitHolds, Inductive, PTL DEF Spec

-----------------------------------------------------------------------------
\* Files hold at most the remains of two edits, and every variable its type
\* (device.go saveRemarks, loadRemarks).
THEOREM TypeCorrect == Spec => []TypeOK
<1>1. IInv => TypeOK BY TypesSuffice DEF IInv
<1> QED BY <1>1, Invariant, PTL

\* However many edits there are, and wherever the process ends, saves that do
\* not overlap leave a whole file (device.go saveRemarks).
THEOREM LoneSavesAreWhole == Spec => []LoneSavesKeepFileWhole
<1>1. IInv => LoneSavesKeepFileWhole
  <2>1. Len(<<kept>>) = 1 OBVIOUS
  <2> QED BY <2>1 DEF IInv, Lone, LoneSavesKeepFileWhole, Whole
<1> QED BY <1>1, Invariant, PTL

\* Saves that do not overlap never take an edit back (device.go saveRemarks).
THEOREM LoneSavesAdvance == Spec => LoneSavesGoForward
<1> DEFINE Forward == ~overlapped' /\ ~unread' =>
                        /\ kept' >= kept
                        /\ kept # 0 => InFile' # <<>> /\ InFile'[1] >= kept
<1>1. IInv /\ [Next]_vars => [Forward]_vars
  <2> SUFFICES ASSUME IInv, Next, ~overlapped', ~unread'
               PROVE  kept' >= kept /\ (kept # 0 => InFile' # <<>> /\ InFile'[1] >= kept)
    OBVIOUS
  <2>0. kept \in Nat BY Facts
  <2>1. ~overlapped /\ ~unread
    <3>1. CASE Exit \/ Restart BY <3>1 DEF Exit, Restart, pastVars
    <3>2. ASSUME NEW g \in Savers, SetRemark(g) \/ SaveStep(g)
          PROVE  ~overlapped /\ ~unread
      <4>1. CASE TakeCopy(g) BY <4>1, Zenon DEF TakeCopy
      <4>2. CASE ~TakeCopy(g)
        BY <3>2, <4>2 DEF SetRemark, SaveStep, NothingToSave, OpenTmp, WriteTmp,
                          WriteFails, Rename, RenameFails, pastVars
      <4> QED BY <4>1, <4>2
    <3> QED BY <3>1, <3>2 DEF Next
  <2>2. kept' >= kept
    <3>1. CASE \E g \in Savers : Rename(g)
      BY <2>0, <2>1, <3>1 DEF Rename, IInv, Lone
    <3>2. CASE ~\E g \in Savers : Rename(g)
      BY <2>0, <3>2 DEF Next, Exit, Restart, SetRemark, SaveStep, NothingToSave, TakeCopy,
           OpenTmp, WriteTmp, WriteFails, RenameFails, pastVars
    <3> QED BY <3>1, <3>2
  <2>3. Lone' /\ (kept \in Nat)'
    <3>1. IInv' BY Inductive
    <3> QED BY <3>1, Facts, RemarksAssumption DEF IInv, Types
  <2>4. kept # 0 => InFile' = <<kept'>>
    BY <2>0, <2>2, <2>3 DEF Lone, InFile
  <2> QED BY <2>0, <2>2, <2>4
<1> QED BY <1>1, Invariant, PTL DEF Spec, LoneSavesGoForward

\* At rest the file holds the last edit, unless saves overlapped or a write
\* failed (device.go SetRemark, saveRemarks).
THEOREM AtRestSaved == Spec => []RestIsSaved
<1>1. IInv => RestIsSaved
  <2> SUFFICES ASSUME IInv, up, ~overlapped, ~failed, ~unread,
                      \A g \in Savers : pc[g] \in {"none", "done"}
               PROVE  Parsed(InFile) = remarks
    BY DEF RestIsSaved
  <2>1. Saving = {} BY DEF Saving
  <2>2. kept = remarks BY <2>1 DEF IInv, Lone
  <2>3. Parsed(<<kept>>) = kept /\ Parsed(<<>>) = 0 BY DEF Parsed
  <2> QED BY <2>2, <2>3 DEF IInv, Lone, InFile
<1> QED BY <1>1, Invariant, PTL

-----------------------------------------------------------------------------
(***************************************************************************)
(* The remarks, with the scanner running.                                  *)
(***************************************************************************)
USE DEF nameVars, scanVars

LEMMA RemarksAlone == DevicesSpec => Spec
<1>1. DevicesInit => Init BY DEF DevicesInit
<1>2. [DevicesNext]_devVars => [Next]_vars
  BY DEF DevicesNext, devVars, Scan, Look, Resolve, Update, Pass, ProcessEnds,
         ProcessStarts, Edits, Next
<1> QED BY <1>1, <1>2, PTL DEF DevicesSpec, Spec

\* Beside the scan loop, too, saves that do not overlap keep the file whole and
\* move it forward, and no edit is overlooked (device.go scan, SetRemark).
THEOREM RemarksKept ==
  DevicesSpec => []LoneSavesKeepFileWhole /\ LoneSavesGoForward /\ []RestIsSaved
BY RemarksAlone, LoneSavesAreWhole, LoneSavesAdvance, AtRestSaved, PTL

-----------------------------------------------------------------------------
(***************************************************************************)
(* The names.                                                              *)
(***************************************************************************)
LEMMA NamesTyped == DevicesTypeOK /\ [DevicesNext]_devVars => DevicesTypeOK'
<1> SUFFICES ASSUME DevicesTypeOK, [DevicesNext]_devVars PROVE DevicesTypeOK'
  OBVIOUS
<1> USE DevicesAssumption DEF Found
<1>1. Nothing \in Found BY DEF Nothing
<1>2. ASSUME NEW f \in Found, NEW g \in Found PROVE Over(f, g) \in Found
  BY DEF Over
<1>3. 0 \in 0 .. Never /\ Hour + 1 \in 0 .. Never /\ Never \in 0 .. Never BY DEF Never
<1>4. CASE Look
  <2>1. sinceSeen' \in [IPs -> 0 .. Never] BY <1>3, <1>4 DEF Look, DevicesTypeOK
  <2>2. needResolve' \subseteq IPs BY <1>4 DEF Look, Unknown
  <2>3. hostnames' = hostnames /\ resolved' = resolved /\ merged' \in Found
        /\ leased' \in Found /\ scan' \in {"update", "resolve"}
    BY <1>4 DEF Look
  <2> QED BY <2>1, <2>2, <2>3 DEF DevicesTypeOK
<1>5. CASE Resolve
  <2>1. merged' \in Found BY <1>2, <1>5 DEF Resolve, DevicesTypeOK
  <2> QED BY <1>5, <2>1 DEF Resolve, DevicesTypeOK
<1>6. CASE Update
  <2>1. Over(hostnames, merged) \in Found BY <1>2 DEF DevicesTypeOK
  <2>2. hostnames' \in Found BY <1>6, <2>1 DEF Update
  <2>3. sinceSeen' \in [IPs -> 0 .. Never] BY <1>3, <1>6 DEF Update, DevicesTypeOK
  <2>4. resolved' \subseteq IPs BY <1>6 DEF Update, DevicesTypeOK
  <2>5. merged' = Nothing /\ leased' = Nothing /\ needResolve' = {} /\ scan' = "idle"
    BY <1>6 DEF Update
  <2> QED BY <1>1, <2>2, <2>3, <2>4, <2>5 DEF DevicesTypeOK
<1>7. CASE Pass
  <2>1. \A n \in 0 .. Never : n < Hour + 1 => n + 1 \in 0 .. Never BY DEF Never
  <2>2. sinceSeen' \in [IPs -> 0 .. Never] BY <1>7, <2>1 DEF Pass, DevicesTypeOK
  <2> QED BY <1>7, <2>2 DEF Pass, DevicesTypeOK
<1>8. CASE ProcessEnds
  BY <1>1, <1>3, <1>8 DEF ProcessEnds, DevicesTypeOK
<1>9. CASE ProcessStarts \/ Edits \/ UNCHANGED devVars
  BY <1>9 DEF ProcessStarts, Edits, devVars, DevicesTypeOK
<1> QED BY <1>4, <1>5, <1>6, <1>7, <1>8, <1>9 DEF DevicesNext, Scan

\* A name from the DNS belongs to a device the ARP table has shown; within a
\* scan it was asked for because the ARP table showed it just then, and never
\* takes the place of what the leases gave.
NamesInv ==
  /\ \A ip \in resolved : hostnames[ip] # NoName /\ sinceSeen[ip] # Never
  /\ scan = "idle" => leased = Nothing /\ merged = Nothing /\ needResolve = {}
  /\ \A ip \in needResolve : sinceSeen[ip] = 0 /\ leased[ip] = NoName
  /\ \A ip \in IPs : merged[ip] # NoName =>
       merged[ip] = leased[ip] \/ (leased[ip] = NoName /\ sinceSeen[ip] = 0)
  /\ \A ip \in IPs : leased[ip] # NoName => merged[ip] = leased[ip]

LEMMA NamesStep == DevicesTypeOK /\ NamesInv /\ [DevicesNext]_devVars => NamesInv'
<1> SUFFICES ASSUME DevicesTypeOK, NamesInv, [DevicesNext]_devVars PROVE NamesInv'
  OBVIOUS
<1> USE DevicesAssumption
<1>1. \A ip \in IPs : Nothing[ip] = NoName BY DEF Nothing
<1>2. 0 # Never /\ Hour + 1 # Never /\ Hour \in Nat BY DEF Never
<1>3. CASE Look
  <2>1. PICK leases \in Found, arp \in SUBSET IPs :
          /\ merged' = leases /\ leased' = leases
          /\ needResolve' = Unknown(arp, leases)
          /\ sinceSeen' = [ip \in IPs |-> IF ip \in arp THEN 0 ELSE sinceSeen[ip]]
    BY <1>3 DEF Look
  <2>2. hostnames' = hostnames /\ resolved' = resolved /\ scan' # "idle"
        /\ resolved \subseteq IPs
    BY <1>3 DEF Look, DevicesTypeOK
  <2>3. \A ip \in resolved' : hostnames'[ip] # NoName /\ sinceSeen'[ip] # Never
    BY <1>2, <2>1, <2>2 DEF NamesInv
  <2>4. \A ip \in needResolve' : sinceSeen'[ip] = 0 /\ leased'[ip] = NoName
    BY <2>1 DEF Unknown
  <2> QED BY <2>1, <2>2, <2>3, <2>4 DEF NamesInv
<1>4. CASE Resolve
  <2>1. PICK answers \in Found :
          /\ \A ip \in IPs \ needResolve : answers[ip] = NoName
          /\ merged' = Over(merged, answers)
    BY <1>4 DEF Resolve
  <2>2. UNCHANGED <<hostnames, sinceSeen, needResolve, leased, resolved>> /\ scan' # "idle"
    BY <1>4 DEF Resolve
  <2>3. \A ip \in IPs : merged'[ip] = IF answers[ip] = NoName THEN merged[ip] ELSE answers[ip]
    BY <2>1 DEF Over
  <2>4. \A ip \in IPs : answers[ip] # NoName => sinceSeen[ip] = 0 /\ leased[ip] = NoName
    BY <2>1 DEF NamesInv
  <2> QED BY <2>2, <2>3, <2>4 DEF NamesInv
<1>5. CASE Update
  <2>1. merged' = Nothing /\ leased' = Nothing /\ needResolve' = {}
    BY <1>5 DEF Update
  <2>2. ASSUME NEW ip \in resolved' PROVE hostnames'[ip] # NoName /\ sinceSeen'[ip] # Never
    <3>1. ip \in IPs /\ ip \notin Expired /\ (ip \in resolved \/ merged[ip] # NoName)
      BY <1>5 DEF Update, DevicesTypeOK
    <3>2. hostnames'[ip] = Over(hostnames, merged)[ip] /\ sinceSeen'[ip] = sinceSeen[ip]
          /\ leased[ip] = NoName
      BY <1>5, <3>1 DEF Update
    <3>3. hostnames'[ip] = IF merged[ip] = NoName THEN hostnames[ip] ELSE merged[ip]
      BY <3>1, <3>2 DEF Over
    <3> QED BY <1>2, <3>1, <3>2, <3>3 DEF NamesInv
  <2> QED BY <1>1, <2>1, <2>2 DEF NamesInv
<1>6. CASE Pass
  <2>1. UNCHANGED <<hostnames, scan, merged, needResolve, leased, resolved>> /\ scan = "idle"
    BY <1>6 DEF Pass
  <2>2. ASSUME NEW ip \in resolved PROVE sinceSeen'[ip] # Never
    <3>1. ip \in IPs /\ sinceSeen[ip] \in 0 .. Never /\ sinceSeen[ip] # Never
      BY DEF DevicesTypeOK, NamesInv
    <3>2. sinceSeen'[ip] = IF sinceSeen[ip] < Hour + 1 THEN sinceSeen[ip] + 1 ELSE sinceSeen[ip]
      BY <1>6, <3>1 DEF Pass
    <3> QED BY <1>2, <3>1, <3>2 DEF Never
  <2> QED BY <1>1, <2>1, <2>2 DEF NamesInv
<1>7. CASE ProcessEnds
  BY <1>1, <1>7 DEF ProcessEnds, NamesInv
<1>8. CASE ProcessStarts \/ Edits \/ UNCHANGED devVars
  BY <1>8 DEF ProcessStarts, Edits, devVars, NamesInv
<1> QED BY <1>3, <1>4, <1>5, <1>6, <1>7, <1>8 DEF DevicesNext, Scan

LEMMA NamesInductive == DevicesSpec => [](DevicesTypeOK /\ NamesInv)
<1>1. DevicesInit => DevicesTypeOK /\ NamesInv
  <2> SUFFICES ASSUME NamesInit PROVE DevicesTypeOK /\ NamesInv
    BY DEF DevicesInit
  <2>1. Nothing \in Found /\ \A ip \in IPs : Nothing[ip] = NoName BY DEF Nothing, Found
  <2>2. Never \in 0 .. Never BY DevicesAssumption DEF Never
  <2> QED BY <2>1, <2>2 DEF NamesInit, DevicesTypeOK, NamesInv
<1> QED BY <1>1, NamesTyped, NamesStep, PTL DEF DevicesSpec

\* The maps stay within the devices and the names there are, whatever the leases,
\* the ARP table and the DNS say (device.go scan).
THEOREM NamesAreTyped == DevicesSpec => []DevicesTypeOK
BY NamesInductive, PTL

-----------------------------------------------------------------------------
\* What a step that ends a scan has before it.
LEMMA ScanEndsByUpdate == [DevicesNext]_devVars /\ ScanEnds => Update
BY DEF DevicesNext, devVars, ScanEnds, Scan, Look, Resolve, Pass, ProcessEnds, Exit,
       ProcessStarts, Edits

\* A device that goes by a name from the DNS was seen within the hour
\* (device.go scan, the removal of what was not seen).
THEOREM NamesExpire == DevicesSpec => ResolvedNamesExpire
<1> DEFINE A == ScanEnds => \A ip \in resolved' : hostnames'[ip] # NoName /\ sinceSeen'[ip] <= Hour
<1>1. DevicesTypeOK /\ NamesInv /\ [DevicesNext]_devVars => [A]_devVars
  <2> SUFFICES ASSUME DevicesTypeOK, NamesInv, NamesInv', [DevicesNext]_devVars, ScanEnds,
                      NEW ip \in resolved'
               PROVE  hostnames'[ip] # NoName /\ sinceSeen'[ip] <= Hour
    BY NamesStep
  <2>1. Update BY ScanEndsByUpdate
  <2>2. ip \in IPs /\ ip \notin Expired /\ sinceSeen'[ip] = sinceSeen[ip]
    BY <2>1 DEF Update, DevicesTypeOK
  <2>3. hostnames'[ip] # NoName /\ sinceSeen'[ip] # Never BY DEF NamesInv
  <2>4. sinceSeen[ip] \in 0 .. Never /\ sinceSeen[ip] # Hour + 1
    BY <2>2 DEF DevicesTypeOK, Expired
  <2> QED BY <2>2, <2>3, <2>4, DevicesAssumption DEF Never
<1> QED BY <1>1, NamesInductive, PTL DEF DevicesSpec, ResolvedNamesExpire

\* The name in the leases is the one a device goes by after the scan
\* (device.go scan, the merge of the names).
THEOREM LeaseIsPreferred == DevicesSpec => LeaseNameWins
<1> DEFINE A == ScanEnds => \A ip \in IPs : leased[ip] # NoName =>
                  \/ hostnames'[ip] = leased[ip]
                  \/ hostnames'[ip] = NoName /\ sinceSeen[ip] = Hour + 1
<1>1. DevicesTypeOK /\ NamesInv /\ [DevicesNext]_devVars => [A]_devVars
  <2> SUFFICES ASSUME NamesInv, [DevicesNext]_devVars, ScanEnds,
                      NEW ip \in IPs, leased[ip] # NoName
               PROVE  \/ hostnames'[ip] = leased[ip]
                      \/ hostnames'[ip] = NoName /\ sinceSeen[ip] = Hour + 1
    OBVIOUS
  <2>1. Update BY ScanEndsByUpdate
  <2>2. hostnames'[ip] = IF ip \in Expired THEN NoName ELSE Over(hostnames, merged)[ip]
    BY <2>1 DEF Update
  <2>3. Over(hostnames, merged)[ip] = leased[ip] BY DEF Over, NamesInv
  <2>4. ip \in Expired => sinceSeen[ip] = Hour + 1 BY DEF Expired
  <2> QED BY <2>2, <2>3, <2>4
<1> QED BY <1>1, NamesInductive, PTL DEF DevicesSpec, LeaseNameWins
=============================================================================
