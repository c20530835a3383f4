------------------------------- MODULE Logger -------------------------------
(***************************************************************************)
(* The daily log files: writers that stamp a line before they take the     *)
(* lock, the rotation one of them makes with the lock held, the removal of *)
(* old files, and the log page, which asks for the name of the current     *)
(* file and reads that file outside the lock.  The process may end         *)
(* anywhere; the files stay.                                               *)
(*                                                                         *)
(* Time is the local wall clock in ticks, and a step happens in the course *)
(* of a tick, after the instant it starts with; a file is known by its     *)
(* date.                                                                   *)
(***************************************************************************)
EXTENDS Integers, Sequences

CONSTANTS
  Writers,     \* goroutines that log
  Errors,      \* those of them that log at level ERROR
  MaxAgeDays,  \* retention; 0 keeps everything
  Limit,       \* lines the page asks for
  ReadAhead,   \* handleLogs reads so many times more if it has to filter
  DayLength,   \* ticks per day
  MaxZone,     \* the largest offset from UTC, in ticks
  MaxTime, MaxLines  \* bounds: the clock and the lines logged

ASSUME LoggerAssumption ==
  /\ Errors \subseteq Writers /\ "free" \notin Writers
  /\ MaxAgeDays \in Nat /\ Limit \in Nat \ {0} /\ ReadAhead \in Nat \ {0}
  /\ DayLength \in Nat \ {0} /\ MaxZone \in 0 .. DayLength - 1
  /\ MaxTime \in Nat /\ MaxLines \in Nat

\* Positive in the east.
Zones == -MaxZone .. MaxZone

Day(t) == t \div DayLength
Days   == 0 .. Day(MaxTime)
None   == -1
Free   == "free"

VARIABLES
  now, zone, up,
  exists,    \* the dates that have a file in the directory
  content,   \* content[d]: the lines in the file of d
  link,      \* what gateway.log points to
  file,      \* l.file: the date of the open file
  orphan,    \* the open file is no longer in the directory
  curDate, lock,
  pc,        \* pc[w]: where w is in output
  stamp,     \* stamp[w]: the time w read before it took the lock
  lines,     \* lines logged so far
  request,   \* handleLogs: "idle", "named", "read"
  path, filtered, answer,
  \* History variables, read by properties only.
  written,   \* every line written to an open file
  lastDay,   \* the latest date a rotation was made for
  before,    \* the file of path when the request came
  linkMade   \* the last rotation could remove the link and make it again

diskVars == <<exists, content, link, linkMade>>
memVars  == <<file, orphan, curDate>>
outVars  == <<lock, pc, stamp, lines>>
pageVars == <<request, path, filtered, answer, before>>
vars == <<now, zone, up, diskVars, memVars, outVars, pageVars, written, lastDay>>

Line == [by : Writers, at : 0 .. MaxTime, n : 1 .. MaxLines]

TypeOK ==
  /\ now \in 0 .. MaxTime /\ zone \in Zones /\ up \in BOOLEAN
  /\ exists \subseteq Days /\ link \in Days \cup {None} /\ linkMade \in BOOLEAN
  /\ content \in [Days -> Seq(Line)]
  /\ file \in Days \cup {None} /\ orphan \in BOOLEAN /\ curDate \in Days \cup {None}
  /\ lock \in Writers \cup {Free}
  /\ pc \in [Writers -> {"idle", "stamped", "rotate", "link", "cleanup", "write"}]
  /\ stamp \in [Writers -> 0 .. MaxTime] /\ lines \in 0 .. MaxLines
  /\ request \in {"idle", "named", "read"} /\ path \in Days \cup {None}
  /\ answer \in Seq(Line) /\ before \in Seq(Line) /\ filtered \in BOOLEAN
  /\ written \subseteq Line /\ lastDay \in Days

Init ==
  /\ now = 0 /\ zone \in Zones /\ up = FALSE
  /\ exists = {} /\ content = [d \in Days |-> <<>>]
  /\ link = None /\ linkMade = FALSE
  /\ file = None /\ orphan = FALSE /\ curDate = None
  /\ lock = Free /\ pc = [w \in Writers |-> "idle"]
  /\ stamp = [w \in Writers |-> 0] /\ lines = 0
  /\ request = "idle" /\ path = None /\ filtered = FALSE
  /\ answer = <<>> /\ before = <<>>
  /\ written = {} /\ lastDay = 0

\* Bound: a line waits for the lock and the disk for at most one tick.
Tick ==
  /\ now < MaxTime /\ \A w \in Writers : pc[w] # "idle" => stamp[w] = now
  /\ now' = now + 1
  /\ UNCHANGED <<zone, up, diskVars, memVars, outVars, pageVars, written, lastDay>>

-----------------------------------------------------------------------------
(***************************************************************************)
(* rotate and cleanup.                                                     *)
(***************************************************************************)
\* (slip: dates are compared, and the oldest one kept is counted as too old)
ExpiredByDate(d, t) == MaxAgeDays > 0 /\ Day(t) - d >= MaxAgeDays - 1

\* The file's date stands for midnight UTC, the cutoff for the present time of
\* day, MaxAgeDays ago: in the west a date begins before its own midnight.
Expired(d, t) ==
  MaxAgeDays > 0 /\ d * DayLength + zone <= t - MaxAgeDays * DayLength

\* (slip: the new date is noted before its file is open)
DateIfOpenFails(t) == Day(t)

DateKept(t) == curDate

\* The old file is closed and the file of t's date opened for appending.
OpenFile(t) ==
  /\ file' = Day(t) /\ curDate' = Day(t) /\ orphan' = FALSE
  /\ exists' = exists \cup {Day(t)}
  /\ lastDay' = IF Day(t) > lastDay THEN Day(t) ELSE lastDay
  /\ UNCHANGED <<content, link, linkMade>>

OpenFails(t) ==
  /\ file' = None /\ orphan' = FALSE /\ curDate' = DateKept(t)
  /\ UNCHANGED <<diskVars, lastDay>>

Cleanup(t) ==
  LET gone == {d \in exists : Expired(d, t)} IN
  /\ exists' = exists \ gone
  /\ content' = [d \in Days |-> IF d \in gone THEN <<>> ELSE content[d]]
  /\ orphan' = (orphan \/ file \in gone)

\* The link is removed and made again.  Either may fail, which nobody is told:
\* the old link stays, or there is none.
LinkTo(d) ==
  \/ link' = d /\ linkMade' = TRUE
  \/ link' \in {link, None} /\ linkMade' = FALSE

-----------------------------------------------------------------------------
\* New: a first rotation, before anyone logs; if it fails there is no process.
Start ==
  /\ ~up /\ up' = TRUE
  /\ file' = Day(now) /\ curDate' = Day(now) /\ LinkTo(Day(now))
  /\ lastDay' = IF Day(now) > lastDay THEN Day(now) ELSE lastDay
  /\ LET there == exists \cup {Day(now)}
         gone  == {d \in there : Expired(d, now)}
     IN /\ exists' = there \ gone
        /\ content' = [d \in Days |-> IF d \in gone THEN <<>> ELSE content[d]]
        /\ orphan' = (Day(now) \in gone)
  /\ UNCHANGED <<now, zone, outVars, pageVars, written>>

\* No request is being answered.
PageIdle ==
  /\ request' = "idle" /\ path' = None /\ filtered' = FALSE
  /\ answer' = <<>> /\ before' = <<>>

\* The process ends; what it had in memory is gone.
Exit ==
  /\ up /\ up' = FALSE
  /\ file' = None /\ orphan' = FALSE /\ curDate' = None
  /\ lock' = Free /\ pc' = [w \in Writers |-> "idle"]
  /\ stamp' = [w \in Writers |-> 0]
  /\ PageIdle
  /\ UNCHANGED <<now, zone, diskVars, lines, written, lastDay>>

(***************************************************************************)
(* output: one line of w.                                                  *)
(***************************************************************************)
Goto(w, p) == pc' = [pc EXCEPT ![w] = p]

Stamp(w) ==
  /\ up /\ pc[w] = "idle" /\ lines < MaxLines
  /\ stamp' = [stamp EXCEPT ![w] = now]
  /\ lines' = lines + 1
  /\ Goto(w, "stamped")
  /\ UNCHANGED <<now, zone, up, diskVars, memVars, lock, pageVars, written, lastDay>>

\* (slip: the date is taken anew, under the lock)
DateUnderLock(w) == now

\* The time rotate works with: that of the line.
RotateFor(w) == stamp[w]

Lock(w) ==
  /\ pc[w] = "stamped" /\ lock = Free
  /\ lock' = w
  /\ Goto(w, IF file # None /\ curDate = Day(RotateFor(w)) THEN "write" ELSE "rotate")
  /\ UNCHANGED <<now, zone, up, diskVars, memVars, stamp, lines, pageVars, written, lastDay>>

\* If the file cannot be opened the line is dropped; the next line tries again.
Rotate(w) ==
  /\ pc[w] = "rotate"
  /\ \/ OpenFile(RotateFor(w)) /\ Goto(w, "link") /\ UNCHANGED lock
     \/ OpenFails(RotateFor(w)) /\ Goto(w, "idle") /\ lock' = Free
  /\ UNCHANGED <<now, zone, up, stamp, lines, pageVars, written>>

\* (slip: the link follows the latest date only)
RelinkLatest(w) ==
  /\ pc[w] = "link" /\ LinkTo(lastDay) /\ Goto(w, "cleanup")
  /\ UNCHANGED <<now, zone, up, exists, content, memVars, lock, stamp, lines,
                 pageVars, written, lastDay>>

Relink(w) ==
  /\ pc[w] = "link" /\ LinkTo(curDate) /\ Goto(w, "cleanup")
  /\ UNCHANGED <<now, zone, up, exists, content, memVars, lock, stamp, lines,
                 pageVars, written, lastDay>>

CleanOld(w) ==
  /\ pc[w] = "cleanup" /\ Cleanup(RotateFor(w)) /\ Goto(w, "write")
  /\ UNCHANGED <<now, zone, up, link, linkMade, file, curDate, lock, stamp, lines,
                 pageVars, written, lastDay>>

\* The line goes to the open file, in the directory or not; the lock is free.
WriteLine(w) ==
  /\ pc[w] = "write"
  /\ LET line == [by |-> w, at |-> stamp[w], n |-> lines] IN
     /\ content' = IF orphan THEN content ELSE [content EXCEPT ![file] = Append(@, line)]
     /\ written' = written \cup {line}
  /\ lock' = Free /\ Goto(w, "idle") /\ stamp' = [stamp EXCEPT ![w] = 0]
  /\ UNCHANGED <<now, zone, up, exists, link, linkMade, memVars, lines, pageVars, lastDay>>

Output(w) ==
  \/ Stamp(w) \/ Lock(w) \/ Rotate(w) \/ Relink(w)
  \/ CleanOld(w) \/ WriteLine(w)

(***************************************************************************)
(* handleLogs.                                                             *)
(***************************************************************************)
\* (slip: the first lines)
LastLinesFirst(s, n) == SubSeq(s, 1, IF Len(s) > n THEN n ELSE Len(s))

LastLines(s, n) == SubSeq(s, IF Len(s) > n THEN Len(s) - n + 1 ELSE 1, Len(s))

Passes(line) == line.by \in Errors

\* The loop over the lines that were read: those that pass, in their order.
Passing(s) ==
  LET out[n \in 0 .. Len(s)] ==
        IF n = 0 THEN <<>>
        ELSE IF Passes(s[n]) THEN Append(out[n - 1], s[n]) ELSE out[n - 1]
  IN out[Len(s)]

\* Tail asks for the path, with the lock.
AskPath ==
  /\ up /\ request = "idle" /\ lock = Free
  /\ request' = "named" /\ path' = curDate /\ before' = content[curDate]
  /\ \E f \in BOOLEAN : filtered' = f
  /\ UNCHANGED <<now, zone, up, diskVars, memVars, outVars, answer, written, lastDay>>

\* It reads the file without the lock; a file that is gone has no lines.
ReadPath ==
  /\ request = "named" /\ request' = "read"
  /\ LET n    == IF filtered THEN Limit * ReadAhead ELSE Limit
         tail == LastLines(content[path], n)
     IN answer' = LastLines(IF filtered THEN Passing(tail) ELSE tail, Limit)
  /\ UNCHANGED <<now, zone, up, diskVars, memVars, outVars, path, filtered,
                 before, written, lastDay>>

\* The answer is sent with the name the current file has by now.
Answer ==
  /\ request = "read" /\ lock = Free
  /\ PageIdle
  /\ UNCHANGED <<now, zone, up, diskVars, memVars, outVars, written, lastDay>>

-----------------------------------------------------------------------------
Next ==
  \/ Tick \/ Start \/ Exit
  \/ \E w \in Writers : Output(w)
  \/ AskPath \/ ReadPath \/ Answer

Spec == Init /\ [][Next]_vars

-----------------------------------------------------------------------------
(***************************************************************************)
(* Properties.                                                             *)
(***************************************************************************)
\* A line that was written is in the file of its own date, through late writers
\* at midnight, failed rotations, exits and restarts, until a rotation made
\* MaxAgeDays dates later, or one date less west of UTC, removes that file
\* (logger.go output, rotate, cleanup).
LinesAreKept ==
  \A line \in written :
    \/ \E i \in DOMAIN content[Day(line.at)] : content[Day(line.at)][i] = line
    \/ MaxAgeDays > 0
         /\ Day(line.at) <= lastDay - MaxAgeDays + (IF zone < 0 THEN 1 ELSE 0)

\* The current file, which the log page reads and the writers append to, is in
\* the directory, whether or not it could be opened (logger.go rotate, Tail).
CurrentFileExists == (up /\ lock = Free) => curDate \in exists /\ ~orphan

\* The link gateway.log leads to the file that is written, whichever order late
\* and early writers rotate in, if the last rotation could make it (logger.go
\* rotate: the link is maintained for tail -f).
LinkLeadsToOpenFile ==
  (up /\ lock = Free /\ file # None /\ linkMade) => link = file

Wanted(line) == filtered => Passes(line)

\* Whatever is written and removed while the page is being answered: each wanted
\* line that was in the file when the request came is in the answer, unless as
\* many later ones are as the page may show, or, with a filter, as many lines
\* follow it as are read, or the file was removed (logger.go Tail, api.go
\* handleLogs).
PageShowsNewest ==
  (request = "read" /\ path \in exists) =>
    \A i \in DOMAIN before :
      \/ ~Wanted(before[i])
      \/ \E k \in DOMAIN answer : answer[k] = before[i]
      \/ Len(answer) = Limit
           /\ \A k \in DOMAIN answer : \A j \in 1 .. i : answer[k] # before[j]
      \/ filtered /\ Len(content[path]) - i >= Limit * ReadAhead
=============================================================================
