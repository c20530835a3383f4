---------------------------- MODULE LoggerProofs ----------------------------
(***************************************************************************)
(* Proofs about Logger, for any writers, retention, length of a day, zone  *)
(* and number of lines: the files first, then the answers of the log page. *)
(***************************************************************************)
EXTENDS Logger, Sums, SequenceTheorems

USE DEF diskVars, memVars, outVars, pageVars, LinkTo

(***************************************************************************)
(* Dates.                                                                  *)
(***************************************************************************)
LEMMA Multiples ==
  ASSUME NEW a \in Int, NEW b \in Int, NEW n \in Nat \ {0}, a * n < b * n
  PROVE  a < b
<1> SUFFICES ASSUME b <= a PROVE FALSE
  OBVIOUS
<1>1. PICK k \in Nat : a = b + k
  <2>1. a - b \in Nat /\ a = b + (a - b) OBVIOUS
  <2> QED BY <2>1
<1>2. a * n = b * n + k * n BY <1>1
<1>3. k * n >= 0 OBVIOUS
<1> QED BY <1>2, <1>3

LEMMA Dates ==
  ASSUME NEW t \in Nat
  PROVE  /\ Day(t) \in Nat
         /\ Day(t) * DayLength <= t /\ t < (Day(t) + 1) * DayLength
BY LoggerAssumption DEF Day

LEMMA DatesInRange == \A t \in 0 .. MaxTime : Day(t) \in Days
<1> SUFFICES ASSUME NEW t \in 0 .. MaxTime PROVE Day(t) \in Days
  OBVIOUS
<1>1. t \in Nat /\ MaxTime \in Nat /\ t <= MaxTime /\ DayLength \in Nat \ {0}
  BY LoggerAssumption
<1>2. /\ Day(t) \in Nat /\ Day(MaxTime) \in Nat
      /\ Day(t) * DayLength <= t /\ MaxTime < (Day(MaxTime) + 1) * DayLength
  BY <1>1, Dates
<1>3. Day(t) * DayLength < (Day(MaxTime) + 1) * DayLength
  BY <1>1, <1>2
<1>4. Day(t) < Day(MaxTime) + 1 BY <1>1, <1>2, <1>3, Multiples
<1> QED BY <1>2, <1>4 DEF Days

\* The dates a rotation for `last` removes, at most.
TooOldIn(z, d, last) ==
  MaxAgeDays > 0 /\ d <= last - MaxAgeDays + (IF z < 0 THEN 1 ELSE 0)

TooOld(d, last) == TooOldIn(zone, d, last)

LEMMA OldOnesExpire ==
  ASSUME NEW t \in 0 .. MaxTime, NEW d \in Days, zone \in Zones, Expired(d, t)
  PROVE  TooOld(d, Day(t))
<1> DEFINE q == Day(t)
<1>1. /\ t \in Nat /\ d \in Nat /\ MaxAgeDays \in Nat /\ DayLength \in Nat \ {0}
      /\ zone \in Int /\ -DayLength <= zone
  BY LoggerAssumption DEF Days, Zones
<1>2. q \in Nat /\ t < (q + 1) * DayLength BY <1>1, Dates
<1>3. MaxAgeDays > 0 /\ d * DayLength + zone <= t - MaxAgeDays * DayLength
  BY DEF Expired
<1>4. CASE zone >= 0
  <2>1. (d + MaxAgeDays) * DayLength < (q + 1) * DayLength
    <3>1. (d + MaxAgeDays) * DayLength = d * DayLength + MaxAgeDays * DayLength BY <1>1
    <3>2. d * DayLength \in Int /\ MaxAgeDays * DayLength \in Int /\ (q + 1) * DayLength \in Int
      BY <1>1, <1>2
    <3> HIDE DEF q
    <3> QED BY <1>1, <1>2, <1>3, <1>4, <3>1, <3>2
  <2>2. d + MaxAgeDays < q + 1 BY <1>1, <1>2, <2>1, Multiples
  <2> QED BY <1>1, <1>2, <1>3, <1>4, <2>2 DEF TooOld, TooOldIn
<1>5. CASE zone < 0
  <2>1. (d + MaxAgeDays) * DayLength < (q + 2) * DayLength
    <3>1. (d + MaxAgeDays) * DayLength = d * DayLength + MaxAgeDays * DayLength BY <1>1
    <3>2. (q + 2) * DayLength = (q + 1) * DayLength + DayLength BY <1>1, <1>2
    <3>3. d * DayLength \in Int /\ MaxAgeDays * DayLength \in Int /\ (q + 1) * DayLength \in Int
      BY <1>1, <1>2
    <3> HIDE DEF q
    <3> QED BY <1>1, <1>2, <1>3, <3>1, <3>2, <3>3
  <2>2. d + MaxAgeDays < q + 2 BY <1>1, <1>2, <2>1, Multiples
  <2> QED BY <1>1, <1>2, <1>3, <1>5, <2>2 DEF TooOld, TooOldIn
<1> QED BY <1>1, <1>4, <1>5

LEMMA TooOldForLater ==
  ASSUME NEW z \in Int, NEW d \in Int, NEW m \in Int, NEW n \in Int, m <= n,
         TooOldIn(z, d, m)
  PROVE  TooOldIn(z, d, n)
BY LoggerAssumption DEF TooOldIn

-----------------------------------------------------------------------------
(***************************************************************************)
(* The invariant.                                                          *)
(***************************************************************************)
Holding == {"rotate", "link", "cleanup", "write"}

Types ==
  /\ now \in 0 .. MaxTime /\ zone \in Zones /\ up \in BOOLEAN
  /\ exists \subseteq Days /\ link \in Days \cup {None} /\ linkMade \in BOOLEAN
  /\ content \in [Days -> Seq(Line)]
  /\ file \in Days \cup {None} /\ orphan \in BOOLEAN /\ curDate \in Days \cup {None}
  /\ lock \in Writers \cup {Free}
  /\ pc \in [Writers -> {"idle", "stamped"} \cup Holding]
  /\ stamp \in [Writers -> 0 .. MaxTime] /\ lines \in 0 .. MaxLines
  /\ written \subseteq Line /\ lastDay \in Days

\* The holder of the lock, and only it, is past the lock.
Locking ==
  /\ \A w \in Writers : pc[w] \in Holding <=> lock = w
  /\ \A w \in Writers : pc[w] # "idle" => up /\ lines \in 1 .. MaxLines
  /\ up => curDate \in Days
  /\ ~up => file = None

\* The open file is that of the present date; a writer past the rotation has it
\* open for its line.
Opened ==
  /\ file # None => file = curDate
  /\ file <= lastDay
  /\ \A w \in Writers :
       pc[w] \in {"link", "cleanup", "write"} => file # None /\ file = Day(stamp[w])
  /\ orphan => file # None /\ TooOld(file, lastDay)

Linked == file # None /\ linkMade => link = file \/ \E w \in Writers : pc[w] = "link"

Found(line) ==
  \E i \in DOMAIN content[Day(line.at)] : content[Day(line.at)][i] = line

Kept == \A line \in written : Found(line) \/ TooOld(Day(line.at), lastDay)

IInv == Types /\ Locking /\ Opened /\ Linked /\ Kept

LEMMA FreeIsNobody == Free \notin Writers
BY LoggerAssumption DEF Free

LEMMA InitIInv == Init => IInv
<1> SUFFICES ASSUME Init PROVE IInv
  OBVIOUS
<1>1. 0 \in Days /\ MaxTime \in Nat /\ MaxLines \in Nat /\ 0 \in 0 .. MaxTime
  <2>1. MaxTime \in Nat /\ MaxLines \in Nat BY LoggerAssumption
  <2>2. Day(MaxTime) \in Nat BY <2>1, Dates
  <2> QED BY <2>1, <2>2 DEF Days
<1>2. Types BY <1>1 DEF Init, Types
<1>3. Locking BY FreeIsNobody DEF Init, Locking, Holding, None
<1>4. Opened BY <1>1 DEF Init, Opened, None
<1>5. Linked BY DEF Init, Linked
<1>6. Kept BY DEF Init, Kept
<1> QED BY <1>2, <1>3, <1>4, <1>5, <1>6 DEF IInv

LEMMA TypesKept == IInv /\ [Next]_vars => Types'
<1> SUFFICES ASSUME IInv, [Next]_vars PROVE Types'
  OBVIOUS
<1> USE DEF IInv, Types
<1>0. MaxTime \in Nat /\ MaxLines \in Nat BY LoggerAssumption
<1>d. \A t \in 0 .. MaxTime : Day(t) \in Days BY DatesInRange
<1>1. CASE Tick BY <1>1, <1>0 DEF Tick
<1>2. CASE Start
  <2>1. Day(now) \in Days BY <1>d
  <2>2. content' \in [Days -> Seq(Line)] BY <1>2 DEF Start
  <2>3. exists' \subseteq Days BY <1>2, <2>1 DEF Start
  <2>4. orphan' \in BOOLEAN BY <1>2 DEF Start
  <2> QED BY <1>2, <2>1, <2>2, <2>3, <2>4 DEF Start
<1>3. CASE Exit
  <2>1. 0 \in 0 .. MaxTime BY <1>0
  <2>2. stamp' \in [Writers -> 0 .. MaxTime] BY <1>3, <2>1 DEF Exit
  <2>3. pc' \in [Writers -> {"idle", "stamped"} \cup Holding] BY <1>3 DEF Exit
  <2>4. UNCHANGED <<now, zone, exists, content, link, linkMade, lines, written, lastDay>>
    BY <1>3 DEF Exit, diskVars
  <2>5. up' = FALSE /\ file' = None /\ orphan' = FALSE /\ curDate' = None /\ lock' = Free
    BY <1>3 DEF Exit
  <2> QED BY <2>2, <2>3, <2>4, <2>5
<1>4. ASSUME NEW w \in Writers, Stamp(w) PROVE Types'
  BY <1>4, <1>0 DEF Stamp, Goto
<1>5. ASSUME NEW w \in Writers, Lock(w) PROVE Types'
  BY <1>5 DEF Lock, Goto, Holding
<1>6. ASSUME NEW w \in Writers, Rotate(w) PROVE Types'
  <2>1. Day(stamp[w]) \in Days BY <1>d
  <2> QED BY <1>6, <2>1 DEF Rotate, OpenFile, OpenFails, Goto, RotateFor, DateKept, Holding
<1>7. ASSUME NEW w \in Writers, Relink(w) PROVE Types'
  BY <1>7 DEF Relink, Goto, Holding
<1>8. ASSUME NEW w \in Writers, CleanOld(w) PROVE Types'
  <2>1. content' \in [Days -> Seq(Line)] BY <1>8 DEF CleanOld, Cleanup
  <2>2. orphan' \in BOOLEAN BY <1>8 DEF CleanOld, Cleanup
  <2> QED BY <1>8, <2>1, <2>2 DEF CleanOld, Cleanup, Goto, Holding
<1>9. ASSUME NEW w \in Writers, WriteLine(w) PROVE Types'
  <2> DEFINE line == [by |-> w, at |-> stamp[w], n |-> lines]
  <2>1. lines \in 1 .. MaxLines BY <1>9 DEF WriteLine, Locking
  <2>2. line \in Line BY <2>1 DEF Line
  <2>3. file \in Days => Append(content[file], line) \in Seq(Line) BY <2>2
  <2>4. file \in Days BY <1>9 DEF WriteLine, Opened
  <2> HIDE DEF line
  <2>5. content' \in [Days -> Seq(Line)]
    <3>1. content' = IF orphan THEN content
                     ELSE [content EXCEPT ![file] = Append(@, line)]
      BY <1>9 DEF WriteLine, line
    <3> QED BY <3>1, <2>3, <2>4
  <2>6. written' \subseteq Line
    <3>1. written' = written \cup {line} BY <1>9 DEF WriteLine, line
    <3> QED BY <3>1, <2>2
  <2>7. 0 \in 0 .. MaxTime BY <1>0
  <2> QED BY <1>9, <2>5, <2>6, <2>7 DEF WriteLine, Goto, Holding
<1>10. CASE AskPath \/ ReadPath \/ Answer
  BY <1>10 DEF AskPath, ReadPath, Answer, PageIdle
<1>11. CASE UNCHANGED vars BY <1>11 DEF vars
<1> QED BY <1>1, <1>2, <1>3, <1>4, <1>5, <1>6, <1>7, <1>8, <1>9, <1>10, <1>11 DEF Next, Output

LEMMA LockingKept == IInv /\ [Next]_vars => Locking'
<1> SUFFICES ASSUME IInv, [Next]_vars PROVE Locking'
  OBVIOUS
<1> USE DEF IInv, Types, Locking, Holding
<1>0. Free \notin Writers /\ None \notin Days /\ MaxLines \in Nat
  BY FreeIsNobody, LoggerAssumption DEF None, Days
<1>d. \A t \in 0 .. MaxTime : Day(t) \in Days BY DatesInRange
<1>1. CASE Tick BY <1>1 DEF Tick
<1>2. CASE Start BY <1>2, <1>d DEF Start
<1>3. CASE Exit BY <1>3, <1>0 DEF Exit, PageIdle
<1>4. ASSUME NEW w \in Writers, Stamp(w) PROVE Locking'
  BY <1>4, <1>0 DEF Stamp, Goto
<1>5. ASSUME NEW w \in Writers, Lock(w) PROVE Locking'
  BY <1>5, <1>0 DEF Lock, Goto
<1>6. ASSUME NEW w \in Writers, Rotate(w) PROVE Locking'
  <2>1. Day(stamp[w]) \in Days BY <1>d
  <2> QED BY <1>6, <2>1, <1>0 DEF Rotate, OpenFile, OpenFails, Goto, RotateFor, DateKept
<1>7. ASSUME NEW w \in Writers, Relink(w) PROVE Locking'
  BY <1>7, <1>0 DEF Relink, Goto
<1>8. ASSUME NEW w \in Writers, CleanOld(w) PROVE Locking'
  BY <1>8, <1>0 DEF CleanOld, Cleanup, Goto
<1>9. ASSUME NEW w \in Writers, WriteLine(w) PROVE Locking'
  BY <1>9, <1>0 DEF WriteLine, Goto
<1>10. CASE AskPath \/ ReadPath \/ Answer
  BY <1>10 DEF AskPath, ReadPath, Answer, PageIdle
<1>11. CASE UNCHANGED vars BY <1>11 DEF vars
<1> QED BY <1>1, <1>2, <1>3, <1>4, <1>5, <1>6, <1>7, <1>8, <1>9, <1>10, <1>11 DEF Next, Output

LEMMA LinkedKept == IInv /\ [Next]_vars => Linked'
<1> SUFFICES ASSUME IInv, [Next]_vars PROVE Linked'
  OBVIOUS
<1> USE DEF IInv, Types, Linked
<1>0. Free \notin Writers BY FreeIsNobody
<1>1. CASE Tick BY <1>1 DEF Tick
<1>2. CASE Start BY <1>2 DEF Start
<1>3. CASE Exit BY <1>3 DEF Exit
<1>4. ASSUME NEW w \in Writers, Stamp(w) PROVE Linked'
  BY <1>4 DEF Stamp, Goto
<1>5. ASSUME NEW w \in Writers, Lock(w) PROVE Linked'
  BY <1>5 DEF Lock, Goto
<1>6. ASSUME NEW w \in Writers, Rotate(w) PROVE Linked'
  BY <1>6 DEF Rotate, OpenFile, OpenFails, Goto, Holding
<1>7. ASSUME NEW w \in Writers, Relink(w) PROVE Linked'
  BY <1>7 DEF Relink, Opened
<1>8. ASSUME NEW w \in Writers, CleanOld(w) PROVE Linked'
  BY <1>8 DEF CleanOld, Cleanup, Goto
<1>9. ASSUME NEW w \in Writers, WriteLine(w) PROVE Linked'
  BY <1>9 DEF WriteLine, Goto
<1>10. CASE AskPath \/ ReadPath \/ Answer
  BY <1>10 DEF AskPath, ReadPath, Answer, PageIdle
<1>11. CASE UNCHANGED vars BY <1>11 DEF vars
<1> QED BY <1>1, <1>2, <1>3, <1>4, <1>5, <1>6, <1>7, <1>8, <1>9, <1>10, <1>11 DEF Next, Output

\* Nothing that is too old gets young again.
LEMMA LastDayGrows ==
  IInv /\ [Next]_vars =>
    /\ zone' = zone /\ lastDay \in Int /\ lastDay' \in Int /\ lastDay <= lastDay'
    /\ \A d \in Days : TooOld(d, lastDay) => TooOld(d, lastDay)'
<1> SUFFICES ASSUME IInv, [Next]_vars
             PROVE  /\ zone' = zone /\ lastDay \in Int /\ lastDay' \in Int /\ lastDay <= lastDay'
                    /\ \A d \in Days : TooOld(d, lastDay) => TooOld(d, lastDay)'
  OBVIOUS
<1>1. zone' = zone
  BY DEF Next, Output, Tick, Start, Exit, Stamp, Lock, Rotate, Relink, CleanOld, WriteLine,
         AskPath, ReadPath, Answer, vars
<1>2. lastDay \in Int /\ lastDay' \in Int /\ zone \in Int
  BY TypesKept, LoggerAssumption DEF IInv, Types, Days, Zones
<1>3. lastDay <= lastDay'
  <2>1. \A t \in 0 .. MaxTime : Day(t) \in Int BY DatesInRange DEF Days
  <2>2. CASE Start BY <2>1, <2>2, <1>2 DEF Start, IInv, Types
  <2>3. ASSUME NEW w \in Writers, Rotate(w) PROVE lastDay <= lastDay'
    <3>1. Day(stamp[w]) \in Int BY <2>1 DEF IInv, Types
    <3> QED BY <2>3, <3>1, <1>2 DEF Rotate, OpenFile, OpenFails, RotateFor
  <2>4. ASSUME ~Start, \A w \in Writers : ~Rotate(w) PROVE lastDay' = lastDay
    BY <2>4 DEF Next, Output, Tick, Exit, Stamp, Lock, Relink, CleanOld, WriteLine,
         AskPath, ReadPath, Answer, vars
  <2> QED BY <2>2, <2>3, <2>4, <1>2
<1>4. ASSUME NEW d \in Days, TooOld(d, lastDay) PROVE TooOld(d, lastDay)'
  <2>1. d \in Int BY DatesInRange, LoggerAssumption DEF Days
  <2>2. TooOldIn(zone, d, lastDay) BY <1>4 DEF TooOld
  <2>3. TooOldIn(zone, d, lastDay') BY <1>2, <1>3, <2>1, <2>2, TooOldForLater
  <2> QED BY <1>1, <2>3 DEF TooOld
<1> QED BY <1>1, <1>2, <1>3, <1>4

\* What a removal takes is too old for the date it was made for.
LEMMA GoneIsTooOld ==
  ASSUME IInv, NEW t \in 0 .. MaxTime, Day(t) <= lastDay, NEW d \in Days, Expired(d, t)
  PROVE  TooOld(d, lastDay)
<1>1. Day(t) \in Int /\ lastDay \in Int /\ d \in Int /\ zone \in Int
  BY DatesInRange, LoggerAssumption DEF IInv, Types, Days, Zones
<1>2. TooOld(d, Day(t)) BY OldOnesExpire DEF IInv, Types
<1> QED BY <1>1, <1>2, TooOldForLater DEF TooOld

LEMMA OpenedKept == IInv /\ [Next]_vars => Opened'
<1> SUFFICES ASSUME IInv, [Next]_vars PROVE Opened'
  OBVIOUS
<1> USE DEF IInv, Types, Locking, Opened, Holding
<1>d. \A t \in 0 .. MaxTime : Day(t) \in Days BY DatesInRange
<1>i. \A d \in Days \cup {None} : d \in Int BY DEF Days, None
<1>g. \A d \in Days : TooOld(d, lastDay) => TooOld(d, lastDay)' BY LastDayGrows
<1>n. None \notin Days BY DEF Days, None
<1>u. ASSUME UNCHANGED <<file, curDate, lastDay, pc, stamp, orphan, zone>> PROVE Opened'
  BY <1>u, <1>g, <1>n
<1>1. CASE Tick BY <1>1, <1>u DEF Tick
<1>2. CASE Start
  <2>1. Day(now) \in Days /\ Day(now) \in Int /\ lastDay \in Int BY <1>d, <1>i
  <2>2. file' = Day(now) /\ curDate' = Day(now) /\ file' # None BY <1>2, <2>1, <1>n DEF Start
  <2>3. file' <= lastDay' /\ lastDay' \in Int BY <1>2, <2>1 DEF Start
  <2>4. \A w \in Writers : pc'[w] = "idle" BY <1>2 DEF Start
  <2>5. ASSUME orphan' PROVE TooOld(file, lastDay)'
    <3>1. Expired(Day(now), now) BY <1>2, <2>5 DEF Start
    <3>2. TooOld(Day(now), Day(now)) BY <3>1, <2>1, OldOnesExpire
    <3>3. zone' = zone /\ zone \in Int BY <1>2, LoggerAssumption DEF Start, Zones
    <3>4. TooOldIn(zone, Day(now), lastDay')
      BY <2>1, <2>2, <2>3, <3>2, <3>3, TooOldForLater DEF TooOld
    <3> QED BY <3>3, <3>4, <2>2 DEF TooOld
  <2> QED BY <2>2, <2>3, <2>4, <2>5
<1>3. CASE Exit
  <2>1. file' = None /\ orphan' = FALSE /\ lastDay' = lastDay /\ \A w \in Writers : pc'[w] = "idle"
    BY <1>3 DEF Exit
  <2>2. None <= lastDay BY DEF Days, None
  <2> QED BY <2>1, <2>2
<1>4. ASSUME NEW w \in Writers, Stamp(w) PROVE Opened'
  <2>1. /\ UNCHANGED <<file, curDate, orphan, lastDay, zone>>
        /\ pc[w] = "idle" /\ pc' = [pc EXCEPT ![w] = "stamped"]
        /\ stamp' = [stamp EXCEPT ![w] = now]
    BY <1>4 DEF Stamp, Goto
  <2> QED BY <2>1, <1>g, <1>n
<1>5. ASSUME NEW w \in Writers, Lock(w) PROVE Opened'
  <2>1. /\ UNCHANGED <<file, curDate, orphan, lastDay, zone, stamp>>
        /\ \/ file # None /\ curDate = Day(stamp[w]) /\ pc' = [pc EXCEPT ![w] = "write"]
           \/ pc' = [pc EXCEPT ![w] = "rotate"]
    BY <1>5 DEF Lock, Goto, RotateFor
  <2> QED BY <2>1, <1>g, <1>n
<1>6. ASSUME NEW w \in Writers, Rotate(w) PROVE Opened'
  <2>0. pc[w] = "rotate" /\ lock = w /\ stamp' = stamp BY <1>6 DEF Rotate
  <2>1. CASE OpenFile(stamp[w]) /\ Goto(w, "link")
    <3>1. Day(stamp[w]) \in Days /\ Day(stamp[w]) \in Int /\ lastDay \in Int BY <1>d, <1>i
    <3>2. /\ file' = Day(stamp[w]) /\ curDate' = Day(stamp[w]) /\ orphan' = FALSE
          /\ pc' = [pc EXCEPT ![w] = "link"]
      BY <2>1 DEF OpenFile, Goto
    <3>3. file' <= lastDay' BY <2>1, <3>1 DEF OpenFile
    <3>4. \A v \in Writers : v # w => pc'[v] \notin Holding BY <2>0, <3>2
    <3> QED BY <2>0, <3>1, <3>2, <3>3, <3>4, <1>n
  <2>2. CASE OpenFails(stamp[w]) /\ Goto(w, "idle")
    <3>1. /\ file' = None /\ orphan' = FALSE /\ lastDay' = lastDay
          /\ pc' = [pc EXCEPT ![w] = "idle"]
      BY <2>2 DEF OpenFails, Goto
    <3>2. None <= lastDay BY DEF Days, None
    <3>3. \A v \in Writers : pc'[v] \notin Holding BY <2>0, <3>1
    <3> QED BY <3>1, <3>2, <3>3
  <2> QED BY <1>6, <2>1, <2>2 DEF Rotate, RotateFor
<1>7. ASSUME NEW w \in Writers, Relink(w) PROVE Opened'
  <2>1. /\ UNCHANGED <<file, curDate, orphan, lastDay, zone, stamp>>
        /\ pc[w] = "link" /\ pc' = [pc EXCEPT ![w] = "cleanup"]
    BY <1>7 DEF Relink, Goto
  <2> QED BY <2>1, <1>g, <1>n
<1>8. ASSUME NEW w \in Writers, CleanOld(w) PROVE Opened'
  <2>1. /\ UNCHANGED <<file, curDate, lastDay, zone, stamp>>
        /\ pc[w] = "cleanup" /\ pc' = [pc EXCEPT ![w] = "write"]
    BY <1>8 DEF CleanOld, Goto
  <2>2. file # None /\ file \in Days /\ Day(stamp[w]) = file BY <2>1
  <2>3. ASSUME orphan' PROVE TooOld(file, lastDay)
    <3>1. CASE orphan BY <3>1
    <3>2. CASE Expired(file, stamp[w]) BY <3>2, <2>2, GoneIsTooOld
    <3> QED BY <1>8, <2>3, <3>1, <3>2 DEF CleanOld, Cleanup, RotateFor
  <2>4. orphan' => file' # None /\ TooOld(file, lastDay)' BY <2>1, <2>2, <2>3, <1>g
  <2> QED BY <2>1, <2>2, <2>4
<1>9. ASSUME NEW w \in Writers, WriteLine(w) PROVE Opened'
  <2>1. /\ UNCHANGED <<file, curDate, orphan, lastDay, zone>>
        /\ pc' = [pc EXCEPT ![w] = "idle"] /\ stamp' = [stamp EXCEPT ![w] = 0]
    BY <1>9 DEF WriteLine, Goto
  <2> QED BY <2>1, <1>g, <1>n
<1>10. CASE AskPath \/ ReadPath \/ Answer
  BY <1>10, <1>u DEF AskPath, ReadPath, Answer
<1>11. CASE UNCHANGED vars BY <1>11, <1>u DEF vars
<1> QED BY <1>1, <1>2, <1>3, <1>4, <1>5, <1>6, <1>7, <1>8, <1>9, <1>10, <1>11 DEF Next, Output

LEMMA KeptKept == IInv /\ [Next]_vars => Kept'
<1> SUFFICES ASSUME IInv, [Next]_vars PROVE Kept'
  OBVIOUS
<1>d. \A t \in 0 .. MaxTime : Day(t) \in Days BY DatesInRange
<1>l. \A line \in Line : Day(line.at) \in Days BY <1>d DEF Line
<1>w. written \subseteq Line BY DEF IInv, Types
<1>g. \A d \in Days : TooOld(d, lastDay) => TooOld(d, lastDay)' BY LastDayGrows
<1>k. ASSUME written' = written,
             \A d \in Days : content'[d] = content[d] \/ TooOld(d, lastDay)'
      PROVE  Kept'
  <2> SUFFICES ASSUME NEW line \in written, ~TooOld(Day(line.at), lastDay)'
               PROVE  Found(line)'
    BY <1>k DEF Kept
  <2>1. Day(line.at) \in Days BY <1>l, <1>w
  <2>2. ~TooOld(Day(line.at), lastDay) BY <2>1, <1>g
  <2>3. content'[Day(line.at)] = content[Day(line.at)] BY <2>1, <1>k
  <2>4. Found(line) BY <2>2 DEF IInv, Kept
  <2> QED BY <2>3, <2>4 DEF Found
<1>u. ASSUME UNCHANGED <<content, written>> PROVE Kept'
  BY <1>u, <1>k
<1>1. CASE Tick BY <1>1, <1>u DEF Tick
<1>2. CASE Start
  <2>1. Day(now) \in Days /\ now \in 0 .. MaxTime BY <1>d DEF IInv, Types
  <2>2. ASSUME NEW d \in Days, content'[d] # content[d] PROVE TooOld(d, lastDay)'
    <3>1. Expired(d, now) BY <1>2, <2>2 DEF Start
    <3>2. TooOld(d, Day(now)) BY <3>1, OldOnesExpire DEF IInv, Types
    <3>3. zone' = zone /\ zone \in Int BY <1>2, LoggerAssumption DEF Start, Zones, IInv, Types
    <3>4. lastDay' \in Int /\ Day(now) \in Int /\ d \in Int /\ Day(now) <= lastDay'
      BY <1>2, <2>1 DEF Start, IInv, Types, Days
    <3>5. TooOldIn(zone, d, lastDay') BY <3>2, <3>3, <3>4, TooOldForLater DEF TooOld
    <3> QED BY <3>3, <3>5 DEF TooOld
  <2>3. written' = written BY <1>2 DEF Start
  <2> QED BY <2>2, <2>3, <1>k
<1>3. CASE Exit BY <1>3, <1>u DEF Exit
<1>4. ASSUME NEW w \in Writers, Stamp(w) PROVE Kept' BY <1>4, <1>u DEF Stamp
<1>5. ASSUME NEW w \in Writers, Lock(w) PROVE Kept' BY <1>5, <1>u DEF Lock
<1>6. ASSUME NEW w \in Writers, Rotate(w) PROVE Kept'
  BY <1>6, <1>u DEF Rotate, OpenFile, OpenFails
<1>7. ASSUME NEW w \in Writers, Relink(w) PROVE Kept' BY <1>7, <1>u DEF Relink
<1>8. ASSUME NEW w \in Writers, CleanOld(w) PROVE Kept'
  <2>1. file \in Days /\ file = Day(stamp[w]) /\ file <= lastDay /\ stamp[w] \in 0 .. MaxTime
    BY <1>8 DEF CleanOld, IInv, Opened, Types
  <2>2. ASSUME NEW d \in Days, content'[d] # content[d] PROVE TooOld(d, lastDay)'
    <3>1. Expired(d, stamp[w]) BY <1>8, <2>2 DEF CleanOld, Cleanup, RotateFor
    <3>2. TooOld(d, lastDay) BY <3>1, <2>1, GoneIsTooOld
    <3> QED BY <3>2, <1>g
  <2>3. written' = written BY <1>8 DEF CleanOld
  <2> QED BY <2>2, <2>3, <1>k
<1>9. ASSUME NEW w \in Writers, WriteLine(w) PROVE Kept'
  <2> DEFINE new == [by |-> w, at |-> stamp[w], n |-> lines]
  <2>1. /\ file \in Days /\ file = Day(stamp[w])
        /\ orphan => TooOld(file, lastDay)
    BY <1>9 DEF WriteLine, IInv, Opened, Types
  <2>2. content' = IF orphan THEN content ELSE [content EXCEPT ![file] = Append(@, new)]
    BY <1>9 DEF WriteLine
  <2>3. new.at = stamp[w] OBVIOUS
  <2>4. new \in Line
    <3>1. w \in Writers /\ stamp[w] \in 0 .. MaxTime /\ lines \in 1 .. MaxLines
      BY <1>9 DEF WriteLine, IInv, Types, Locking
    <3> QED BY <3>1 DEF Line
  <2>5. written' = written \cup {new} BY <1>9 DEF WriteLine
  <2> HIDE DEF new
  <2>6. ASSUME NEW d \in Days, NEW i \in DOMAIN content[d]
        PROVE  i \in DOMAIN content'[d] /\ content'[d][i] = content[d][i]
    <3>1. content \in [Days -> Seq(Line)] BY DEF IInv, Types
    <3>2. content[d] \in Seq(Line) BY <3>1
    <3>3. /\ i \in DOMAIN Append(content[d], new)
          /\ Append(content[d], new)[i] = content[d][i]
      BY <3>2, <2>4
    <3>4. content'[d] = content[d] \/ content'[d] = Append(content[d], new)
      BY <2>1, <2>2, <3>1
    <3> QED BY <3>3, <3>4
  <2>7. ASSUME NEW line \in written PROVE Found(line)' \/ TooOld(Day(line.at), lastDay)'
    <3>1. Day(line.at) \in Days BY <1>l, <1>w
    <3>2. CASE Found(line) BY <3>2, <3>1, <2>6 DEF Found
    <3>3. CASE TooOld(Day(line.at), lastDay) BY <3>3, <3>1, <1>g
    <3> QED BY <3>2, <3>3 DEF IInv, Kept
  <2>8. \A line \in {new} : Found(line)' \/ TooOld(Day(line.at), lastDay)'
    <3>1. CASE orphan BY <3>1, <2>1, <2>3, <1>g
    <3>2. CASE ~orphan
      <4>1. content \in [Days -> Seq(Line)] BY DEF IInv, Types
      <4>2. content'[file] = Append(content[file], new) BY <2>1, <2>2, <3>2, <4>1
      <4>3. content[file] \in Seq(Line) BY <4>1, <2>1
      <4>4. /\ Len(content[file]) + 1 \in DOMAIN Append(content[file], new)
            /\ Append(content[file], new)[Len(content[file]) + 1] = new
        BY <4>3, <2>4
      <4> QED BY <4>2, <4>4, <2>1, <2>3 DEF Found
    <3> QED BY <3>1, <3>2
  <2> QED BY <2>5, <2>7, <2>8 DEF Kept
<1>10. CASE AskPath \/ ReadPath \/ Answer
  BY <1>10, <1>u DEF AskPath, ReadPath, Answer
<1>11. CASE UNCHANGED vars BY <1>11, <1>u DEF vars
<1> QED BY <1>1, <1>2, <1>3, <1>4, <1>5, <1>6, <1>7, <1>8, <1>9, <1>10, <1>11 DEF Next, Output

LEMMA AlwaysIInv == Spec => []IInv
<1>1. IInv /\ [Next]_vars => IInv'
  BY TypesKept, LockingKept, OpenedKept, LinkedKept, KeptKept DEF IInv
<1> QED BY InitIInv, <1>1, PTL DEF Spec

-----------------------------------------------------------------------------
(***************************************************************************)
(* Theorems.                                                               *)
(***************************************************************************)
\* A line that was written stays in the file of its own date until a rotation of
\* late enough a date removes that file: any number of writers that stamp before
\* they take the lock, failed rotations, exits (logger.go output, rotate, cleanup).
THEOREM LinesKept == Spec => []LinesAreKept
<1>1. IInv => LinesAreKept
  <2> SUFFICES ASSUME IInv, NEW line \in written
               PROVE  \/ Found(line)
                      \/ /\ MaxAgeDays > 0
                         /\ Day(line.at) <= lastDay - MaxAgeDays + (IF zone < 0 THEN 1 ELSE 0)
    BY DEF LinesAreKept, Found
  <2> QED BY DEF IInv, Kept, TooOld, TooOldIn
<1> QED BY <1>1, AlwaysIInv, PTL

\* Whenever nobody holds the lock, gateway.log leads to the file that is written
\* (logger.go rotate).
THEOREM LinkLeads == Spec => []LinkLeadsToOpenFile
<1>1. IInv => LinkLeadsToOpenFile
  BY FreeIsNobody DEF IInv, Types, Locking, Linked, Holding, LinkLeadsToOpenFile
<1> QED BY <1>1, AlwaysIInv, PTL

\* A rotation removes its own file only if one day is kept, west of UTC.
LEMMA OwnFileStays ==
  ASSUME MaxAgeDays # 1 \/ MaxZone = 0, zone \in Zones, NEW t \in 0 .. MaxTime
  PROVE  ~Expired(Day(t), t)
<1> SUFFICES ASSUME Expired(Day(t), t) PROVE FALSE
  OBVIOUS
<1>1. Day(t) \in Days /\ Day(t) \in Int BY DatesInRange DEF Days
<1>2. TooOld(Day(t), Day(t)) BY <1>1, OldOnesExpire
<1>3. zone < 0 => MaxZone # 0 BY LoggerAssumption DEF Zones
<1>4. MaxAgeDays > 0 /\ MaxAgeDays \in Nat BY <1>2, LoggerAssumption DEF TooOld, TooOldIn
<1>5. MaxAgeDays <= (IF zone < 0 THEN 1 ELSE 0) BY <1>1, <1>2, <1>4 DEF TooOld, TooOldIn
<1>6. CASE zone < 0 BY <1>3, <1>4, <1>5, <1>6
<1>7. CASE ~(zone < 0) BY <1>4, <1>5, <1>7
<1> QED BY <1>6, <1>7

\* The current file is in the directory even while a rotation goes on.
There == up => curDate \in exists /\ ~orphan

LEMMA ThereKept ==
  ASSUME MaxAgeDays # 1 \/ MaxZone = 0
  PROVE  IInv /\ There /\ [Next]_vars => There'
<1> SUFFICES ASSUME IInv, There, [Next]_vars PROVE There'
  OBVIOUS
<1> USE DEF There
<1>s. \A t \in 0 .. MaxTime : ~Expired(Day(t), t) BY OwnFileStays DEF IInv, Types
<1>u. ASSUME UNCHANGED <<up, curDate, exists, orphan>> PROVE There' BY <1>u
<1>1. CASE Start BY <1>1, <1>s DEF Start, IInv, Types
<1>2. CASE Exit BY <1>2 DEF Exit
<1>3. ASSUME NEW w \in Writers, Rotate(w) PROVE There'
  BY <1>3 DEF Rotate, OpenFile, OpenFails, DateKept
<1>4. ASSUME NEW w \in Writers, CleanOld(w) PROVE There'
  <2>1. file = Day(stamp[w]) /\ file = curDate /\ stamp[w] \in 0 .. MaxTime
    BY <1>4 DEF CleanOld, IInv, Opened, Types
  <2>2. ~Expired(file, stamp[w]) BY <2>1, <1>s
  <2> QED BY <1>4, <2>1, <2>2 DEF CleanOld, Cleanup, RotateFor
<1>5. CASE Tick \/ \E w \in Writers : Stamp(w) \/ Lock(w) \/ Relink(w) \/ WriteLine(w)
  BY <1>5, <1>u DEF Tick, Stamp, Lock, Relink, WriteLine
<1>6. CASE AskPath \/ ReadPath \/ Answer \/ UNCHANGED vars
  BY <1>6, <1>u DEF AskPath, ReadPath, Answer, vars
<1> QED BY <1>1, <1>2, <1>3, <1>4, <1>5, <1>6 DEF Next, Output

\* Unless one day is kept west of UTC, the current file is never removed under
\* its writers and readers, by a late writer's rotation either (logger.go
\* rotate, cleanup, Tail).
THEOREM CurrentExists ==
  ASSUME MaxAgeDays # 1 \/ MaxZone = 0
  PROVE  Spec => []CurrentFileExists
<1>1. Init => There BY DEF Init, There
<1>2. There => CurrentFileExists BY DEF CurrentFileExists, There
<1> QED BY <1>1, <1>2, ThereKept, AlwaysIInv, PTL DEF Spec

-----------------------------------------------------------------------------
(***************************************************************************)
(* What the log page makes of a file.                                      *)
(***************************************************************************)
\* Where the last n of l lines begin.
Before(l, n) == IF l > n THEN l - n ELSE 0

LEMMA LastOnes ==
  ASSUME NEW s \in Seq(Line), NEW n \in Nat \ {0}
  PROVE  /\ Before(Len(s), n) \in Nat /\ Before(Len(s), n) <= Len(s)
         /\ LastLines(s, n) \in Seq(Line)
         /\ Len(LastLines(s, n)) = Len(s) - Before(Len(s), n)
         /\ \A k \in 1 .. Len(s) - Before(Len(s), n) :
              LastLines(s, n)[k] = s[Before(Len(s), n) + k]
<1> DEFINE d == Before(Len(s), n)
<1>0. Len(s) \in Nat BY LenProperties
<1>1. d \in Nat /\ d <= Len(s) BY <1>0 DEF Before
<1>2. LastLines(s, n) = SubSeq(s, d + 1, Len(s)) BY <1>0 DEF LastLines, Before
<1> HIDE DEF d
<1>3. d + 1 \in Int /\ Len(s) \in Int /\ d + 1 <= Len(s) + 1 BY <1>0, <1>1
<1>4. \A k \in d + 1 .. Len(s) : s[k] \in Line BY <1>0, <1>1
<1>5. SubSeq(s, d + 1, Len(s)) \in Seq(Line) BY <1>3, <1>4, SubSeqProperties
<1>6. Len(SubSeq(s, d + 1, Len(s))) = Len(s) - d BY <1>0, <1>1, <1>3, <1>4, SubSeqProperties
<1>7. ASSUME NEW k \in 1 .. Len(s) - d PROVE SubSeq(s, d + 1, Len(s))[k] = s[d + k]
  BY <1>0, <1>1, <1>3, <1>4, <1>6, SubSeqProperties
<1> QED BY <1>1, <1>2, <1>5, <1>6, <1>7 DEF d

\* q consists of lines of the first m of s, in their order, and has all of these
\* that pass, or without a filter all; pos says where they come from.
Selects(f, s, m, q, pos) ==
  /\ pos \in [1 .. Len(q) -> 1 .. m]
  /\ \A k \in 1 .. Len(q) : q[k] = s[pos[k]]
  /\ \A j, k \in 1 .. Len(q) : j < k => pos[j] < pos[k]
  /\ \A i \in 1 .. m : (f => Passes(s[i])) => \E k \in 1 .. Len(q) : pos[k] = i

Selected(f, s, m, q) ==
  q \in Seq(Line) /\ \E pos : Selects(f, s, m, q, pos)

LEMMA SelectsMore ==
  ASSUME NEW s \in Seq(Line), NEW m \in Nat, m + 1 <= Len(s), NEW q, Selected(TRUE, s, m, q)
  PROVE  Selected(TRUE, s, m + 1, IF Passes(s[m + 1]) THEN Append(q, s[m + 1]) ELSE q)
<1>1. PICK pos : Selects(TRUE, s, m, q, pos) BY DEF Selected
<1>2. q \in Seq(Line) /\ Len(q) \in Nat BY DEF Selected
<1>3. \A i \in 1 .. m + 1 : i \in 1 .. m \/ i = m + 1 OBVIOUS
<1>4. CASE ~Passes(s[m + 1])
  <2>1. pos \in [1 .. Len(q) -> 1 .. m + 1]
    <3>1. 1 .. m \subseteq 1 .. m + 1 OBVIOUS
    <3> QED BY <1>1, <3>1 DEF Selects
  <2>2. Selects(TRUE, s, m + 1, q, pos) BY <1>1, <1>3, <1>4, <2>1 DEF Selects
  <2> QED BY <1>2, <1>4, <2>2 DEF Selected
<1>5. CASE Passes(s[m + 1])
  <2> DEFINE l == Len(q)
             more == [k \in 1 .. l + 1 |-> IF k = l + 1 THEN m + 1 ELSE pos[k]]
             new == Append(q, s[m + 1])
  <2>1. s[m + 1] \in Line BY ElementOfSeq
  <2>2. /\ new \in Seq(Line) /\ Len(new) = l + 1 /\ new[l + 1] = s[m + 1]
        /\ \A k \in 1 .. l : new[k] = q[k]
    BY <1>2, <2>1, AppendProperties
  <2>3. \A k \in 1 .. l : k \in 1 .. l + 1 /\ k # l + 1 /\ more[k] = pos[k] /\ pos[k] \in 1 .. m
    BY <1>1, <1>2 DEF Selects
  <2>4. l + 1 \in 1 .. l + 1 /\ more[l + 1] = m + 1 BY <1>2
  <2>5. \A k \in 1 .. l + 1 : k \in 1 .. l \/ k = l + 1 BY <1>2
  <2>6. more \in [1 .. l + 1 -> 1 .. m + 1]
    <3>1. m + 1 \in 1 .. m + 1 /\ 1 .. m \subseteq 1 .. m + 1 OBVIOUS
    <3>2. \A k \in 1 .. l + 1 : (IF k = l + 1 THEN m + 1 ELSE pos[k]) \in 1 .. m + 1
      BY <2>3, <2>5, <3>1
    <3> QED BY <3>2
  <2> HIDE DEF more, new
  <2>7. \A k \in 1 .. l + 1 : new[k] = s[more[k]] BY <1>1, <2>2, <2>3, <2>4, <2>5 DEF Selects
  <2>8. ASSUME NEW j \in 1 .. l + 1, NEW k \in 1 .. l + 1, j < k PROVE more[j] < more[k]
    <3>1. j \in 1 .. l BY <1>2, <2>8
    <3>2. CASE k = l + 1 BY <2>3, <2>4, <3>1, <3>2
    <3>3. CASE k \in 1 .. l BY <1>1, <2>3, <2>8, <3>1, <3>3 DEF Selects
    <3> QED BY <2>5, <3>2, <3>3
  <2>9. ASSUME NEW i \in 1 .. m + 1, Passes(s[i]) PROVE \E k \in 1 .. l + 1 : more[k] = i
    <3>1. CASE i = m + 1 BY <2>4, <3>1
    <3>2. CASE i \in 1 .. m
      <4>1. PICK k \in 1 .. l : pos[k] = i BY <1>1, <2>9, <3>2 DEF Selects
      <4> QED BY <2>3, <4>1
    <3> QED BY <1>3, <3>1, <3>2
  <2>10. Selects(TRUE, s, m + 1, new, more)
    BY <2>2, <2>6, <2>7, <2>8, <2>9 DEF Selects
  <2> QED BY <1>5, <2>2, <2>10 DEF Selected, new
<1> QED BY <1>4, <1>5

\* The loop of handleLogs, a recursive function as that of TrafficSamples is.
Filtering(s, out) ==
  out = [n \in 0 .. Len(s) |->
          IF n = 0 THEN <<>>
          ELSE IF Passes(s[n]) THEN Append(out[n - 1], s[n]) ELSE out[n - 1]]

LEMMA FilteringExists == ASSUME NEW s \in Seq(Line) PROVE \E out : Filtering(s, out)
<1> DEFINE Step(out, n) ==
             IF n = 0 THEN <<>>
             ELSE IF Passes(s[n]) THEN Append(out[n - 1], s[n]) ELSE out[n - 1]
           Runs(m) == \E out : \A n \in 0 .. m : out[n] = Step(out, n)
           N == {m \in Nat : Runs(m)}
<1>0. Len(s) \in Nat BY LenProperties
<1>1. 0 \in N
  <2>1. [n \in 0 .. 0 |-> <<>>][0] = <<>> OBVIOUS
  <2>2. \A n \in 0 .. 0 : n = 0 OBVIOUS
  <2> QED BY <2>1, <2>2
<1>2. ASSUME NEW m \in N PROVE m + 1 \in N
  <2>1. PICK out : \A n \in 0 .. m : out[n] = Step(out, n) OBVIOUS
  <2> DEFINE more == [n \in 0 .. m + 1 |-> Step(out, n)]
  <2>2. \A n \in 0 .. m : more[n] = out[n] BY <2>1
  <2>3. ASSUME NEW n \in 0 .. m + 1 PROVE more[n] = Step(more, n)
    <3>1. more[n] = Step(out, n) OBVIOUS
    <3>2. CASE n = 0 BY <3>1, <3>2
    <3>3. CASE n # 0
      <4>1. n - 1 \in 0 .. m BY <3>3
      <4>2. more[n - 1] = out[n - 1] BY <2>2, <4>1
      <4> HIDE DEF more
      <4> QED BY <3>1, <4>2
    <3> QED BY <3>2, <3>3
  <2> HIDE DEF more
  <2>4. Runs(m + 1) BY <2>3
  <2> HIDE DEF Runs
  <2> QED BY <2>4
<1>3. Len(s) \in N
  <2>1. N \in SUBSET Nat OBVIOUS
  <2> HIDE DEF N
  <2> QED BY <1>0, <1>1, <1>2, <2>1, Induction
<1>4. PICK out : \A n \in 0 .. Len(s) : out[n] = Step(out, n) BY <1>3
<1> DEFINE all == [n \in 0 .. Len(s) |-> Step(out, n)]
<1>5. \A n \in 0 .. Len(s) : all[n] = out[n] BY <1>4
<1>6. \A n \in 0 .. Len(s) : Step(all, n) = Step(out, n)
  <2> SUFFICES ASSUME NEW n \in 0 .. Len(s), n # 0 PROVE all[n - 1] = out[n - 1]
    OBVIOUS
  <2>1. n - 1 \in 0 .. Len(s) BY <1>0
  <2> QED BY <1>5, <2>1
<1>7. all = [n \in 0 .. Len(s) |-> Step(all, n)] BY <1>6
<1> HIDE DEF all
<1>8. Filtering(s, all) BY <1>7 DEF Filtering
<1> QED BY <1>8

LEMMA PassingSelects ==
  ASSUME NEW s \in Seq(Line) PROVE Selected(TRUE, s, Len(s), Passing(s))
<1> DEFINE out == CHOOSE o : Filtering(s, o)
<1>0. Len(s) \in Nat BY LenProperties
<1>1. Filtering(s, out) BY FilteringExists
<1>2. Passing(s) = out[Len(s)] BY DEF Passing, Filtering
<1> HIDE DEF out
<1> DEFINE N == {n \in Nat : n <= Len(s) => Selected(TRUE, s, n, out[n])}
<1>n. \A n : n \in N <=> n \in Nat /\ (n <= Len(s) => Selected(TRUE, s, n, out[n]))
  BY Zenon
<1> HIDE DEF N
<1>3. 0 \in N
  <2>1. out[0] = <<>> BY <1>0, <1>1 DEF Filtering
  <2>2. <<>> \in Seq(Line) /\ Len(<<>>) = 0 BY EmptySeq
  <2>3. Selects(TRUE, s, 0, <<>>, [k \in 1 .. 0 |-> 0]) BY <2>2 DEF Selects
  <2> QED BY <1>n, <2>1, <2>2, <2>3 DEF Selected
<1>4. ASSUME NEW n \in Nat, n + 1 <= Len(s), Selected(TRUE, s, n, out[n])
      PROVE  Selected(TRUE, s, n + 1, out[n + 1])
  <2>1. out[n + 1] = IF Passes(s[n + 1]) THEN Append(out[n], s[n + 1]) ELSE out[n]
    <3>1. n + 1 \in 0 .. Len(s) /\ n + 1 # 0 /\ (n + 1) - 1 = n BY <1>0, <1>4
    <3>2. out[n + 1] = IF Passes(s[n + 1]) THEN Append(out[(n + 1) - 1], s[n + 1])
                       ELSE out[(n + 1) - 1]
      BY <1>1, <3>1 DEF Filtering
    <3> QED BY <3>1, <3>2
  <2> QED BY <1>4, <2>1, SelectsMore
<1>5. ASSUME NEW n \in N PROVE n + 1 \in N
  <2>0. n \in Nat /\ (n <= Len(s) => Selected(TRUE, s, n, out[n])) BY <1>n, Zenon
  <2>1. n + 1 \in Nat /\ (n + 1 <= Len(s) => n <= Len(s)) BY <1>0, <2>0
  <2>2. n + 1 <= Len(s) => Selected(TRUE, s, n + 1, out[n + 1])
    BY <1>4, <2>0, <2>1, Zenon
  <2> QED BY <1>n, <2>1, <2>2, Zenon
<1>6. Len(s) \in N
  <2>1. N \in SUBSET Nat BY <1>n
  <2> QED BY <1>0, <1>3, <1>5, <2>1, Induction
<1>7. Len(s) <= Len(s) BY <1>0
<1>8. Selected(TRUE, s, Len(s), out[Len(s)]) BY <1>6, <1>7, <1>n, Zenon
<1> QED BY <1>2, <1>8

LEMMA AllIsSelected ==
  ASSUME NEW s \in Seq(Line) PROVE Selected(FALSE, s, Len(s), s)
<1>1. Selects(FALSE, s, Len(s), s, [k \in 1 .. Len(s) |-> k]) BY LenProperties DEF Selects
<1> QED BY <1>1 DEF Selected

Differ(s) == \A i, j \in 1 .. Len(s) : s[i] = s[j] => i = j

Begins(b, s) == Len(b) <= Len(s) /\ \A i \in 1 .. Len(b) : b[i] = s[i]

\* PageShowsNewest of the lines b, when the file has l lines by now.
Shown(b, l, a, f) ==
  \A i \in 1 .. Len(b) :
    \/ ~(f => Passes(b[i]))
    \/ \E k \in 1 .. Len(a) : a[k] = b[i]
    \/ Len(a) = Limit /\ \A k \in 1 .. Len(a) : \A j \in 1 .. i : a[k] # b[j]
    \/ f /\ l - i >= Limit * ReadAhead

ReadLines(f) == IF f THEN Limit * ReadAhead ELSE Limit

\* What ReadPath answers when the file is c.
Answered(c, f) ==
  LET tail == LastLines(c, ReadLines(f))
  IN LastLines(IF f THEN Passing(tail) ELSE tail, Limit)

LEMMA AnswerShows ==
  ASSUME NEW c \in Seq(Line), Differ(c), NEW b \in Seq(Line), Begins(b, c), NEW f \in BOOLEAN
  PROVE  Answered(c, f) \in Seq(Line) /\ Shown(b, Len(c), Answered(c, f), f)
<1> DEFINE n == ReadLines(f)
           tail == LastLines(c, n)
           sel == IF f THEN Passing(tail) ELSE tail
           ans == LastLines(sel, Limit)
<1>0. /\ Len(b) \in Nat /\ Len(c) \in Nat /\ Limit \in Nat \ {0}
      /\ n \in Nat \ {0} /\ (f => n = Limit * ReadAhead) /\ (~f => n = Limit)
  <2>1. Limit \in Nat \ {0} /\ ReadAhead \in Nat \ {0} BY LoggerAssumption
  <2>2. Limit * ReadAhead \in Nat \ {0} BY <2>1
  <2> QED BY <2>1, <2>2, LenProperties DEF ReadLines
<1> HIDE DEF n
<1> DEFINE d == Before(Len(c), n)
<1>1. /\ d \in Nat /\ d = (IF Len(c) > n THEN Len(c) - n ELSE 0)
      /\ tail \in Seq(Line) /\ Len(tail) = Len(c) - d
      /\ \A k \in 1 .. Len(c) - d : tail[k] = c[d + k]
  BY <1>0, LastOnes, Zenon DEF Before
<1> HIDE DEF d
<1> HIDE DEF tail
<1>2. Selected(f, tail, Len(tail), sel) BY <1>1, PassingSelects, AllIsSelected
<1> HIDE DEF sel
<1>3. PICK pos : Selects(f, tail, Len(tail), sel, pos) BY <1>2 DEF Selected
<1>4. sel \in Seq(Line) /\ Len(sel) \in Nat BY <1>2, LenProperties DEF Selected
<1> DEFINE e == Before(Len(sel), Limit)
<1>5. /\ e \in Nat /\ e = (IF Len(sel) > Limit THEN Len(sel) - Limit ELSE 0)
      /\ ans \in Seq(Line) /\ Len(ans) = Len(sel) - e
      /\ \A k \in 1 .. Len(sel) - e : ans[k] = sel[e + k]
  BY <1>0, <1>4, LastOnes, Zenon DEF Before
<1> HIDE DEF e
<1> HIDE DEF ans
<1>6. ASSUME NEW k \in 1 .. Len(ans)
      PROVE  /\ e + k \in 1 .. Len(sel) /\ pos[e + k] \in 1 .. Len(c) - d
             /\ ans[k] = c[d + pos[e + k]] /\ d + pos[e + k] \in 1 .. Len(c)
  <2>1. e + k \in 1 .. Len(sel) /\ ans[k] = sel[e + k] BY <1>4, <1>5
  <2>2. pos[e + k] \in 1 .. Len(c) - d /\ sel[e + k] = tail[pos[e + k]]
    BY <1>1, <1>3, <2>1 DEF Selects
  <2>3. e + k \in Nat /\ pos[e + k] \in Nat BY <1>0, <2>1, <2>2
  <2>4. tail[pos[e + k]] = c[d + pos[e + k]] BY <1>1, <2>2
  <2>5. d + pos[e + k] \in 1 .. Len(c) BY <1>0, <1>1, <2>2
  <2> QED BY <2>1, <2>2, <2>4, <2>5
<1>7. ASSUME NEW i \in 1 .. Len(b), \A k \in 1 .. Len(ans) : d + pos[e + k] > i
      PROVE  \A k \in 1 .. Len(ans) : \A j \in 1 .. i : ans[k] # b[j]
  <2> SUFFICES ASSUME NEW k \in 1 .. Len(ans), NEW j \in 1 .. i PROVE ans[k] # b[j]
    OBVIOUS
  <2>1. j \in 1 .. Len(b) /\ j \in 1 .. Len(c) /\ b[j] = c[j] BY <1>0 DEF Begins
  <2>2. d + pos[e + k] # j /\ d + pos[e + k] \in 1 .. Len(c) /\ ans[k] = c[d + pos[e + k]]
    BY <1>6, <1>7
  <2> QED BY <2>1, <2>2 DEF Differ
<1>8. ASSUME NEW i \in 1 .. Len(b), f => Passes(b[i])
      PROVE  \/ \E k \in 1 .. Len(ans) : ans[k] = b[i]
             \/ Len(ans) = Limit /\ \A k \in 1 .. Len(ans) : \A j \in 1 .. i : ans[k] # b[j]
             \/ f /\ Len(c) - i >= Limit * ReadAhead
  <2>1. i \in 1 .. Len(c) /\ b[i] = c[i] BY <1>0 DEF Begins
  <2>2. CASE i <= d
    <3>1. d = Len(c) - n /\ Len(tail) = n BY <1>0, <1>1, <2>1, <2>2
    <3>2. CASE f BY <1>0, <2>1, <2>2, <3>1, <3>2
    <3>3. CASE ~f
      <4>1. sel = tail BY <3>3 DEF sel
      <4>2. Len(ans) = Limit BY <1>0, <1>5, <3>1, <3>3, <4>1
      <4>3. \A k \in 1 .. Len(ans) : d + pos[e + k] > i
        <5> SUFFICES ASSUME NEW k \in 1 .. Len(ans) PROVE d + pos[e + k] > i OBVIOUS
        <5>1. pos[e + k] \in 1 .. Len(c) - d BY <1>6
        <5> QED BY <1>0, <1>1, <2>2, <5>1
      <4> QED BY <1>7, <4>2, <4>3
    <3> QED BY <3>2, <3>3
  <2>3. CASE i > d
    <3>1. i - d \in 1 .. Len(tail) /\ d + (i - d) = i BY <1>0, <1>1, <2>1, <2>3
    <3>2. tail[i - d] = b[i] BY <1>1, <2>1, <3>1
    <3>3. PICK k \in 1 .. Len(sel) : pos[k] = i - d BY <1>3, <1>8, <3>1, <3>2 DEF Selects
    <3>4. sel[k] = b[i] BY <1>3, <3>2, <3>3 DEF Selects
    <3>5. CASE k > e
      <4>1. k - e \in 1 .. Len(ans) /\ e + (k - e) = k /\ k - e \in 1 .. Len(sel) - e
        BY <1>4, <1>5, <3>5
      <4> QED BY <1>5, <3>4, <4>1
    <3>6. CASE k <= e
      <4>1. Len(ans) = Limit BY <1>0, <1>4, <1>5, <3>6
      <4>2. \A m \in 1 .. Len(ans) : d + pos[e + m] > i
        <5> SUFFICES ASSUME NEW m \in 1 .. Len(ans) PROVE d + pos[e + m] > i OBVIOUS
        <5>1. e + m \in 1 .. Len(sel) /\ pos[e + m] \in 1 .. Len(c) - d BY <1>6
        <5>2. k < e + m BY <1>4, <1>5, <3>6
        <5>3. pos[k] < pos[e + m] BY <1>3, <5>1, <5>2 DEF Selects
        <5> QED BY <1>0, <1>1, <3>3, <5>1, <5>3
      <4> QED BY <1>7, <4>1, <4>2
    <3>7. k > e \/ k <= e
      <4>1. k \in Int /\ e \in Int BY <1>5
      <4> QED BY <4>1
    <3> QED BY <3>5, <3>6, <3>7
  <2> QED BY <1>0, <1>1, <2>1, <2>2, <2>3
<1>9. Answered(c, f) = ans BY DEF Answered, ans, sel, tail, n
<1>10. Shown(b, Len(c), ans, f) BY <1>8 DEF Shown
<1> QED BY <1>5, <1>9, <1>10

-----------------------------------------------------------------------------
(***************************************************************************)
(* The log page while files are written, rotated and removed.              *)
(***************************************************************************)
\* A line that is on its way was stamped in this tick or the one before.
Timely == \A w \in Writers : pc[w] # "idle" => now - 1 <= stamp[w] /\ stamp[w] <= now

\* No two lines of a file are the same: a writer's next line has a higher number.
Numbered ==
  \A d \in Days :
    /\ Differ(content[d])
    /\ \A i \in 1 .. Len(content[d]) :
         /\ content[d][i].n <= lines
         /\ pc[content[d][i].by] # "idle" => content[d][i].n < lines

\* A file that was removed is not made again: the writers' lines are later.
Gone(d, t) == (d + 1) * DayLength < t

Asked ==
  request # "idle" =>
    /\ up /\ path \in Days /\ before \in Seq(Line)
    /\ IF path \in exists THEN Begins(before, content[path]) ELSE Gone(path, now)

Answering ==
  /\ filtered \in BOOLEAN /\ answer \in Seq(Line)
  /\ request = "read" /\ path \in exists =>
       Shown(before, Len(content[path]), answer, filtered)

PageInv == Timely /\ Numbered /\ Asked /\ Answering

LEMMA InitPageInv == Init => PageInv
<1> SUFFICES ASSUME Init PROVE PageInv OBVIOUS
<1>1. \A d \in Days : content[d] = <<>> /\ Len(content[d]) = 0 BY EmptySeq DEF Init
<1>2. Numbered BY <1>1 DEF Numbered, Differ
<1>3. Timely BY DEF Init, Timely
<1>4. Asked BY DEF Init, Asked
<1>5. Answering BY EmptySeq DEF Init, Answering
<1> QED BY <1>2, <1>3, <1>4, <1>5 DEF PageInv

LEMMA TimelyKept == IInv /\ Timely /\ [Next]_vars => Timely'
<1> SUFFICES ASSUME IInv, Timely, [Next]_vars PROVE Timely' OBVIOUS
<1>0. now \in Int /\ \A w \in Writers : stamp[w] \in Int
  BY LoggerAssumption DEF IInv, Types
<1> USE DEF Timely
<1>u. ASSUME UNCHANGED <<now, stamp>>,
             \A w \in Writers : pc'[w] # "idle" => pc[w] # "idle"
      PROVE  Timely'
  BY <1>u
<1>1. CASE Tick
  <2>1. now' = now + 1 /\ UNCHANGED <<pc, stamp>> BY <1>1 DEF Tick
  <2> SUFFICES ASSUME NEW w \in Writers, pc[w] # "idle"
               PROVE  now' - 1 <= stamp[w] /\ stamp[w] <= now'
    BY <2>1
  <2>2. stamp[w] = now BY <1>1 DEF Tick
  <2> QED BY <1>0, <2>1, <2>2
<1>2. CASE Start BY <1>2, <1>u DEF Start
<1>3. CASE Exit BY <1>3 DEF Exit
<1>4. ASSUME NEW w \in Writers, Stamp(w) PROVE Timely'
  <2>1. /\ now' = now /\ stamp' = [stamp EXCEPT ![w] = now]
        /\ pc' = [pc EXCEPT ![w] = "stamped"]
    BY <1>4 DEF Stamp, Goto
  <2> QED BY <1>0, <2>1 DEF IInv, Types
<1>5. ASSUME NEW w \in Writers,
             Lock(w) \/ Rotate(w) \/ Relink(w) \/ CleanOld(w)
      PROVE  Timely'
  <2>1. UNCHANGED <<now, stamp>> /\ pc[w] # "idle"
    BY <1>5 DEF Lock, Rotate, Relink, CleanOld
  <2>2. \A v \in Writers : v # w => pc'[v] = pc[v]
    BY <1>5 DEF Lock, Rotate, Relink, CleanOld, Goto, IInv, Types
  <2> QED BY <1>u, <2>1, <2>2
<1>6. ASSUME NEW w \in Writers, WriteLine(w) PROVE Timely'
  <2>1. /\ now' = now /\ stamp' = [stamp EXCEPT ![w] = 0]
        /\ pc' = [pc EXCEPT ![w] = "idle"]
    BY <1>6 DEF WriteLine, Goto
  <2> QED BY <1>0, <2>1 DEF IInv, Types
<1>7. CASE AskPath \/ ReadPath \/ Answer \/ UNCHANGED vars
  BY <1>7, <1>u DEF AskPath, ReadPath, Answer, vars
<1> QED BY <1>1, <1>2, <1>3, <1>4, <1>5, <1>6, <1>7 DEF Next, Output

LEMMA LinesTyped == \A s \in Seq(Line) : \A i \in 1 .. Len(s) : s[i].by \in Writers /\ s[i].n \in Int
<1> SUFFICES ASSUME NEW s \in Seq(Line), NEW i \in 1 .. Len(s)
             PROVE  s[i].by \in Writers /\ s[i].n \in Int
  OBVIOUS
<1>1. s[i] \in Line BY ElementOfSeq
<1>2. s[i].by \in Writers /\ s[i].n \in 1 .. MaxLines BY <1>1 DEF Line
<1>3. MaxLines \in Nat BY LoggerAssumption
<1> QED BY <1>2, <1>3

LEMMA NumberedKept == IInv /\ Numbered /\ [Next]_vars => Numbered'
<1> SUFFICES ASSUME IInv, Numbered, [Next]_vars PROVE Numbered' OBVIOUS
<1>0. /\ content \in [Days -> Seq(Line)] /\ lines \in Int /\ lines' \in Int
      /\ pc \in [Writers -> {"idle", "stamped"} \cup Holding]
  <2>1. Types /\ Types' BY TypesKept DEF IInv
  <2>2. lines \in 0 .. MaxLines /\ lines' \in 0 .. MaxLines BY <2>1 DEF Types
  <2>3. MaxLines \in Nat BY LoggerAssumption
  <2>4. /\ content \in [Days -> Seq(Line)]
        /\ pc \in [Writers -> {"idle", "stamped"} \cup Holding]
    BY <2>1 DEF Types
  <2> QED BY <2>2, <2>3, <2>4
<1>t. \A d \in Days : \A i \in 1 .. Len(content[d]) :
        content[d][i].by \in Writers /\ content[d][i].n \in Int
  BY <1>0, LinesTyped
<1>u. ASSUME \A d \in Days : content'[d] = content[d] \/ content'[d] = <<>>,
             lines' = lines,
             \A w \in Writers : pc'[w] # "idle" => pc[w] # "idle"
      PROVE  Numbered'
  <2> SUFFICES ASSUME NEW d \in Days
               PROVE  /\ Differ(content'[d])
                      /\ \A i \in 1 .. Len(content'[d]) :
                           /\ content'[d][i].n <= lines
                           /\ pc'[content'[d][i].by] # "idle" => content'[d][i].n < lines
    BY <1>u DEF Numbered, Differ
  <2>1. CASE content'[d] = content[d]
    BY <1>t, <1>u, <2>1 DEF Numbered
  <2>2. CASE content'[d] = <<>>
    <3>1. Len(content'[d]) = 0 BY <2>2, EmptySeq
    <3> QED BY <3>1 DEF Differ
  <2> QED BY <1>u, <2>1, <2>2
<1>1. CASE Tick \/ Start \/ Exit
  <2>1. lines' = lines BY <1>1 DEF Tick, Start, Exit
  <2>2. \A d \in Days : content'[d] = content[d] \/ content'[d] = <<>>
    BY <1>1 DEF Tick, Start, Exit
  <2>3. \A w \in Writers : pc'[w] # "idle" => pc[w] # "idle"
    BY <1>1 DEF Tick, Start, Exit
  <2> QED BY <1>u, <2>1, <2>2, <2>3
<1>2. ASSUME NEW w \in Writers, Stamp(w) PROVE Numbered'
  <2>1. content' = content /\ lines' = lines + 1 BY <1>2 DEF Stamp
  <2> SUFFICES ASSUME NEW d \in Days
               PROVE  /\ Differ(content[d])
                      /\ \A i \in 1 .. Len(content[d]) :
                           /\ content[d][i].n <= lines + 1
                           /\ content[d][i].n < lines + 1
    BY <2>1 DEF Numbered, Differ
  <2> QED BY <1>0, <1>t DEF Numbered
<1>3. ASSUME NEW w \in Writers,
             Lock(w) \/ Rotate(w) \/ Relink(w) \/ CleanOld(w)
      PROVE  Numbered'
  <2>1. lines' = lines BY <1>3 DEF Lock, Rotate, Relink, CleanOld
  <2>2. \A d \in Days : content'[d] = content[d] \/ content'[d] = <<>>
    BY <1>3 DEF Lock, Rotate, Relink, CleanOld, OpenFile, OpenFails, Cleanup
  <2>3. \A v \in Writers : pc'[v] # "idle" => pc[v] # "idle"
    BY <1>0, <1>3 DEF Lock, Rotate, Relink, CleanOld, Goto
  <2> QED BY <1>u, <2>1, <2>2, <2>3
<1>4. ASSUME NEW w \in Writers, WriteLine(w) PROVE Numbered'
  <2> DEFINE new == [by |-> w, at |-> stamp[w], n |-> lines]
  <2>1. lines' = lines /\ pc[w] = "write" BY <1>4 DEF WriteLine
  <2>2. \A v \in Writers : pc'[v] # "idle" => pc[v] # "idle" /\ v # w
    BY <1>0, <1>4 DEF WriteLine, Goto
  <2>3. content' = content \/ content' = [content EXCEPT ![file] = Append(@, new)]
    BY <1>4 DEF WriteLine
  <2>4. CASE content' = content BY <1>u, <2>1, <2>2, <2>4
  <2>5. CASE content' = [content EXCEPT ![file] = Append(@, new)]
    <3>1. new \in Line /\ new.by = w /\ new.n = lines
      <4>1. w \in Writers /\ stamp[w] \in 0 .. MaxTime /\ lines \in 1 .. MaxLines
        BY <1>4 DEF WriteLine, IInv, Types, Locking
      <4> QED BY <4>1 DEF Line
    <3> HIDE DEF new
    <3> SUFFICES ASSUME NEW d \in Days
                 PROVE  /\ Differ(content'[d])
                        /\ \A i \in 1 .. Len(content'[d]) :
                             /\ content'[d][i].n <= lines
                             /\ pc'[content'[d][i].by] # "idle" => content'[d][i].n < lines
      BY <2>1 DEF Numbered, Differ
    <3>2. CASE d # file
      <4>1. content'[d] = content[d] BY <1>0, <2>5, <3>2
      <4> QED BY <1>t, <2>2, <4>1 DEF Numbered
    <3>3. CASE d = file
      <4> DEFINE c == content[d]
      <4>1. content'[d] = Append(c, new) BY <1>0, <2>5, <3>3
      <4>2. c \in Seq(Line) /\ Len(c) \in Nat BY <1>0, LenProperties
      <4>3. /\ Len(content'[d]) = Len(c) + 1 /\ content'[d][Len(c) + 1] = new
            /\ \A i \in 1 .. Len(c) : content'[d][i] = c[i]
        BY <3>1, <4>1, <4>2, AppendProperties
      <4>4. \A i \in 1 .. Len(c) :
              /\ c[i].n <= lines /\ c[i].by \in Writers /\ c[i].n \in Int
              /\ pc[c[i].by] # "idle" => c[i].n < lines
        BY <1>t DEF Numbered
      <4>5. Differ(c) BY DEF Numbered
      <4> HIDE DEF c
      <4>6. \A i \in 1 .. Len(c) : c[i] # new
        <5> SUFFICES ASSUME NEW i \in 1 .. Len(c), c[i] = new PROVE FALSE OBVIOUS
        <5>1. c[i].by = w /\ c[i].n = lines BY <3>1
        <5> QED BY <1>0, <2>1, <4>4, <5>1
      <4>7. \A i \in 1 .. Len(c) + 1 : i \in 1 .. Len(c) \/ i = Len(c) + 1 BY <4>2
      <4>8. Differ(content'[d])
        <5> SUFFICES ASSUME NEW i \in 1 .. Len(c) + 1, NEW j \in 1 .. Len(c) + 1,
                            content'[d][i] = content'[d][j]
                     PROVE  i = j
          BY <4>3 DEF Differ
        <5> QED BY <4>3, <4>5, <4>6, <4>7 DEF Differ
      <4>9. ASSUME NEW i \in 1 .. Len(c) + 1
            PROVE  /\ content'[d][i].n <= lines
                   /\ pc'[content'[d][i].by] # "idle" => content'[d][i].n < lines
        <5>1. CASE i = Len(c) + 1 BY <1>0, <2>2, <3>1, <4>3, <5>1
        <5>2. CASE i \in 1 .. Len(c) BY <2>2, <4>3, <4>4, <5>2
        <5> QED BY <4>7, <5>1, <5>2
      <4> QED BY <4>3, <4>8, <4>9
    <3> QED BY <3>2, <3>3
  <2> QED BY <2>3, <2>4, <2>5
<1>5. CASE AskPath \/ ReadPath \/ Answer \/ UNCHANGED vars
  <2>1. UNCHANGED <<content, lines, pc>> BY <1>5 DEF AskPath, ReadPath, Answer, vars
  <2> QED BY <1>u, <2>1
<1> QED BY <1>1, <1>2, <1>3, <1>4, <1>5 DEF Next, Output

\* What a rotation removes is older than any line on its way, unless one day is
\* kept.
LEMMA RemovedIsGone ==
  ASSUME MaxAgeDays # 1, zone \in Zones, NEW t \in 0 .. MaxTime, NEW d \in Days, Expired(d, t)
  PROVE  Gone(d, t)
<1>1. /\ DayLength \in Nat \ {0} /\ MaxAgeDays \in Nat /\ d \in Nat /\ t \in Nat
      /\ zone \in Int /\ -DayLength < zone
  BY LoggerAssumption DEF Zones, Days
<1>2. MaxAgeDays > 0 /\ d * DayLength + zone <= t - MaxAgeDays * DayLength BY DEF Expired
<1>3. PICK k \in Nat : MaxAgeDays = k + 2
  <2>1. MaxAgeDays - 2 \in Nat /\ MaxAgeDays = (MaxAgeDays - 2) + 2 BY <1>1, <1>2
  <2> QED BY <2>1
<1>4. MaxAgeDays * DayLength = k * DayLength + 2 * DayLength BY <1>1, <1>3
<1>5. k * DayLength >= 0 /\ k * DayLength \in Int BY <1>1
<1>6. (d + 1) * DayLength = d * DayLength + DayLength /\ d * DayLength \in Int BY <1>1
<1> QED BY <1>1, <1>2, <1>4, <1>5, <1>6 DEF Gone

LEMMA GoneStays ==
  ASSUME NEW d \in Int, NEW t \in Int, NEW u \in Int, t <= u, Gone(d, t) PROVE Gone(d, u)
BY LoggerAssumption DEF Gone

\* A line on its way does not belong to a file that was removed.
LEMMA GoneIsNotMadeAgain ==
  ASSUME NEW d \in Days, NEW t \in 0 .. MaxTime, NEW u \in Int, u - 1 <= t, Gone(d, u)
  PROVE  Day(t) # d
<1>1. DayLength \in Nat \ {0} /\ d \in Nat /\ t \in Nat BY LoggerAssumption DEF Days
<1>2. t < (Day(t) + 1) * DayLength BY <1>1, Dates
<1>3. (d + 1) * DayLength < u /\ (d + 1) * DayLength \in Int BY <1>1 DEF Gone
<1>4. ASSUME Day(t) = d PROVE FALSE BY <1>1, <1>2, <1>3, <1>4
<1> QED BY <1>4

LEMMA BeginsItself == \A s \in Seq(Line) : Begins(s, s)
BY LenProperties DEF Begins

LEMMA BeginsLonger ==
  ASSUME NEW b \in Seq(Line), NEW s \in Seq(Line), NEW x \in Line, Begins(b, s)
  PROVE  Begins(b, Append(s, x)) /\ Len(s) <= Len(Append(s, x))
<1>1. Len(b) \in Nat /\ Len(s) \in Nat BY LenProperties
<1>2. Len(Append(s, x)) = Len(s) + 1 /\ \A i \in 1 .. Len(s) : Append(s, x)[i] = s[i]
  BY AppendProperties
<1>3. \A i \in 1 .. Len(b) : i \in 1 .. Len(s) BY <1>1 DEF Begins
<1> QED BY <1>1, <1>2, <1>3 DEF Begins

\* More lines in the file only make PageShowsNewest ask for less.
LEMMA ShownLonger ==
  ASSUME NEW b \in Seq(Line), NEW l \in Nat, NEW m \in Nat, l <= m, NEW a,
         NEW f \in BOOLEAN, Shown(b, l, a, f)
  PROVE  Shown(b, m, a, f)
<1> SUFFICES ASSUME NEW i \in 1 .. Len(b)
             PROVE  \/ ~(f => Passes(b[i]))
                    \/ \E k \in 1 .. Len(a) : a[k] = b[i]
                    \/ Len(a) = Limit /\ \A k \in 1 .. Len(a) : \A j \in 1 .. i : a[k] # b[j]
                    \/ f /\ m - i >= Limit * ReadAhead
  BY DEF Shown
<1>1. i \in Int /\ Limit * ReadAhead \in Int BY LenProperties, LoggerAssumption
<1>2. l - i >= Limit * ReadAhead => m - i >= Limit * ReadAhead BY <1>1
<1> QED BY <1>2 DEF Shown

\* What the writers do to the file that is being shown.
LEMMA FileOfPage ==
  ASSUME IInv, PageInv, MaxAgeDays # 1, NEW w \in Writers, Output(w), request # "idle"
  PROVE  /\ UNCHANGED <<up, now, request, path, before, answer, filtered>>
         /\ path \in exists' => path \in exists
         /\ path \in exists' =>
              \/ content'[path] = content[path]
              \/ \E x \in Line : content'[path] = Append(content[path], x)
         /\ path \notin exists' => Gone(path, now)
<1>0. /\ path \in Days /\ zone \in Zones /\ stamp[w] \in 0 .. MaxTime /\ now \in Int
      /\ stamp[w] \in Int /\ content \in [Days -> Seq(Line)]
  BY LoggerAssumption DEF IInv, Types, PageInv, Asked
<1>1. UNCHANGED <<up, now, request, path, before, answer, filtered>>
  BY DEF Output, Stamp, Lock, Rotate, Relink, CleanOld, WriteLine
<1>2. path \notin exists => Gone(path, now) BY DEF PageInv, Asked
<1>3. pc[w] # "idle" => now - 1 <= stamp[w] /\ stamp[w] <= now BY DEF PageInv, Timely
<1>4. CASE Stamp(w) \/ Lock(w) \/ Relink(w)
  BY <1>1, <1>2, <1>4 DEF Stamp, Lock, Relink
<1>5. CASE Rotate(w)
  <2>1. path \notin exists => Day(stamp[w]) # path
    BY <1>0, <1>2, <1>3, <1>5, GoneIsNotMadeAgain DEF Rotate
  <2>2. /\ content' = content
        /\ exists' = exists \/ exists' = exists \cup {Day(stamp[w])}
    BY <1>5 DEF Rotate, OpenFile, OpenFails, RotateFor
  <2> QED BY <1>1, <1>2, <2>1, <2>2
<1>6. CASE CleanOld(w)
  <2>1. CASE Expired(path, stamp[w])
    <3>1. path \notin exists' BY <1>6, <2>1 DEF CleanOld, Cleanup, RotateFor
    <3>2. Gone(path, stamp[w]) BY <1>0, <2>1, RemovedIsGone
    <3>3. stamp[w] <= now BY <1>3, <1>6 DEF CleanOld
    <3>4. path \in Int BY <1>0 DEF Days
    <3>5. Gone(path, now) BY <1>0, <3>2, <3>3, <3>4, GoneStays
    <3> QED BY <1>1, <3>1, <3>5
  <2>2. CASE ~Expired(path, stamp[w])
    <3>1. content'[path] = content[path] /\ (path \in exists' <=> path \in exists)
      BY <1>0, <1>6, <2>2 DEF CleanOld, Cleanup, RotateFor
    <3> QED BY <1>1, <1>2, <3>1
  <2> QED BY <2>1, <2>2
<1>7. CASE WriteLine(w)
  <2> DEFINE new == [by |-> w, at |-> stamp[w], n |-> lines]
  <2>1. new \in Line
    <3>1. w \in Writers /\ stamp[w] \in 0 .. MaxTime /\ lines \in 1 .. MaxLines
      BY <1>7 DEF WriteLine, IInv, Types, Locking
    <3> QED BY <3>1 DEF Line
  <2>2. /\ exists' = exists
        /\ content' = content \/ content' = [content EXCEPT ![file] = Append(@, new)]
    BY <1>7 DEF WriteLine
  <2> HIDE DEF new
  <2>3. content'[path] = content[path] \/ content'[path] = Append(content[path], new)
    BY <1>0, <2>2
  <2> QED BY <1>1, <1>2, <2>1, <2>2, <2>3
<1> QED BY <1>4, <1>5, <1>6, <1>7 DEF Output

LEMMA PageKept ==
  ASSUME MaxAgeDays # 1
  PROVE  IInv /\ There /\ PageInv /\ [Next]_vars => PageInv'
<1> SUFFICES ASSUME IInv, There, PageInv, [Next]_vars PROVE PageInv'
  OBVIOUS
<1>0. /\ content \in [Days -> Seq(Line)] /\ now \in Int /\ curDate \in Days \cup {None}
      /\ Timely /\ Numbered /\ Asked /\ Answering
  BY LoggerAssumption DEF IInv, Types, PageInv
<1>1. Timely' BY <1>0, TimelyKept
<1>2. Numbered' BY <1>0, NumberedKept
<1>i. ASSUME request' = "idle", filtered' \in BOOLEAN, answer' \in Seq(Line) PROVE Asked' /\ Answering'
  BY <1>i DEF Asked, Answering
<1>u. ASSUME UNCHANGED <<up, exists, content, request, path, before, answer, filtered>>,
             now' = now
      PROVE  Asked' /\ Answering'
  BY <1>0, <1>u DEF Asked, Answering, Gone
<1>3. CASE Tick
  <2>1. /\ UNCHANGED <<up, exists, content, request, path, before, answer, filtered>>
        /\ now' = now + 1
    BY <1>3 DEF Tick
  <2>2. Answering' BY <1>0, <2>1 DEF Answering
  <2>3. path \in Days /\ Gone(path, now) => Gone(path, now + 1)
    BY <1>0, GoneStays DEF Days
  <2>4. Asked' BY <1>0, <2>1, <2>3 DEF Asked, Gone
  <2> QED BY <1>1, <1>2, <2>2, <2>4 DEF PageInv
<1>4. CASE Start
  <2>1. UNCHANGED <<request, filtered, answer>> /\ ~up BY <1>4 DEF Start
  <2>2. request' = "idle" /\ filtered' \in BOOLEAN /\ answer' \in Seq(Line)
    BY <1>0, <2>1 DEF Asked, Answering
  <2> QED BY <1>1, <1>2, <1>i, <2>2 DEF PageInv
<1>5. CASE Exit \/ Answer
  <2>1. request' = "idle" /\ filtered' \in BOOLEAN /\ answer' \in Seq(Line)
    BY <1>5, EmptySeq DEF Exit, Answer, PageIdle
  <2> QED BY <1>1, <1>2, <1>i, <2>1 DEF PageInv
<1>6. ASSUME NEW w \in Writers, Output(w) PROVE PageInv'
  <2>1. CASE request = "idle"
    <3>1. UNCHANGED <<request, filtered, answer>>
      BY <1>6 DEF Output, Stamp, Lock, Rotate, Relink, CleanOld, WriteLine
    <3>2. request' = "idle" /\ filtered' \in BOOLEAN /\ answer' \in Seq(Line)
      BY <1>0, <2>1, <3>1 DEF Answering
    <3> QED BY <1>1, <1>2, <1>i, <3>2 DEF PageInv
  <2>2. CASE request # "idle"
    <3>1. /\ UNCHANGED <<up, now, request, path, before, answer, filtered>>
          /\ path \in exists' => path \in exists
          /\ path \in exists' =>
               \/ content'[path] = content[path]
               \/ \E x \in Line : content'[path] = Append(content[path], x)
          /\ path \notin exists' => Gone(path, now)
      BY <1>6, <2>2, FileOfPage
    <3>2. /\ up /\ path \in Days /\ before \in Seq(Line) /\ filtered \in BOOLEAN
          /\ path \in exists => Begins(before, content[path])
          /\ content[path] \in Seq(Line) /\ Len(content[path]) \in Nat
      BY <1>0, <2>2, LenProperties DEF Asked, Answering
    <3>3. ASSUME path \in exists'
          PROVE  /\ Begins(before, content'[path])
                 /\ Len(content'[path]) \in Nat /\ Len(content[path]) <= Len(content'[path])
      <4>1. CASE content'[path] = content[path] BY <3>1, <3>2, <3>3, <4>1
      <4>2. CASE \E x \in Line : content'[path] = Append(content[path], x)
        <5>1. PICK x \in Line : content'[path] = Append(content[path], x) BY <4>2
        <5>2. Append(content[path], x) \in Seq(Line) BY <3>2, AppendProperties
        <5> QED BY <3>1, <3>2, <3>3, <5>1, <5>2, BeginsLonger, LenProperties
      <4> QED BY <3>1, <3>3, <4>1, <4>2
    <3>4. Asked' BY <3>1, <3>2, <3>3 DEF Asked, Gone
    <3>5. ASSUME request = "read", path \in exists'
          PROVE  Shown(before, Len(content'[path]), answer, filtered)
      <4>1. Shown(before, Len(content[path]), answer, filtered)
        BY <1>0, <3>1, <3>5 DEF Answering
      <4> QED BY <3>2, <3>3, <3>5, <4>1, ShownLonger
    <3>6. Answering' BY <1>0, <3>1, <3>2, <3>5 DEF Answering
    <3> QED BY <1>1, <1>2, <3>4, <3>6 DEF PageInv
  <2> QED BY <2>1, <2>2
<1>7. CASE AskPath
  <2>1. /\ up /\ UNCHANGED <<up, exists, content, now>>
        /\ request' = "named" /\ path' = curDate /\ before' = content[curDate]
        /\ filtered' \in BOOLEAN /\ answer' = answer
    BY <1>7 DEF AskPath
  <2>2. curDate \in exists /\ curDate \in Days BY <2>1 DEF There, IInv, Locking
  <2>3. content[curDate] \in Seq(Line) /\ Begins(content[curDate], content[curDate])
    BY <1>0, <2>2, BeginsItself
  <2>4. Asked' BY <2>1, <2>2, <2>3 DEF Asked
  <2>5. Answering' BY <1>0, <2>1 DEF Answering
  <2> QED BY <1>1, <1>2, <2>4, <2>5 DEF PageInv
<1>8. CASE ReadPath
  <2>1. /\ UNCHANGED <<up, exists, content, now, path, before, filtered>>
        /\ request = "named" /\ request' = "read"
        /\ answer' = Answered(content[path], filtered)
    BY <1>8 DEF ReadPath, Answered, ReadLines
  <2>2. /\ path \in Days /\ before \in Seq(Line) /\ filtered \in BOOLEAN
        /\ path \in exists => Begins(before, content[path])
    BY <1>0, <2>1 DEF Asked, Answering
  <2>3. content[path] \in Seq(Line) /\ Differ(content[path]) BY <1>0, <2>2 DEF Numbered
  <2>4. path \in exists =>
          Shown(before, Len(content[path]), Answered(content[path], filtered), filtered)
    BY <2>2, <2>3, AnswerShows
  <2>5. answer' \in Seq(Line) BY <2>1, <2>2, <2>3, AnswerShows, BeginsItself
  <2>6. Asked' BY <1>0, <2>1 DEF Asked, Gone
  <2>7. Answering' BY <2>1, <2>2, <2>4, <2>5 DEF Answering
  <2> QED BY <1>1, <1>2, <2>6, <2>7 DEF PageInv
<1>9. CASE UNCHANGED vars BY <1>1, <1>2, <1>9, <1>u DEF vars, PageInv
<1> QED BY <1>3, <1>4, <1>5, <1>6, <1>7, <1>8, <1>9 DEF Next

\* With a retention other than one day: whatever is written, rotated and removed
\* while the page is being answered, it shows the newest lines that were in the
\* file when the request came, as far as its limits allow (logger.go Tail, api.go
\* handleLogs).
THEOREM NewestShown ==
  ASSUME MaxAgeDays # 1
  PROVE  Spec => []PageShowsNewest
<1>1. Init => There BY DEF Init, There
<1>2. IInv /\ There /\ [Next]_vars => There' BY ThereKept
<1>3. PageInv /\ IInv => PageShowsNewest
  <2> SUFFICES ASSUME PageInv, request = "read", path \in exists,
                      NEW i \in DOMAIN before
               PROVE  \/ ~Wanted(before[i])
                      \/ \E k \in DOMAIN answer : answer[k] = before[i]
                      \/ Len(answer) = Limit
                           /\ \A k \in DOMAIN answer : \A j \in 1 .. i : answer[k] # before[j]
                      \/ filtered /\ Len(content[path]) - i >= Limit * ReadAhead
    BY DEF PageShowsNewest
  <2>1. Shown(before, Len(content[path]), answer, filtered) /\ before \in Seq(Line)
        /\ answer \in Seq(Line)
    BY DEF PageInv, Asked, Answering
  <2>2. i \in 1 .. Len(before) /\ DOMAIN answer = 1 .. Len(answer) BY <2>1, LenProperties
  <2> QED BY <2>1, <2>2 DEF Shown, Wanted
<1> QED BY <1>1, <1>2, <1>3, InitPageInv, PageKept, AlwaysIInv, PTL DEF Spec
=============================================================================
