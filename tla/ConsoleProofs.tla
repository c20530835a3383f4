--------------------------- MODULE ConsoleProofs ---------------------------
(***************************************************************************)
(* Proofs about Console, for any number of requests and of logins: its     *)
(* types, the one interval of a page that shows the app, and that an ended *)
(* session is refused.                                                     *)
(***************************************************************************)
EXTENDS Console, TLAPS

\* Nobody holds a token before it is given out, and none ends before that.
TokensAreIssued ==
  /\ cookie <= issued
  /\ \A i \in Requests : req[i].token <= issued
  /\ \A t \in Tokens : sessions[t] # "none" => t <= issued
  /\ \A t \in ended : t <= issued

\* A session the middleware accepts has not ended.
LiveHaveNotEnded == \A t \in Tokens : sessions[t] = "live" => t \notin ended

IInv == TypeOK /\ AppIsPolled /\ TokensAreIssued /\ LiveHaveNotEnded

-----------------------------------------------------------------------------
\* A token is a number.
LEMMA TokenIsNat == \A t \in Tokens \cup {NoToken} : t \in Nat /\ t <= MaxLogins
  BY ConsoleAssumption DEF Tokens, NoToken

\* A free slot names no session.
LEMMA FreeSlot == NoRequest \in RequestType /\ NoRequest.token = 0
  BY DEF NoRequest, RequestType, Kinds, NoToken

LEMMA InitHolds == Init => IInv
<1> SUFFICES ASSUME Init PROVE IInv OBVIOUS
<1>1. TypeOK
  <2>1. req \in [Requests -> RequestType] BY FreeSlot DEF Init
  <2>2. up \in BOOLEAN /\ pollTimer \in BOOLEAN BY DEF Init
  <2>3. issued \in 0 .. MaxLogins /\ intervals \in 0 .. 2
    BY ConsoleAssumption DEF Init
  <2>4. sessions \in [Tokens -> {"none", "live", "expired"}] BY DEF Init
  <2>5. /\ cookie \in Tokens \cup {NoToken} /\ ended \subseteq Tokens
        /\ view \in {"none", "login", "app"}
    BY DEF Init
  <2> QED BY <2>1, <2>2, <2>3, <2>4, <2>5 DEF TypeOK
<1>2. AppIsPolled BY DEF Init, AppIsPolled
<1>3. TokensAreIssued
  BY DEF Init, TokensAreIssued, NoRequest, NoToken
<1>4. LiveHaveNotEnded BY DEF Init, LiveHaveNotEnded
<1> QED BY <1>1, <1>2, <1>3, <1>4 DEF IInv

-----------------------------------------------------------------------------
(***************************************************************************)
(* The steps that only send, lose or end a request.                        *)
(***************************************************************************)
\* A request that is sent goes with the cookie.
LEMMA SendKeeps ==
  ASSUME IInv, NEW i \in Requests, NEW kind \in Kinds, Send(i, kind)
  PROVE  /\ req' \in [Requests -> RequestType]
         /\ \A j \in Requests : req'[j].token <= issued
<1> USE DEF IInv, TypeOK
<1>1. Sent(kind, cookie) \in RequestType BY DEF Sent, RequestType
<1>2. Sent(kind, cookie).token = cookie BY DEF Sent
<1> QED BY <1>1, <1>2 DEF Send, TokensAreIssued

LEMMA FinishedKeeps ==
  ASSUME IInv, NEW i \in Requests, Finished(i)
  PROVE  /\ req' \in [Requests -> RequestType]
         /\ \A j \in Requests : req'[j].token <= issued
  BY FreeSlot, ConsoleAssumption DEF Finished, IInv, TypeOK, TokensAreIssued

\* What a request becomes carries a token that was given out.
LEMMA ReplyKeeps ==
  ASSUME req \in [Requests -> RequestType], \A j \in Requests : req[j].token <= issued,
         issued \in Nat, issued' \in Nat, issued <= issued',
         NEW i \in Requests, NEW t \in Tokens \cup {NoToken}, NEW ok \in BOOLEAN,
         NEW state \in {"passed", "served"}, Becomes(i, state, t, ok), t <= issued'
  PROVE  /\ req' \in [Requests -> RequestType]
         /\ \A j \in Requests : req'[j].token <= issued'
<1> DEFINE answer == [req[i] EXCEPT !.state = state, !.token = t, !.ok = ok]
<1>1. answer \in RequestType /\ answer.token = t BY DEF RequestType
<1>2. req' = [req EXCEPT ![i] = IF req[i].state = "aborted" THEN NoRequest ELSE answer]
  BY DEF Becomes
<1>3. \A j \in Requests : req[j].token \in Nat
  BY TokenIsNat DEF RequestType
<1> HIDE DEF answer
<1> QED BY <1>1, <1>2, <1>3, FreeSlot

\* Starting to poll keeps one interval, the one of pollTimer.
LEMMA ShowAppKeeps ==
  ASSUME IInv, NEW i \in Requests, ShowApp(i), cookie' \in Tokens \cup {NoToken},
         cookie' <= issued
  PROVE  /\ view' \in {"none", "login", "app"} /\ pollTimer' \in BOOLEAN
         /\ intervals' \in 0 .. 2 /\ req' \in [Requests -> RequestType]
         /\ AppIsPolled'
         /\ \A j \in Requests : req'[j].token <= issued
<1> USE DEF IInv, TypeOK
<1>1. Sent("poll", cookie') \in RequestType /\ Sent("poll", cookie').token = cookie'
  BY DEF Sent, RequestType, Kinds
<1>2. /\ req' \in [Requests -> RequestType]
      /\ \A j \in Requests : req'[j].token <= issued
  BY <1>1, FreeSlot, ConsoleAssumption DEF ShowApp, StartPolling, TokensAreIssued
<1>3. view' = "app" /\ pollTimer' = TRUE /\ intervals' = 1
  BY DEF ShowApp, StartPolling, AppIsPolled
<1> QED BY <1>2, <1>3 DEF AppIsPolled

-----------------------------------------------------------------------------
(***************************************************************************)
(* The gateway's steps.                                                    *)
(***************************************************************************)
LEMMA ServeKeeps == ASSUME IInv, NEW i \in Requests, Serve(i) PROVE IInv'
<1> USE DEF IInv, TypeOK, Reply
<1>0. req[i].token \in Tokens \cup {NoToken} /\ req[i].token <= issued
  BY DEF RequestType, TokensAreIssued
<1>a. /\ req \in [Requests -> RequestType] /\ issued \in Nat
      /\ \A j \in Requests : req[j].token <= issued
  BY ConsoleAssumption DEF TokensAreIssued
<1>b. NoToken \in Tokens \cup {NoToken} /\ NoToken <= issued
  BY <1>a DEF NoToken
<1>1. CASE CheckSession(i)
  <2> DEFINE state == IF Valid(req[i].token) THEN "passed" ELSE "served"
  <2>1. Becomes(i, state, req[i].token, Valid(req[i].token)) BY <1>1 DEF CheckSession
  <2>2. Valid(req[i].token) \in BOOLEAN BY DEF Valid
  <2>3. /\ req' \in [Requests -> RequestType]
        /\ \A j \in Requests : req'[j].token <= issued'
    <3>1. issued' = issued /\ state \in {"passed", "served"} BY <1>1 DEF CheckSession
    <3> HIDE DEF state
    <3> QED BY <1>0, <1>a, <2>1, <2>2, <3>1, ReplyKeeps
  <2>4. \A s \in Tokens : sessions'[s] \in {"none", sessions[s]}
    BY <1>1 DEF CheckSession
  <2>5. TypeOK' BY <1>1, <2>3, <2>4 DEF CheckSession, page
  <2>6. TokensAreIssued' BY <1>1, <2>3, <2>4 DEF CheckSession, TokensAreIssued
  <2>7. LiveHaveNotEnded' BY <1>1, <2>4 DEF CheckSession, LiveHaveNotEnded
  <2> QED BY <1>1, <2>5, <2>6, <2>7 DEF CheckSession, AppIsPolled, page
<1>2. CASE ServeLogin(i)
  <2>1. CASE issued' = issued + 1 /\ issued < MaxLogins
             /\ sessions' = [sessions EXCEPT ![issued'] = "live"]
             /\ Reply(i, issued', TRUE)
    <3>1. issued' \in Tokens /\ issued' \in 0 .. MaxLogins
      BY <2>1, ConsoleAssumption DEF Tokens
    <3>2. /\ req' \in [Requests -> RequestType]
          /\ \A j \in Requests : req'[j].token <= issued'
      <4>1. issued' \in Nat /\ issued <= issued' /\ issued' <= issued'
        BY <1>a, <2>1
      <4>2. Reply(i, issued', TRUE) BY <2>1
      <4> HIDE DEF IInv, TypeOK
      <4> QED BY <1>a, <3>1, <4>1, <4>2, ReplyKeeps
    <3>3. TypeOK' BY <1>2, <2>1, <3>1, <3>2 DEF ServeLogin, page
    <3>4. TokensAreIssued'
      BY <1>2, <2>1, <3>1, <3>2, TokenIsNat DEF ServeLogin, TokensAreIssued
    <3>5. LiveHaveNotEnded'
      BY <1>2, <2>1, <3>1, TokenIsNat DEF ServeLogin, LiveHaveNotEnded, TokensAreIssued
    <3> QED BY <1>2, <3>3, <3>4, <3>5 DEF ServeLogin, AppIsPolled, page
  <2>2. CASE Reply(i, NoToken, FALSE) /\ UNCHANGED <<issued, sessions>>
    <3>2. /\ req' \in [Requests -> RequestType]
          /\ \A j \in Requests : req'[j].token <= issued'
      <4>1. Reply(i, NoToken, FALSE) /\ issued' = issued BY <2>2
      <4>2. issued' \in Nat /\ issued <= issued' /\ NoToken <= issued'
        BY <1>a, <1>b, <4>1
      <4> HIDE DEF IInv, TypeOK
      <4> QED BY <1>a, <1>b, <4>1, <4>2, ReplyKeeps
    <3>3. TypeOK' BY <1>2, <2>2, <3>2 DEF ServeLogin, page
    <3>4. TokensAreIssued' BY <1>2, <2>2, <3>2 DEF ServeLogin, TokensAreIssued
    <3>5. LiveHaveNotEnded' BY <1>2, <2>2 DEF ServeLogin, LiveHaveNotEnded
    <3> QED BY <1>2, <3>3, <3>4, <3>5 DEF ServeLogin, AppIsPolled, page
  <2> QED BY <1>2, <2>1, <2>2 DEF ServeLogin
<1>3. CASE ServeLogout(i)
  <2>3. /\ req' \in [Requests -> RequestType]
        /\ \A j \in Requests : req'[j].token <= issued'
    <3>1. Reply(i, NoToken, TRUE) /\ issued' = issued BY <1>3 DEF ServeLogout
    <3>2. issued' \in Nat /\ issued <= issued' /\ NoToken <= issued'
      BY <1>a, <1>b, <3>1
    <3> HIDE DEF IInv, TypeOK
    <3> QED BY <1>a, <1>b, <3>1, <3>2, ReplyKeeps
  <2>4. \A s \in Tokens : sessions'[s] = IF s = req[i].token THEN "none" ELSE sessions[s]
    BY <1>3 DEF ServeLogout
  <2>4a. sessions' \in [Tokens -> {"none", "live", "expired"}]
    BY <1>3 DEF ServeLogout
  <2>5. ended' = ended \cup ({req[i].token} \ {NoToken}) BY <1>3 DEF ServeLogout
  <2>6. TypeOK' BY <1>0, <1>3, <2>3, <2>4a, <2>5 DEF ServeLogout, page
  <2>7. TokensAreIssued'
    BY <1>0, <1>3, <2>3, <2>4, <2>5 DEF ServeLogout, TokensAreIssued
  <2>8. LiveHaveNotEnded' BY <2>4, <2>5 DEF LiveHaveNotEnded
  <2> QED BY <1>3, <2>6, <2>7, <2>8 DEF ServeLogout, AppIsPolled, page
<1>4. CASE AnswerData(i)
  <2>1. UNCHANGED <<gateway, cookie, page>> BY <1>4 DEF AnswerData
  <2>2. /\ req' \in [Requests -> RequestType]
        /\ \A j \in Requests : req'[j].token <= issued'
    <3>1. Reply(i, req[i].token, TRUE) /\ issued' = issued
      BY <1>4, <2>1 DEF AnswerData, gateway
    <3>2. issued' \in Nat /\ issued <= issued' /\ req[i].token <= issued'
      BY <1>0, <1>a, <3>1
    <3> HIDE DEF IInv, TypeOK
    <3> QED BY <1>0, <1>a, <3>1, <3>2, ReplyKeeps
  <2>3. TypeOK' BY <2>1, <2>2 DEF gateway, page
  <2>4. TokensAreIssued' BY <2>1, <2>2 DEF TokensAreIssued, gateway
  <2>5. LiveHaveNotEnded' BY <2>1 DEF LiveHaveNotEnded, gateway
  <2> QED BY <2>1, <2>3, <2>4, <2>5 DEF AppIsPolled, page
<1> QED BY <1>1, <1>2, <1>3, <1>4 DEF Serve

LEMMA LapseKeeps == ASSUME IInv, NEW t \in Tokens, Lapse(t) PROVE IInv'
<1> USE DEF IInv, TypeOK, Lapse
<1>1. TypeOK' BY DEF page
<1>2. AppIsPolled' BY DEF AppIsPolled, page
<1>3. TokensAreIssued' BY DEF TokensAreIssued
<1>4. LiveHaveNotEnded' BY DEF LiveHaveNotEnded
<1> QED BY <1>1, <1>2, <1>3, <1>4

LEMMA ExitKeeps == ASSUME IInv, Exit PROVE IInv'
<1> USE DEF IInv, TypeOK
<1>1. \A i \in Requests :
        req'[i] \in RequestType /\ (req'[i].token = req[i].token \/ req'[i].token = 0)
  <2> SUFFICES ASSUME NEW i \in Requests
               PROVE  req'[i] \in RequestType
                      /\ (req'[i].token = req[i].token \/ req'[i].token = 0)
    OBVIOUS
  <2>1. req'[i] \in {[req[i] EXCEPT !.state = "lost"], NoRequest, req[i]}
    BY DEF Exit
  <2>2. [req[i] EXCEPT !.state = "lost"] \in RequestType
        /\ [req[i] EXCEPT !.state = "lost"].token = req[i].token
    BY DEF RequestType
  <2> QED BY <2>1, <2>2, FreeSlot
<1>2. req' \in [Requests -> RequestType] BY <1>1 DEF Exit
<1>3. ended' \subseteq Tokens
  BY ConsoleAssumption DEF Exit, Tokens
<1>4. TypeOK' BY <1>2, <1>3 DEF Exit, page
<1>5. TokensAreIssued'
  <2>1. issued \in Nat /\ issued' = issued BY ConsoleAssumption DEF Exit
  <2>2. cookie' <= issued' BY DEF Exit, TokensAreIssued
  <2>3. \A i \in Requests : req'[i].token <= issued'
    BY <1>1, <2>1 DEF TokensAreIssued
  <2>4. \A t \in ended' : t <= issued' BY <2>1 DEF Exit
  <2>5. \A t \in Tokens : sessions'[t] = "none" BY DEF Exit
  <2> QED BY <2>2, <2>3, <2>4, <2>5 DEF TokensAreIssued
<1>6. LiveHaveNotEnded' BY DEF Exit, LiveHaveNotEnded
<1> QED BY <1>4, <1>5, <1>6 DEF Exit, AppIsPolled, page

-----------------------------------------------------------------------------
(***************************************************************************)
(* The page's steps.                                                       *)
(***************************************************************************)
\* What is left to show where the gateway's session table does not change.
LEMMA PageStepKeeps ==
  ASSUME IInv, UNCHANGED gateway, cookie' \in Tokens \cup {NoToken}, cookie' <= issued,
         view' \in {"none", "login", "app"}, pollTimer' \in BOOLEAN,
         intervals' \in 0 .. 2, req' \in [Requests -> RequestType], AppIsPolled',
         \A j \in Requests : req'[j].token <= issued
  PROVE  IInv'
  BY DEF IInv, TypeOK, gateway, TokensAreIssued, LiveHaveNotEnded

LEMMA LeaveKeeps ==
  ASSUME IInv, Leave
  PROVE  /\ view' \in {"none", "login", "app"} /\ pollTimer' \in BOOLEAN
         /\ intervals' \in 0 .. 2 /\ req' \in [Requests -> RequestType]
         /\ AppIsPolled'
         /\ \A j \in Requests : req'[j].token <= issued
<1> USE DEF IInv, TypeOK
<1>1. \A j \in Requests :
        req'[j] \in RequestType /\ req'[j].token <= issued
  <2> SUFFICES ASSUME NEW j \in Requests
               PROVE  req'[j] \in RequestType /\ req'[j].token <= issued
    OBVIOUS
  <2>1. req'[j] \in {[req[j] EXCEPT !.state = "aborted"], NoRequest} BY DEF Leave
  <2>2. [req[j] EXCEPT !.state = "aborted"] \in RequestType
        /\ [req[j] EXCEPT !.state = "aborted"].token = req[j].token
    BY DEF RequestType
  <2>3. 0 <= issued /\ req[j].token <= issued BY ConsoleAssumption DEF TokensAreIssued
  <2>4. CASE req'[j] = [req[j] EXCEPT !.state = "aborted"] BY <2>2, <2>3, <2>4
  <2>5. CASE req'[j] = NoRequest BY <2>3, <2>5, FreeSlot
  <2> QED BY <2>1, <2>4, <2>5
<1>2. req' \in [Requests -> RequestType] BY <1>1 DEF Leave
<1>3. view' = "none" /\ pollTimer' = FALSE /\ intervals' = 0 BY DEF Leave
<1>4. AppIsPolled' BY <1>3 DEF AppIsPolled
<1>5. view' \in {"none", "login", "app"} /\ intervals' \in 0 .. 2 BY <1>3
<1>6. pollTimer' \in BOOLEAN BY <1>3
<1> HIDE DEF IInv, TypeOK
<1> QED BY <1>1, <1>2, <1>4, <1>5, <1>6

LEMMA DoneKeeps == ASSUME IInv, NEW i \in Requests, Done(i) PROVE IInv'
<1> USE DEF IInv, TypeOK
<1>0. cookie \in Tokens \cup {NoToken} /\ cookie <= issued BY DEF TokensAreIssued
<1>1. CASE CheckDone(i)
  <2>1. CASE ShowApp(i)
    <3>1. cookie' = cookie BY <1>1 DEF CheckDone
    <3> QED BY <1>0, <1>1, <2>1, <3>1, ShowAppKeeps, PageStepKeeps DEF CheckDone
  <2>2. CASE view' = "login" /\ Finished(i) /\ UNCHANGED <<pollTimer, intervals>>
    <3>1. AppIsPolled' BY <2>2 DEF AppIsPolled
    <3> QED BY <1>0, <1>1, <2>2, <3>1, FinishedKeeps, PageStepKeeps DEF CheckDone
  <2> QED BY <1>1, <2>1, <2>2 DEF CheckDone
<1>2. CASE LoginDone(i)
  <2>1. CASE cookie' = req[i].token /\ ShowApp(i)
    <3>1. cookie' \in Tokens \cup {NoToken} /\ cookie' <= issued
      BY <2>1 DEF RequestType, TokensAreIssued
    <3> QED BY <1>2, <2>1, <3>1, ShowAppKeeps, PageStepKeeps DEF LoginDone
  <2>2. CASE Finished(i) /\ UNCHANGED <<cookie, page>>
    <3>1. AppIsPolled' BY <2>2 DEF AppIsPolled, page
    <3> QED BY <1>0, <1>2, <2>2, <3>1, FinishedKeeps, PageStepKeeps DEF LoginDone, page
  <2> QED BY <1>2, <2>1, <2>2 DEF LoginDone
<1>3. CASE PollRefused(i)
  <2>1. AppIsPolled' /\ intervals' \in 0 .. 2 /\ pollTimer' \in BOOLEAN
    <3>1. pollTimer' = FALSE /\ view' = "login" BY <1>3 DEF PollRefused, StopPolling
    <3>2. intervals' = 0 BY <1>3 DEF PollRefused, StopPolling, AppIsPolled
    <3>3. AppIsPolled' BY <3>1, <3>2 DEF AppIsPolled
    <3>4. intervals' \in 0 .. 2 BY <3>2
    <3>5. pollTimer' \in BOOLEAN BY <3>1
    <3> QED BY <3>3, <3>4, <3>5
  <2> QED BY <1>0, <1>3, <2>1, FinishedKeeps, PageStepKeeps DEF PollRefused
<1>4. CASE PollDone(i)
  <2>1. AppIsPolled' BY <1>4 DEF PollDone, AppIsPolled, page
  <2> QED BY <1>0, <1>4, <2>1, FinishedKeeps, PageStepKeeps DEF PollDone, page
<1>5. CASE LogoutDone(i)
  <2>1. CASE cookie' = NoToken /\ Leave
    <3>1. cookie' \in Tokens \cup {NoToken} /\ cookie' <= issued BY <2>1 DEF NoToken
    <3> QED BY <1>5, <2>1, <3>1, LeaveKeeps, PageStepKeeps DEF LogoutDone
  <2>2. CASE Finished(i) /\ UNCHANGED <<cookie, page>>
    <3>1. AppIsPolled' BY <2>2 DEF AppIsPolled, page
    <3> QED BY <1>0, <1>5, <2>2, <3>1, FinishedKeeps, PageStepKeeps DEF LogoutDone, page
  <2> QED BY <1>5, <2>1, <2>2 DEF LogoutDone
<1> QED BY <1>1, <1>2, <1>3, <1>4, <1>5 DEF Done

LEMMA SendingKeeps ==
  ASSUME IInv, NEW i \in Requests,
         Load(i) \/ SubmitLogin(i) \/ ClickLogout(i) \/ Poll(i)
  PROVE  IInv'
<1> USE DEF IInv, TypeOK
<1>1. PICK kind \in Kinds : Send(i, kind)
  BY DEF Load, SubmitLogin, ClickLogout, Poll, Kinds
<1>2. UNCHANGED <<gateway, cookie, pollTimer, intervals>>
      /\ (view' = view \/ view' = "login")
  BY DEF Load, SubmitLogin, ClickLogout, Poll, page
<1>3. AppIsPolled' BY <1>2 DEF AppIsPolled
<1>4. cookie' <= issued BY <1>2 DEF TokensAreIssued
<1> QED BY <1>1, <1>2, <1>3, <1>4, SendKeeps, PageStepKeeps

LEMMA LoseKeeps == ASSUME IInv, NEW i \in Requests, Lose(i) PROVE IInv'
<1> USE DEF IInv, TypeOK
<1>1. [req[i] EXCEPT !.state = "lost"] \in RequestType
      /\ [req[i] EXCEPT !.state = "lost"].token = req[i].token
  BY DEF RequestType
<1>2. req' \in [Requests -> RequestType] /\ \A j \in Requests : req'[j].token <= issued
  BY <1>1 DEF Lose, TokensAreIssued
<1>3. AppIsPolled' BY DEF Lose, AppIsPolled, page
<1> QED BY <1>2, <1>3, PageStepKeeps DEF Lose, page, TokensAreIssued

-----------------------------------------------------------------------------
LEMMA Inductive == IInv /\ [Next]_vars => IInv'
<1> SUFFICES ASSUME IInv, [Next]_vars PROVE IInv' OBVIOUS
<1>1. CASE Exit BY <1>1, ExitKeeps
<1>2. CASE Restart
  BY <1>2 DEF Restart, page, IInv, TypeOK, AppIsPolled, TokensAreIssued, LiveHaveNotEnded
<1>3. CASE Reload
  BY <1>3, LeaveKeeps, PageStepKeeps DEF Reload, IInv, TypeOK, TokensAreIssued
<1>4. CASE CookieLapses
  BY <1>4 DEF CookieLapses, gateway, page, NoToken, IInv, TypeOK, AppIsPolled,
              TokensAreIssued, LiveHaveNotEnded
<1>5. CASE \E t \in Tokens : Lapse(t) BY <1>5, LapseKeeps
<1>6. ASSUME NEW i \in Requests,
             Serve(i) \/ Load(i) \/ SubmitLogin(i) \/ ClickLogout(i) \/ Poll(i)
               \/ Lose(i) \/ Done(i)
      PROVE  IInv'
  BY <1>6, ServeKeeps, SendingKeeps, LoseKeeps, DoneKeeps
<1>7. CASE UNCHANGED vars
  BY <1>7 DEF vars, gateway, page, IInv, TypeOK, AppIsPolled, TokensAreIssued,
              LiveHaveNotEnded
<1> QED BY <1>1, <1>2, <1>3, <1>4, <1>5, <1>6, <1>7 DEF Next

\* What is shown below of every run: the four parts at once.
LEMMA Invariant == Spec => []IInv
<1> QED BY InitHolds, Inductive, PTL DEF Spec

\* The state of the gateway and of its page keeps its types (Console TypeOK).
THEOREM TypeCorrect == Spec => []TypeOK
<1>1. IInv => TypeOK BY DEF IInv
<1> QED BY <1>1, Invariant, PTL

\* A page that shows the app is polled by exactly one interval, the one that
\* pollTimer stands for, in whatever order the answers come (app.js).
THEOREM OneInterval == Spec => []AppIsPolled
<1>1. IInv => AppIsPolled BY DEF IInv
<1> QED BY <1>1, Invariant, PTL

\* No step lets a request through for a session that was logged out, lapsed or
\* was given out by an earlier process (auth.go, api.go).
THEOREM EndedAreRefused == Spec => EndedSessionsRefused
<1> DEFINE LetThrough(i) ==
      (req[i].kind \in {"check", "poll"} /\ req[i].state = "sent"
         /\ req'[i].state \in {"passed", "served"} /\ req'[i].ok)
        => req[i].token \notin ended
<1>1. IInv /\ [Next]_vars => [\A i \in Requests : LetThrough(i)]_vars
  <2> SUFFICES ASSUME IInv, [Next]_vars, NEW i \in Requests PROVE LetThrough(i)
    OBVIOUS
  <2> SUFFICES ASSUME req[i].kind \in {"check", "poll"}, req[i].state = "sent",
                      req'[i].state \in {"passed", "served"}, req'[i].ok
               PROVE  req[i].token \notin ended
    OBVIOUS
  <2> USE DEF IInv, TypeOK
  <2>1. CASE CheckSession(i)
    <3>1. req'[i].ok = Valid(req[i].token)
      BY <2>1 DEF CheckSession, Becomes, RequestType
    <3> QED BY <3>1 DEF Valid, LiveHaveNotEnded, RequestType, NoToken
  <2>2. ASSUME ~CheckSession(i) PROVE FALSE
    <3>1. CASE Exit BY <3>1 DEF Exit, RequestType
    <3>2. CASE Restart \/ CookieLapses \/ UNCHANGED vars
      BY <3>2 DEF Restart, CookieLapses, vars
    <3>3. CASE Reload BY <3>3 DEF Reload, Leave, RequestType, NoRequest
    <3>4. CASE \E t \in Tokens : Lapse(t) BY <3>4 DEF Lapse
    <3>5. ASSUME NEW j \in Requests, Serve(j) PROVE FALSE
      BY <2>2, <3>5 DEF Serve, CheckSession, AnswerData, ServeLogin, ServeLogout, Waiting,
                       Reply, Becomes
    <3>6. ASSUME NEW j \in Requests,
                 Load(j) \/ SubmitLogin(j) \/ ClickLogout(j) \/ Poll(j) \/ Lose(j)
          PROVE  FALSE
      BY <3>6 DEF Load, SubmitLogin, ClickLogout, Poll, Lose, Send, Sent, RequestType
    <3>7. ASSUME NEW j \in Requests, Done(j) PROVE FALSE
      BY <3>7 DEF Done, CheckDone, LoginDone, PollRefused, PollDone, LogoutDone,
                  ShowApp, StartPolling, Finished, Leave, Sent, NoRequest, RequestType
    <3> QED BY <3>1, <3>2, <3>3, <3>4, <3>5, <3>6, <3>7 DEF Next
  <2> QED BY <2>1, <2>2
<1> QED BY <1>1, Invariant, PTL DEF Spec, EndedSessionsRefused
=============================================================================
