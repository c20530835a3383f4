------------------------------ MODULE Console ------------------------------
(***************************************************************************)
(* The web console and its sessions: one browser page with its timer and   *)
(* its requests, and the gateway's session table.  Requests overlap and    *)
(* their answers arrive in any order or not at all; sessions lapse; the    *)
(* gateway may be restarted under the page, which forgets every session.   *)
(*                                                                         *)
(* The four requests of one poll are one request here: the poll fails with *)
(* the first of them that fails, so it ends as one of them would.          *)
(***************************************************************************)
EXTENDS Naturals, FiniteSets

CONSTANTS
  MaxRequests,  \* bound: requests of the page under way at once
  MaxLogins     \* bound: sessions given out

ASSUME ConsoleAssumption == MaxRequests \in Nat \ {0} /\ MaxLogins \in Nat

Requests == 1 .. MaxRequests
Tokens   == 1 .. MaxLogins
NoToken  == 0

VARIABLES
  up,
  sessions,   \* sessions[t]: "none", "live", or "expired" and still in the map
  issued,     \* tokens given out; they are random and never come twice
  cookie,     \* the cookie the browser holds
  view,       \* "none" while no page is loaded, "login" or "app"
  pollTimer,  \* pollTimer is set
  intervals,  \* intervals that fire
  req,        \* req[i]: a request of the page
  \* History variable, read by properties only.
  ended       \* sessions that were logged out, lapsed or of an earlier process

gateway == <<up, sessions, issued, ended>>
page    == <<view, pollTimer, intervals>>
vars    == <<gateway, cookie, page, req>>

\* Kinds: "check" is checkAuth, "poll" is loadAll.
Kinds   == {"check", "poll", "login", "logout"}
NoRequest == [kind |-> "poll", state |-> "free", token |-> NoToken, ok |-> FALSE]

\* "passed": the middleware let it through.  "aborted": sent by a page that is
\* gone.  token: the cookie it went with, or the one the answer to a login sets.
RequestType == [kind : Kinds,
                state : {"free", "sent", "passed", "served", "lost", "aborted"},
                token : Tokens \cup {NoToken}, ok : BOOLEAN]

TypeOK ==
  /\ up \in BOOLEAN /\ issued \in 0 .. MaxLogins
  /\ sessions \in [Tokens -> {"none", "live", "expired"}]
  /\ cookie \in Tokens \cup {NoToken} /\ ended \subseteq Tokens
  /\ view \in {"none", "login", "app"} /\ pollTimer \in BOOLEAN
  /\ intervals \in 0 .. 2 /\ req \in [Requests -> RequestType]

Init ==
  /\ up = TRUE /\ sessions = [t \in Tokens |-> "none"] /\ issued = 0 /\ ended = {}
  /\ cookie = NoToken
  /\ view = "none" /\ pollTimer = FALSE /\ intervals = 0
  /\ req = [i \in Requests |-> NoRequest]

Sent(kind, token) == [kind |-> kind, state |-> "sent", token |-> token, ok |-> FALSE]

Send(i, kind) ==
  req[i].state = "free" /\ req' = [req EXCEPT ![i] = Sent(kind, cookie)]

-----------------------------------------------------------------------------
(***************************************************************************)
(* The gateway.                                                            *)
(***************************************************************************)
\* (slip: the map alone decides)
ValidWhileKept(t) == t # NoToken /\ sessions[t] # "none"

Valid(t) == t # NoToken /\ sessions[t] = "live"

\* What becomes of a request; if its page is gone nobody waits for the answer.
Becomes(i, state, token, ok) ==
  req' = [req EXCEPT ![i] = IF @.state = "aborted" THEN NoRequest
                            ELSE [@ EXCEPT !.state = state, !.token = token, !.ok = ok]]

Reply(i, token, ok) == Becomes(i, "served", token, ok)

Waiting(i, kinds) == up /\ req[i].kind \in kinds /\ req[i].state \in {"sent", "aborted"}

\* Middleware: 401, or on to the handler; a session found expired is removed.
CheckSession(i) ==
  LET t == req[i].token IN
  /\ Waiting(i, {"check", "poll"})
  /\ Becomes(i, IF Valid(t) THEN "passed" ELSE "served", t, Valid(t))
  /\ sessions' = [s \in Tokens |-> IF s = t /\ ~Valid(t) THEN "none" ELSE sessions[s]]
  /\ UNCHANGED <<up, issued, ended, cookie, page>>

\* The handler answers, whatever became of the session by now.
AnswerData(i) ==
  /\ up /\ req[i].state = "passed" /\ Reply(i, req[i].token, TRUE)
  /\ UNCHANGED <<gateway, cookie, page>>

\* handleLogin: a new session, or 401.
ServeLogin(i) ==
  /\ Waiting(i, {"login"})
  /\ \/ /\ issued < MaxLogins
        /\ issued' = issued + 1
        /\ sessions' = [sessions EXCEPT ![issued'] = "live"]
        /\ Reply(i, issued', TRUE)
     \/ Reply(i, NoToken, FALSE) /\ UNCHANGED <<issued, sessions>>
  /\ UNCHANGED <<up, ended, cookie, page>>

\* (slip: the session is left to lapse)
ServeLogoutCookieOnly(i) ==
  /\ Waiting(i, {"logout"}) /\ Reply(i, NoToken, TRUE)
  /\ ended' = ended \cup ({req[i].token} \ {NoToken})
  /\ UNCHANGED <<up, sessions, issued, cookie, page>>

\* handleLogout: the session goes, whether it was valid or not.
ServeLogout(i) ==
  LET t == req[i].token IN
  /\ Waiting(i, {"logout"}) /\ Reply(i, NoToken, TRUE)
  /\ sessions' = [s \in Tokens |-> IF s = t THEN "none" ELSE sessions[s]]
  /\ ended' = ended \cup ({t} \ {NoToken})
  /\ UNCHANGED <<up, issued, cookie, page>>

Serve(i) == CheckSession(i) \/ AnswerData(i) \/ ServeLogin(i) \/ ServeLogout(i)

\* Twelve hours after the login; sessions lapse in the order they began.
Lapse(t) ==
  /\ sessions[t] = "live" /\ \A s \in 1 .. t - 1 : sessions[s] # "live"
  /\ sessions' = [sessions EXCEPT ![t] = "expired"]
  /\ ended' = ended \cup {t}
  /\ UNCHANGED <<up, issued, cookie, page, req>>

\* Requests under way are cut off; the sessions were in memory only.
Exit ==
  /\ up /\ up' = FALSE
  /\ sessions' = [t \in Tokens |-> "none"]
  /\ ended' = 1 .. issued
  /\ req' = [i \in Requests |->
               CASE req[i].state \in {"sent", "passed"} -> [req[i] EXCEPT !.state = "lost"]
                 [] req[i].state = "aborted"           -> NoRequest
                 [] OTHER                              -> req[i]]
  /\ UNCHANGED <<issued, cookie, page>>

Restart == ~up /\ up' = TRUE /\ UNCHANGED <<sessions, issued, ended, cookie, page, req>>

-----------------------------------------------------------------------------
(***************************************************************************)
(* The page.                                                               *)
(***************************************************************************)
\* (slip: the timer is started without a look at pollTimer)
StartAlways(i) ==
  /\ pollTimer' = TRUE /\ intervals' = IF intervals < 2 THEN intervals + 1 ELSE 2
  /\ req' = [req EXCEPT ![i] = Sent("poll", cookie')]

\* startPolling: once, and with a first poll at once; i was just answered.
StartPolling(i) ==
  IF pollTimer
    THEN req' = [req EXCEPT ![i] = NoRequest] /\ UNCHANGED <<pollTimer, intervals>>
    ELSE /\ pollTimer' = TRUE /\ intervals' = intervals + 1
         /\ req' = [req EXCEPT ![i] = Sent("poll", cookie')]

ShowApp(i) == view' = "app" /\ StartPolling(i)

\* The page is loaded from the gateway; at its end it calls checkAuth.
Load(i) ==
  /\ up /\ view = "none" /\ view' = "login"
  /\ Send(i, "check")
  /\ UNCHANGED <<gateway, cookie, pollTimer, intervals>>

\* What the page asked for is of no use to the next one; the gateway may still
\* come to it, but what was let through changes nothing there any more.
Leave ==
  /\ view' = "none" /\ pollTimer' = FALSE /\ intervals' = 0
  /\ req' = [j \in Requests |-> IF req[j].state \in {"sent", "aborted"}
                                  THEN [req[j] EXCEPT !.state = "aborted"] ELSE NoRequest]

Reload == view # "none" /\ Leave /\ UNCHANGED <<gateway, cookie>>

SubmitLogin(i) == view = "login" /\ Send(i, "login") /\ UNCHANGED <<gateway, cookie, page>>
ClickLogout(i) == view = "app" /\ Send(i, "logout") /\ UNCHANGED <<gateway, cookie, page>>
Poll(i) == intervals > 0 /\ Send(i, "poll") /\ UNCHANGED <<gateway, cookie, page>>

\* The network loses a request or its answer.
Lose(i) ==
  /\ req[i].state \in {"sent", "passed", "served"}
  /\ req' = [req EXCEPT ![i].state = "lost"]
  /\ UNCHANGED <<gateway, cookie, page>>

\* The cookie has the session's lifetime, counted from the answer.
CookieLapses ==
  /\ cookie # NoToken /\ sessions[cookie] # "live" /\ cookie' = NoToken
  /\ UNCHANGED <<gateway, page, req>>

Finished(i) == req' = [req EXCEPT ![i] = NoRequest]

\* checkAuth: any failure shows the login form, and leaves the timer alone.
CheckDone(i) ==
  /\ req[i].kind = "check" /\ req[i].state \in {"served", "lost"}
  /\ UNCHANGED <<gateway, cookie>>
  /\ IF req[i].state = "served" /\ req[i].ok
       THEN ShowApp(i)
       ELSE view' = "login" /\ Finished(i) /\ UNCHANGED <<pollTimer, intervals>>

LoginDone(i) ==
  /\ req[i].kind = "login" /\ req[i].state \in {"served", "lost"}
  /\ IF req[i].state = "served" /\ req[i].ok
       THEN cookie' = req[i].token /\ ShowApp(i)
       ELSE Finished(i) /\ UNCHANGED <<cookie, page>>
  /\ UNCHANGED gateway

\* (slip: the interval is cleared and pollTimer kept)
StopKeepsTimer == intervals' = 0 /\ UNCHANGED pollTimer

StopPolling == pollTimer' = FALSE /\ intervals' = IF pollTimer THEN intervals - 1 ELSE intervals

\* (slip: a poll that was refused is taken for one that failed)
PollRefusedIgnored(i) ==
  /\ req[i].kind = "poll" /\ req[i].state = "served" /\ ~req[i].ok
  /\ Finished(i) /\ UNCHANGED <<gateway, cookie, page>>

\* loadAll, refused: the login form, whoever is logged in by now.
PollRefused(i) ==
  /\ req[i].kind = "poll" /\ req[i].state = "served" /\ ~req[i].ok
  /\ view' = "login" /\ StopPolling /\ Finished(i)
  /\ UNCHANGED <<gateway, cookie>>

\* Answered, or failed in any other way: nothing that is modelled changes.
PollDone(i) ==
  /\ req[i].kind = "poll"
  /\ req[i].state = "lost" \/ (req[i].state = "served" /\ req[i].ok)
  /\ Finished(i) /\ UNCHANGED <<gateway, cookie, page>>

\* The page reloads when its logout is answered, and stays when it is not.
LogoutDone(i) ==
  /\ req[i].kind = "logout" /\ req[i].state \in {"served", "lost"}
  /\ IF req[i].state = "served" THEN cookie' = NoToken /\ Leave
                                ELSE Finished(i) /\ UNCHANGED <<cookie, page>>
  /\ UNCHANGED gateway

Done(i) == CheckDone(i) \/ LoginDone(i) \/ PollRefused(i) \/ PollDone(i) \/ LogoutDone(i)

-----------------------------------------------------------------------------
Next ==
  \/ Exit \/ Restart \/ Reload \/ CookieLapses
  \/ \E t \in Tokens : Lapse(t)
  \/ \E i \in Requests :
       Serve(i) \/ Load(i) \/ SubmitLogin(i) \/ ClickLogout(i) \/ Poll(i) \/ Lose(i) \/ Done(i)

Spec == Init /\ [][Next]_vars

\* The timer fires whenever the bound on the requests lets it, and the network
\* does not fail for ever: of the polls that are sent again and again some are
\* served, and of the answers some arrive.
FairSpec ==
  /\ Spec
  /\ SF_vars(\E i \in Requests : Poll(i))
  /\ \A i \in Requests :
       /\ WF_vars(Done(i)) /\ WF_vars(Serve(i))
       /\ SF_vars(CheckSession(i)) /\ SF_vars(PollRefused(i))

-----------------------------------------------------------------------------
(***************************************************************************)
(* Properties.                                                             *)
(***************************************************************************)
\* Whoever looks at the app looks at live data: one interval fires, and it is
\* the one pollTimer stands for, through double logins, late answers to
\* checkAuth, and a 401 that arrives after a new login (app.js startPolling,
\* loadAll, showLogin).
AppIsPolled ==
  /\ intervals = IF pollTimer THEN 1 ELSE 0
  /\ view = "app" => pollTimer

\* No request is let through for a session that was logged out, has lapsed or
\* was given out by an earlier process, also not one that was sent before that
\* happened; one that was let through before is answered (auth.go valid, Logout;
\* api.go handleLogout).
EndedSessionsRefused ==
  [][\A i \in Requests :
       (req[i].kind \in {"check", "poll"} /\ req[i].state = "sent"
          /\ req'[i].state \in {"passed", "served"} /\ req'[i].ok)
         => req[i].token \notin ended]_vars

\* A page that shows the app without a session, because it lapsed or because the
\* gateway was restarted, notices by itself, if the gateway is not restarted for
\* ever (app.js loadAll).
SessionLossNoticed ==
  <>[]up => ((view = "app" /\ ~Valid(cookie)) ~> (view # "app" \/ Valid(cookie)))
=============================================================================
