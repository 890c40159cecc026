-------------------------------- MODULE Session ---------------------------------
(***************************************************************************)
(* The browser's session with the server, and what it decides to show:     *)
(* AuthContext.tsx, api/client.ts, LoginForm.tsx, SetupModal.tsx and the   *)
(* choice of the screen in App.tsx, all under frontend/src.  Console.tla   *)
(* composes it with the panels; every action below says what it does to    *)
(* the session only.                                                       *)
(***************************************************************************)
EXTENDS Naturals

CONSTANTS
  Tabs,      \* AppTab: "stream", "aliases", "storage", "settings"
  MaxBreaks  \* bound of the model: requests that fail, sign-outs and sessions that end

ASSUME SessionAssumption ==
  /\ Tabs \subseteq {"stream", "aliases", "storage", "settings"} /\ "stream" \in Tabs
  /\ MaxBreaks \in Nat

VARIABLES
  admin,   \* server: the admin password has been set
  cookie,  \* the browser's session cookie is accepted by the server
  screen,  \* what App renders
  tab,     \* activeTab
  asked,   \* the call of AuthContext in flight, "none" when there is none
  notice,  \* login_notice: in sessionStorage, or shown by the login form
  breaks

sessionVars == <<admin, cookie, screen, tab, asked, notice, breaks>>

SessionTypeOK ==
  /\ {admin, cookie} \subseteq BOOLEAN
  /\ screen \in {"loading", "setup", "login", "console"} /\ tab \in Tabs
  /\ asked \in {"none", "status", "login", "setup", "logout"}
  /\ notice \in {"none", "stored", "shown"}
  /\ breaks \in 0 .. MaxBreaks

Shown(t) == screen = "console" /\ tab = t

SessionInit ==
  /\ admin \in BOOLEAN /\ cookie \in BOOLEAN /\ (cookie => admin)
  /\ screen = "loading" /\ tab \in Tabs
  /\ asked = "status" /\ notice = "none" /\ breaks = 0

\* apiFetch: what becomes of a call.  Any call but a login and a setup that is
\* refused for want of a session also dispatches logshed:unauthorized.
Outcome(o) ==
  \/ o = "ok" /\ cookie /\ UNCHANGED breaks
  \/ o = "denied" /\ ~cookie /\ UNCHANGED breaks
  \/ o = "failed" /\ breaks < MaxBreaks /\ breaks' = breaks + 1

\* A login form takes the notice out of sessionStorage when it is mounted.
NoticeOn(s) ==
  IF s = "login" THEN IF notice = "stored" THEN "shown" ELSE notice
  ELSE IF notice = "shown" THEN "none" ELSE notice

Show(s) == screen' = s /\ notice' = NoticeOn(s)

\* The answer of /api/auth/status; when it fails, the flags stay as they were.
refreshAuth(ok) ==
  /\ asked = "status"
  /\ \/ ok /\ UNCHANGED breaks
     \/ ~ok /\ breaks < MaxBreaks /\ breaks' = breaks + 1
  /\ asked' = "none"
  /\ Show(IF ok /\ ~admin THEN "setup" ELSE IF ok /\ cookie THEN "console" ELSE "login")
  /\ UNCHANGED <<admin, cookie, tab>>

\* handleSubmit of the login form; the button is disabled while it waits.
SubmitLogin ==
  /\ screen = "login" /\ asked = "none"
  /\ asked' = "login"
  /\ notice' = IF notice = "shown" THEN "none" ELSE notice
  /\ UNCHANGED <<admin, cookie, screen, tab, breaks>>

login(right) ==
  /\ asked = "login" /\ asked' = "none"
  /\ IF right
     THEN admin /\ cookie' = TRUE /\ Show("console")
     ELSE UNCHANGED <<cookie, screen, notice>>
  /\ UNCHANGED <<admin, tab, breaks>>

\* handleSubmit of the setup form: a long password, typed twice.
SubmitSetup ==
  /\ screen = "setup" /\ asked = "none"
  /\ asked' = "setup"
  /\ UNCHANGED <<admin, cookie, screen, tab, notice, breaks>>

setup(ok) ==
  /\ asked = "setup" /\ asked' = "none"
  /\ IF ok
     THEN ~admin /\ admin' = TRUE /\ cookie' = TRUE /\ Show("console") /\ UNCHANGED breaks
     ELSE /\ breaks < MaxBreaks /\ breaks' = breaks + 1
          /\ UNCHANGED <<admin, cookie, screen, notice>>
  /\ UNCHANGED tab

\* The sign-out button of the bar.
SignOut ==
  /\ screen = "console" /\ asked = "none" /\ breaks < MaxBreaks
  /\ asked' = "logout" /\ breaks' = breaks + 1
  /\ UNCHANGED <<admin, cookie, screen, tab, notice>>

\* logout reloads the page whether or not the server answered; a reload asks for
\* the status again and finds the tab in the path.
Reloads(path) ==
  /\ asked' = "status" /\ tab' = path /\ Show("loading")

logout(ok, path) ==
  /\ asked = "logout"
  /\ \/ ok /\ cookie' = FALSE /\ UNCHANGED breaks
     \/ ~ok /\ breaks < MaxBreaks /\ breaks' = breaks + 1 /\ UNCHANGED cookie
  /\ Reloads(path)
  /\ UNCHANGED admin

Reload(path) ==
  /\ screen # "loading"
  /\ Reloads(path)
  /\ UNCHANGED <<admin, cookie, breaks>>

\* The session ends: it is too old, or the password is changed elsewhere.
Expire ==
  /\ cookie /\ screen = "console" /\ breaks < MaxBreaks
  /\ cookie' = FALSE /\ breaks' = breaks + 1
  /\ UNCHANGED <<admin, screen, tab, asked, notice>>

=============================================================================
