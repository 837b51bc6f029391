--------------------------- MODULE SessionClients ---------------------------
(***************************************************************************)
(* The project's clients of AuthSessions: the ApiClient of the mobile app  *)
(* and apiRequest of the web pages.  A client keeps the last token pair it *)
(* received in one store; a task is one request of it, which refreshes and *)
(* repeats itself once when it is answered with 401.  The mobile client    *)
(* shares one rotation among its requests, the web client does not.        *)
(*                                                                         *)
(* A behaviour has one client of either kind.  A token pair is the number  *)
(* of the session it was issued with.                                      *)
(***************************************************************************)
EXTENDS AuthSessions

CONSTANTS
  Kinds,       \* kinds of client considered: subset of {"mobile", "web"}
  MaxVersion,  \* bound on the tokenVersion at which a request is still sent
  None         \* no task

ASSUME NoneAssumption == None \notin Calls
ASSUME VersionAssumption == MaxVersion \in Nat
ASSUME KindsAssumption == Kinds \subseteq {"mobile", "web"}

VARIABLES
  kind,    \* the client of this behaviour
  store,   \* TokenStore, localStorage: session of the stored pair, or 0
  future,  \* _refreshFuture: the task whose rotation it is, or None
  task,    \* each request: its phase, its pair, whose rotation it awaits
  stale,   \* the access tokens of the sessions 1..stale have expired
  excused  \* history: something has happened that explains a reused token

clientVars == <<kind, store, future, task, stale, excused>>
vars == <<authVars, clientVars>>

Tasks == Calls
Phases == {"idle", "signing", "sent", "denied", "joined", "rotating", "asked",
           "retrying", "leaving", "left"}
NoTask == [phase |-> "idle", token |-> 0, owner |-> None]

Init ==
  /\ AuthInit
  /\ kind \in Kinds
  /\ store = 0 /\ future = None
  /\ task = [t \in Tasks |-> NoTask]
  /\ stale = 0 /\ excused = FALSE

In(phases) == {t \in Tasks : task[t].phase \in phases}
Moves(t, phase, token) ==
  task' = [task EXCEPT ![t] = [phase |-> phase, token |-> token, owner |-> None]]
Ends(t) == task' = [task EXCEPT ![t] = NoTask]
Idle(t) == task[t] = NoTask /\ call[t].phase = "idle"
Answers(t, phases) == call[t].phase \in phases /\ Deliver(t)
Excuse(reason) == excused' = (excused \/ reason)

\* Bound: a session row is left for every request that may still create one.
Creating ==
  {t \in In({"signing", "sent", "denied", "rotating", "asked"}) : call[t].phase \notin Ended}
    \cup {t \in Tasks : call[t].phase \in Working}
RoomToAsk ==
  /\ Len(sessions) + Cardinality(Creating) < MaxSessions
  /\ account.tokenVersion < MaxVersion

----------------------------------------------------------------------------
(* Signing in and out.                                                     *)

\* The login form is shown while no pair is stored.
SignIn(t) ==
  /\ Idle(t) /\ store = 0 /\ RoomToAsk
  /\ BeginLogin(t) \/ RefuseLogin(t)
  /\ Moves(t, "signing", 0)
  /\ UNCHANGED <<kind, store, future, stale, excused>>

SignedIn(t) ==
  /\ task[t].phase = "signing" /\ Answers(t, {"answered"})
  /\ store' = call[t].session
  /\ Ends(t)
  /\ UNCHANGED <<kind, future, stale, excused>>

NotSignedIn(t) ==
  /\ task[t].phase = "signing" /\ Answers(t, {"refused", "lost"})
  /\ Ends(t)
  /\ UNCHANGED <<kind, store, future, stale, excused>>

Rotations == In({"rotating", "asked"})

\* Only the mobile app signs out; it reads the stored pair first.
SignOut(t) ==
  /\ kind = "mobile" /\ Idle(t) /\ store # 0
  /\ Moves(t, "leaving", store)
  /\ Excuse(Rotations # {})
  /\ UNCHANGED <<authVars, kind, store, future, stale>>

AskSignOut(t) ==
  /\ task[t].phase = "leaving" /\ FindLogout(t, task[t].token)
  /\ Moves(t, "left", task[t].token)
  /\ UNCHANGED <<kind, store, future, stale, excused>>

\* Mutant: the pair stays stored.
SignedOutLocally(t) ==
  /\ task[t].phase = "left" /\ Answers(t, Ended)
  /\ Ends(t)
  /\ UNCHANGED <<kind, store, future, stale, excused>>

\* The pair is dropped whatever the answer is.
SignedOut(t) ==
  /\ task[t].phase = "left" /\ Answers(t, Ended)
  /\ store' = 0
  /\ Ends(t)
  /\ UNCHANGED <<kind, future, stale, excused>>

----------------------------------------------------------------------------
(* A request with the stored access token.                                 *)

Send(t) ==
  /\ Idle(t) /\ store # 0 /\ RoomToAsk
  /\ Moves(t, "sent", store)
  /\ Excuse(kind = "web" /\ In(Phases \ {"idle"}) # {})
  /\ UNCHANGED <<authVars, kind, store, future, stale>>

Admitted(n) == Admits(n) /\ n > stale

\* Answered, or failed for another reason than the token.
Served(t) ==
  /\ task[t].phase = "sent" /\ Admitted(task[t].token)
  /\ Ends(t)
  /\ UNCHANGED <<authVars, kind, store, future, stale, excused>>

Unreachable(t) ==
  /\ task[t].phase = "sent"
  /\ Ends(t)
  /\ UNCHANGED <<authVars, kind, store, future, stale, excused>>

Denied(t) ==
  /\ task[t].phase = "sent" /\ ~Admitted(task[t].token)
  /\ Moves(t, "denied", task[t].token)
  /\ UNCHANGED <<authVars, kind, store, future, stale, excused>>

\* Mutant: every mobile request rotates the token on its own.
RotateAlone(t) == Moves(t, "rotating", store) /\ future' = t

\* Mutant: the rotation uses the pair the request was sent with.
RotateSent(t) ==
  \/ future = None /\ Moves(t, "rotating", task[t].token) /\ future' = t
  \/ /\ future # None /\ task[future].phase = "retrying"
     /\ Moves(t, "retrying", task[future].token)
     /\ UNCHANGED future

\* _refreshFuture ??= _rotate(tokens), with the pair that is stored by now; a
\* future that is complete already yields its pair at once.
JoinRotation(t) ==
  \/ future = None /\ Moves(t, "rotating", store) /\ future' = t
  \/ /\ future # None /\ task[future].phase = "retrying"
     /\ Moves(t, "retrying", task[future].token)
     /\ UNCHANGED future
  \/ /\ future # None /\ task[future].phase # "retrying"
     /\ task' = [task EXCEPT ![t] = [phase |-> "joined", token |-> 0, owner |-> future]]
     /\ UNCHANGED future

RefreshOnMobile(t) ==
  /\ kind = "mobile" /\ task[t].phase = "denied" /\ store # 0
  /\ JoinRotation(t)
  /\ Excuse(In({"leaving", "left"}) # {})
  /\ UNCHANGED <<authVars, kind, store, stale>>

GiveUpOnMobile(t) ==
  /\ kind = "mobile" /\ task[t].phase = "denied" /\ store = 0
  /\ Ends(t)
  /\ UNCHANGED <<authVars, kind, store, future, stale, excused>>

\* apiRequest uses the pair it read before it sent the request.
RefreshOnWeb(t) ==
  /\ kind = "web" /\ task[t].phase = "denied"
  /\ Moves(t, "rotating", task[t].token)
  /\ UNCHANGED <<authVars, kind, store, future, stale, excused>>

AskRotation(t) ==
  /\ task[t].phase = "rotating" /\ FindSession(t, task[t].token)
  /\ Moves(t, "asked", task[t].token)
  /\ UNCHANGED <<kind, store, future, stale, excused>>

----------------------------------------------------------------------------
(* The answer to a rotation.                                               *)

\* The requests that wait for the rotation of t.
Waiting(t) == {t} \cup {u \in In({"joined"}) : task[u].owner = t}
Cleared(t) == future \notin {t, None} /\ task[future].phase \in {"rotating", "asked"}

Rotated(t) ==
  /\ task[t].phase = "asked" /\ Answers(t, {"answered"})
  /\ store' = call[t].session
  /\ task' = [u \in Tasks |->
                IF u \in Waiting(t)
                THEN [phase |-> "retrying", token |-> call[t].session, owner |-> None]
                ELSE task[u]]
  /\ UNCHANGED <<kind, future, stale, excused>>

\* Refused, or on the mobile failed in any way: the pair is dropped.
RotationFails(t) ==
  /\ task[t].phase = "asked"
  /\ Answers(t, {"refused", "lost"})
  /\ store' = 0
  /\ task' = [u \in Tasks |-> IF u \in Waiting(t) THEN NoTask ELSE task[u]]
  /\ future' = None
  /\ Excuse(Cleared(t))
  /\ UNCHANGED <<kind, stale>>

\* fetch throws when no answer arrives: the web client keeps its pair.
AnswerMissing(t) ==
  /\ kind = "web" /\ task[t].phase = "asked" /\ Answers(t, {"lost"})
  /\ Ends(t)
  /\ Excuse(TRUE)
  /\ UNCHANGED <<kind, store, future, stale>>

\* finally: _refreshFuture = null, also when it is the future of another one.
Settles(t) ==
  /\ Ends(t)
  /\ future' = None
  /\ Excuse(Cleared(t))

Retried(t) ==
  /\ task[t].phase = "retrying" /\ Admitted(task[t].token)
  /\ Settles(t)
  /\ UNCHANGED <<authVars, kind, store, stale>>

\* On the mobile whatever fails the repeated request also drops the pair.
RetryFails(t) ==
  /\ task[t].phase = "retrying"
  /\ Settles(t)
  /\ store' = IF kind = "mobile" THEN 0 ELSE store
  /\ UNCHANGED <<authVars, kind, stale>>

----------------------------------------------------------------------------
(* The app is killed or the page reloaded: the calls go on without it.     *)

Restart ==
  /\ In(Phases \ {"idle"}) # {}
  /\ task' = [t \in Tasks |-> NoTask]
  /\ future' = None
  /\ Excuse(Rotations \cup In({"leaving", "left"}) # {})
  /\ UNCHANGED <<authVars, kind, store, stale>>

Unheard(t) ==
  /\ task[t].phase = "idle" /\ Answers(t, Ended)
  /\ UNCHANGED clientVars

Expires ==
  /\ stale < Len(sessions)
  /\ stale' = stale + 1
  /\ UNCHANGED <<authVars, kind, store, future, task, excused>>

Backend(t) ==
  \/ Work(t) /\ UNCHANGED clientVars
  \/ Unheard(t)

Client(t) ==
  \/ SignedIn(t) \/ NotSignedIn(t) \/ AskSignOut(t) \/ SignedOut(t)
  \/ Served(t) \/ Denied(t)
  \/ RefreshOnMobile(t) \/ GiveUpOnMobile(t) \/ RefreshOnWeb(t) \/ AskRotation(t)
  \/ Rotated(t) \/ RotationFails(t) \/ Retried(t) \/ RetryFails(t)

World ==
  \/ \E t \in Tasks : \/ SignIn(t) \/ SignOut(t) \/ Send(t)
                      \/ Unreachable(t) \/ AnswerMissing(t)
                      \/ (CallFails(t) \/ LoseAnswer(t)) /\ UNCHANGED clientVars
  \/ Restart \/ Expires
  \/ Environment /\ lapsed' <= stale /\ UNCHANGED clientVars

Next == World \/ \E t \in Tasks : Backend(t) \/ Client(t)

Spec == Init /\ [][Next]_vars

----------------------------------------------------------------------------
(* Properties.                                                             *)

\* The backend detects the reuse of a refresh token only when the answer of
\* a rotation never reached its client, requests of the web client ran in
\* parallel, a mobile request cleared the rotation of another one, or the
\* user signed out during a rotation: one request after the other, and
\* parallel ones of the mobile client, never revoke their own session.
ReuseIsExplained ==
  \A t \in Calls : call[t].phase = "reused" => excused

\* The pair a client stores is the newest one of its login, unless a
\* rotation is on its way or one of the known faults happened.
StoredPairIsCurrent ==
  store # 0 /\ ~excused /\ Rotations = {} =>
    \A n \in Family(sessions[store].family) : n <= store

\* When a sign-out is answered, no session of its login is usable and no
\* pair is stored, unless a rotation was under way.
SignOutIsFinal ==
  [][\A t \in Tasks, f \in DOMAIN sessions :
       /\ task[t].phase = "left" /\ f = sessions[task[t].token].family
       /\ call[t].phase = "answered" /\ call'[t].phase = "idle" /\ ~excused
       => store' = 0 /\ LiveIn(f)' = {}]_vars

=============================================================================
