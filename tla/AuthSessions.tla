---------------------------- MODULE AuthSessions ----------------------------
(***************************************************************************)
(* AuthService for one user: login with its lockout counter, refresh with  *)
(* rotation and reuse detection, logout, and the guard that admits access  *)
(* tokens.  Any client may present any token it was ever given, any number *)
(* of calls at once; SessionClients adds the clients the project has.      *)
(*                                                                         *)
(* A session row and the refresh token whose hash it stores are the same   *)
(* number.  refresh runs in one READ COMMITTED transaction (reads, then    *)
(* the commit); login and logout are statements of their own, so a call    *)
(* may stop between two of them.  Rows of the audit log are left out.      *)
(***************************************************************************)
EXTENDS Naturals, Sequences, FiniteSets

CONSTANTS
  Calls,        \* requests to /auth that the backend may be handling at once
  MaxAttempts,  \* AUTH_MAX_FAILED_ATTEMPTS
  MaxSessions,  \* bound on the session rows of a behaviour
  MaxFailures   \* bound on the failedLoginAttempts at which a login begins

ASSUME MaxAttemptsAssumption == MaxAttempts \in Nat \ {0}
ASSUME AuthBoundsAssumption == MaxSessions \in Nat /\ MaxFailures \in Nat

VARIABLES
  account,   \* users row: status, tokenVersion, failedLoginAttempts, lockedUntil
  sessions,  \* auth_sessions rows, in the order they were created
  lapsed,    \* the rows 1..lapsed have passed their expires_at
  call,      \* what the backend is doing for each request
  attempts   \* history: wrong passwords in a row, while no logins overlap

authVars == <<account, sessions, lapsed, call, attempts>>

----------------------------------------------------------------------------
Locks == {"null", "future", "past"}  \* lockedUntil, compared with the clock
Account == [active : BOOLEAN, tokenVersion : Nat, failures : Nat, lock : Locks]

\* version is the claim of the access token that was issued with the row.
Reasons == {"no", "ROTATED", "TOKEN_REUSE", "LOGOUT"}
SessionRow == [family : Nat, parent : Nat, replacedBy : Nat, revoked : Reasons,
               version : Nat]

Working == {"verifying", "issuing", "found", "rotating", "reused", "ending"}
Ended == {"answered", "refused", "lost"}
Call == [phase : {"idle"} \cup Working \cup Ended, session : Nat,
         version : Nat, failures : Nat]
NoCall == [phase |-> "idle", session |-> 0, version |-> 0, failures |-> 0]

AuthTypeOK ==
  /\ account \in Account
  /\ sessions \in Seq(SessionRow)
  /\ lapsed \in 0..Len(sessions)
  /\ call \in [Calls -> Call]
  /\ attempts \in [count : Nat, overlapped : BOOLEAN]

AuthInit ==
  /\ account = [active |-> TRUE, tokenVersion |-> 0, failures |-> 0, lock |-> "null"]
  /\ sessions = <<>>
  /\ lapsed = 0
  /\ call = [c \in Calls |-> NoCall]
  /\ attempts = [count |-> 0, overlapped |-> FALSE]

Becomes(c, phase) == call' = [call EXCEPT ![c].phase = phase]
Family(f) == {n \in DOMAIN sessions : sessions[n].family = f}
Live(n) == sessions[n].revoked = "no"
LiveIn(f) == {n \in Family(f) : Live(n)}
NextSession == Len(sessions) + 1
Room == Len(sessions) + Cardinality({c \in Calls : call[c].phase \in Working}) < MaxSessions
Verifying == {c \in Calls : call[c].phase = "verifying"}

Overlapped == [count |-> 0, overlapped |-> TRUE]
Counts(n) == attempts' = IF attempts.overlapped THEN attempts
                         ELSE [attempts EXCEPT !.count = n]

----------------------------------------------------------------------------
(* login: the counter is read before the slow hash and written after it.   *)

MayLogIn == account.active /\ account.lock # "future"

BeginLogin(c) ==
  /\ call[c].phase = "idle"
  /\ MayLogIn
  /\ Room /\ account.failures < MaxFailures
  /\ call' = [call EXCEPT ![c] = [phase |-> "verifying", session |-> 0,
                                  version |-> account.tokenVersion,
                                  failures |-> account.failures]]
  /\ attempts' = IF Verifying = {} THEN attempts ELSE Overlapped
  /\ UNCHANGED <<account, sessions, lapsed>>

RefuseLogin(c) ==
  /\ call[c].phase = "idle"
  /\ ~MayLogIn
  /\ Becomes(c, "refused")
  /\ UNCHANGED <<account, sessions, lapsed, attempts>>

\* Mutant: the attempt that reaches the limit is not the one that locks.
LockAboveLimit(failures) ==
  IF failures > MaxAttempts THEN "future" ELSE "null"

LockAt(failures) == IF failures >= MaxAttempts THEN "future" ELSE "null"

WrongPassword(c) ==
  LET failures == call[c].failures + 1
  IN  /\ call[c].phase = "verifying"
      /\ account' = [account EXCEPT !.failures = failures, !.lock = LockAt(failures)]
      /\ Counts(attempts.count + 1)
      /\ Becomes(c, "refused")
      /\ UNCHANGED <<sessions, lapsed>>

RightPassword(c) ==
  /\ call[c].phase = "verifying"
  /\ account' = [account EXCEPT !.failures = 0, !.lock = "null"]
  /\ Counts(0)
  /\ Becomes(c, "issuing")
  /\ UNCHANGED <<sessions, lapsed>>

Row(family, parent, version) ==
  [family |-> family, parent |-> parent, replacedBy |-> 0, revoked |-> "no",
   version |-> version]

IssuePair(c) ==
  /\ call[c].phase = "issuing"
  /\ sessions' = Append(sessions, Row(NextSession, 0, call[c].version))
  /\ call' = [call EXCEPT ![c].phase = "answered", ![c].session = NextSession]
  /\ UNCHANGED <<account, lapsed, attempts>>

----------------------------------------------------------------------------
(* refresh: the session, its user, then the commit of a rotation or of the *)
(* revocation of the whole family.                                         *)

\* Mutant: only a replaced session counts as used.
ReplacedOnly(n) == sessions[n].replacedBy # 0

Used(n) == ~Live(n) \/ sessions[n].replacedBy # 0

FindSession(c, n) ==
  /\ call[c].phase = "idle"
  /\ n \in DOMAIN sessions
  /\ Room
  /\ call' = [call EXCEPT ![c] = [phase |-> IF Used(n) THEN "reused" ELSE "found",
                                  session |-> n, version |-> 0, failures |-> 0]]
  /\ UNCHANGED <<account, sessions, lapsed, attempts>>

Refreshable(n) == account.active /\ n > lapsed

LoadUser(c) ==
  /\ call[c].phase = "found"
  /\ Refreshable(call[c].session)
  /\ call' = [call EXCEPT ![c].phase = "rotating", ![c].version = account.tokenVersion]
  /\ UNCHANGED <<account, sessions, lapsed, attempts>>

RefuseRefresh(c) ==
  /\ call[c].phase = "found"
  /\ ~Refreshable(call[c].session)
  /\ Becomes(c, "refused")
  /\ UNCHANGED <<account, sessions, lapsed, attempts>>

\* Mutant: the replaced session is not revoked.
ReplacedUnrevoked(row) == [row EXCEPT !.replacedBy = NextSession]

Replaced(row) == [row EXCEPT !.replacedBy = NextSession, !.revoked = "ROTATED"]

Successor(n, version) == Row(sessions[n].family, n, version)

\* The parent is updated by id alone, whatever has happened to it since.
Rotate(c) ==
  LET n == call[c].session
  IN  /\ call[c].phase = "rotating"
      /\ sessions' = Append([sessions EXCEPT ![n] = Replaced(sessions[n])],
                            Successor(n, call[c].version))
      /\ call' = [call EXCEPT ![c].phase = "answered", ![c].session = NextSession]
      /\ UNCHANGED <<account, lapsed, attempts>>

\* updateMany: every row of the family that is not revoked yet.
Revoked(f, reason) ==
  [n \in DOMAIN sessions |->
     IF n \in LiveIn(f) THEN [sessions[n] EXCEPT !.revoked = reason]
     ELSE sessions[n]]

RevokeFamily(c) ==
  /\ call[c].phase = "reused"
  /\ sessions' = Revoked(sessions[call[c].session].family, "TOKEN_REUSE")
  /\ account' = [account EXCEPT !.tokenVersion = @ + 1]
  /\ Becomes(c, "refused")
  /\ UNCHANGED <<lapsed, attempts>>

----------------------------------------------------------------------------
(* logout: the session, then its family.                                   *)

FindLogout(c, n) ==
  /\ call[c].phase = "idle"
  /\ n \in DOMAIN sessions
  /\ call' = [call EXCEPT ![c] = [phase |-> "ending", session |-> n,
                                  version |-> 0, failures |-> 0]]
  /\ UNCHANGED <<account, sessions, lapsed, attempts>>

EndFamily(c) ==
  /\ call[c].phase = "ending"
  /\ sessions' = Revoked(sessions[call[c].session].family, "LOGOUT")
  /\ Becomes(c, "answered")
  /\ UNCHANGED <<account, lapsed, attempts>>

----------------------------------------------------------------------------
(* A failed statement, the rate limit of the route or a crash ends a call; *)
(* an answer may be lost.                                                  *)

CallFails(c) ==
  /\ call[c].phase \in Working
  /\ Becomes(c, "lost")
  /\ UNCHANGED <<account, sessions, lapsed, attempts>>

LoseAnswer(c) ==
  /\ call[c].phase \in {"answered", "refused"}
  /\ Becomes(c, "lost")
  /\ UNCHANGED <<account, sessions, lapsed, attempts>>

Deliver(c) ==
  /\ call[c].phase \in Ended
  /\ call' = [call EXCEPT ![c] = NoCall]
  /\ UNCHANGED <<account, sessions, lapsed, attempts>>

\* Time passes: a lock of fifteen minutes, a session of thirty days.
LockLapses ==
  /\ account.lock = "future"
  /\ account' = [account EXCEPT !.lock = "past"]
  /\ Counts(0)
  /\ UNCHANGED <<sessions, lapsed, call>>

SessionLapses ==
  /\ lapsed < Len(sessions)
  /\ lapsed' = lapsed + 1
  /\ UNCHANGED <<account, sessions, call, attempts>>

\* The catalog's status handler, for a user.
SetActive(active) ==
  /\ account.active # active
  /\ account' = [account EXCEPT !.active = active]
  /\ UNCHANGED <<sessions, lapsed, call, attempts>>

Work(c) ==
  \/ WrongPassword(c) \/ RightPassword(c) \/ IssuePair(c) \/ LoadUser(c)
  \/ RefuseRefresh(c) \/ Rotate(c) \/ RevokeFamily(c) \/ EndFamily(c)

Environment ==
  \/ LockLapses \/ SessionLapses
  \/ \E active \in BOOLEAN : SetActive(active)

AuthNext ==
  \/ \E c \in Calls :
       \/ BeginLogin(c) \/ RefuseLogin(c) \/ Work(c)
       \/ CallFails(c) \/ LoseAnswer(c) \/ Deliver(c)
       \/ \E n \in DOMAIN sessions : FindSession(c, n) \/ FindLogout(c, n)
  \/ Environment

AuthSpec == AuthInit /\ [][AuthNext]_authVars

----------------------------------------------------------------------------
(* The guards of the other routes.                                         *)

\* AccessTokenGuard, for the token that was issued with session n.
Admits(n) == account.active /\ sessions[n].version = account.tokenVersion

----------------------------------------------------------------------------
(* Properties.                                                             *)

\* Sessions that were rotated, and only those, have successors; a successor
\* belongs to the same login, and the row names one of its successors.
ChainsAreTrue ==
  \A n \in DOMAIN sessions :
    /\ sessions[n].parent # 0 =>
         /\ sessions[n].parent \in 1..(n - 1)
         /\ sessions[sessions[n].parent].family = sessions[n].family
         /\ ~Live(sessions[n].parent)
    /\ sessions[n].replacedBy # 0 =>
         /\ sessions[n].replacedBy \in DOMAIN sessions
         /\ sessions[sessions[n].replacedBy].parent = n

Forked(f) ==
  \E m, n \in Family(f) :
    m # n /\ sessions[m].parent = sessions[n].parent

\* A login has at most one usable refresh token at a time, as long as no
\* token of it was rotated twice.
OneLiveSession ==
  \A f \in DOMAIN sessions : ~Forked(f) => \A m, n \in LiveIn(f) : m = n

\* A family that is revoked while no refresh of it is in progress is revoked
\* for good; a refresh that read its row before adds a live one all the same.
Quiet(f) ==
  /\ LiveIn(f) = {}
  /\ \A c \in Calls : call[c].phase \in {"found", "rotating"} =>
       call[c].session \notin Family(f)
RevokedForGood == [][\A f \in DOMAIN sessions : Quiet(f) => Quiet(f)']_authVars

\* Without overlapping attempts no more than MaxAttempts wrong passwords are
\* judged before the account is locked.
LockoutInTurn == ~attempts.overlapped => attempts.count <= MaxAttempts

\* What the API description calls one-time rotation.
RotatedOnce == \A f \in DOMAIN sessions : ~Forked(f)
============================================================================
