----------------------------- MODULE AuthProofs -----------------------------
(***************************************************************************)
(* Proofs about AuthSessions for every set of calls and every limit, and   *)
(* therefore for the project's clients, which use nothing but its steps;   *)
(* then about what those clients do with their tokens, and when.           *)
(***************************************************************************)
EXTENDS SessionClients, SequenceTheorems, TLAPS

USE DEF authVars

----------------------------------------------------------------------------
(* What a step does to the session rows.                                   *)

Unchanged == sessions' = sessions
Issues(c) == /\ call[c].phase = "issuing"
             /\ sessions' = Append(sessions, Row(NextSession, 0, call[c].version))
Rotates(c) == /\ call[c].phase = "rotating"
              /\ sessions' = Append([sessions EXCEPT ![call[c].session] =
                                       Replaced(sessions[call[c].session])],
                                    Successor(call[c].session, call[c].version))
Revokes(c) ==
  /\ call[c].phase \in {"reused", "ending"}
  /\ \E reason \in Reasons \ {"no"} :
       sessions' = Revoked(sessions[call[c].session].family, reason)

\* The steps of a call that leave the rows alone, and those of the world.
Reads(c) ==
  \/ BeginLogin(c) \/ RefuseLogin(c) \/ WrongPassword(c) \/ RightPassword(c)
  \/ LoadUser(c) \/ RefuseRefresh(c) \/ CallFails(c) \/ LoseAnswer(c) \/ Deliver(c)
  \/ \E n \in DOMAIN sessions : FindSession(c, n) \/ FindLogout(c, n)

LEMMA StepsOfNext ==
  ASSUME AuthNext
  PROVE  \/ \E c \in Calls : \/ Reads(c) \/ IssuePair(c) \/ Rotate(c)
                             \/ RevokeFamily(c) \/ EndFamily(c)
         \/ Environment
BY DEF AuthNext, Work, Reads

LEMMA ReadsKeepRows == ASSUME NEW c \in Calls, Reads(c) PROVE UNCHANGED <<sessions, lapsed>>
BY DEF Reads, BeginLogin, RefuseLogin, WrongPassword, RightPassword, LoadUser,
   RefuseRefresh, CallFails, LoseAnswer, Deliver, FindSession, FindLogout

LEMMA WorldKeepsRows == ASSUME Environment PROVE UNCHANGED <<sessions, call>>
BY DEF Environment, LockLapses, SessionLapses, SetActive

LEMMA WritesAreKnown ==
  ASSUME NEW c \in Calls
  PROVE  /\ IssuePair(c) => Issues(c)
         /\ Rotate(c) => Rotates(c)
         /\ RevokeFamily(c) \/ EndFamily(c) => Revokes(c)
<1>1. {"TOKEN_REUSE", "LOGOUT"} \subseteq Reasons \ {"no"}
  BY DEF Reasons
<1> QED
  BY <1>1 DEF IssuePair, Issues, Rotate, Rotates, RevokeFamily, EndFamily, Revokes

----------------------------------------------------------------------------
(* Types, and the sessions the calls hold.                                 *)

Holding == {"found", "rotating", "reused", "ending"}
SessionsHeld == \A c \in Calls : call[c].phase \in Holding => call[c].session \in DOMAIN sessions
Types == AuthTypeOK /\ SessionsHeld

LEMMA RowsAreTyped ==
  ASSUME sessions \in Seq(SessionRow)
  PROVE  /\ Len(sessions) \in Nat
         /\ DOMAIN sessions = 1..Len(sessions)
         /\ \A n \in 1..Len(sessions) : sessions[n] \in SessionRow
BY LenProperties, ElementOfSeq

LEMMA RowTypes ==
  ASSUME Len(sessions) \in Nat
  PROVE  /\ \A f, n, v \in Nat : Row(f, n, v) \in SessionRow
         /\ \A row \in SessionRow : Replaced(row) \in SessionRow
         /\ \A row \in SessionRow, reason \in Reasons :
              [row EXCEPT !.revoked = reason] \in SessionRow
<1>1. \A f, n, v \in Nat : Row(f, n, v) \in SessionRow
  BY DEF Row, SessionRow, Reasons
<1>2. ASSUME NEW row \in SessionRow PROVE Replaced(row) \in SessionRow
  <2>1. Len(sessions) + 1 \in Nat
    OBVIOUS
  <2> QED BY <1>2, <2>1 DEF Replaced, NextSession, SessionRow, Reasons
<1>3. \A row \in SessionRow, reason \in Reasons :
        [row EXCEPT !.revoked = reason] \in SessionRow
  BY DEF SessionRow
<1> QED
  BY <1>1, <1>2, <1>3

\* A new row behind the others, which stay.
LEMMA IssueRows ==
  ASSUME Types, NEW c \in Calls, Issues(c)
  PROVE  /\ sessions' \in Seq(SessionRow)
         /\ Len(sessions') = Len(sessions) + 1
         /\ \A n \in 1..Len(sessions) : sessions'[n] = sessions[n]
         /\ sessions'[Len(sessions) + 1] = Row(Len(sessions) + 1, 0, call[c].version)
<1>1. sessions \in Seq(SessionRow) /\ Len(sessions) \in Nat
  BY RowsAreTyped DEF Types, AuthTypeOK
<1>2. call[c].version \in Nat
  BY DEF Types, AuthTypeOK, Call
<1> DEFINE row == Row(NextSession, 0, call[c].version)
<1>3. row \in SessionRow
  <2>1. NextSession \in Nat /\ 0 \in Nat
    BY <1>1 DEF NextSession
  <2>2. \A f, n, v \in Nat : Row(f, n, v) \in SessionRow
    BY <1>1, RowTypes
  <2> QED BY ONLY <1>2, <2>1, <2>2 DEF row
<1>4. sessions' = Append(sessions, row)
  BY DEF Issues
<1> HIDE DEF row
<1>5. /\ sessions' \in Seq(SessionRow)
      /\ Len(sessions') = Len(sessions) + 1
      /\ \A n \in 1..Len(sessions) : sessions'[n] = sessions[n]
      /\ sessions'[Len(sessions) + 1] = row
  BY <1>1, <1>3, <1>4, AppendProperties
<1> QED
  BY <1>5 DEF row, NextSession

LEMMA RotateRows ==
  ASSUME Types, NEW c \in Calls, Rotates(c)
  PROVE  /\ sessions' \in Seq(SessionRow)
         /\ Len(sessions') = Len(sessions) + 1
         /\ call[c].session \in 1..Len(sessions)
         /\ \A n \in 1..Len(sessions) :
              sessions'[n] = IF n = call[c].session THEN Replaced(sessions[n])
                             ELSE sessions[n]
         /\ sessions'[Len(sessions) + 1] = Successor(call[c].session, call[c].version)
<1> DEFINE old == call[c].session
           parent == Replaced(sessions[old])
           child == Successor(old, call[c].version)
           left == [sessions EXCEPT ![old] = parent]
<1>1. /\ sessions \in Seq(SessionRow)
      /\ Len(sessions) \in Nat
      /\ DOMAIN sessions = 1..Len(sessions)
      /\ \A n \in 1..Len(sessions) : sessions[n] \in SessionRow
  BY RowsAreTyped DEF Types, AuthTypeOK
<1>2. old \in 1..Len(sessions)
  BY <1>1 DEF Types, SessionsHeld, Holding, Rotates
<1>3. call[c].version \in Nat
  BY DEF Types, AuthTypeOK, Call
<1>4. sessions[old] \in SessionRow
  BY <1>1, <1>2
<1>5. parent \in SessionRow /\ child \in SessionRow
  <2>1. sessions[old].family \in Nat /\ old \in Nat
    BY <1>1, <1>2, <1>4 DEF SessionRow
  <2> QED BY <1>1, <1>3, <1>4, <2>1, RowTypes DEF Successor
<1>6. sessions' = Append(left, child)
  BY DEF Rotates
<1>7. \A n \in 1..Len(sessions) : (IF n = old THEN parent ELSE sessions[n])
                                    = IF n = old THEN Replaced(sessions[n]) ELSE sessions[n]
  OBVIOUS
<1> HIDE DEF parent, child, old
<1>8. /\ left \in Seq(SessionRow)
      /\ Len(left) = Len(sessions)
      /\ \A n \in 1..Len(sessions) : left[n] = IF n = old THEN parent ELSE sessions[n]
  BY <1>1, <1>2, <1>5, ExceptSeq
<1> HIDE DEF left
<1>9. /\ sessions' \in Seq(SessionRow)
      /\ Len(sessions') = Len(left) + 1
      /\ \A n \in 1..Len(left) : sessions'[n] = left[n]
      /\ sessions'[Len(left) + 1] = child
  BY <1>5, <1>6, <1>8, AppendProperties
<1>10. \A n \in 1..Len(sessions) :
         sessions'[n] = IF n = old THEN Replaced(sessions[n]) ELSE sessions[n]
  BY <1>7, <1>8, <1>9
<1>11. sessions'[Len(sessions) + 1] = child
  BY <1>8, <1>9
<1> QED
  BY <1>2, <1>8, <1>9, <1>10, <1>11 DEF child, old

LEMMA RevokeRows ==
  ASSUME Types, NEW c \in Calls, Revokes(c)
  PROVE  /\ sessions' \in Seq(SessionRow)
         /\ Len(sessions') = Len(sessions)
         /\ \E reason \in Reasons \ {"no"}, f \in Nat : \A n \in 1..Len(sessions) :
              sessions'[n] = IF n \in LiveIn(f)
                             THEN [sessions[n] EXCEPT !.revoked = reason]
                             ELSE sessions[n]
<1>1. /\ sessions \in Seq(SessionRow)
      /\ Len(sessions) \in Nat
      /\ DOMAIN sessions = 1..Len(sessions)
      /\ \A n \in 1..Len(sessions) : sessions[n] \in SessionRow
  BY RowsAreTyped DEF Types, AuthTypeOK
<1>2. call[c].session \in 1..Len(sessions)
  BY <1>1 DEF Types, SessionsHeld, Holding, Revokes
<1> DEFINE f == sessions[call[c].session].family
<1>3. f \in Nat
  BY <1>1, <1>2 DEF SessionRow
<1>4. PICK reason \in Reasons \ {"no"} : sessions' = Revoked(f, reason)
  BY DEF Revokes
<1> HIDE DEF f
<1>5. sessions' = [n \in 1..Len(sessions) |->
                     IF n \in LiveIn(f) THEN [sessions[n] EXCEPT !.revoked = reason]
                     ELSE sessions[n]]
  BY <1>1, <1>4 DEF Revoked
<1>6. \A n \in 1..Len(sessions) : [sessions[n] EXCEPT !.revoked = reason] \in SessionRow
  BY <1>1, RowTypes
<1>7. sessions' \in [1..Len(sessions) -> SessionRow]
  BY <1>1, <1>5, <1>6
<1>8. sessions' \in Seq(SessionRow)
  <2>1. Seq(SessionRow) = UNION {[1..n -> SessionRow] : n \in Nat}
    BY SeqDef
  <2>2. sessions' \in UNION {[1..n -> SessionRow] : n \in Nat}
    BY ONLY <1>1, <1>7, Zenon
  <2> QED BY ONLY <2>1, <2>2, Zenon
<1>9. Len(sessions') = Len(sessions)
  <2>1. DOMAIN sessions' = 1..Len(sessions)
    BY <1>7
  <2>2. Len(sessions') \in Nat /\ DOMAIN sessions' = 1..Len(sessions')
    BY <1>8, LenProperties
  <2> QED BY <1>1, <2>1, <2>2
<1>10. \A n \in 1..Len(sessions) :
         sessions'[n] = IF n \in LiveIn(f)
                        THEN [sessions[n] EXCEPT !.revoked = reason]
                        ELSE sessions[n]
  BY <1>5
<1> QED
  BY <1>3, <1>8, <1>9, <1>10

----------------------------------------------------------------------------
(* Types are kept.                                                         *)

LEMMA CallsAreTyped ==
  ASSUME call \in [Calls -> Call], account \in Account, Len(sessions) \in Nat,
         NEW c \in Calls
  PROVE  /\ \A phase \in {"idle"} \cup Working \cup Ended :
              Becomes(c, phase) => call' \in [Calls -> Call]
         /\ \A row \in Call : call' = [call EXCEPT ![c] = row] => call' \in [Calls -> Call]
         /\ IssuePair(c) \/ Rotate(c) \/ LoadUser(c) => call' \in [Calls -> Call]
<1>1. call[c] \in Call
  OBVIOUS
<1>2. \A row \in Call : [call EXCEPT ![c] = row] \in [Calls -> Call]
  OBVIOUS
<1>3. ASSUME NEW phase \in {"idle"} \cup Working \cup Ended
      PROVE  [call[c] EXCEPT !.phase = phase] \in Call
  BY <1>1, <1>3 DEF Call
<1>4. [call[c] EXCEPT !.phase = "answered", !.session = NextSession] \in Call
  <2>1. NextSession \in Nat /\ "answered" \in {"idle"} \cup Working \cup Ended
    BY DEF NextSession, Ended
  <2> QED BY <1>1, <2>1 DEF Call
<1>5. [call[c] EXCEPT !.phase = "rotating", !.version = account.tokenVersion] \in Call
  BY <1>1 DEF Call, Working, Account
<1>6. \A phase : Becomes(c, phase) =>
        call' = [call EXCEPT ![c] = [call[c] EXCEPT !.phase = phase]]
  BY DEF Becomes
<1>7. IssuePair(c) \/ Rotate(c) =>
        call' = [call EXCEPT ![c] = [call[c] EXCEPT !.phase = "answered",
                                                    !.session = NextSession]]
  BY DEF IssuePair, Rotate
<1>8. LoadUser(c) =>
        call' = [call EXCEPT ![c] = [call[c] EXCEPT !.phase = "rotating",
                                                    !.version = account.tokenVersion]]
  BY DEF LoadUser
<1> QED
  BY <1>2, <1>3, <1>4, <1>5, <1>6, <1>7, <1>8

LEMMA NewCallsAreTyped ==
  ASSUME account \in Account, NEW n \in Nat, NEW phase \in Working
  PROVE  /\ [phase |-> phase, session |-> n, version |-> 0, failures |-> 0] \in Call
         /\ [phase |-> phase, session |-> n, version |-> account.tokenVersion,
             failures |-> account.failures] \in Call
         /\ NoCall \in Call
BY DEF Call, NoCall, Account

LEMMA CallTypesKept ==
  ASSUME Types, NEW c \in Calls,
         Reads(c) \/ IssuePair(c) \/ Rotate(c) \/ RevokeFamily(c) \/ EndFamily(c)
  PROVE  call' \in [Calls -> Call]
<1>1. /\ call \in [Calls -> Call] /\ account \in Account /\ Len(sessions) \in Nat
      /\ DOMAIN sessions \subseteq Nat
  BY RowsAreTyped DEF Types, AuthTypeOK
<1>2. {"verifying", "issuing", "found", "rotating", "reused", "ending"} = Working
  BY DEF Working
<1>3. \A phase \in {"refused", "issuing", "lost", "answered"} :
        Becomes(c, phase) => call' \in [Calls -> Call]
  BY <1>1, CallsAreTyped DEF Working, Ended
<1>4. \A row \in Call : call' = [call EXCEPT ![c] = row] => call' \in [Calls -> Call]
  BY <1>1, CallsAreTyped
<1>5. CASE IssuePair(c) \/ Rotate(c) \/ LoadUser(c)
  BY <1>1, <1>5, CallsAreTyped
<1>6. CASE RefuseLogin(c) \/ WrongPassword(c) \/ RightPassword(c) \/ RefuseRefresh(c)
             \/ RevokeFamily(c) \/ EndFamily(c) \/ CallFails(c) \/ LoseAnswer(c)
  BY <1>3, <1>6 DEF RefuseLogin, WrongPassword, RightPassword, RefuseRefresh,
     RevokeFamily, EndFamily, CallFails, LoseAnswer
<1>7. CASE BeginLogin(c)
  <2> DEFINE row == [phase |-> "verifying", session |-> 0,
                     version |-> account.tokenVersion, failures |-> account.failures]
  <2>1. row \in Call
    BY <1>1, <1>2, NewCallsAreTyped
  <2>2. call' = [call EXCEPT ![c] = row]
    BY <1>7 DEF BeginLogin
  <2> QED BY <1>4, <2>1, <2>2
<1>8. CASE Deliver(c)
  BY <1>1, <1>2, <1>4, <1>8, NewCallsAreTyped DEF Deliver
<1>9. ASSUME NEW n \in DOMAIN sessions, FindSession(c, n) \/ FindLogout(c, n)
      PROVE  call' \in [Calls -> Call]
  <2> DEFINE row(phase) == [phase |-> phase, session |-> n, version |-> 0, failures |-> 0]
  <2>1. row("reused") \in Call /\ row("found") \in Call /\ row("ending") \in Call
    BY <1>1, <1>2, <1>9, NewCallsAreTyped
  <2>2. \E phase \in {"reused", "found", "ending"} : call' = [call EXCEPT ![c] = row(phase)]
    BY <1>9 DEF FindSession, FindLogout
  <2> QED BY <1>4, <2>1, <2>2
<1> QED
  BY <1>5, <1>6, <1>7, <1>8, <1>9 DEF Reads

\* A call keeps hold of a session until it ends.
LEMMA HeldKept ==
  ASSUME Types, NEW c \in Calls,
         Reads(c) \/ IssuePair(c) \/ Rotate(c) \/ RevokeFamily(c) \/ EndFamily(c)
  PROVE  \A d \in Calls : call'[d].phase \in Holding =>
           call'[d].session \in DOMAIN sessions
<1>1. /\ call \in [Calls -> Call]
      /\ \A d \in Calls : call[d].phase \in Holding => call[d].session \in DOMAIN sessions
  BY DEF Types, AuthTypeOK, SessionsHeld
<1>2. \A d \in Calls : d # c => call'[d] = call[d]
  BY <1>1 DEF Reads, BeginLogin, RefuseLogin, WrongPassword, RightPassword, LoadUser,
     RefuseRefresh, CallFails, LoseAnswer, Deliver, FindSession, FindLogout,
     IssuePair, Rotate, RevokeFamily, EndFamily, Becomes
<1>3. call[c] \in Call
  BY <1>1
<1>4. call'[c].phase \in Holding => call'[c].session \in DOMAIN sessions
  <2>1. CASE LoadUser(c)
    BY <1>1, <1>3, <2>1 DEF LoadUser, Call, Holding
  <2>2. CASE \E n \in DOMAIN sessions : FindSession(c, n) \/ FindLogout(c, n)
    BY <1>1, <2>2 DEF FindSession, FindLogout
  <2>3. CASE ~LoadUser(c) /\ ~\E n \in DOMAIN sessions : FindSession(c, n) \/ FindLogout(c, n)
    BY <1>1, <1>3, <2>3 DEF Reads, BeginLogin, RefuseLogin, WrongPassword, RightPassword,
       RefuseRefresh, CallFails, LoseAnswer, Deliver, IssuePair, Rotate, RevokeFamily,
       EndFamily, Becomes, Holding, NoCall, Call
  <2> QED BY <2>1, <2>2, <2>3
<1> QED
  BY <1>1, <1>2, <1>4

LEMMA AccountTypesKept ==
  ASSUME Types, AuthNext
  PROVE  /\ account' \in Account
         /\ attempts' \in [count : Nat, overlapped : BOOLEAN]
<1>1. /\ account \in Account /\ call \in [Calls -> Call]
      /\ attempts \in [count : Nat, overlapped : BOOLEAN]
  BY DEF Types, AuthTypeOK
<1>2. \A n \in Nat : Counts(n) => attempts' \in [count : Nat, overlapped : BOOLEAN]
  BY <1>1 DEF Counts
<1>3. attempts.count + 1 \in Nat /\ 0 \in Nat
  BY <1>1
<1>4. ASSUME NEW c \in Calls, WrongPassword(c)
      PROVE  /\ account' \in Account
             /\ attempts' \in [count : Nat, overlapped : BOOLEAN]
  <2>1. call[c].failures + 1 \in Nat
    BY <1>1 DEF Call
  <2>2. LockAt(call[c].failures + 1) \in Locks
    BY DEF LockAt, Locks
  <2>3. [account EXCEPT !.failures = call[c].failures + 1,
                        !.lock = LockAt(call[c].failures + 1)] \in Account
    BY <1>1, <2>1, <2>2 DEF Account
  <2> QED BY <1>2, <1>3, <1>4, <2>3 DEF WrongPassword
<1>5. ASSUME NEW c \in Calls, RightPassword(c)
      PROVE  /\ account' \in Account
             /\ attempts' \in [count : Nat, overlapped : BOOLEAN]
  <2>1. [account EXCEPT !.failures = 0, !.lock = "null"] \in Account
    BY <1>1 DEF Account, Locks
  <2> QED BY <1>2, <1>3, <1>5, <2>1 DEF RightPassword
<1>6. ASSUME NEW c \in Calls, BeginLogin(c)
      PROVE  /\ account' \in Account
             /\ attempts' \in [count : Nat, overlapped : BOOLEAN]
  BY <1>1, <1>6 DEF BeginLogin, Overlapped
<1>7. ASSUME NEW c \in Calls, RevokeFamily(c)
      PROVE  /\ account' \in Account
             /\ attempts' \in [count : Nat, overlapped : BOOLEAN]
  <2>1. [account EXCEPT !.tokenVersion = @ + 1] \in Account
    BY <1>1 DEF Account
  <2> QED BY <1>1, <1>7, <2>1 DEF RevokeFamily
<1>8. ASSUME Environment
      PROVE  /\ account' \in Account
             /\ attempts' \in [count : Nat, overlapped : BOOLEAN]
  <2>1. [account EXCEPT !.lock = "past"] \in Account
    BY <1>1 DEF Account, Locks
  <2>2. \A active \in BOOLEAN : [account EXCEPT !.active = active] \in Account
    BY <1>1 DEF Account
  <2> QED BY <1>1, <1>2, <1>3, <1>8, <2>1, <2>2
          DEF Environment, LockLapses, SessionLapses, SetActive
<1>9. ASSUME NEW c \in Calls, AuthNext,
             ~WrongPassword(c), ~RightPassword(c), ~BeginLogin(c), ~RevokeFamily(c),
             Reads(c) \/ IssuePair(c) \/ Rotate(c) \/ EndFamily(c)
      PROVE  UNCHANGED <<account, attempts>>
  BY <1>9 DEF Reads, RefuseLogin, LoadUser, RefuseRefresh, CallFails, LoseAnswer, Deliver,
     FindSession, FindLogout, IssuePair, Rotate, EndFamily
<1> QED
  BY <1>1, <1>4, <1>5, <1>6, <1>7, <1>8, <1>9, StepsOfNext

LEMMA TypesInit == AuthInit => Types
<1> SUFFICES ASSUME AuthInit PROVE Types
  OBVIOUS
<1>1. NoCall \in Call /\ NoCall.phase \notin Holding
  BY DEF NoCall, Call, Holding
<1>2. sessions \in Seq(SessionRow) /\ Len(sessions) = 0
  BY EmptySeq DEF AuthInit
<1>3. account \in Account
  BY DEF AuthInit, Account, Locks
<1>4. call \in [Calls -> Call] /\ \A c \in Calls : call[c] = NoCall
  BY <1>1 DEF AuthInit
<1>5. lapsed \in 0..Len(sessions) /\ attempts \in [count : Nat, overlapped : BOOLEAN]
  BY <1>2 DEF AuthInit
<1> QED
  BY <1>1, <1>2, <1>3, <1>4, <1>5 DEF Types, AuthTypeOK, SessionsHeld

LEMMA TypesNext == Types /\ [AuthNext]_authVars => Types'
<1> SUFFICES ASSUME Types, [AuthNext]_authVars PROVE Types'
  OBVIOUS
<1>1. /\ sessions \in Seq(SessionRow) /\ Len(sessions) \in Nat
      /\ DOMAIN sessions = 1..Len(sessions) /\ lapsed \in 0..Len(sessions)
  BY RowsAreTyped DEF Types, AuthTypeOK
<1>2. CASE UNCHANGED authVars
  BY <1>2 DEF Types, AuthTypeOK, SessionsHeld
<1>3. CASE AuthNext
  <2>1. account' \in Account /\ attempts' \in [count : Nat, overlapped : BOOLEAN]
    BY <1>3, AccountTypesKept
  <2>2. ASSUME NEW c \in Calls,
               Reads(c) \/ IssuePair(c) \/ Rotate(c) \/ RevokeFamily(c) \/ EndFamily(c)
        PROVE  Types'
    <3>1. call' \in [Calls -> Call]
      BY <2>2, CallTypesKept
    <3>2. /\ sessions' \in Seq(SessionRow)
          /\ Len(sessions') \in {Len(sessions), Len(sessions) + 1}
      <4>1. CASE Reads(c)
        BY <1>1, <4>1, ReadsKeepRows
      <4>2. CASE IssuePair(c)
        BY <4>2, WritesAreKnown, IssueRows
      <4>3. CASE Rotate(c)
        BY <4>3, WritesAreKnown, RotateRows
      <4>4. CASE RevokeFamily(c) \/ EndFamily(c)
        BY <4>4, WritesAreKnown, RevokeRows
      <4> QED BY <2>2, <4>1, <4>2, <4>3, <4>4
    <3>3. lapsed' = lapsed
      BY <2>2, ReadsKeepRows DEF IssuePair, Rotate, RevokeFamily, EndFamily
    <3>4. DOMAIN sessions' = 1..Len(sessions')
      BY <3>2, LenProperties
    <3>5. DOMAIN sessions \subseteq DOMAIN sessions'
      <4>1. 1..Len(sessions) \subseteq 1..Len(sessions')
        BY <1>1, <3>2
      <4> QED BY ONLY <1>1, <3>4, <4>1
    <3>6. SessionsHeld'
      BY <2>2, <3>5, HeldKept DEF SessionsHeld
    <3>7. lapsed' \in 0..Len(sessions')
      BY <1>1, <3>2, <3>3
    <3> QED BY <2>1, <3>1, <3>2, <3>6, <3>7 DEF Types, AuthTypeOK
  <2>3. CASE Environment
    <3>1. UNCHANGED <<sessions, call>>
      BY <2>3, WorldKeepsRows
    <3>2. lapsed' \in 0..Len(sessions')
      BY <1>1, <2>3 DEF Environment, LockLapses, SessionLapses, SetActive
    <3> QED BY <2>1, <3>1, <3>2 DEF Types, AuthTypeOK, SessionsHeld
  <2> QED BY <1>3, <2>2, <2>3, StepsOfNext
<1> QED
  BY <1>2, <1>3

\* The rows of the backend are typed, and a call that works on a session
\* works on a stored one.
THEOREM AuthIsTyped == AuthSpec => []AuthTypeOK
<1>1. Types => AuthTypeOK
  BY DEF Types
<1> QED
  BY <1>1, TypesInit, TypesNext, PTL DEF AuthSpec
----------------------------------------------------------------------------
(* The chains of a login.                                                  *)

\* A login's first session names the family; every later one has a parent.
Rooted ==
  \A n \in DOMAIN sessions :
    /\ sessions[n].family \in 1..n
    /\ sessions[n].parent = 0 => sessions[n].family = n

\* While a login is not forked, all its sessions but the newest have a successor.
Succeeded ==
  \A f \in Nat : ~Forked(f) =>
    \A m, n \in Family(f) : m < n => \E k \in Family(f) : sessions[k].parent = m

Chains == ChainsAreTrue /\ Rooted /\ Succeeded

LEMMA ChainsInit == AuthInit => Chains
<1> SUFFICES ASSUME AuthInit PROVE Chains
  OBVIOUS
<1>1. DOMAIN sessions = {}
  BY EmptySeq DEF AuthInit
<1> QED
  BY <1>1 DEF Chains, ChainsAreTrue, Rooted, Succeeded, Family

\* How the rows of a step relate to those before it, whichever step it is:
\* rows are never removed, moved or made usable again.
Kept(n) == /\ sessions'[n].family = sessions[n].family
           /\ sessions'[n].parent = sessions[n].parent
           /\ ~Live(n) => sessions'[n].revoked # "no"

\* A step that adds no row.
LEMMA ChainsWithoutRow ==
  ASSUME Types, Types', Chains, Len(sessions') = Len(sessions),
         \A n \in 1..Len(sessions) :
           Kept(n) /\ sessions'[n].replacedBy = sessions[n].replacedBy
  PROVE  Chains'
<1>1. /\ Len(sessions) \in Nat
      /\ DOMAIN sessions = 1..Len(sessions) /\ DOMAIN sessions' = 1..Len(sessions)
      /\ \A n \in 1..Len(sessions) : sessions[n] \in SessionRow
  BY RowsAreTyped, LenProperties DEF Types, AuthTypeOK
<1>2. \A f \in Nat : Family(f)' = Family(f)
  BY <1>1 DEF Family, Kept
<1>3. \A f \in Nat : Forked(f)' <=> Forked(f)
  BY <1>1, <1>2 DEF Forked, Family, Kept
<1>4. ChainsAreTrue'
  BY <1>1 DEF Chains, ChainsAreTrue, Rooted, Kept, Live
<1>5. Rooted'
  BY <1>1 DEF Chains, Rooted, Kept
<1>6. Succeeded'
  <2> SUFFICES ASSUME NEW f \in Nat, ~Forked(f)', NEW m \in Family(f), NEW n \in Family(f), m < n
               PROVE  \E k \in Family(f) : sessions'[k].parent = m
    BY <1>2 DEF Succeeded
  <2>1. PICK k \in Family(f) : sessions[k].parent = m
    BY <1>3 DEF Chains, Succeeded
  <2> QED BY <1>1, <2>1 DEF Family, Kept
<1> QED
  BY <1>4, <1>5, <1>6 DEF Chains

LEMMA ChainsIssue ==
  ASSUME Types, Types', Chains, NEW c \in Calls, Issues(c)
  PROVE  Chains'
<1> DEFINE new == Len(sessions) + 1
<1>1. /\ Len(sessions) \in Nat /\ Len(sessions') = new
      /\ DOMAIN sessions = 1..Len(sessions) /\ DOMAIN sessions' = 1..new
      /\ \A n \in 1..Len(sessions) : sessions[n] \in SessionRow
  BY RowsAreTyped, IssueRows, LenProperties DEF Types, AuthTypeOK
<1>2. /\ \A n \in 1..Len(sessions) : sessions'[n] = sessions[n]
      /\ sessions'[new].family = new /\ sessions'[new].parent = 0
      /\ sessions'[new].replacedBy = 0
  <2>1. /\ \A n \in 1..Len(sessions) : sessions'[n] = sessions[n]
        /\ sessions'[new] = Row(new, 0, call[c].version)
    BY IssueRows
  <2> QED BY ONLY <2>1 DEF Row
<1>3. Rooted'
  BY <1>1, <1>2 DEF Chains, Rooted
<1>4. ChainsAreTrue'
  BY <1>1, <1>2 DEF Chains, ChainsAreTrue, Rooted, Live
<1>5. \A f \in Nat : f # new => Family(f)' = Family(f)
  BY <1>1, <1>2 DEF Family
<1>6. \A f \in Nat : f = new => Family(f)' = {f}
  <2>1. \A n \in 1..Len(sessions) : sessions[n].family < new
    BY <1>1 DEF Chains, Rooted
  <2>2. \A n \in 1..new : sessions'[n].family = new => n = new
    BY <1>1, <1>2, <2>1
  <2> QED BY <1>1, <1>2, <2>2 DEF Family
<1>7. Succeeded'
  <2> SUFFICES ASSUME NEW f \in Nat, ~Forked(f)', NEW m \in Family(f)', NEW n \in Family(f)',
                      m < n
               PROVE  \E k \in Family(f)' : sessions'[k].parent = m
    BY DEF Succeeded
  <2>1. f # new
    BY <1>1, <1>6
  <2>2. m \in Family(f) /\ n \in Family(f) /\ Family(f)' = Family(f)
    BY <1>5, <2>1
  <2>3. \A k \in Family(f) : k \in 1..Len(sessions) /\ sessions'[k] = sessions[k]
    BY <1>1, <1>2 DEF Family
  <2>4. ~Forked(f)
    BY <2>2, <2>3 DEF Forked
  <2>5. PICK k \in Family(f) : sessions[k].parent = m
    BY <2>2, <2>4 DEF Chains, Succeeded
  <2> QED BY <2>2, <2>3, <2>5
<1> QED
  BY <1>3, <1>4, <1>7 DEF Chains

LEMMA ChainsRotate ==
  ASSUME Types, Types', Chains, NEW c \in Calls, Rotates(c)
  PROVE  Chains'
<1> DEFINE new == Len(sessions) + 1
           old == call[c].session
<1>1. /\ Len(sessions) \in Nat /\ Len(sessions') = new
      /\ DOMAIN sessions = 1..Len(sessions) /\ DOMAIN sessions' = 1..new
      /\ \A n \in 1..Len(sessions) : sessions[n] \in SessionRow
      /\ old \in 1..Len(sessions)
  BY RowsAreTyped, RotateRows, LenProperties DEF Types, AuthTypeOK
<1>2. /\ sessions'[new].family = sessions[old].family
      /\ sessions'[new].parent = old
      /\ sessions'[new].replacedBy = 0
  <2>1. sessions'[new] = Row(sessions[old].family, old, call[c].version)
    BY RotateRows DEF Successor
  <2> QED BY ONLY <2>1 DEF Row
<1>3. ASSUME NEW n \in 1..Len(sessions)
      PROVE  /\ Kept(n)
             /\ n # old => sessions'[n] = sessions[n]
             /\ n = old => sessions'[n].replacedBy = new /\ sessions'[n].revoked # "no"
  <2>1. sessions'[n] = IF n = old THEN Replaced(sessions[n]) ELSE sessions[n]
    BY RotateRows
  <2>2. sessions[n] \in SessionRow
    BY <1>1
  <2> QED BY <2>1, <2>2 DEF Replaced, Kept, Live, SessionRow, NextSession
<1>4. Rooted'
  BY <1>1, <1>2, <1>3 DEF Chains, Rooted, Kept
<1>5. ChainsAreTrue'
  <2> SUFFICES ASSUME NEW n \in 1..new
               PROVE  /\ sessions'[n].parent # 0 =>
                           /\ sessions'[n].parent \in 1..(n - 1)
                           /\ sessions'[sessions'[n].parent].family = sessions'[n].family
                           /\ sessions'[sessions'[n].parent].revoked # "no"
                      /\ sessions'[n].replacedBy # 0 =>
                           /\ sessions'[n].replacedBy \in 1..new
                           /\ sessions'[sessions'[n].replacedBy].parent = n
    BY <1>1 DEF ChainsAreTrue, Live
  <2>1. CASE n = new
    BY <1>1, <1>2, <1>3, <2>1 DEF Kept
  <2>2. CASE n # new
    <3>1. n \in 1..Len(sessions)
      BY <1>1, <2>2
    <3>2. sessions'[n].parent # 0 =>
            /\ sessions'[n].parent \in 1..(n - 1)
            /\ sessions'[sessions'[n].parent].family = sessions'[n].family
            /\ sessions'[sessions'[n].parent].revoked # "no"
      BY <1>1, <1>3, <3>1 DEF Chains, ChainsAreTrue, Kept
    <3>3. CASE n = old
      BY <1>1, <1>2, <1>3, <3>1, <3>2, <3>3
    <3>4. CASE n # old
      <4>1. sessions'[n] = sessions[n]
        BY <1>3, <3>1, <3>4
      <4>2. sessions[n].replacedBy # 0 =>
              /\ sessions[n].replacedBy \in 1..Len(sessions)
              /\ sessions[sessions[n].replacedBy].parent = n
        BY <1>1, <3>1 DEF Chains, ChainsAreTrue
      <4> QED BY <1>1, <1>3, <3>2, <4>1, <4>2 DEF Kept
    <3> QED BY <3>3, <3>4
  <2> QED BY <2>1, <2>2
<1>6. Succeeded'
  <2> SUFFICES ASSUME NEW f \in Nat, ~Forked(f)', NEW m \in Family(f)', NEW n \in Family(f)',
                      m < n
               PROVE  \E k \in Family(f)' : sessions'[k].parent = m
    BY DEF Succeeded
  <2>1. Family(f) \subseteq Family(f)' /\ Family(f)' \subseteq Family(f) \cup {new}
    BY <1>1, <1>2, <1>3 DEF Family, Kept
  <2>2. \A k \in Family(f) : k \in 1..Len(sessions) /\ sessions'[k].parent = sessions[k].parent
    BY <1>1, <1>3 DEF Family, Kept
  <2>3. ~Forked(f)
    BY <2>1, <2>2 DEF Forked
  <2>4. \A j, k \in Family(f)' : sessions'[j].parent = sessions'[k].parent => j = k
    BY DEF Forked
  <2>5. new \in Family(f)' => old \in Family(f)
    BY <1>1, <1>2, <1>3 DEF Family, Kept
  <2>6. m \in Family(f)
    BY <1>1, <2>1, <2>2
  <2>7. CASE n # new
    <3>1. PICK k \in Family(f) : sessions[k].parent = m
      BY <2>1, <2>3, <2>6, <2>7 DEF Chains, Succeeded
    <3> QED BY <2>1, <2>2, <3>1
  <2>8. CASE n = new
    <3>1. new \in Family(f)' /\ old \in Family(f)
      BY <2>5, <2>8
    <3>2. CASE m = old
      BY <1>2, <3>1, <3>2
    <3>3. CASE m < old
      <4>1. PICK k \in Family(f) : sessions[k].parent = m
        BY <2>3, <2>6, <3>1, <3>3 DEF Chains, Succeeded
      <4> QED BY <2>1, <2>2, <4>1
    <3>4. CASE old < m
      <4>1. PICK k \in Family(f) : sessions[k].parent = old
        BY <2>3, <2>6, <3>1, <3>4 DEF Chains, Succeeded
      <4>2. k = new
        BY <1>2, <2>1, <2>2, <2>4, <3>1, <4>1
      <4> QED BY <1>1, <2>2, <4>1, <4>2
    <3> QED BY <1>1, <2>2, <2>6, <3>2, <3>3, <3>4
  <2> QED BY <2>7, <2>8
<1> QED
  BY <1>4, <1>5, <1>6 DEF Chains

LEMMA ChainsNext == Types /\ Types' /\ Chains /\ [AuthNext]_authVars => Chains'
<1> SUFFICES ASSUME Types, Types', Chains, [AuthNext]_authVars PROVE Chains'
  OBVIOUS
<1>1. \A n \in 1..Len(sessions) : sessions[n] \in SessionRow
  BY RowsAreTyped DEF Types, AuthTypeOK
<1>2. CASE sessions' = sessions
  BY <1>2, ChainsWithoutRow DEF Kept, Live
<1>3. ASSUME NEW c \in Calls, RevokeFamily(c) \/ EndFamily(c) PROVE Chains'
  <2>1. PICK reason \in Reasons \ {"no"}, f \in Nat :
          /\ Len(sessions') = Len(sessions)
          /\ \A n \in 1..Len(sessions) :
               sessions'[n] = IF n \in LiveIn(f)
                              THEN [sessions[n] EXCEPT !.revoked = reason]
                              ELSE sessions[n]
    BY <1>3, WritesAreKnown, RevokeRows
  <2>2. \A n \in 1..Len(sessions) :
          Kept(n) /\ sessions'[n].replacedBy = sessions[n].replacedBy
    <3> SUFFICES ASSUME NEW n \in 1..Len(sessions)
                 PROVE  Kept(n) /\ sessions'[n].replacedBy = sessions[n].replacedBy
      OBVIOUS
    <3>1. CASE n \in LiveIn(f)
      BY <1>1, <2>1, <3>1 DEF Kept, Live, SessionRow
    <3>2. CASE n \notin LiveIn(f)
      BY <2>1, <3>2 DEF Kept, Live
    <3> QED BY <3>1, <3>2
  <2> QED BY <2>1, <2>2, ChainsWithoutRow
<1>4. ASSUME NEW c \in Calls, IssuePair(c) PROVE Chains'
  BY <1>4, WritesAreKnown, ChainsIssue
<1>5. ASSUME NEW c \in Calls, Rotate(c) PROVE Chains'
  BY <1>5, WritesAreKnown, ChainsRotate
<1>6. ASSUME NEW c \in Calls, Reads(c) PROVE Chains'
  BY <1>2, <1>6, ReadsKeepRows
<1>7. CASE Environment
  BY <1>2, <1>7, WorldKeepsRows
<1>8. CASE UNCHANGED authVars
  BY <1>2, <1>8
<1> QED
  BY <1>3, <1>4, <1>5, <1>6, <1>7, <1>8, StepsOfNext

LEMMA AuthInvariant == AuthSpec => [](Types /\ Chains)
BY TypesInit, TypesNext, ChainsInit, ChainsNext, PTL DEF AuthSpec

\* Only rotated sessions have successors, in the same login, and the row of a
\* rotated session names one of them: what reuse detection relies on.
THEOREM AuthChains == AuthSpec => []ChainsAreTrue
<1>1. Types /\ Chains => ChainsAreTrue
  BY DEF Chains
<1> QED
  BY <1>1, AuthInvariant, PTL

\* A login has at most one usable refresh token unless one was rotated twice.
THEOREM AuthOneLive == AuthSpec => []OneLiveSession
<1>1. Types /\ Chains => OneLiveSession
  <2> SUFFICES ASSUME Types, Chains, NEW f \in DOMAIN sessions, ~Forked(f),
                      NEW m \in LiveIn(f), NEW n \in LiveIn(f), m # n
               PROVE  FALSE
    BY DEF OneLiveSession
  <2>1. /\ DOMAIN sessions \subseteq Nat
        /\ m \in Family(f) /\ n \in Family(f) /\ Live(m) /\ Live(n)
    BY RowsAreTyped DEF Types, AuthTypeOK, LiveIn, Family
  <2>2. \A i, j \in Family(f) : i < j => ~Live(i)
    <3> SUFFICES ASSUME NEW i \in Family(f), NEW j \in Family(f), i < j PROVE ~Live(i)
      OBVIOUS
    <3>1. PICK k \in Family(f) : sessions[k].parent = i
      BY <2>1 DEF Chains, Succeeded
    <3>2. i # 0 /\ k \in DOMAIN sessions
      BY RowsAreTyped DEF Types, AuthTypeOK, Family
    <3> QED BY <3>1, <3>2 DEF Chains, ChainsAreTrue
  <2>3. m < n \/ n < m
    BY <2>1 DEF Family
  <2> QED BY <2>1, <2>2, <2>3
<1> QED
  BY <1>1, AuthInvariant, PTL
----------------------------------------------------------------------------
(* Revocation.                                                             *)

LEMMA OthersStay ==
  ASSUME Types, NEW c \in Calls,
         Reads(c) \/ IssuePair(c) \/ Rotate(c) \/ RevokeFamily(c) \/ EndFamily(c),
         NEW d \in Calls, d # c
  PROVE  call'[d] = call[d]
<1>1. call \in [Calls -> Call]
  BY DEF Types, AuthTypeOK
<1> QED
  BY <1>1 DEF Reads, BeginLogin, RefuseLogin, WrongPassword, RightPassword, LoadUser,
     RefuseRefresh, CallFails, LoseAnswer, Deliver, FindSession, FindLogout,
     IssuePair, Rotate, RevokeFamily, EndFamily, Becomes

\* A call takes up a refresh only on a session that is live.
LEMMA RefreshesAreLive ==
  ASSUME Types, NEW c \in Calls,
         Reads(c) \/ IssuePair(c) \/ Rotate(c) \/ RevokeFamily(c) \/ EndFamily(c),
         call'[c].phase \in {"found", "rotating"}
  PROVE  \/ /\ call[c].phase \in {"found", "rotating"}
            /\ call'[c].session = call[c].session
         \/ call'[c].session \in DOMAIN sessions /\ Live(call'[c].session)
<1>1. call \in [Calls -> Call] /\ call[c] \in Call
  BY DEF Types, AuthTypeOK
<1>2. CASE LoadUser(c)
  BY <1>1, <1>2 DEF LoadUser, Call
<1>3. ASSUME NEW n \in DOMAIN sessions, FindSession(c, n)
      PROVE  call'[c].session \in DOMAIN sessions /\ Live(call'[c].session)
  BY <1>1, <1>3 DEF FindSession, Used
<1>4. ASSUME NEW n \in DOMAIN sessions, FindLogout(c, n) PROVE FALSE
  BY <1>1, <1>4 DEF FindLogout
<1>5. CASE BeginLogin(c) \/ RefuseLogin(c) \/ WrongPassword(c) \/ RightPassword(c)
             \/ RefuseRefresh(c) \/ CallFails(c) \/ LoseAnswer(c) \/ Deliver(c)
             \/ IssuePair(c) \/ Rotate(c) \/ RevokeFamily(c) \/ EndFamily(c)
  BY <1>1, <1>5 DEF BeginLogin, RefuseLogin, WrongPassword, RightPassword,
     RefuseRefresh, CallFails, LoseAnswer, Deliver, IssuePair, Rotate, RevokeFamily,
     EndFamily, Becomes, NoCall, Call
<1> QED
  BY <1>2, <1>3, <1>4, <1>5 DEF Reads

\* The rows of a quiet family: none joins it and none becomes live.
LEMMA QuietRows ==
  ASSUME Types, Types', Chains, NEW f \in DOMAIN sessions, Quiet(f), NEW c \in Calls,
         Reads(c) \/ IssuePair(c) \/ Rotate(c) \/ RevokeFamily(c) \/ EndFamily(c)
  PROVE  Family(f)' = Family(f) /\ LiveIn(f)' = {}
<1>1. /\ Len(sessions) \in Nat
      /\ DOMAIN sessions = 1..Len(sessions) /\ DOMAIN sessions' = 1..Len(sessions')
      /\ \A n \in 1..Len(sessions) : sessions[n] \in SessionRow
  BY RowsAreTyped, LenProperties DEF Types, AuthTypeOK
<1>2. \A n \in 1..Len(sessions) : sessions[n].family = f => ~Live(n)
  BY <1>1 DEF Quiet, LiveIn, Family
<1> SUFFICES /\ \A n \in 1..Len(sessions) :
                  /\ sessions'[n].family = sessions[n].family
                  /\ ~Live(n) => sessions'[n].revoked # "no"
             /\ \A n \in 1..Len(sessions') : n \notin 1..Len(sessions) =>
                  sessions'[n].family # f
             /\ 1..Len(sessions) \subseteq 1..Len(sessions')
  BY <1>1, <1>2 DEF Family, LiveIn, Live
<1>3. CASE Reads(c)
  BY <1>1, <1>3, ReadsKeepRows DEF Live
<1>4. CASE IssuePair(c)
  <2>1. Issues(c)
    BY <1>4, WritesAreKnown
  <2>2. sessions'[Len(sessions) + 1] = Row(Len(sessions) + 1, 0, call[c].version)
    BY <2>1, IssueRows
  <2>3. sessions'[Len(sessions) + 1].family = Len(sessions) + 1
    BY ONLY <2>2 DEF Row
  <2>4. /\ Len(sessions') = Len(sessions) + 1
        /\ \A n \in 1..Len(sessions) : sessions'[n] = sessions[n]
    BY <2>1, IssueRows
  <2>5. f # Len(sessions) + 1
    BY <1>1
  <2> QED BY <1>1, <2>3, <2>4, <2>5 DEF Live
<1>5. CASE Rotate(c)
  <2>1. Rotates(c) /\ call[c].phase = "rotating"
    BY <1>5, WritesAreKnown DEF Rotates
  <2>2. /\ Len(sessions') = Len(sessions) + 1
        /\ call[c].session \in 1..Len(sessions)
        /\ \A n \in 1..Len(sessions) :
             sessions'[n] = IF n = call[c].session THEN Replaced(sessions[n])
                            ELSE sessions[n]
        /\ sessions'[Len(sessions) + 1]
             = Row(sessions[call[c].session].family, call[c].session, call[c].version)
    BY <2>1, RotateRows DEF Successor
  <2>3. sessions'[Len(sessions) + 1].family = sessions[call[c].session].family
    BY ONLY <2>2 DEF Row
  <2>4. sessions[call[c].session].family # f
    BY <1>1, <2>1, <2>2 DEF Quiet, Family
  <2>5. \A row \in SessionRow : Replaced(row).family = row.family
                                  /\ Replaced(row).revoked = "ROTATED"
    BY DEF Replaced, SessionRow
  <2> QED BY <1>1, <2>2, <2>3, <2>4, <2>5 DEF Live
<1>6. CASE RevokeFamily(c) \/ EndFamily(c)
  <2>1. PICK reason \in Reasons \ {"no"}, g \in Nat :
          /\ Len(sessions') = Len(sessions)
          /\ \A n \in 1..Len(sessions) :
               sessions'[n] = IF n \in LiveIn(g)
                              THEN [sessions[n] EXCEPT !.revoked = reason]
                              ELSE sessions[n]
    BY <1>6, WritesAreKnown, RevokeRows
  <2>2. \A row \in SessionRow : /\ [row EXCEPT !.revoked = reason].family = row.family
                                /\ [row EXCEPT !.revoked = reason].revoked = reason
    BY DEF SessionRow
  <2> QED BY <1>1, <2>1, <2>2 DEF Live
<1> QED
  BY <1>3, <1>4, <1>5, <1>6

LEMMA QuietNext ==
  ASSUME Types, Types', Chains, [AuthNext]_authVars, NEW f \in DOMAIN sessions, Quiet(f)
  PROVE  Quiet(f)'
<1>1. CASE UNCHANGED <<sessions, call>>
  BY <1>1 DEF Quiet, LiveIn, Family, Live
<1>2. ASSUME NEW c \in Calls,
             Reads(c) \/ IssuePair(c) \/ Rotate(c) \/ RevokeFamily(c) \/ EndFamily(c)
      PROVE  Quiet(f)'
  <2>1. Family(f)' = Family(f) /\ LiveIn(f)' = {}
    BY <1>2, QuietRows
  <2>2. \A d \in Calls : call'[d].phase \in {"found", "rotating"} =>
          call'[d].session \notin Family(f)
    <3>1. \A d \in Calls : d # c => call'[d] = call[d]
      BY <1>2, OthersStay
    <3>2. call'[c].phase \in {"found", "rotating"} => call'[c].session \notin Family(f)
      BY <1>2, RefreshesAreLive DEF Quiet, LiveIn
    <3> QED BY <3>1, <3>2 DEF Quiet
  <2> QED BY <2>1, <2>2 DEF Quiet
<1>3. CASE UNCHANGED authVars
  BY <1>1, <1>3
<1>4. CASE Environment
  BY <1>1, <1>4, WorldKeepsRows
<1> QED
  BY <1>2, <1>3, <1>4, StepsOfNext

\* A login that is revoked with no refresh of it under way stays revoked.
THEOREM AuthRevokedForGood == AuthSpec => RevokedForGood
<1>1. Types /\ Types' /\ Chains /\ [AuthNext]_authVars =>
        [\A f \in DOMAIN sessions : Quiet(f) => Quiet(f)']_authVars
  BY QuietNext
<1> QED
  BY <1>1, AuthInvariant, PTL DEF AuthSpec, RevokedForGood

----------------------------------------------------------------------------
(* The lockout counter.                                                    *)

\* What a login that is alone knows: the counter it read is still the stored
\* one, and the wrong passwords in a row have all been counted.
Counted ==
  ~attempts.overlapped =>
    /\ \A c, d \in Verifying : c = d
    /\ \A c \in Verifying : call[c].failures = account.failures /\ account.lock # "future"
    /\ account.lock = "null" => /\ attempts.count <= account.failures
                                /\ account.failures < MaxAttempts
    /\ account.lock = "past" => attempts.count = 0
    /\ attempts.count <= MaxAttempts

LEMMA CountedInit == AuthInit => Counted
BY MaxAttemptsAssumption DEF AuthInit, Counted, Verifying, NoCall

\* Steps that concern neither the counter nor a password.
LEMMA CountedElsewhere ==
  ASSUME Types, Counted, attempts' = attempts,
         account'.failures = account.failures, account'.lock = account.lock,
         \A c \in Calls : call'[c].phase = "verifying" =>
           call[c].phase = "verifying" /\ call'[c].failures = call[c].failures
  PROVE  Counted'
BY DEF Counted, Verifying

LEMMA CountedNext == Types /\ Types' /\ Counted /\ [AuthNext]_authVars => Counted'
<1> SUFFICES ASSUME Types, Types', Counted, [AuthNext]_authVars PROVE Counted'
  OBVIOUS
<1>1. /\ call \in [Calls -> Call] /\ account \in Account
      /\ attempts \in [count : Nat, overlapped : BOOLEAN]
      /\ MaxAttempts \in Nat \ {0}
  BY MaxAttemptsAssumption DEF Types, AuthTypeOK
<1>2. ASSUME NEW c \in Calls, BeginLogin(c) PROVE Counted'
  <2>1. CASE Verifying # {}
    BY <1>1, <1>2, <2>1 DEF BeginLogin, Overlapped, Counted
  <2>2. CASE Verifying = {}
    <3>1. attempts' = attempts /\ account' = account /\ account.lock # "future"
      BY <1>2, <2>2 DEF BeginLogin, MayLogIn
    <3>2. Verifying' = {c} /\ call'[c].failures = account.failures
      BY <1>1, <1>2, <2>2 DEF BeginLogin, Verifying
    <3> QED BY <3>1, <3>2 DEF Counted
  <2> QED BY <2>1, <2>2
<1>3. ASSUME NEW c \in Calls, WrongPassword(c) PROVE Counted'
  <2> SUFFICES ASSUME ~attempts'.overlapped PROVE Counted'
    BY DEF Counted
  <2>1. /\ ~attempts.overlapped
        /\ attempts'.count = attempts.count + 1
    BY <1>1, <1>3 DEF WrongPassword, Counts
  <2>2. c \in Verifying /\ Verifying' = Verifying \ {c}
    BY <1>1, <1>3 DEF WrongPassword, Becomes, Verifying
  <2>3. /\ account'.failures = account.failures + 1
        /\ account'.lock = LockAt(account.failures + 1)
    BY <1>1, <1>3, <2>1, <2>2 DEF WrongPassword, Account, Counted
  <2>4. /\ Verifying = {c} /\ account.lock \in {"null", "past"}
        /\ account.failures \in Nat /\ attempts.count \in Nat
    BY <1>1, <2>1, <2>2 DEF Counted, Account, Locks
  <2>5. attempts.count <= account.failures /\ attempts.count < MaxAttempts
    BY <1>1, <2>1, <2>4 DEF Counted
  <2> QED BY <1>1, <2>1, <2>2, <2>3, <2>4, <2>5 DEF Counted, LockAt
<1>4. ASSUME NEW c \in Calls, RightPassword(c) PROVE Counted'
  <2> SUFFICES ASSUME ~attempts'.overlapped PROVE Counted'
    BY DEF Counted
  <2>1. ~attempts.overlapped /\ attempts'.count = 0
    BY <1>1, <1>4 DEF RightPassword, Counts
  <2>2. c \in Verifying /\ Verifying' = Verifying \ {c}
    BY <1>1, <1>4 DEF RightPassword, Becomes, Verifying
  <2>3. account'.failures = 0 /\ account'.lock = "null"
    BY <1>1, <1>4 DEF RightPassword, Account
  <2>4. Verifying' = {}
    BY <2>1, <2>2 DEF Counted
  <2> QED BY <1>1, <2>1, <2>3, <2>4 DEF Counted
<1>5. CASE LockLapses
  <2> SUFFICES ASSUME ~attempts'.overlapped PROVE Counted'
    BY DEF Counted
  <2>1. ~attempts.overlapped /\ attempts'.count = 0 /\ account.lock = "future"
    BY <1>1, <1>5 DEF LockLapses, Counts
  <2>2. Verifying = {} /\ Verifying' = Verifying
    BY <1>5, <2>1 DEF Counted, LockLapses, Verifying
  <2>3. account'.lock = "past"
    BY <1>1, <1>5 DEF LockLapses, Account
  <2> QED BY <1>1, <2>1, <2>2, <2>3 DEF Counted
<1>6. ASSUME NEW c \in Calls,
             Reads(c) \/ IssuePair(c) \/ Rotate(c) \/ RevokeFamily(c) \/ EndFamily(c),
             ~BeginLogin(c), ~WrongPassword(c), ~RightPassword(c)
      PROVE  Counted'
  <2>1. /\ attempts' = attempts
        /\ account'.failures = account.failures /\ account'.lock = account.lock
    <3>1. account' \in {account, [account EXCEPT !.tokenVersion = @ + 1]} /\ attempts' = attempts
      BY <1>6 DEF Reads, RefuseLogin, LoadUser, RefuseRefresh, CallFails, LoseAnswer,
         Deliver, FindSession, FindLogout, IssuePair, Rotate, RevokeFamily, EndFamily
    <3> QED BY <1>1, <3>1 DEF Account
  <2>2. call'[c].phase # "verifying"
    BY <1>1, <1>6 DEF Reads, RefuseLogin, LoadUser, RefuseRefresh, CallFails, LoseAnswer,
       Deliver, FindSession, FindLogout, IssuePair, Rotate, RevokeFamily, EndFamily,
       Becomes, NoCall, Call
  <2>3. \A d \in Calls : d # c => call'[d] = call[d]
    BY <1>6, OthersStay
  <2> QED BY <2>1, <2>2, <2>3, CountedElsewhere
<1>7. CASE SessionLapses \/ (\E active \in BOOLEAN : SetActive(active)) \/ UNCHANGED authVars
  <2>1. /\ attempts' = attempts /\ call' = call
        /\ account'.failures = account.failures /\ account'.lock = account.lock
    BY <1>1, <1>7 DEF SessionLapses, SetActive, Account
  <2> QED BY <2>1, CountedElsewhere
<1> QED
  BY <1>2, <1>3, <1>4, <1>5, <1>6, <1>7, StepsOfNext DEF Environment

\* However often the limit, the lock and the right password come up: logins
\* that do not overlap judge no more than MaxAttempts wrong passwords in a row.
THEOREM AuthLockout == AuthSpec => []LockoutInTurn
<1>1. Counted => LockoutInTurn
  BY DEF Counted, LockoutInTurn
<1> QED
  BY <1>1, TypesInit, TypesNext, CountedInit, CountedNext, PTL DEF AuthSpec

----------------------------------------------------------------------------
(* The clients.                                                            *)

LEMMA ClientsStep == [Next]_vars => [AuthNext]_authVars
<1> SUFFICES ASSUME [Next]_vars PROVE [AuthNext]_authVars
  OBVIOUS
<1>1. CASE UNCHANGED vars
  BY <1>1 DEF vars
<1>2. ASSUME NEW t \in Tasks, Backend(t) \/ Client(t) PROVE [AuthNext]_authVars
  <2>1. CASE Backend(t)
    BY <1>2, <2>1 DEF Backend, Unheard, Answers, AuthNext, Tasks
  <2>2. CASE SignedIn(t) \/ NotSignedIn(t) \/ SignedOut(t) \/ Rotated(t) \/ RotationFails(t)
    <3>1. Deliver(t)
      BY <2>2 DEF SignedIn, NotSignedIn, SignedOut, Rotated, RotationFails, Answers
    <3> QED BY <3>1 DEF AuthNext, Tasks
  <2>3. CASE AskSignOut(t) \/ AskRotation(t)
    <3>1. \E n \in DOMAIN sessions : FindSession(t, n) \/ FindLogout(t, n)
      BY <2>3 DEF AskSignOut, AskRotation, FindSession, FindLogout
    <3> QED BY <3>1 DEF AuthNext, Tasks
  <2>4. CASE Served(t) \/ Denied(t) \/ RefreshOnMobile(t) \/ GiveUpOnMobile(t)
               \/ RefreshOnWeb(t) \/ Retried(t) \/ RetryFails(t)
    BY <2>4 DEF Served, Denied, RefreshOnMobile, GiveUpOnMobile, RefreshOnWeb,
       Retried, RetryFails
  <2> QED BY <1>2, <2>1, <2>2, <2>3, <2>4 DEF Client
<1>3. CASE World
  <2>1. ASSUME NEW t \in Tasks,
               SignIn(t) \/ SignOut(t) \/ Send(t) \/ Unreachable(t) \/ AnswerMissing(t)
                 \/ CallFails(t) \/ LoseAnswer(t)
        PROVE  [AuthNext]_authVars
    BY <2>1 DEF SignIn, SignOut, Send, Unreachable, AnswerMissing, Answers, AuthNext, Tasks
  <2>2. CASE Restart \/ Expires
    BY <2>2 DEF Restart, Expires
  <2>3. CASE Environment
    BY <2>3 DEF AuthNext
  <2> QED BY <1>3, <2>1, <2>2, <2>3 DEF World
<1> QED
  BY <1>1, <1>2, <1>3 DEF Next

\* The clients use the backend as it may be used, so that what holds of the
\* sessions holds whatever tokens the clients present and when.
THEOREM ClientsUseSessions == Spec => AuthSpec
<1>1. Init => AuthInit
  BY DEF Init
<1> QED
  BY <1>1, ClientsStep, PTL DEF Spec, AuthSpec

----------------------------------------------------------------------------
(* The sessions a client may rely on.                                       *)

Related(m, n) == sessions[m].family = sessions[n].family

\* The newest session of its login; one that can still be rotated; the only
\* session of its login, not used yet; a session whose login has ended.
Newest(n) == n \in DOMAIN sessions /\ \A m \in DOMAIN sessions : Related(m, n) => m <= n
Fresh(n) == Newest(n) /\ ~Used(n)
Alone(n) == /\ n \in DOMAIN sessions /\ ~Used(n)
            /\ \A m \in DOMAIN sessions : Related(m, n) => m = n
Over(n) == n \in DOMAIN sessions /\ \A m \in DOMAIN sessions : Related(m, n) => ~Live(m)

RowsThere == /\ Len(sessions) \in Nat /\ DOMAIN sessions = 1..Len(sessions)
             /\ \A n \in 1..Len(sessions) : sessions[n].family \in 1..n

LEMMA RowsAreThere == ASSUME Types, Chains PROVE RowsThere
BY RowsAreTyped DEF Types, AuthTypeOK, Chains, Rooted, RowsThere

LEMMA AloneIsFresh == ASSUME RowsThere, NEW n, Alone(n) PROVE Fresh(n)
BY DEF RowsThere, Alone, Fresh, Newest

LEMMA LeaveRows ==
  ASSUME UNCHANGED sessions
  PROVE  /\ \A n : /\ Newest(n)' <=> Newest(n)
                   /\ Used(n)' <=> Used(n)
                   /\ Fresh(n)' <=> Fresh(n)
                   /\ Alone(n)' <=> Alone(n)
                   /\ Over(n)' <=> Over(n)
BY DEF Newest, Used, Live, Fresh, Alone, Over, Related

\* A login adds a session of its own.
LEMMA IssueKeeps ==
  ASSUME Types, Chains, NEW c \in Calls, IssuePair(c), NEW new, new = NextSession
  PROVE  /\ Len(sessions') = new /\ new = Len(sessions) + 1
         /\ Alone(new)'
         /\ \A n : /\ Newest(n) => Newest(n)'
                   /\ Newest(n) /\ ~Used(n) => ~Used(n)'
                   /\ Fresh(n) => Fresh(n)'
                   /\ Alone(n) => Alone(n)'
                   /\ Over(n) => Over(n)'
<1>1. RowsThere
  BY RowsAreThere
<1>2. /\ sessions' \in Seq(SessionRow)
      /\ Len(sessions') = Len(sessions) + 1
      /\ \A n \in 1..Len(sessions) : sessions'[n] = sessions[n]
      /\ sessions'[Len(sessions) + 1] = Row(Len(sessions) + 1, 0, call[c].version)
  BY WritesAreKnown, IssueRows
<1>3. DOMAIN sessions' = 1..(Len(sessions) + 1) /\ new = Len(sessions) + 1
  BY <1>2, LenProperties DEF NextSession
<1>4. /\ sessions'[Len(sessions) + 1].family = Len(sessions) + 1
      /\ sessions'[Len(sessions) + 1].revoked = "no"
      /\ sessions'[Len(sessions) + 1].replacedBy = 0
  BY <1>2 DEF Row
<1>5. Alone(new)'
  BY <1>1, <1>2, <1>3, <1>4 DEF RowsThere, Alone, Used, Live, Related
<1>6. \A n : Newest(n) => Newest(n)' /\ (~Used(n) => ~Used(n)')
  BY <1>1, <1>2, <1>3, <1>4 DEF RowsThere, Newest, Used, Live, Related
<1>7. \A n : Alone(n) => Alone(n)'
  BY <1>1, <1>2, <1>3, <1>4 DEF RowsThere, Alone, Used, Live, Related
<1>8. \A n : Over(n) => Over(n)'
  BY <1>1, <1>2, <1>3, <1>4 DEF RowsThere, Over, Live, Related
<1> QED
  BY <1>2, <1>3, <1>5, <1>6, <1>7, <1>8 DEF Fresh

\* A rotation of the newest session adds the newest session of its login.
LEMMA RotateKeeps ==
  ASSUME Types, Chains, NEW c \in Calls, Rotate(c), Fresh(call[c].session),
         NEW new, new = NextSession
  PROVE  /\ Len(sessions') = new /\ new = Len(sessions) + 1
         /\ Fresh(new)'
         /\ \A n : Alone(n) /\ n # call[c].session => Alone(n)'
<1>1. RowsThere
  BY RowsAreThere
<1>2. /\ sessions' \in Seq(SessionRow)
      /\ Len(sessions') = Len(sessions) + 1
      /\ call[c].session \in 1..Len(sessions)
      /\ \A n \in 1..Len(sessions) :
           sessions'[n] = IF n = call[c].session THEN Replaced(sessions[n])
                          ELSE sessions[n]
      /\ sessions'[Len(sessions) + 1] = Successor(call[c].session, call[c].version)
  BY WritesAreKnown, RotateRows
<1>3. DOMAIN sessions' = 1..(Len(sessions) + 1) /\ new = Len(sessions) + 1
  BY <1>2, LenProperties DEF NextSession
<1>4. /\ sessions'[Len(sessions) + 1].family = sessions[call[c].session].family
      /\ sessions'[Len(sessions) + 1].revoked = "no"
      /\ sessions'[Len(sessions) + 1].replacedBy = 0
  BY <1>2 DEF Successor, Row
<1>5. sessions[call[c].session] \in SessionRow
  BY <1>1, <1>2, RowsAreTyped DEF Types, AuthTypeOK
<1>6. \A n \in 1..Len(sessions) :
        /\ sessions'[n].family = sessions[n].family
        /\ n # call[c].session => sessions'[n] = sessions[n]
  BY <1>2, <1>5 DEF Replaced, SessionRow
<1>7. Fresh(new)'
  BY <1>1, <1>2, <1>3, <1>4 DEF RowsThere, Fresh, Newest, Used, Live, Related
<1>8. \A n : Alone(n) /\ n # call[c].session => Alone(n)'
  BY <1>1, <1>2, <1>3, <1>4, <1>6 DEF RowsThere, Alone, Used, Live, Related
<1> QED
  BY <1>2, <1>3, <1>7, <1>8

\* A sign-out ends its login and no other.
LEMMA EndKeeps ==
  ASSUME Types, Chains, NEW c \in Calls, EndFamily(c), NEW s, s = call[c].session
  PROVE  /\ Len(sessions') = Len(sessions)
         /\ Over(s)'
         /\ \A n : /\ Newest(n) => Newest(n)'
                   /\ Alone(n) /\ n # s => Alone(n)'
                   /\ Over(n) => Over(n)'
<1>1. RowsThere /\ s \in DOMAIN sessions
  BY RowsAreThere DEF Types, SessionsHeld, Holding, EndFamily
<1> DEFINE f == sessions[s].family
<1>2. /\ sessions' \in Seq(SessionRow) /\ Len(sessions') = Len(sessions)
  BY WritesAreKnown, RevokeRows
<1>3. DOMAIN sessions' = 1..Len(sessions)
  BY <1>2, LenProperties
<1>4. \A n \in 1..Len(sessions) :
        sessions'[n] = IF n \in LiveIn(f) THEN [sessions[n] EXCEPT !.revoked = "LOGOUT"]
                       ELSE sessions[n]
  BY <1>1 DEF EndFamily, Revoked, RowsThere
<1>5. \A n \in 1..Len(sessions) : sessions[n] \in SessionRow
  BY RowsAreTyped DEF Types, AuthTypeOK
<1>6. \A n \in 1..Len(sessions) :
        /\ sessions'[n].family = sessions[n].family
        /\ sessions'[n].replacedBy = sessions[n].replacedBy
        /\ ~Related(n, s) => sessions'[n] = sessions[n]
        /\ Related(n, s) => sessions'[n].revoked # "no"
        /\ ~Live(n) => sessions'[n].revoked # "no"
  BY <1>1, <1>4, <1>5 DEF RowsThere, SessionRow, LiveIn, Family, Live, Related
<1>7. Over(s)'
  <2>1. \A m \in DOMAIN sessions' : sessions'[m].family = sessions'[s].family
          => sessions'[m].revoked # "no"
    BY <1>1, <1>3, <1>6 DEF RowsThere, Related
  <2>2. s \in DOMAIN sessions'
    BY <1>1, <1>3 DEF RowsThere
  <2> QED BY <2>1, <2>2 DEF Over, Related, Live
<1>8. \A n : Newest(n) => Newest(n)'
  BY <1>1, <1>3, <1>6 DEF RowsThere, Newest, Related
<1>9. \A n : Alone(n) /\ n # s => Alone(n)'
  <2> SUFFICES ASSUME NEW n, Alone(n), n # s PROVE Alone(n)'
    OBVIOUS
  <2>1. n \in DOMAIN sessions /\ ~Related(n, s)
    BY <1>1 DEF Alone, Related
  <2>2. sessions'[n] = sessions[n]
    BY <1>1, <1>6, <2>1 DEF RowsThere
  <2> QED BY <1>1, <1>3, <1>6, <2>1, <2>2 DEF RowsThere, Alone, Used, Live, Related
<1>10. \A n : Over(n) => Over(n)'
  BY <1>1, <1>3, <1>6 DEF RowsThere, Over, Related, Live
<1> QED
  BY <1>2, <1>7, <1>8, <1>9, <1>10

----------------------------------------------------------------------------
(* A client in its calm: nothing has happened that would explain a reuse.   *)

Leaving == In({"leaving", "left"})

\* What a task waits for from its call.
Paired(t) ==
  LET p == task[t].phase
      q == call[t].phase
  IN  /\ p \in Phases
      /\ p \in {"sent", "denied", "joined", "rotating", "leaving", "retrying"} =>
           q = "idle"
      /\ p = "signing" => q \in {"verifying", "issuing"} \cup Ended
      /\ p = "asked" => q \in {"found", "rotating"} \cup Ended
      /\ p = "left" => q \in {"ending"} \cup Ended
      /\ p = "idle" => q \in {"idle", "verifying", "issuing"} \cup Ended

\* The session a task and its call are about.
Holds(t) ==
  /\ t \in Rotations \cup Leaving => task[t].token # 0
  /\ task[t].phase = "asked" /\ call[t].phase \in {"found", "rotating"} =>
       call[t].session = task[t].token
  /\ task[t].phase = "left" /\ call[t].phase = "ending" =>
       call[t].session = task[t].token

\* A rotation is asked for with a token that is fresh, and answered with one;
\* a sign-out is answered when its login is over.
Sound(t) ==
  /\ task[t].phase = "rotating" => Fresh(task[t].token)
  /\ task[t].phase = "asked" /\ call[t].phase \in {"found", "rotating"} =>
       Fresh(task[t].token)
  /\ task[t].phase = "asked" /\ call[t].phase = "answered" => Fresh(call[t].session)
  /\ task[t].phase = "left" /\ call[t].phase = "answered" => Over(task[t].token)

\* Nobody else knows the pair of a login whose answer is on its way.
SignedApart(t) ==
  task[t].phase = "signing" /\ call[t].phase = "answered" =>
    /\ Alone(call[t].session) /\ store # call[t].session
    /\ \A u \in Tasks : task[u].token # call[t].session
    /\ \A u \in Tasks \ {t} : call[u].session # call[t].session

Good(t) == Paired(t) /\ Holds(t) /\ Sound(t) /\ SignedApart(t)

Numbers == /\ store \in 0..Len(sessions)
           /\ \A t \in Tasks : task[t].token \in 0..Len(sessions)
           /\ \A t \in Tasks : call[t].session \in 0..Len(sessions)

\* One rotation at a time, and none beside a sign-out: the mobile client has
\* one future, the web client sends one request at a time.
InTurn ==
  /\ future \in Tasks \cup {None}
  /\ kind = "mobile" => \A t \in Rotations : future = t
  /\ kind = "web" =>
       /\ \A t \in Tasks : task[t].phase \notin {"joined", "leaving", "left"}
       /\ \A t \in Tasks : task[t].phase \notin {"idle", "signing"} =>
            /\ \A u \in Tasks \ {t} : task[u].phase = "idle"
            /\ store # 0 /\ task[t].token = store
  /\ Rotations = {} \/ Leaving = {}

StoreIsNewest ==
  store # 0 /\ Rotations = {} => Newest(store) /\ (Leaving = {} => ~Used(store))

Calm ==
  /\ kind \in {"mobile", "web"} /\ task = [t \in Tasks |-> task[t]]
  /\ Numbers /\ InTurn /\ StoreIsNewest
  /\ \A t \in Tasks : Good(t)

ClientInv == excused \/ Calm

LEMMA CalmAtInit == Init => ClientInv
<1> SUFFICES ASSUME Init PROVE Calm
  BY DEF ClientInv
<1>1. /\ store = 0 /\ task = [t \in Tasks |-> NoTask] /\ sessions = <<>>
      /\ call = [t \in Calls |-> NoCall] /\ kind \in {"mobile", "web"}
  BY KindsAssumption DEF Init, AuthInit
<1>2. \A t \in Tasks : /\ task[t].phase = "idle" /\ task[t].token = 0
                       /\ call[t].phase = "idle" /\ call[t].session = 0
  BY <1>1 DEF NoTask, NoCall, Tasks
<1>3. Rotations = {} /\ Leaving = {}
  BY <1>2 DEF Rotations, Leaving, In
<1>4. \A t \in Tasks : Good(t)
  BY <1>2, <1>3 DEF Good, Paired, Holds, Sound, SignedApart, Phases
<1>5. Numbers
  BY <1>1, <1>2 DEF Numbers
<1> QED
  BY <1>1, <1>2, <1>3, <1>4, <1>5 DEF Calm, InTurn, StoreIsNewest, Init

\* What the client already knows: no new pair, or the one t was answered with.
Known(t, n) ==
  n = 0 \/ n = store \/ n = call[t].session \/ \E u \in Tasks : n = task[u].token

\* A step of one task, or of the tasks that wait for it, leaves the others good.
LEMMA OthersStayGood ==
  ASSUME Types, Types', Chains, Calm, NEW W \in SUBSET Tasks, NEW t \in W,
         UNCHANGED <<sessions, kind>>, task' = [u \in Tasks |-> task'[u]],
         \A u \in Tasks \ W : task'[u] = task[u],
         \A u \in Tasks \ {t} : call'[u] = call[u],
         Known(t, store'), \A u \in W : Known(t, task'[u].token),
         Known(t, call'[t].session),
         \A u \in W : Good(u)', InTurn', StoreIsNewest'
  PROVE  Calm'
<1>1. RowsThere
  BY RowsAreThere
<1>2. \A n : Known(t, n) => n \in 0..Len(sessions)
  BY <1>1 DEF Known, Calm, Numbers, RowsThere
<1>3. Numbers'
  BY <1>2 DEF Calm, Numbers
<1>4. ASSUME NEW u \in Tasks \ W PROVE Good(u)'
  <2>1. Good(u) /\ task'[u] = task[u] /\ call'[u] = call[u]
    BY DEF Calm
  <2>2. Paired(u)' /\ Holds(u)'
    BY <2>1 DEF Good, Paired, Holds, Rotations, Leaving, In
  <2>3. Sound(u)'
    BY <2>1, LeaveRows DEF Good, Sound
  <2>4. SignedApart(u)'
    <3> SUFFICES ASSUME task[u].phase = "signing", call[u].phase = "answered"
                 PROVE  /\ Alone(call[u].session)' /\ store' # call[u].session
                        /\ \A v \in Tasks : task'[v].token # call[u].session
                        /\ \A v \in Tasks \ {u} : call'[v].session # call[u].session
      BY <2>1 DEF SignedApart
    <3>1. /\ Alone(call[u].session) /\ store # call[u].session
          /\ \A v \in Tasks : task[v].token # call[u].session
          /\ \A v \in Tasks \ {u} : call[v].session # call[u].session
      BY <2>1 DEF Good, SignedApart
    <3>2. call[u].session # 0
      BY <1>1, <3>1 DEF Alone, RowsThere
    <3>3. ~Known(t, call[u].session)
      BY <3>1, <3>2 DEF Known
    <3>4. Alone(call[u].session)'
      BY <2>1, <3>1, LeaveRows
    <3> QED BY <3>1, <3>3, <3>4
  <2> QED BY <2>2, <2>3, <2>4 DEF Good
<1> QED
  BY <1>3, <1>4 DEF Calm

\* What a step of t alone makes of the tasks.
LEMMA TaskMoves ==
  ASSUME Calm, NEW t \in Tasks, NEW r, task' = [task EXCEPT ![t] = r]
  PROVE  /\ task' = [u \in Tasks |-> task'[u]] /\ task'[t] = r
         /\ \A u \in Tasks \ {t} : task'[u] = task[u]
         /\ Rotations' = IF r.phase \in {"rotating", "asked"} THEN Rotations \cup {t}
                         ELSE Rotations \ {t}
         /\ Leaving' = IF r.phase \in {"leaving", "left"} THEN Leaving \cup {t}
                       ELSE Leaving \ {t}
         /\ (r.phase \in {"rotating", "asked"} <=> t \in Rotations) => Rotations' = Rotations
         /\ (r.phase \in {"leaving", "left"} <=> t \in Leaving) => Leaving' = Leaving
         /\ t \in Rotations <=> task[t].phase \in {"rotating", "asked"}
         /\ t \in Leaving <=> task[t].phase \in {"leaving", "left"}
<1>1. task' = [u \in Tasks |-> IF u = t THEN r ELSE task[u]]
  BY DEF Calm
<1>2. /\ task' = [u \in Tasks |-> task'[u]] /\ task'[t] = r
      /\ \A u \in Tasks \ {t} : task'[u] = task[u]
  BY <1>1
<1> QED
  BY <1>2 DEF Rotations, Leaving, In

LEMMA SoloStep ==
  ASSUME Types, Types', Chains, Calm, NEW t \in Tasks, UNCHANGED <<sessions, kind>>,
         NEW r, task' = [task EXCEPT ![t] = r],
         \A u \in Tasks \ {t} : call'[u] = call[u],
         Known(t, store'), Known(t, r.token), Known(t, call'[t].session),
         Good(t)', InTurn', StoreIsNewest'
  PROVE  Calm'
<1>1. /\ task' = [u \in Tasks |-> task'[u]] /\ task'[t] = r
      /\ \A u \in Tasks \ {t} : task'[u] = task[u]
  BY TaskMoves
<1> DEFINE W == {t}
<1>2. /\ W \in SUBSET Tasks /\ t \in W
      /\ \A u \in Tasks \ W : task'[u] = task[u]
      /\ \A u \in W : Known(t, task'[u].token) /\ Good(u)'
  BY <1>1
<1> HIDE DEF W
<1> QED
  BY <1>1, <1>2, OthersStayGood

MovesTo(t, phase, token) == [phase |-> phase, token |-> token, owner |-> None]

LEMMA Restful ==
  /\ NoTask.phase = "idle" /\ NoTask.token = 0
  /\ NoCall.phase = "idle" /\ NoCall.session = 0
BY DEF NoTask, NoCall

\* What a request to the backend makes of the calls.
LEMMA CallMoves ==
  ASSUME Types, NEW t \in Tasks
  PROVE  /\ Deliver(t) => /\ UNCHANGED sessions /\ call'[t] = NoCall
                          /\ \A u \in Tasks \ {t} : call'[u] = call[u]
         /\ BeginLogin(t) => /\ UNCHANGED sessions /\ call'[t].session = 0
                             /\ call'[t].phase = "verifying"
                             /\ \A u \in Tasks \ {t} : call'[u] = call[u]
         /\ RefuseLogin(t) => /\ UNCHANGED sessions /\ call'[t].session = call[t].session
                              /\ call'[t].phase = "refused"
                              /\ \A u \in Tasks \ {t} : call'[u] = call[u]
         /\ \A n : FindLogout(t, n) =>
              /\ UNCHANGED sessions /\ call'[t].session = n /\ call'[t].phase = "ending"
              /\ \A u \in Tasks \ {t} : call'[u] = call[u]
         /\ \A n : FindSession(t, n) =>
              /\ UNCHANGED sessions /\ call'[t].session = n
              /\ call'[t].phase = IF Used(n) THEN "reused" ELSE "found"
              /\ \A u \in Tasks \ {t} : call'[u] = call[u]
<1>1. call \in [Calls -> Call] /\ call[t] \in Call
  BY DEF Types, AuthTypeOK, Tasks
<1> QED
  BY <1>1 DEF Deliver, BeginLogin, RefuseLogin, FindLogout, FindSession, Becomes, Tasks, Call

LEMMA CalmSignIn ==
  ASSUME Types, Types', Chains, Calm, NEW t \in Tasks, SignIn(t) PROVE Calm'
<1> DEFINE r == MovesTo(t, "signing", 0)
<1>1. /\ task[t].phase = "idle" /\ store = 0
      /\ task' = [task EXCEPT ![t] = r] /\ r.phase = "signing" /\ r.token = 0
      /\ UNCHANGED <<kind, store, future>>
  BY Restful DEF SignIn, Idle, Moves, MovesTo
<1>2. /\ UNCHANGED sessions /\ call'[t].phase \in {"verifying", "refused"}
      /\ call'[t].session \in {0, call[t].session}
      /\ \A u \in Tasks \ {t} : call'[u] = call[u]
  BY CallMoves DEF SignIn
<1> HIDE DEF r
<1>3. /\ task'[t] = r /\ \A u \in Tasks \ {t} : task'[u] = task[u]
      /\ Rotations' = Rotations /\ Leaving' = Leaving
  BY <1>1, TaskMoves
<1>4. Good(t)'
  BY <1>1, <1>2, <1>3 DEF Good, Paired, Holds, Sound, SignedApart, Phases, Ended,
     Rotations, Leaving, In
<1>5. InTurn'
  BY <1>1, <1>3 DEF Calm, InTurn
<1>6. StoreIsNewest'
  BY <1>1 DEF StoreIsNewest
<1> QED
  BY <1>1, <1>2, <1>4, <1>5, <1>6, SoloStep DEF Known

\* A task that ends leaves the others their turn.
LEMMA TurnEnds ==
  ASSUME Calm, NEW t \in Tasks, Ends(t), kind' = kind,
         store' = store \/ task[t].phase # "idle", future' \in {future, None},
         kind = "mobile" => \A u \in Rotations \ {t} : future' = u
  PROVE  InTurn' /\ Rotations' = Rotations \ {t} /\ Leaving' = Leaving \ {t}
<1>1. /\ task'[t].phase = "idle"
      /\ \A u \in Tasks \ {t} : task'[u] = task[u]
      /\ Rotations' = Rotations \ {t} /\ Leaving' = Leaving \ {t}
  BY TaskMoves, Restful DEF Ends
<1> QED
  BY <1>1 DEF Calm, InTurn

LEMMA Finishing ==
  ASSUME Types, Types', Chains, Calm, NEW t \in Tasks, UNCHANGED <<sessions, kind>>,
         Ends(t), call'[t].phase = "idle", Known(t, call'[t].session),
         \A u \in Tasks \ {t} : call'[u] = call[u], Known(t, store'),
         InTurn', StoreIsNewest'
  PROVE  Calm'
<1>1. task'[t].phase = "idle" /\ NoTask.token = 0
  BY TaskMoves, Restful DEF Ends
<1>2. Good(t)'
  BY <1>1 DEF Good, Paired, Holds, Sound, SignedApart, Phases, Rotations, Leaving, In
<1>3. Known(t, NoTask.token)
  BY <1>1 DEF Known
<1> QED
  BY <1>2, <1>3, SoloStep DEF Ends

LEMMA CalmSignedIn ==
  ASSUME Types, Types', Chains, Calm, NEW t \in Tasks, SignedIn(t) PROVE Calm'
<1>1. /\ task[t].phase = "signing" /\ call[t].phase = "answered" /\ Deliver(t) /\ Ends(t)
      /\ store' = call[t].session /\ UNCHANGED <<kind, future>>
  BY DEF SignedIn, Answers
<1>2. /\ UNCHANGED sessions /\ call'[t].phase = "idle" /\ call'[t].session = 0
      /\ \A u \in Tasks \ {t} : call'[u] = call[u]
  BY <1>1, CallMoves, Restful
<1>3. PICK n : n = call[t].session
  OBVIOUS
<1>4. Fresh(n)'
  BY <1>1, <1>2, <1>3, LeaveRows, RowsAreThere, AloneIsFresh DEF Calm, Good, SignedApart
<1>5. InTurn'
  BY <1>1, TurnEnds DEF Calm, InTurn
<1>6. StoreIsNewest'
  BY <1>1, <1>3, <1>4 DEF StoreIsNewest, Fresh
<1> QED
  BY <1>1, <1>2, <1>5, <1>6, Finishing DEF Known

LEMMA CalmNotSignedIn ==
  ASSUME Types, Types', Chains, Calm, NEW t \in Tasks, NotSignedIn(t) PROVE Calm'
<1>1. /\ task[t].phase = "signing" /\ Deliver(t) /\ Ends(t)
      /\ UNCHANGED <<kind, store, future>>
  BY DEF NotSignedIn, Answers
<1>2. /\ UNCHANGED sessions /\ call'[t].phase = "idle" /\ call'[t].session = 0
      /\ \A u \in Tasks \ {t} : call'[u] = call[u]
  BY <1>1, CallMoves, Restful
<1>3. InTurn' /\ Rotations' = Rotations /\ Leaving' = Leaving
  BY <1>1, TurnEnds DEF Calm, InTurn, Rotations, Leaving, In
<1>4. StoreIsNewest'
  BY <1>1, <1>2, <1>3, LeaveRows DEF Calm, StoreIsNewest
<1> QED
  BY <1>1, <1>2, <1>3, <1>4, Finishing DEF Known

LEMMA CalmSignOut ==
  ASSUME Types, Types', Chains, Calm, NEW t \in Tasks, SignOut(t), ~excused' PROVE Calm'
<1> DEFINE r == MovesTo(t, "leaving", store)
<1>1. /\ kind = "mobile" /\ call[t].phase = "idle" /\ store # 0 /\ Rotations = {}
      /\ task' = [task EXCEPT ![t] = r] /\ r.phase = "leaving" /\ r.token = store
      /\ UNCHANGED <<sessions, call, kind, store, future>>
  BY DEF SignOut, Idle, Moves, MovesTo, Excuse
<1> HIDE DEF r
<1>2. /\ task'[t] = r /\ Rotations' = {} /\ Leaving' = Leaving \cup {t}
  BY <1>1, TaskMoves
<1>3. Good(t)'
  BY <1>1, <1>2 DEF Good, Paired, Holds, Sound, SignedApart, Phases
<1>4. InTurn'
  BY <1>1, <1>2 DEF Calm, InTurn
<1>5. StoreIsNewest'
  BY <1>1, <1>2, LeaveRows DEF Calm, StoreIsNewest
<1> QED
  BY <1>1, <1>3, <1>4, <1>5, SoloStep DEF Known

LEMMA CalmAskSignOut ==
  ASSUME Types, Types', Chains, Calm, NEW t \in Tasks, AskSignOut(t) PROVE Calm'
<1> DEFINE n == task[t].token
           r == MovesTo(t, "left", n)
<1>1. /\ task[t].phase = "leaving" /\ FindLogout(t, n)
      /\ task' = [task EXCEPT ![t] = r] /\ r.phase = "left" /\ r.token = n
      /\ UNCHANGED <<kind, store, future>>
  BY DEF AskSignOut, Moves, MovesTo
<1> HIDE DEF r
<1>2. /\ UNCHANGED sessions /\ call'[t].phase = "ending" /\ call'[t].session = n
      /\ \A u \in Tasks \ {t} : call'[u] = call[u]
  BY <1>1, CallMoves
<1>3. /\ task'[t] = r /\ \A u \in Tasks \ {t} : task'[u] = task[u]
      /\ Rotations' = Rotations /\ Leaving' = Leaving /\ t \in Leaving /\ t \notin Rotations
  BY <1>1, TaskMoves
<1>4. n # 0
  BY <1>3 DEF Calm, Good, Holds
<1>5. Good(t)'
  BY <1>1, <1>2, <1>3, <1>4 DEF Good, Paired, Holds, Sound, SignedApart, Phases
<1>6. InTurn'
  BY <1>1, <1>3 DEF Calm, InTurn
<1>7. StoreIsNewest'
  BY <1>1, <1>2, <1>3, LeaveRows DEF Calm, StoreIsNewest
<1> QED
  BY <1>1, <1>2, <1>5, <1>6, <1>7, SoloStep DEF Known

LEMMA CalmSignedOut ==
  ASSUME Types, Types', Chains, Calm, NEW t \in Tasks, SignedOut(t) PROVE Calm'
<1>1. /\ task[t].phase = "left" /\ Deliver(t) /\ Ends(t) /\ store' = 0
      /\ UNCHANGED <<kind, future>>
  BY DEF SignedOut, Answers
<1>2. /\ UNCHANGED sessions /\ call'[t].phase = "idle" /\ call'[t].session = 0
      /\ \A u \in Tasks \ {t} : call'[u] = call[u]
  BY <1>1, CallMoves, Restful
<1>3. InTurn'
  BY <1>1, TurnEnds DEF Calm, InTurn
<1> QED
  BY <1>1, <1>2, <1>3, Finishing DEF Known, StoreIsNewest

----------------------------------------------------------------------------
(* Requests.                                                                *)

LEMMA CalmSend ==
  ASSUME Types, Types', Chains, Calm, NEW t \in Tasks, Send(t), ~excused' PROVE Calm'
<1> DEFINE r == MovesTo(t, "sent", store)
<1>1. /\ task[t].phase = "idle" /\ call[t].phase = "idle" /\ store # 0
      /\ kind = "web" => In(Phases \ {"idle"}) = {}
      /\ task' = [task EXCEPT ![t] = r] /\ r.phase = "sent" /\ r.token = store
      /\ UNCHANGED <<sessions, call, kind, store, future>>
  BY Restful DEF Send, Idle, Moves, MovesTo, Excuse
<1> HIDE DEF r
<1>2. /\ task'[t] = r /\ \A u \in Tasks \ {t} : task'[u] = task[u]
      /\ Rotations' = Rotations /\ Leaving' = Leaving
  BY <1>1, TaskMoves
<1>3. Good(t)'
  BY <1>1, <1>2 DEF Good, Paired, Holds, Sound, SignedApart, Phases, Rotations, Leaving, In
<1>4. kind = "web" => \A u \in Tasks : task[u].phase = "idle"
  BY <1>1 DEF In, Calm, Good, Paired
<1>5. InTurn'
  BY <1>1, <1>2, <1>4 DEF Calm, InTurn
<1>6. StoreIsNewest'
  BY <1>1, <1>2, LeaveRows DEF Calm, StoreIsNewest
<1> QED
  BY <1>1, <1>3, <1>5, <1>6, SoloStep DEF Known

\* Served, Unreachable and GiveUpOnMobile.
LEMMA CalmDrops ==
  ASSUME Types, Types', Chains, Calm, NEW t \in Tasks,
         task[t].phase \in {"sent", "denied"}, Ends(t),
         UNCHANGED <<authVars, kind, store, future>>
  PROVE  Calm'
<1>1. call[t].phase = "idle" /\ UNCHANGED <<sessions, call>>
  BY DEF Calm, Good, Paired
<1>2. InTurn' /\ Rotations' = Rotations /\ Leaving' = Leaving
  BY <1>1, TurnEnds DEF Calm, InTurn, Rotations, Leaving, In
<1>3. StoreIsNewest'
  BY <1>1, <1>2, LeaveRows DEF Calm, StoreIsNewest
<1> QED
  BY <1>1, <1>2, <1>3, Finishing DEF Known

LEMMA CalmDenied ==
  ASSUME Types, Types', Chains, Calm, NEW t \in Tasks, Denied(t) PROVE Calm'
<1> DEFINE r == MovesTo(t, "denied", task[t].token)
<1>1. /\ task[t].phase = "sent" /\ call[t].phase = "idle"
      /\ task' = [task EXCEPT ![t] = r] /\ r.phase = "denied" /\ r.token = task[t].token
      /\ UNCHANGED <<sessions, call, kind, store, future>>
  BY DEF Denied, Moves, MovesTo, Calm, Good, Paired
<1> HIDE DEF r
<1>2. /\ task'[t] = r /\ \A u \in Tasks \ {t} : task'[u] = task[u]
      /\ Rotations' = Rotations /\ Leaving' = Leaving
  BY <1>1, TaskMoves
<1>3. Good(t)'
  BY <1>1, <1>2 DEF Good, Paired, Holds, Sound, SignedApart, Phases, Rotations, Leaving, In
<1>4. InTurn'
  BY <1>1, <1>2 DEF Calm, InTurn
<1>5. StoreIsNewest'
  BY <1>1, <1>2, LeaveRows DEF Calm, StoreIsNewest
<1> QED
  BY <1>1, <1>3, <1>4, <1>5, SoloStep DEF Known

LEMMA CalmRefreshOnMobile ==
  ASSUME Types, Types', Chains, Calm, NEW t \in Tasks, RefreshOnMobile(t), ~excused'
  PROVE  Calm'
<1>1. /\ kind = "mobile" /\ task[t].phase = "denied" /\ call[t].phase = "idle" /\ store # 0
      /\ JoinRotation(t) /\ Leaving = {}
      /\ UNCHANGED <<sessions, call, kind, store>>
  BY DEF RefreshOnMobile, Excuse, Leaving, Calm, Good, Paired
<1>2. CASE future = None
  <2> DEFINE r == MovesTo(t, "rotating", store)
  <2>1. /\ task' = [task EXCEPT ![t] = r] /\ r.phase = "rotating" /\ r.token = store
        /\ future' = t
    BY <1>1, <1>2 DEF JoinRotation, Moves, MovesTo
  <2> HIDE DEF r
  <2>2. Rotations = {}
    BY <1>1, <1>2, NoneAssumption DEF Calm, InTurn, Rotations, In, Tasks
  <2>3. task'[t] = r /\ Rotations' = {t} /\ Leaving' = {}
    BY <1>1, <2>1, <2>2, TaskMoves
  <2>4. Fresh(store)'
    BY <1>1, <2>2, LeaveRows DEF Calm, StoreIsNewest, Fresh
  <2>5. Good(t)'
    BY <1>1, <2>1, <2>3, <2>4 DEF Good, Paired, Holds, Sound, SignedApart, Phases
  <2>6. InTurn' /\ StoreIsNewest'
    BY <1>1, <2>1, <2>3 DEF InTurn, StoreIsNewest
  <2> QED BY <1>1, <2>1, <2>5, <2>6, SoloStep DEF Known
<1>3. CASE future # None
  <2>1. PICK r : /\ task' = [task EXCEPT ![t] = r] /\ future' = future
                 /\ \/ r.phase = "retrying" /\ r.token = task[future].token
                    \/ r.phase = "joined" /\ r.token = 0
    BY <1>1, <1>3 DEF JoinRotation, Moves
  <2>2. /\ task'[t] = r /\ Rotations' = Rotations /\ Leaving' = Leaving
    BY <1>1, <2>1, TaskMoves
  <2>3. Good(t)'
    BY <1>1, <2>1, <2>2 DEF Good, Paired, Holds, Sound, SignedApart, Phases, Rotations, Leaving, In
  <2>4. InTurn'
    BY <1>1, <2>1, <2>2 DEF Calm, InTurn
  <2>5. StoreIsNewest'
    BY <1>1, <2>2, LeaveRows DEF Calm, StoreIsNewest
  <2>6. Known(t, r.token)
    BY <1>3, <2>1 DEF Known, Calm, InTurn
  <2> QED BY <1>1, <2>1, <2>3, <2>4, <2>5, <2>6, SoloStep DEF Known
<1> QED
  BY <1>2, <1>3

LEMMA CalmRefreshOnWeb ==
  ASSUME Types, Types', Chains, Calm, NEW t \in Tasks, RefreshOnWeb(t) PROVE Calm'
<1> DEFINE n == task[t].token
           r == MovesTo(t, "rotating", n)
<1>1. /\ kind = "web" /\ task[t].phase = "denied" /\ call[t].phase = "idle"
      /\ task' = [task EXCEPT ![t] = r] /\ r.phase = "rotating" /\ r.token = n
      /\ UNCHANGED <<sessions, call, kind, store, future>>
  BY DEF RefreshOnWeb, Moves, MovesTo, Calm, Good, Paired
<1> HIDE DEF r
<1>2. /\ n = store /\ store # 0 /\ \A u \in Tasks \ {t} : task[u].phase = "idle"
      /\ Rotations = {} /\ Leaving = {}
  BY <1>1 DEF Calm, InTurn, Rotations, Leaving, In
<1>3. /\ task'[t] = r /\ \A u \in Tasks \ {t} : task'[u] = task[u]
      /\ Rotations' = {t} /\ Leaving' = {}
  BY <1>1, <1>2, TaskMoves
<1>4. Fresh(n)'
  BY <1>1, <1>2, LeaveRows DEF Calm, StoreIsNewest, Fresh
<1>5. Good(t)'
  BY <1>1, <1>2, <1>3, <1>4 DEF Good, Paired, Holds, Sound, SignedApart, Phases
<1>6. InTurn' /\ StoreIsNewest'
  BY <1>1, <1>2, <1>3 DEF Calm, InTurn, StoreIsNewest
<1> QED
  BY <1>1, <1>5, <1>6, SoloStep DEF Known

LEMMA CalmAskRotation ==
  ASSUME Types, Types', Chains, Calm, NEW t \in Tasks, AskRotation(t) PROVE Calm'
<1> DEFINE n == task[t].token
           r == MovesTo(t, "asked", n)
<1>1. /\ task[t].phase = "rotating" /\ FindSession(t, n)
      /\ task' = [task EXCEPT ![t] = r] /\ r.phase = "asked" /\ r.token = n
      /\ UNCHANGED <<kind, store, future>>
  BY DEF AskRotation, Moves, MovesTo
<1> HIDE DEF r
<1>2. Fresh(n)
  BY <1>1 DEF Calm, Good, Sound
<1>3. /\ UNCHANGED sessions /\ call'[t].phase = "found" /\ call'[t].session = n
      /\ \A u \in Tasks \ {t} : call'[u] = call[u]
  BY <1>1, <1>2, CallMoves DEF Fresh
<1>4. /\ task'[t] = r /\ \A u \in Tasks \ {t} : task'[u] = task[u]
      /\ Rotations' = Rotations /\ Leaving' = Leaving /\ t \in Rotations
  BY <1>1, TaskMoves
<1>5. n # 0
  BY <1>4 DEF Calm, Good, Holds
<1>6. Good(t)'
  BY <1>1, <1>2, <1>3, <1>4, <1>5, LeaveRows DEF Good, Paired, Holds, Sound, SignedApart, Phases
<1>7. InTurn' /\ StoreIsNewest'
  BY <1>1, <1>4 DEF Calm, InTurn, StoreIsNewest
<1> QED
  BY <1>1, <1>3, <1>6, <1>7, SoloStep DEF Known

----------------------------------------------------------------------------
(* The answer to a rotation.                                               *)

\* Whoever rotates does so alone.
LEMMA Turn ==
  ASSUME Calm, NEW t \in Rotations
  PROVE  /\ t \in Tasks /\ Rotations = {t} /\ Leaving = {}
         /\ kind = "web" => \A u \in Tasks \ {t} : task[u].phase = "idle"
BY DEF Calm, InTurn, Rotations, In

\* What the answer makes of the tasks that wait for it.
LEMMA AnswerMoves ==
  ASSUME Calm, NEW t \in Rotations, NEW r, r.phase \in {"idle", "retrying"},
         task' = [u \in Tasks |-> IF u \in Waiting(t) THEN r ELSE task[u]]
  PROVE  /\ task' = [u \in Tasks |-> task'[u]] /\ t \in Waiting(t)
         /\ Waiting(t) \in SUBSET Tasks
         /\ \A u \in Waiting(t) : task'[u] = r
         /\ \A u \in Tasks \ Waiting(t) : task'[u] = task[u]
         /\ \A u \in Waiting(t) \ {t} : task[u].phase = "joined" /\ call[u].phase = "idle"
         /\ Rotations' = {} /\ Leaving' = {}
<1>1. /\ task' = [u \in Tasks |-> task'[u]] /\ t \in Waiting(t)
      /\ Waiting(t) \in SUBSET Tasks
      /\ \A u \in Waiting(t) : task'[u] = r
      /\ \A u \in Tasks \ Waiting(t) : task'[u] = task[u]
      /\ \A u \in Waiting(t) \ {t} : task[u].phase = "joined"
  BY Turn DEF Waiting, In
<1>2. \A u \in Waiting(t) \ {t} : call[u].phase = "idle"
  BY <1>1 DEF Calm, Good, Paired
<1>3. Rotations' = {} /\ Leaving' = {}
  <2>1. \A u \in Tasks : task'[u] = task[u] => u \notin Waiting(t) \/ r = task[u]
    BY <1>1
  <2>2. \A u \in Tasks : task'[u].phase \notin {"rotating", "asked", "leaving", "left"}
    BY <1>1, <2>1, Turn DEF Rotations, Leaving, In
  <2> QED BY <2>2 DEF Rotations, Leaving, In
<1> QED
  BY <1>1, <1>2, <1>3

LEMMA CalmRotated ==
  ASSUME Types, Types', Chains, Calm, NEW t \in Tasks, Rotated(t) PROVE Calm'
<1> PICK n : n = call[t].session
  OBVIOUS
<1> DEFINE r == [phase |-> "retrying", token |-> n, owner |-> None]
           W == Waiting(t)
<1>1. /\ task[t].phase = "asked" /\ call[t].phase = "answered" /\ Deliver(t) /\ store' = n
      /\ task' = [u \in Tasks |-> IF u \in W THEN r ELSE task[u]]
      /\ r.phase = "retrying" /\ r.token = n /\ UNCHANGED <<kind, future>>
  BY DEF Rotated, Answers
<1>2. t \in Rotations
  BY <1>1 DEF Rotations, In
<1> HIDE DEF r
<1>3. /\ UNCHANGED sessions /\ call'[t].phase = "idle" /\ call'[t].session = 0
      /\ \A u \in Tasks \ {t} : call'[u] = call[u]
  BY <1>1, CallMoves, Restful
<1>4. Fresh(n)' /\ n # 0
  <2>1. Fresh(n)
    BY <1>1 DEF Calm, Good, Sound
  <2> QED BY <1>3, <2>1, LeaveRows, RowsAreThere DEF Fresh, Newest, RowsThere
<1>5. /\ task' = [u \in Tasks |-> task'[u]] /\ t \in W /\ W \in SUBSET Tasks
      /\ \A u \in W : task'[u] = r
      /\ \A u \in Tasks \ W : task'[u] = task[u]
      /\ \A u \in W \ {t} : task[u].phase = "joined" /\ call[u].phase = "idle"
      /\ Rotations' = {} /\ Leaving' = {}
  BY <1>1, <1>2, AnswerMoves
<1> HIDE DEF W
<1>6. \A u \in W : Good(u)'
  BY <1>1, <1>3, <1>5 DEF Good, Paired, Holds, Sound, SignedApart, Phases
<1>7. InTurn'
  BY <1>1, <1>2, <1>4, <1>5, Turn DEF Calm, InTurn
<1>8. StoreIsNewest'
  BY <1>1, <1>4 DEF StoreIsNewest, Fresh
<1>9. Known(t, store') /\ Known(t, call'[t].session) /\ \A u \in W : Known(t, task'[u].token)
  BY <1>1, <1>3, <1>5 DEF Known
<1> QED
  BY <1>1, <1>3, <1>5, <1>6, <1>7, <1>8, <1>9, OthersStayGood

LEMMA CalmRotationFails ==
  ASSUME Types, Types', Chains, Calm, NEW t \in Tasks, RotationFails(t) PROVE Calm'
<1> DEFINE W == Waiting(t)
<1>1. /\ task[t].phase = "asked" /\ Deliver(t) /\ store' = 0 /\ future' = None
      /\ task' = [u \in Tasks |-> IF u \in W THEN NoTask ELSE task[u]]
      /\ UNCHANGED kind
  BY DEF RotationFails, Answers
<1>2. t \in Rotations
  BY <1>1 DEF Rotations, In
<1>3. /\ UNCHANGED sessions /\ call'[t].phase = "idle" /\ call'[t].session = 0
      /\ \A u \in Tasks \ {t} : call'[u] = call[u]
  BY <1>1, CallMoves, Restful
<1>4. /\ task' = [u \in Tasks |-> task'[u]] /\ t \in W /\ W \in SUBSET Tasks
      /\ \A u \in W : task'[u] = NoTask
      /\ \A u \in Tasks \ W : task'[u] = task[u]
      /\ \A u \in W \ {t} : task[u].phase = "joined" /\ call[u].phase = "idle"
      /\ Rotations' = {} /\ Leaving' = {}
  BY <1>1, <1>2, AnswerMoves, Restful
<1> HIDE DEF W
<1>5. \A u \in W : Good(u)'
  BY <1>1, <1>3, <1>4, Restful DEF Good, Paired, Holds, Sound, SignedApart, Phases
<1>6. InTurn'
  BY <1>1, <1>2, <1>4, Turn, Restful DEF Calm, InTurn
<1>7. Known(t, store') /\ Known(t, call'[t].session) /\ \A u \in W : Known(t, task'[u].token)
  BY <1>1, <1>3, <1>4, Restful DEF Known
<1> QED
  BY <1>1, <1>3, <1>4, <1>5, <1>6, <1>7, OthersStayGood DEF StoreIsNewest

\* Retried and RetryFails: no rotation is cleared that is still under way.
LEMMA CalmSettles ==
  ASSUME Types, Types', Chains, Calm, NEW t \in Tasks, task[t].phase = "retrying",
         Settles(t), ~excused', store' \in {0, store}, UNCHANGED <<authVars, kind>>
  PROVE  Calm'
<1>1. /\ call[t].phase = "idle" /\ UNCHANGED <<sessions, call>> /\ Ends(t)
      /\ future' = None /\ ~Cleared(t)
  BY DEF Calm, Good, Paired, Settles, Excuse
<1>2. Rotations = {}
  <2>1. ASSUME kind = "mobile", NEW u \in Rotations PROVE FALSE
    <3>1. future = u /\ u \in Tasks /\ task[u].phase \in {"rotating", "asked"}
      BY <2>1 DEF Calm, InTurn, Rotations, In
    <3> QED BY <1>1, <3>1, NoneAssumption DEF Cleared, Tasks
  <2>2. ASSUME kind = "web", NEW u \in Rotations PROVE FALSE
    BY <2>2, Turn DEF Rotations, In
  <2> QED BY <2>1, <2>2 DEF Calm
<1>3. InTurn' /\ Rotations' = {} /\ Leaving' = Leaving
  BY <1>1, <1>2, TurnEnds DEF Calm, InTurn, Rotations, Leaving, In
<1>4. StoreIsNewest'
  BY <1>1, <1>2, <1>3, LeaveRows DEF Calm, StoreIsNewest
<1> QED
  BY <1>1, <1>3, <1>4, Finishing DEF Known

----------------------------------------------------------------------------
(* What happens to the clients and to their calls.                         *)

LEMMA CalmRestart ==
  ASSUME Types, Types', Chains, Calm, Restart, ~excused' PROVE Calm'
<1>1. /\ task' = [t \in Tasks |-> NoTask] /\ future' = None
      /\ Rotations = {} /\ Leaving = {} /\ UNCHANGED <<sessions, call, kind, store>>
  BY DEF Restart, Excuse, Leaving
<1>2. \A t \in Tasks : task'[t].phase = "idle" /\ task'[t].token = 0
  BY <1>1, Restful
<1>3. Rotations' = {} /\ Leaving' = {}
  BY <1>2 DEF Rotations, Leaving, In
<1>4. ASSUME NEW t \in Tasks PROVE Good(t)'
  <2>1. task[t].phase \notin {"rotating", "asked", "leaving", "left"}
    BY <1>1 DEF Rotations, Leaving, In
  <2>2. Paired(t)'
    BY <1>1, <1>2, <2>1 DEF Calm, Good, Paired, Phases
  <2> QED BY <1>2, <1>3, <2>2 DEF Good, Holds, Sound, SignedApart
<1>5. Numbers'
  BY <1>1, <1>2, RowsAreThere DEF Calm, Numbers, RowsThere
<1>6. InTurn' /\ StoreIsNewest'
  BY <1>1, <1>2, <1>3, LeaveRows DEF Calm, InTurn, StoreIsNewest
<1>7. task' = [t \in Tasks |-> task'[t]]
  BY <1>1
<1> QED
  BY <1>1, <1>4, <1>5, <1>6, <1>7 DEF Calm

LEMMA CalmStays ==
  ASSUME Types, Calm, UNCHANGED <<sessions, call, kind, store, future, task>> PROVE Calm'
<1>1. Rotations' = Rotations /\ Leaving' = Leaving
  BY DEF Rotations, Leaving, In
<1>2. \A t \in Tasks : Good(t)'
  BY <1>1, LeaveRows DEF Calm, Good, Paired, Holds, Sound, SignedApart
<1>3. InTurn' /\ StoreIsNewest' /\ Numbers'
  BY <1>1, LeaveRows DEF Calm, InTurn, StoreIsNewest, Numbers
<1> QED
  BY <1>2, <1>3 DEF Calm

\* A step of a call that leaves the sessions alone.
LEMMA CallStep ==
  ASSUME Types, Types', Chains, Calm, NEW t \in Tasks,
         UNCHANGED <<sessions, kind, store, future, task>>,
         \A u \in Tasks \ {t} : call'[u] = call[u], Known(t, call'[t].session),
         Good(t)'
  PROVE  Calm'
<1>1. /\ task' = [task EXCEPT ![t] = task[t]]
      /\ Rotations' = Rotations /\ Leaving' = Leaving
  BY DEF Calm, Rotations, Leaving, In
<1>2. InTurn' /\ StoreIsNewest'
  BY <1>1, LeaveRows DEF Calm, InTurn, StoreIsNewest
<1> QED
  BY <1>1, <1>2, SoloStep DEF Known

LEMMA CalmUnheard ==
  ASSUME Types, Types', Chains, Calm, NEW t \in Tasks, Unheard(t) PROVE Calm'
<1>1. /\ task[t].phase = "idle" /\ Deliver(t) /\ UNCHANGED <<kind, store, future, task>>
  BY DEF Unheard, Answers, clientVars
<1>2. /\ UNCHANGED sessions /\ call'[t].phase = "idle" /\ call'[t].session = 0
      /\ \A u \in Tasks \ {t} : call'[u] = call[u]
  BY <1>1, CallMoves, Restful
<1>3. Good(t)'
  BY <1>1, <1>2 DEF Calm, Good, Paired, Holds, Sound, SignedApart, Rotations, Leaving, In
<1> QED
  BY <1>1, <1>2, <1>3, CallStep DEF Known

LEMMA CalmCallEnds ==
  ASSUME Types, Types', Chains, Calm, NEW t \in Tasks,
         CallFails(t) \/ LoseAnswer(t) \/ WrongPassword(t) \/ RightPassword(t)
           \/ RefuseRefresh(t) \/ LoadUser(t),
         UNCHANGED clientVars
  PROVE  Calm'
<1>1. /\ UNCHANGED <<sessions, kind, store, future, task>>
      /\ \A u \in Tasks \ {t} : call'[u] = call[u]
      /\ call'[t].session = call[t].session
      /\ \/ call[t].phase # "idle" /\ call'[t].phase \in {"lost", "refused"}
         \/ call[t].phase = "verifying" /\ call'[t].phase = "issuing"
         \/ call[t].phase = "found" /\ call'[t].phase = "rotating"
  <2>1. call \in [Calls -> Call] /\ call[t] \in Call
    BY DEF Types, AuthTypeOK, Tasks
  <2> QED
    BY <2>1 DEF CallFails, LoseAnswer, WrongPassword, RightPassword, RefuseRefresh,
       LoadUser, Becomes, clientVars, Tasks, Call, Working
<1>2. Good(t)
  BY DEF Calm
<1>3. Good(t)'
  BY <1>1, <1>2, LeaveRows DEF Good, Paired, Holds, Sound, SignedApart, Rotations,
     Leaving, In, Ended
<1> QED
  BY <1>1, <1>3, CallStep DEF Known

----------------------------------------------------------------------------
(* The three steps that write sessions.                                    *)

LEMMA CalmIssues ==
  ASSUME Types, Types', Chains, Calm, NEW t \in Tasks, IssuePair(t), UNCHANGED clientVars
  PROVE  Calm'
<1> PICK new : new = NextSession
  OBVIOUS
<1>1. /\ Len(sessions') = new /\ new = Len(sessions) + 1
      /\ Alone(new)'
      /\ \A n : /\ Newest(n) => Newest(n)'
                /\ Newest(n) /\ ~Used(n) => ~Used(n)'
                /\ Fresh(n) => Fresh(n)'
                /\ Alone(n) => Alone(n)'
                /\ Over(n) => Over(n)'
  BY IssueKeeps DEF Tasks
<1>2. /\ UNCHANGED <<kind, store, future, task>>
      /\ Rotations' = Rotations /\ Leaving' = Leaving
  BY DEF clientVars, Rotations, Leaving, In
<1>3. /\ call[t].phase = "issuing" /\ call'[t].phase = "answered" /\ call'[t].session = new
      /\ \A u \in Tasks \ {t} : call'[u] = call[u]
  <2>1. call \in [Calls -> Call] /\ call[t] \in Call
    BY DEF Types, AuthTypeOK, Tasks
  <2> QED BY <2>1 DEF IssuePair, Tasks, Call
<1>4. RowsThere
  BY RowsAreThere
<1>5. Numbers'
  BY <1>1, <1>2, <1>3, <1>4 DEF Calm, Numbers, RowsThere
<1>6. InTurn' /\ StoreIsNewest'
  BY <1>1, <1>2 DEF Calm, InTurn, StoreIsNewest
<1>7. ASSUME NEW u \in Tasks \ {t} PROVE Good(u)'
  <2>1. Good(u)
    BY DEF Calm
  <2>2. Paired(u)' /\ Holds(u)' /\ Sound(u)'
    BY <1>1, <1>2, <1>3, <2>1 DEF Good, Paired, Holds, Sound
  <2>3. call[u].session # new
    BY <1>1, <1>4 DEF Calm, Numbers, RowsThere
  <2>4. SignedApart(u)'
    BY <1>1, <1>2, <1>3, <2>1, <2>3 DEF Good, SignedApart
  <2> QED BY <2>2, <2>4 DEF Good
<1>8. Good(t)'
  <2>1. Paired(t) /\ Paired(t)' /\ task[t].phase \in {"signing", "idle"}
    BY <1>2, <1>3 DEF Calm, Good, Paired, Phases, Ended
  <2>2. Holds(t)' /\ Sound(t)'
    BY <1>2, <2>1 DEF Holds, Sound, Rotations, Leaving, In
  <2>3. /\ store # new /\ \A u \in Tasks : task[u].token # new /\ call[u].session # new
    BY <1>1, <1>4 DEF Calm, Numbers, RowsThere
  <2>4. SignedApart(t)'
    BY <1>1, <1>2, <1>3, <2>3 DEF SignedApart
  <2> QED BY <2>1, <2>2, <2>4 DEF Good
<1> QED
  BY <1>2, <1>5, <1>6, <1>7, <1>8 DEF Calm

LEMMA CalmRotates ==
  ASSUME Types, Types', Chains, Calm, NEW t \in Tasks, Rotate(t), UNCHANGED clientVars
  PROVE  Calm'
<1> PICK new : new = NextSession
  OBVIOUS
<1>1. /\ call[t].phase = "rotating" /\ call'[t].phase = "answered" /\ call'[t].session = new
      /\ \A u \in Tasks \ {t} : call'[u] = call[u]
  <2>1. call \in [Calls -> Call] /\ call[t] \in Call
    BY DEF Types, AuthTypeOK, Tasks
  <2> QED BY <2>1 DEF Rotate, Tasks, Call
<1>2. /\ task[t].phase = "asked" /\ t \in Rotations /\ Fresh(call[t].session)
      /\ Paired(t) /\ Holds(t)
  <2>1. Paired(t) /\ Holds(t) /\ Sound(t)
    BY DEF Calm, Good
  <2>2. task[t].phase = "asked"
    BY <1>1, <2>1 DEF Paired, Phases, Ended
  <2> QED BY <1>1, <2>1, <2>2 DEF Holds, Sound, Rotations, In
<1>3. Rotations = {t} /\ Leaving = {}
  BY <1>2, Turn
<1>4. /\ Len(sessions') = new /\ new = Len(sessions) + 1
      /\ Fresh(new)'
      /\ \A n : Alone(n) /\ n # call[t].session => Alone(n)'
  BY <1>2, RotateKeeps DEF Tasks
<1>5. /\ UNCHANGED <<kind, store, future, task>>
      /\ Rotations' = Rotations /\ Leaving' = Leaving
  BY DEF clientVars, Rotations, Leaving, In
<1>6. RowsThere
  BY RowsAreThere
<1>7. Numbers'
  BY <1>1, <1>4, <1>5, <1>6 DEF Calm, Numbers, RowsThere
<1>8. InTurn' /\ StoreIsNewest'
  BY <1>3, <1>5 DEF Calm, InTurn, StoreIsNewest
<1>9. ASSUME NEW u \in Tasks \ {t} PROVE Good(u)'
  <2>1. Good(u) /\ u \notin Rotations \cup Leaving
    BY <1>3 DEF Calm
  <2>2. Paired(u)' /\ Holds(u)' /\ Sound(u)'
    BY <1>1, <1>5, <2>1 DEF Good, Paired, Holds, Sound, Rotations, Leaving, In
  <2>3. call[u].session # new
    BY <1>4, <1>6 DEF Calm, Numbers, RowsThere
  <2>4. SignedApart(u)'
    BY <1>1, <1>4, <1>5, <2>1, <2>3 DEF Good, SignedApart
  <2> QED BY <2>2, <2>4 DEF Good
<1>10. Good(t)'
  BY <1>1, <1>2, <1>3, <1>4, <1>5 DEF Good, Paired, Holds, Sound, SignedApart, Ended
<1> QED
  BY <1>5, <1>7, <1>8, <1>9, <1>10 DEF Calm

LEMMA CalmEnds ==
  ASSUME Types, Types', Chains, Calm, NEW t \in Tasks, EndFamily(t), UNCHANGED clientVars
  PROVE  Calm'
<1> PICK s : s = call[t].session
  OBVIOUS
<1>1. /\ call[t].phase = "ending" /\ call'[t].phase = "answered" /\ call'[t].session = s
      /\ \A u \in Tasks \ {t} : call'[u] = call[u]
  <2>1. call \in [Calls -> Call] /\ call[t] \in Call
    BY DEF Types, AuthTypeOK, Tasks
  <2> QED BY <2>1 DEF EndFamily, Becomes, Tasks, Call
<1>2. /\ task[t].phase = "left" /\ t \in Leaving /\ task[t].token = s
      /\ Paired(t) /\ Holds(t)
  BY <1>1 DEF Calm, Good, Paired, Phases, Holds, Leaving, In, Ended
<1>3. Rotations = {}
  BY <1>2 DEF Calm, InTurn
<1>4. /\ Len(sessions') = Len(sessions)
      /\ Over(s)'
      /\ \A n : /\ Newest(n) => Newest(n)'
                /\ Alone(n) /\ n # s => Alone(n)'
                /\ Over(n) => Over(n)'
  BY EndKeeps DEF Tasks
<1>5. /\ UNCHANGED <<kind, store, future, task>>
      /\ Rotations' = Rotations /\ Leaving' = Leaving
  BY DEF clientVars, Rotations, Leaving, In
<1>6. Numbers'
  BY <1>1, <1>4, <1>5 DEF Calm, Numbers
<1>7. InTurn' /\ StoreIsNewest'
  BY <1>2, <1>3, <1>4, <1>5 DEF Calm, InTurn, StoreIsNewest
<1>8. ASSUME NEW u \in Tasks \ {t} PROVE Good(u)'
  <2>1. Good(u) /\ u \notin Rotations
    BY <1>3 DEF Calm
  <2>2. Paired(u)' /\ Holds(u)' /\ Sound(u)'
    BY <1>1, <1>4, <1>5, <2>1 DEF Good, Paired, Holds, Sound, Rotations, In
  <2>3. SignedApart(u)'
    BY <1>1, <1>4, <1>5, <2>1 DEF Good, SignedApart
  <2> QED BY <2>2, <2>3 DEF Good
<1>9. Good(t)'
  BY <1>1, <1>2, <1>3, <1>4, <1>5 DEF Good, Paired, Holds, Sound, SignedApart, Ended
<1> QED
  BY <1>5, <1>6, <1>7, <1>8, <1>9 DEF Calm

\* No reuse is found while the client is in its calm.
LEMMA CalmHasNoReuse == ASSUME Calm, NEW t \in Tasks PROVE call[t].phase # "reused"
BY DEF Calm, Good, Paired, Phases, Ended

LEMMA CalmNext ==
  ASSUME Types, Types', Chains, Calm, [Next]_vars, ~excused' PROVE Calm'
<1>1. CASE UNCHANGED vars
  BY <1>1, CalmStays DEF vars, clientVars
<1>2. ASSUME NEW t \in Tasks, Backend(t) PROVE Calm'
  <2>1. CASE Unheard(t)
    BY <2>1, CalmUnheard
  <2>2. CASE (WrongPassword(t) \/ RightPassword(t) \/ LoadUser(t) \/ RefuseRefresh(t))
               /\ UNCHANGED clientVars
    BY <2>2, CalmCallEnds
  <2>3. CASE (IssuePair(t) \/ Rotate(t) \/ EndFamily(t)) /\ UNCHANGED clientVars
    BY <2>3, CalmIssues, CalmRotates, CalmEnds
  <2>4. ~RevokeFamily(t)
    BY CalmHasNoReuse DEF RevokeFamily
  <2> QED BY <1>2, <2>1, <2>2, <2>3, <2>4 DEF Backend, Work
<1>3. ASSUME NEW t \in Tasks, Client(t) PROVE Calm'
  <2>1. CASE SignedIn(t) \/ NotSignedIn(t) \/ AskSignOut(t) \/ SignedOut(t)
    BY <2>1, CalmSignedIn, CalmNotSignedIn, CalmAskSignOut, CalmSignedOut
  <2>2. CASE Served(t) \/ GiveUpOnMobile(t)
    BY <2>2, CalmDrops DEF Served, GiveUpOnMobile
  <2>3. CASE Denied(t) \/ RefreshOnWeb(t) \/ AskRotation(t)
    BY <2>3, CalmDenied, CalmRefreshOnWeb, CalmAskRotation
  <2>4. CASE RefreshOnMobile(t)
    BY <2>4, CalmRefreshOnMobile
  <2>5. CASE Rotated(t) \/ RotationFails(t)
    BY <2>5, CalmRotated, CalmRotationFails
  <2>6. CASE Retried(t) \/ RetryFails(t)
    <3>1. /\ task[t].phase = "retrying" /\ Settles(t) /\ store' \in {0, store}
          /\ UNCHANGED <<authVars, kind>>
      BY <2>6 DEF Retried, RetryFails
    <3> QED BY <3>1, CalmSettles
  <2> QED BY <1>3, <2>1, <2>2, <2>3, <2>4, <2>5, <2>6 DEF Client
<1>4. CASE World
  <2>1. ASSUME NEW t \in Tasks, SignIn(t) \/ SignOut(t) \/ Send(t) PROVE Calm'
    BY <2>1, CalmSignIn, CalmSignOut, CalmSend
  <2>2. ASSUME NEW t \in Tasks, Unreachable(t) PROVE Calm'
    BY <2>2, CalmDrops DEF Unreachable
  <2>3. ASSUME NEW t \in Tasks, AnswerMissing(t) PROVE Calm'
    BY <2>3 DEF AnswerMissing, Excuse
  <2>4. ASSUME NEW t \in Tasks, CallFails(t) \/ LoseAnswer(t), UNCHANGED clientVars
        PROVE  Calm'
    BY <2>4, CalmCallEnds
  <2>5. CASE Restart
    BY <2>5, CalmRestart
  <2>6. CASE Expires \/ (Environment /\ UNCHANGED clientVars)
    <3>1. UNCHANGED <<sessions, call, kind, store, future, task>>
      BY <2>6, WorldKeepsRows DEF Expires, clientVars
    <3> QED BY <3>1, CalmStays
  <2> QED BY <1>4, <2>1, <2>2, <2>3, <2>4, <2>5, <2>6 DEF World
<1> QED
  BY <1>1, <1>2, <1>3, <1>4 DEF Next

\* What explains a reuse is not forgotten.
LEMMA ExcusedStays == [Next]_vars /\ excused => excused'
BY DEF Next, World, Backend, Client, Unheard, SignIn, SignOut, Send, Unreachable,
   AnswerMissing, Restart, Expires, SignedIn, NotSignedIn, AskSignOut, SignedOut, Served,
   Denied, RefreshOnMobile, GiveUpOnMobile, RefreshOnWeb, AskRotation, Rotated,
   RotationFails, Retried, RetryFails, Settles, Excuse, vars, clientVars

LEMMA ClientInvariant == Spec => [](Types /\ Chains /\ ClientInv)
<1>1. Types /\ Types' /\ Chains /\ ClientInv /\ [Next]_vars => ClientInv'
  BY CalmNext, ExcusedStays DEF ClientInv
<1> QED
  BY <1>1, CalmAtInit, ClientsUseSessions, AuthInvariant, PTL DEF Spec

\* The user's own devices set off the reuse detection only after one of the
\* four faults, however many requests run at once and whatever fails.
THEOREM ReusesAreExplained == Spec => []ReuseIsExplained
<1>1. ClientInv => ReuseIsExplained
  BY CalmHasNoReuse DEF ClientInv, ReuseIsExplained, Tasks
<1> QED
  BY <1>1, ClientInvariant, PTL

\* Between two rotations the stored pair is the newest of its login.
THEOREM StoredPairsAreCurrent == Spec => []StoredPairIsCurrent
<1>1. ClientInv => StoredPairIsCurrent
  BY DEF ClientInv, Calm, StoredPairIsCurrent, StoreIsNewest, Newest, Related, Family
<1> QED
  BY <1>1, ClientInvariant, PTL

\* The answer to a sign-out finds its login over, and it stays over while
\* the client drops its pair.
LEMMA AnswerIsFinal ==
  ASSUME Types, Chains, Calm, [Next]_vars, NEW t \in Tasks, NEW f \in DOMAIN sessions,
         task[t].phase = "left", f = sessions[task[t].token].family,
         call[t].phase = "answered", call'[t].phase = "idle"
  PROVE  store' = 0 /\ LiveIn(f)' = {}
<1>1. Over(task[t].token)
  BY DEF Calm, Good, Sound
<1>2. LiveIn(f) = {}
  BY <1>1 DEF Over, Related, LiveIn, Family
<1>3. ASSUME NEW u \in Tasks \ {t},
             Backend(u) \/ Client(u) \/ SignIn(u) \/ AnswerMissing(u)
               \/ CallFails(u) \/ LoseAnswer(u)
      PROVE  call'[t] = call[t]
  <2>1. ASSUME Deliver(u) \/ BeginLogin(u) \/ RefuseLogin(u) \/ Work(u) \/ CallFails(u)
                 \/ LoseAnswer(u) \/ \E n \in DOMAIN sessions : FindSession(u, n) \/ FindLogout(u, n)
        PROVE  call'[t] = call[t]
    BY <2>1, OthersStay DEF Reads, Work, Tasks
  <2>2. CASE Backend(u) \/ SignIn(u) \/ AnswerMissing(u) \/ CallFails(u) \/ LoseAnswer(u)
    BY <2>1, <2>2 DEF Backend, Unheard, SignIn, AnswerMissing, Answers
  <2>3. CASE SignedIn(u) \/ NotSignedIn(u) \/ SignedOut(u) \/ Rotated(u) \/ RotationFails(u)
    BY <2>1, <2>3 DEF SignedIn, NotSignedIn, SignedOut, Rotated, RotationFails, Answers
  <2>4. CASE AskSignOut(u) \/ AskRotation(u)
    BY <2>1, <2>4 DEF AskSignOut, AskRotation, FindSession, FindLogout
  <2>5. CASE Served(u) \/ Denied(u) \/ RefreshOnMobile(u) \/ GiveUpOnMobile(u)
               \/ RefreshOnWeb(u) \/ Retried(u) \/ RetryFails(u)
    BY <2>5 DEF Served, Denied, RefreshOnMobile, GiveUpOnMobile, RefreshOnWeb, Retried,
       RetryFails
  <2> QED BY <1>3, <2>2, <2>3, <2>4, <2>5 DEF Client
<1>4. call' # call
  OBVIOUS
<1>5. ~Backend(t) /\ ~SignIn(t) /\ ~AnswerMissing(t) /\ ~CallFails(t) /\ ~LoseAnswer(t)
  <2>1. call \in [Calls -> Call] /\ call[t] \in Call
    BY DEF Types, AuthTypeOK, Tasks
  <2>2. ~Backend(t)
    BY DEF Backend, Unheard, Work, WrongPassword, RightPassword, IssuePair, LoadUser,
       RefuseRefresh, Rotate, RevokeFamily, EndFamily
  <2>3. ~CallFails(t) /\ ~LoseAnswer(t)
    BY <2>1 DEF CallFails, LoseAnswer, Becomes, Working, Tasks, Call
  <2> QED BY <2>2, <2>3 DEF SignIn, AnswerMissing, Idle
<1>6. \E u \in Tasks : Backend(u) \/ Client(u) \/ SignIn(u) \/ AnswerMissing(u)
                       \/ CallFails(u) \/ LoseAnswer(u)
  <2>1. \A u \in Tasks : ~SignOut(u) /\ ~Send(u) /\ ~Unreachable(u)
    BY <1>4 DEF SignOut, Send, Unreachable
  <2>2. ~Restart /\ ~Expires /\ ~Environment /\ ~UNCHANGED vars
    BY <1>4, WorldKeepsRows DEF Restart, Expires, vars
  <2> QED BY <2>1, <2>2 DEF Next, World
<1>7. Client(t)
  BY <1>3, <1>5, <1>6
<1>8. SignedOut(t)
  BY <1>7 DEF Client, SignedIn, NotSignedIn, AskSignOut, Served, Denied, RefreshOnMobile,
     GiveUpOnMobile, RefreshOnWeb, AskRotation, Rotated, RotationFails, Retried, RetryFails
<1>9. store' = 0 /\ UNCHANGED sessions
  BY <1>8 DEF SignedOut, Answers, Deliver
<1> QED
  BY <1>2, <1>9 DEF LiveIn, Family, Live

\* A sign-out that is answered has ended its login and emptied the store.
THEOREM SignOutsAreFinal == Spec => SignOutIsFinal
<1>1. Types /\ Chains /\ ClientInv /\ [Next]_vars =>
        [\A t \in Tasks, f \in DOMAIN sessions :
           /\ task[t].phase = "left" /\ f = sessions[task[t].token].family
           /\ call[t].phase = "answered" /\ call'[t].phase = "idle" /\ ~excused
           => store' = 0 /\ LiveIn(f)' = {}]_vars
  BY AnswerIsFinal DEF ClientInv
<1> QED
  BY <1>1, ClientInvariant, PTL DEF Spec, SignOutIsFinal

=============================================================================
