--------------------------------- MODULE Login ---------------------------------
(***************************************************************************)
(* The logins of one account (internal/user/user.go, auth/                 *)
(* mfa_challenge.go): goroutines read the row, compare passwords for a     *)
(* while, and write the failure counter or clear it; an account with a     *)
(* second factor gets a challenge, which is answered in a second request.  *)
(* Whether a failure locks the account is decided from the row as it was   *)
(* read at the beginning.                                                  *)
(*                                                                         *)
(* Abstracted: the passwords, factors and codes themselves (a comparison   *)
(* goes either way); the counter beyond MaxErr; the clock (a lock and a    *)
(* challenge end some time); whether an account has a second factor, so    *)
(* also that a query for one that fails answers it has none; the token and *)
(* the session of a login that succeeds (TokenSession).                    *)
(***************************************************************************)
EXTENDS Naturals, FiniteSets

CONSTANTS
  Proc,         \* goroutines that serve requests
  MaxErr,       \* loginLockMaxErrCount
  MaxChallenge, \* a bound: the challenges issued
  MaxLost       \* a bound: UPDATEs of the counter that fail

ASSUME LoginAssumption ==
  /\ IsFiniteSet(Proc) /\ Proc # {}
  /\ MaxErr \in Nat \ {0} /\ MaxChallenge \in Nat /\ MaxLost \in Nat

Challenge == 1 .. MaxChallenge

VARIABLES
  account,    \* the row: err_number, locked_expired in the future, enable
  attempt,    \* attempt[p]: what goroutine p is doing
  issued,     \* the number of challenges issued
  challenges, \* mfaChallenges: those that can be answered
  guesses,    \* counts wrong passwords since a success, a reset or the end of a lock
  verified,   \* verified[c]: counts the codes compared for challenge c
  lost,       \* counts UPDATEs of the counter that failed
  overlapped, \* history: passwords were compared at the same time, since guesses
              \* began anew or still when it did
  shared      \* history: challenges taken by a second goroutine before the first
              \* has deleted them

loginVars == <<account, attempt, issued, challenges, guesses, verified, lost,
               overlapped, shared>>

\* The most wrong passwords that are answered without a lock between them: the
\* limit, as documented, and the failures that could not be written.  When they
\* overlap, all but one goroutine read the row before the counter was near the
\* limit, and again before the lock was written.
MaxGuesses == MaxErr + lost + IF overlapped THEN 2 * (Cardinality(Proc) - 1) ELSE 0

\* The most codes compared for challenge c.
MaxCodes(c) == IF c \in shared THEN Cardinality(Proc) ELSE 1

Attempt == [pc: {"idle", "compare", "passed", "challenge"},
            err: 0 .. MaxErr,         \* ErrNumber as it was read
            c: {0} \cup Challenge]
NoAttempt == [pc |-> "idle", err |-> 0, c |-> 0]

\* The goroutines that compare a password, and those that have taken challenge c.
Comparing == {p \in Proc : attempt[p].pc = "compare"}
Taking(c) == {p \in Proc : attempt[p].pc = "challenge" /\ attempt[p].c = c}

\* The guesses begin anew.
Anew ==
  /\ guesses' = 0
  /\ overlapped' = \E p, q \in Comparing' : p # q

LoginTypeOK ==
  /\ account \in [err: 0 .. MaxErr, locked: BOOLEAN, enable: BOOLEAN]
  /\ account.locked => account.err > 0
  /\ attempt \in [Proc -> Attempt]
  /\ issued \in 0 .. MaxChallenge
  /\ challenges \subseteq 1 .. issued
  /\ verified \in [Challenge -> Nat]
  /\ \A c \in Challenge : c > issued => verified[c] = 0
  /\ guesses \in Nat /\ lost \in 0 .. MaxLost
  /\ overlapped \in BOOLEAN /\ shared \subseteq Challenge

LoginInit ==
  /\ account \in [err: {0}, locked: {FALSE}, enable: BOOLEAN]
  /\ attempt = [p \in Proc |-> NoAttempt]
  /\ issued = 0 /\ challenges = {}
  /\ guesses = 0 /\ verified = [c \in Challenge |-> 0] /\ lost = 0
  /\ overlapped = FALSE /\ shared = {}

----------------------------------------------------------------------------
\* The first step: the password

\* LoginWithSession and LoginByStaffNo: the row is read; a disabled or locked
\* account is refused.
Begin(p) ==
  /\ attempt[p].pc = "idle"
  /\ account.enable /\ ~account.locked
  /\ attempt' = [attempt EXCEPT ![p] =
                   [pc |-> "compare", err |-> account.err, c |-> 0]]
  /\ overlapped' = (overlapped \/ Comparing # {})
  /\ UNCHANGED <<account, issued, challenges, guesses, verified, lost, shared>>

\* A wrong password that is answered.
Refused(p) ==
  /\ attempt[p].pc = "compare"
  /\ guesses' = guesses + 1
  /\ attempt' = [attempt EXCEPT ![p] = NoAttempt]
  /\ UNCHANGED <<issued, challenges, verified, overlapped, shared>>

\* Mutant: the lock needs one more than the limit.
RecordLoginFailureLate(p) ==
  /\ Refused(p)
  /\ account' = [account EXCEPT !.err = IF @ < MaxErr THEN @ + 1 ELSE @,
                                !.locked = @ \/ attempt[p].err >= MaxErr]
  /\ UNCHANGED lost

\* recordLoginFailure: the counter goes up in the database, and the lock is set
\* by the counter that was read.
RecordLoginFailure(p) ==
  /\ Refused(p)
  /\ account' = [account EXCEPT !.err = IF @ < MaxErr THEN @ + 1 ELSE @,
                                !.locked = @ \/ attempt[p].err + 1 >= MaxErr]
  /\ UNCHANGED lost

\* Its UPDATE fails: the error is logged.
RecordFails(p) ==
  /\ lost < MaxLost
  /\ Refused(p)
  /\ lost' = lost + 1
  /\ UNCHANGED account

\* clearLoginFailure, after the right password, whoever has locked meanwhile.
ClearLoginFailure(p) ==
  /\ attempt[p].pc = "compare"
  /\ account' = [account EXCEPT !.err = 0, !.locked = FALSE]
  /\ attempt' = [attempt EXCEPT ![p].pc = "passed"]
  /\ Anew
  /\ UNCHANGED <<issued, challenges, verified, lost, shared>>

ClearFails(p) ==
  /\ attempt[p].pc = "compare"
  /\ attempt' = [attempt EXCEPT ![p].pc = "passed"]
  /\ UNCHANGED <<account, issued, challenges, guesses, verified, lost,
                 overlapped, shared>>

\* HasEnabledMFA, IssueMFAChallenge; LoginByStaffNo issues none.
IssueMFAChallenge(p) ==
  /\ attempt[p].pc = "passed"
  /\ issued < MaxChallenge
  /\ issued' = issued + 1
  /\ challenges' = challenges \cup {issued'}
  /\ attempt' = [attempt EXCEPT ![p] = NoAttempt]
  /\ UNCHANGED <<account, guesses, verified, lost,
                 overlapped, shared>>

\* A token, an expired password, or an error.
Answer(p) ==
  /\ attempt[p].pc = "passed"
  /\ attempt' = [attempt EXCEPT ![p] = NoAttempt]
  /\ UNCHANGED <<account, issued, challenges, guesses, verified, lost,
                 overlapped, shared>>

----------------------------------------------------------------------------
\* The second step: the challenge

\* ConsumeMFAChallenge, Get.
TakeChallenge(p, c) ==
  /\ attempt[p].pc = "idle" /\ c \in challenges
  /\ attempt' = [attempt EXCEPT ![p] = [pc |-> "challenge", err |-> 0, c |-> c]]
  /\ shared' = IF Taking(c) # {} THEN shared \cup {c} ELSE shared
  /\ UNCHANGED <<account, issued, challenges, guesses, verified, lost, overlapped>>

\* Delete, and VerifyMFACode: neither enable nor the lock is looked at, and a
\* wrong code is not counted.
VerifyMFACode(p) ==
  /\ attempt[p].pc = "challenge"
  /\ challenges' = challenges \ {attempt[p].c}
  /\ verified' = [verified EXCEPT ![attempt[p].c] = @ + 1]
  /\ attempt' = [attempt EXCEPT ![p] = NoAttempt]
  /\ UNCHANGED <<account, issued, guesses, lost,
                 overlapped, shared>>

ChallengeExpires(c) ==
  /\ c \in challenges
  /\ challenges' = challenges \ {c}
  /\ UNCHANGED <<account, attempt, issued, guesses, verified, lost,
                 overlapped, shared>>

----------------------------------------------------------------------------
\* What else changes the account

\* Mutant: the lock stays.
SetPasswordLocked ==
  /\ account' = [account EXCEPT !.err = 0]
  /\ UNCHANGED <<attempt, issued, challenges, verified, lost, shared>>
  /\ Anew

\* setPassword, by UpdatePwd and ResetPwd.
SetPassword ==
  /\ account' = [account EXCEPT !.err = 0, !.locked = FALSE]
  /\ UNCHANGED <<attempt, issued, challenges, verified, lost, shared>>
  /\ Anew

EnableUser ==
  /\ account' = [account EXCEPT !.enable = ~@]
  /\ UNCHANGED <<attempt, issued, challenges, guesses, verified, lost,
                 overlapped, shared>>

\* The clock passes locked_expired; the counter stays.
LockEnds ==
  /\ account.locked
  /\ account' = [account EXCEPT !.locked = FALSE]
  /\ UNCHANGED <<attempt, issued, challenges, verified, lost, shared>>
  /\ Anew

LoginNext ==
  \/ \E p \in Proc :
       \/ Begin(p) \/ RecordLoginFailure(p) \/ RecordFails(p)
       \/ ClearLoginFailure(p) \/ ClearFails(p)
       \/ IssueMFAChallenge(p) \/ Answer(p)
       \/ \E c \in Challenge : TakeChallenge(p, c)
       \/ VerifyMFACode(p)
  \/ \E c \in Challenge : ChallengeExpires(c)
  \/ SetPassword \/ EnableUser \/ LockEnds

LoginSpec == LoginInit /\ [][LoginNext]_loginVars

----------------------------------------------------------------------------
\* Properties

\* Requests that do not overlap keep the documented limits: no more than MaxErr
\* wrong passwords (USAGE.md:302), and those whose UPDATE failed, without a
\* success, a reset or a lock that has to end, and one code for each challenge
\* (mfa_challenge.go:34 and 40, USAGE.md:199).  Requests that overlap do not keep
\* them, but every further goroutine adds two passwords and one code at most.
GuessesAreBounded ==
  /\ guesses <= MaxGuesses
  /\ \A c \in Challenge : verified[c] <= MaxCodes(c)
=============================================================================
