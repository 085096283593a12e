------------------------------- MODULE PhoneCode -------------------------------
(***************************************************************************)
(* One-time codes sent to a phone: internal/user/phone_auth.go, for one    *)
(* number.  A code is a row of phone_verification_challenge; codes are     *)
(* numbered in the order they are requested.  phoneAuthService serialises  *)
(* issueCode and consumeCode with a mutex, but each process of the service *)
(* has one of its own: what several processes do to the rows is kept apart *)
(* by the WHERE clauses alone.                                             *)
(*                                                                         *)
(* Each action is one statement on the rows or one call of the sender; the *)
(* reads before the first are one step with it.                            *)
(*                                                                         *)
(* Abstracted: digests (a code matches the row it was made for, once the   *)
(* row has its digest), normalisation and masking, the hourly limits per   *)
(* number and per IP address, which work like the cooldown, audit rows,    *)
(* the account the code is for, and the clean-up of rows that expired a    *)
(* day ago.                                                                *)
(***************************************************************************)
EXTENDS Naturals

CONSTANTS
  Proc,         \* goroutines
  Inst,         \* processes of the service
  MaxCode,      \* bound: codes requested
  MaxAttempts,  \* wrong codes a row accepts
  NoProc        \* not a goroutine: the mutex is free

ASSUME PhoneCodeAssumption ==
  /\ MaxCode \in Nat
  /\ MaxAttempts \in Nat \ {0}
  /\ NoProc \notin Proc

VARIABLES
  home,       \* home[p]: the process goroutine p runs in
  requested,  \* how many codes have been requested
  rows,       \* rows[n]: the row of code n, or NoRow
  sent,       \* the codes that have reached the phone
  operation,  \* operation[i]: who holds the mutex of process i
  job,        \* job[p]: what goroutine p is doing
  tried,      \* tried[n]: wrong codes answered for row n
  spent       \* spent[n]: times code n was accepted

vars == <<home, requested, rows, sent, operation, job, tried, spent>>

Code == 1 .. MaxCode

\* The age of a row: 1 within the cooldown, 2 while the code is valid, 3 after
\* it has expired.
Row == [digest: BOOLEAN, attempts: 0 .. MaxAttempts, used: BOOLEAN, age: 1 .. 3]
NoRow == [none |-> TRUE]

Job == [pc: {"idle", "create", "digest", "send", "retire", "attempt", "consume"},
        n: 0 .. MaxCode, attempts: 0 .. MaxAttempts]
Idle == [pc |-> "idle", n |-> 0, attempts |-> 0]

TypeOK ==
  /\ home \in [Proc -> Inst]
  /\ requested \in 0 .. MaxCode
  /\ rows \in [Code -> Row \cup {NoRow}]
  /\ sent \subseteq Code
  /\ operation \in [Inst -> Proc \cup {NoProc}]
  /\ job \in [Proc -> Job]
  /\ tried \in [Code -> Nat]
  /\ spent \in [Code -> Nat]

Exists(n) == rows[n] # NoRow

\* ORDER BY requested_at DESC
Newest(n) == n \in Code /\ Exists(n) /\ \A k \in Code : Exists(k) => k <= n

\* Mutant: however many wrong codes it has had.
OpenUncounted(n) == ~rows[n].used /\ rows[n].age <= 2

\* A row that still accepts a code.
Open(n) == ~rows[n].used /\ rows[n].age <= 2 /\ rows[n].attempts < MaxAttempts

----------------------------------------------------------------------------
Init ==
  /\ home \in [Proc -> Inst]
  /\ requested = 0
  /\ rows = [n \in Code |-> NoRow]
  /\ sent = {}
  /\ operation = [i \in Inst |-> NoProc]
  /\ job = [p \in Proc |-> Idle]
  /\ tried = [n \in Code |-> 0]
  /\ spent = [n \in Code |-> 0]

\* The mutex of the process of p.
Lock(p) == /\ operation[home[p]] = NoProc
           /\ operation' = [operation EXCEPT ![home[p]] = p]

Finish(p) == /\ job' = [job EXCEPT ![p] = Idle]
             /\ operation' = [operation EXCEPT ![home[p]] = NoProc]

Goto(p, pc) == job' = [job EXCEPT ![p].pc = pc]

At(p, pc) == job[p].pc = pc

\* enforceLimits: the cooldown after the newest code.
Cooled == \A n \in Code : Newest(n) => rows[n].age > 1

\* Mutant: the request does not take the mutex.
IssueUnlocked(p) ==
  /\ At(p, "idle")
  /\ requested < MaxCode
  /\ Cooled
  /\ requested' = requested + 1
  /\ job' = [job EXCEPT ![p] = [pc |-> "create", n |-> requested + 1, attempts |-> 0]]
  /\ UNCHANGED <<home, rows, sent, operation, tried, spent>>

\* issueCode, until the row is created.
Issue(p) ==
  /\ At(p, "idle")
  /\ requested < MaxCode
  /\ Lock(p)
  /\ Cooled
  /\ requested' = requested + 1
  /\ job' = [job EXCEPT ![p] = [pc |-> "create", n |-> requested + 1, attempts |-> 0]]
  /\ UNCHANGED <<home, rows, sent, tried, spent>>

\* The row comes without the digest, which contains its ID; its age is that of
\* the request.
Create(p, age) ==
  /\ At(p, "create")
  /\ \A k \in Code : Exists(k) => IF k < job[p].n THEN age <= rows[k].age
                                                 ELSE age >= rows[k].age
  /\ rows' = [rows EXCEPT ![job[p].n] =
                [digest |-> FALSE, attempts |-> 0, used |-> FALSE, age |-> age]]
  /\ Goto(p, "digest")
  /\ UNCHANGED <<home, requested, sent, operation, tried, spent>>

Digest(p) ==
  /\ At(p, "digest")
  /\ rows' = [rows EXCEPT ![job[p].n].digest = TRUE]
  /\ Goto(p, "send")
  /\ UNCHANGED <<home, requested, sent, operation, tried, spent>>

SendCode(p) ==
  /\ At(p, "send")
  /\ sent' = sent \cup {job[p].n}
  /\ Goto(p, "retire")
  /\ UNCHANGED <<home, requested, rows, operation, tried, spent>>

\* The UPDATE of the digest or the sender fails, and the row is deleted.  The
\* sender may have delivered the code all the same.
IssueFails(p) ==
  /\ At(p, "digest") \/ At(p, "send")
  /\ rows' = [rows EXCEPT ![job[p].n] = NoRow]
  /\ \/ UNCHANGED sent
     \/ At(p, "send") /\ sent' = sent \cup {job[p].n}
  /\ Finish(p)
  /\ UNCHANGED <<home, requested, tried, spent>>

\* Every earlier code of the number is used up.
Retire(p) ==
  /\ At(p, "retire")
  /\ rows' = [n \in Code |-> IF Exists(n) /\ n # job[p].n
                               THEN [rows[n] EXCEPT !.used = TRUE]
                               ELSE rows[n]]
  /\ Finish(p)
  /\ UNCHANGED <<home, requested, sent, tried, spent>>

\* consumeCode with code c, or another one when c is 0, until it writes: the
\* newest row decides.
Verify(p, c) ==
  /\ At(p, "idle")
  /\ c \in sent \cup {0}
  /\ Lock(p)
  /\ \E n \in Code :
       /\ Newest(n) /\ Open(n)
       /\ job' = [job EXCEPT ![p] =
                    [pc |-> IF c = n /\ rows[n].digest THEN "consume" ELSE "attempt",
                     n |-> n, attempts |-> rows[n].attempts]]
  /\ UNCHANGED <<home, requested, rows, sent, tried, spent>>

\* Mutant: the counter is not written.
AttemptUncounted(p) ==
  /\ At(p, "attempt")
  /\ tried' = [tried EXCEPT ![job[p].n] = @ + 1]
  /\ Finish(p)
  /\ UNCHANGED <<home, requested, rows, sent, spent>>

\* A wrong code: the counter is written from what was read.
Attempt(p) ==
  /\ At(p, "attempt")
  /\ rows' = [rows EXCEPT ![job[p].n] =
                IF Exists(job[p].n) /\ ~rows[job[p].n].used
                  THEN [rows[job[p].n] EXCEPT !.attempts = job[p].attempts + 1]
                  ELSE @]
  /\ tried' = [tried EXCEPT ![job[p].n] = @ + 1]
  /\ Finish(p)
  /\ UNCHANGED <<home, requested, sent, spent>>

\* Mutant: the guard of the UPDATE is missing.
ConsumeUnguarded(p) ==
  /\ At(p, "consume")
  /\ Exists(job[p].n)
  /\ rows' = [rows EXCEPT ![job[p].n].used = TRUE]
  /\ spent' = [spent EXCEPT ![job[p].n] = @ + 1]
  /\ Finish(p)
  /\ UNCHANGED <<home, requested, sent, tried>>

\* The right code: it is accepted when the UPDATE still finds the row open.
Consume(p) ==
  /\ At(p, "consume")
  /\ LET n == job[p].n
         found == Exists(n) /\ ~rows[n].used /\ rows[n].attempts < MaxAttempts
     IN  IF found
           THEN /\ rows' = [rows EXCEPT ![n].used = TRUE]
                /\ spent' = [spent EXCEPT ![n] = @ + 1]
           ELSE UNCHANGED <<rows, spent>>
  /\ Finish(p)
  /\ UNCHANGED <<home, requested, sent, tried>>

\* The request is cancelled or the process stops: no later statement has an
\* effect, and the mutex is free.
Cancel(p) ==
  /\ ~At(p, "idle")
  /\ Finish(p)
  /\ UNCHANGED <<home, requested, rows, sent, tried, spent>>

\* Time passes for code n, after it has for those before it.
Age(n) ==
  /\ Exists(n) /\ rows[n].age < 3
  /\ \A k \in Code : Exists(k) /\ k < n => rows[k].age > rows[n].age
  /\ rows' = [rows EXCEPT ![n].age = @ + 1]
  /\ UNCHANGED <<home, requested, sent, operation, job, tried, spent>>

Next ==
  \/ \E p \in Proc :
       \/ Issue(p) \/ Digest(p) \/ SendCode(p) \/ IssueFails(p)
       \/ Retire(p)
       \/ \E age \in 1 .. 3 : Create(p, age)
       \/ \E c \in 0 .. MaxCode : Verify(p, c)
       \/ Attempt(p) \/ Consume(p)
       \/ Cancel(p)
  \/ \E n \in Code : Age(n)

Spec == Init /\ [][Next]_vars
----------------------------------------------------------------------------
\* Properties

OneProcess == \A p, q \in Proc : home[p] = home[q]

\* In one process a row answers MaxAttempts wrong codes and no more
\* (ErrPhoneCodeLocked).  Goroutines of two processes overwrite each other's
\* count, each at most once for every value it had; three could do more.
GuessesAreBounded ==
  \A n \in Code :
    tried[n] <= IF OneProcess THEN MaxAttempts
                              ELSE (MaxAttempts * (MaxAttempts + 3)) \div 2

\* In one process the newest code is used up by its own acceptance, never by
\* the issue of another one.
UsedIsAccepted ==
  OneProcess => \A n \in Code : Newest(n) /\ rows[n].used => spent[n] = 1

\* A code is accepted once, only when it has been sent (ErrPhoneCodeUsed), and in
\* one process only while it is the newest one, although it is looked up long
\* before it is marked as used.
AcceptedOnce ==
  [][\A n \in Code : spent'[n] # spent[n] =>
       /\ spent[n] = 0 /\ spent'[n] = 1
       /\ n \in sent
       /\ OneProcess => Newest(n)]_vars
=============================================================================
