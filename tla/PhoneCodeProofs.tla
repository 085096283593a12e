--------------------------- MODULE PhoneCodeProofs ---------------------------
(***************************************************************************)
(* Proofs about PhoneCode for any goroutines, processes, codes and limits. *)
(* What holds in any number of processes rests on the numbers of the codes *)
(* (IdInv, LifeInv): a row is created by one goroutine, once, and deleted  *)
(* only before its code is sent.  What holds in one process rests on its   *)
(* mutex as well (OneInv): what a goroutine has read is still so.  What     *)
(* holds in two is how much they can take back of each other's counts      *)
(* (TwoInv).                                                               *)
(***************************************************************************)
EXTENDS PhoneCode, TLAPS

Issuing == {"create", "digest", "send"}

\* Codes at work have been requested, each by one goroutine.
IdInv ==
  /\ \A p \in Proc : job[p].pc # "idle" => job[p].n \in 1 .. requested
  /\ \A p, q \in Proc :
       /\ p # q
       /\ job[p].pc \in Issuing \cup {"retire"}
       /\ job[q].pc \in Issuing \cup {"retire"}
       => job[p].n # job[q].n

\* The life of a code.
LifeInv ==
  \A n \in Code :
    /\ n > requested => rows[n] = NoRow /\ n \notin sent /\ spent[n] = 0
    /\ spent[n] \in {0, 1}
    /\ spent[n] = 1 => n \in sent
    /\ spent[n] = 1 /\ rows[n] # NoRow => rows[n].used

\* What a goroutine may rely on.
JobInv ==
  \A p \in Proc :
    /\ job[p].pc # "idle" => operation[home[p]] = p
    /\ job[p].pc \in Issuing => job[p].n \notin sent
    /\ job[p].pc = "create" => rows[job[p].n] = NoRow
    /\ job[p].pc \in {"digest", "send", "retire"} => rows[job[p].n] # NoRow
    /\ job[p].pc \in {"retire", "consume"} => job[p].n \in sent
    /\ job[p].pc = "attempt" => job[p].attempts < MaxAttempts

\* What it may rely on in one process.
OneJob(p) ==
  /\ job[p].pc \in Issuing \cup {"retire"} => job[p].n = requested
  /\ job[p].pc = "create" => tried[job[p].n] = 0
  /\ job[p].pc \in {"attempt", "consume"} =>
       /\ Newest(job[p].n)
       /\ ~rows[job[p].n].used
       /\ job[p].attempts = rows[job[p].n].attempts

OneRow(n) ==
  /\ n > requested => tried[n] = 0
  /\ tried[n] <= MaxAttempts
  /\ rows[n] # NoRow => tried[n] = rows[n].attempts
  /\ rows[n] # NoRow /\ rows[n].used /\ spent[n] = 0 =>
       \E m \in Code : m > n /\ m \in sent /\ rows[m] # NoRow

OneInv ==
  OneProcess => /\ \A p \in Proc : OneJob(p)
                /\ \A n \in Code : OneRow(n)

IInv == TypeOK /\ IdInv /\ LifeInv /\ JobInv /\ OneInv

----------------------------------------------------------------------------
LEMMA NoRowIsNone == NoRow \notin Row
<1> SUFFICES ASSUME NoRow \in Row PROVE FALSE
  OBVIOUS
<1>1. "digest" \in DOMAIN NoRow
  BY DEF Row
<1> QED BY <1>1 DEF NoRow

LEMMA IdleType == Idle \in Job /\ Idle.pc = "idle"
BY PhoneCodeAssumption DEF Idle, Job

\* In one process a goroutine at work is alone.
LEMMA Alone ==
  ASSUME TypeOK, JobInv, OneProcess, NEW p \in Proc, NEW q \in Proc,
         job[p].pc # "idle", job[q].pc # "idle"
  PROVE  p = q
<1>1. operation[home[p]] = p /\ operation[home[q]] = q
  BY DEF JobInv
<1>2. home[p] = home[q]
  BY DEF OneProcess
<1> QED BY <1>1, <1>2

LEMMA AtWork ==
  ASSUME TypeOK, IdInv, NEW p \in Proc, job[p].pc # "idle"
  PROVE  job[p].n \in Code /\ job[p].n <= requested /\ job[p].n \in Nat
<1>1. job[p].n \in 1 .. requested /\ requested \in 0 .. MaxCode
  BY DEF IdInv, TypeOK
<1> QED BY <1>1, PhoneCodeAssumption DEF Code

LEMMA InitIInv == Init => IInv
<1> SUFFICES ASSUME Init PROVE IInv
  OBVIOUS
<1>1. TypeOK
  BY IdleType, PhoneCodeAssumption DEF Init, TypeOK
<1>2. \A p \in Proc : job[p].pc = "idle"
  BY IdleType DEF Init
<1>3. IdInv /\ JobInv
  BY <1>2 DEF IdInv, JobInv, Issuing
<1>4. LifeInv
  BY DEF Init, LifeInv
<1>5. OneInv
  <2>1. \A p \in Proc : OneJob(p)
    BY <1>2 DEF OneJob, Issuing
  <2>2. \A n \in Code : OneRow(n)
    BY PhoneCodeAssumption DEF Init, OneRow
  <2> QED BY <2>1, <2>2 DEF OneInv
<1> QED BY <1>1, <1>3, <1>4, <1>5 DEF IInv

----------------------------------------------------------------------------
\* The effect of the common parts of the actions

\* A goroutine that finishes.
LEMMA Finished ==
  ASSUME TypeOK, JobInv, NEW p \in Proc, job[p].pc # "idle", Finish(p)
  PROVE  /\ job' \in [Proc -> Job]
         /\ operation' \in [Inst -> Proc \cup {NoProc}]
         /\ job'[p].pc = "idle"
         /\ \A q \in Proc : q # p => job'[q] = job[q]
         /\ \A q \in Proc : home[q] = home[p] /\ q # p => job[q].pc = "idle"
         /\ \A q \in Proc : job'[q].pc # "idle" =>
              q # p /\ job'[q] = job[q] /\ operation'[home[q]] = q
<1>1. /\ job' = [job EXCEPT ![p] = Idle]
      /\ operation' = [operation EXCEPT ![home[p]] = NoProc]
  BY DEF Finish
<1>2. \A q \in Proc : job[q].pc # "idle" => operation[home[q]] = q
  BY DEF JobInv
<1>3. /\ job' \in [Proc -> Job] /\ job'[p].pc = "idle"
      /\ \A q \in Proc : q # p => job'[q] = job[q]
  BY <1>1, IdleType DEF TypeOK
<1>4. operation' \in [Inst -> Proc \cup {NoProc}]
  BY <1>1 DEF TypeOK
<1>5. \A q \in Proc : home[q] = home[p] /\ q # p => job[q].pc = "idle"
  BY <1>2
<1>6. \A q \in Proc : home[q] # home[p] => operation'[home[q]] = operation[home[q]]
  BY <1>1 DEF TypeOK
<1>7. \A q \in Proc : job'[q].pc # "idle" =>
        q # p /\ job'[q] = job[q] /\ operation'[home[q]] = q
  BY <1>2, <1>3, <1>5, <1>6
<1> QED BY <1>3, <1>4, <1>5, <1>7

\* A goroutine that begins with the mutex.
LEMMA Begun ==
  ASSUME TypeOK, JobInv, NEW p \in Proc, Lock(p), NEW j \in Job,
         job' = [job EXCEPT ![p] = j]
  PROVE  /\ job' \in [Proc -> Job]
         /\ operation' \in [Inst -> Proc \cup {NoProc}]
         /\ job'[p] = j /\ operation'[home[p]] = p
         /\ \A q \in Proc : q # p => job'[q] = job[q]
         /\ \A q \in Proc : home[q] = home[p] => job[q].pc = "idle"
         /\ \A q \in Proc : q # p /\ job'[q].pc # "idle" => operation'[home[q]] = q
<1>1. /\ operation[home[p]] = NoProc
      /\ operation' = [operation EXCEPT ![home[p]] = p]
  BY DEF Lock
<1>2. \A q \in Proc : job[q].pc # "idle" => operation[home[q]] = q
  BY DEF JobInv
<1>3. \A q \in Proc : home[q] = home[p] => job[q].pc = "idle"
  BY <1>1, <1>2, PhoneCodeAssumption
<1>4. operation'[home[p]] = p /\ operation' \in [Inst -> Proc \cup {NoProc}]
  BY <1>1 DEF TypeOK
<1>5. \A q \in Proc : q # p => job'[q] = job[q]
  BY DEF TypeOK
<1>6. \A q \in Proc : home[q] # home[p] => operation'[home[q]] = operation[home[q]]
  BY <1>1 DEF TypeOK
<1>7. job' \in [Proc -> Job] /\ job'[p] = j
  BY DEF TypeOK
<1>8. \A q \in Proc : q # p /\ job'[q].pc # "idle" => operation'[home[q]] = q
  BY <1>2, <1>3, <1>5, <1>6
<1> QED BY <1>3, <1>4, <1>5, <1>7, <1>8

\* A goroutine that goes on.
LEMMA Continued ==
  ASSUME TypeOK, NEW p \in Proc, NEW pc, Goto(p, pc),
         [job[p] EXCEPT !.pc = pc] \in Job
  PROVE  /\ job' \in [Proc -> Job]
         /\ job'[p].pc = pc /\ job'[p].n = job[p].n
         /\ job'[p].attempts = job[p].attempts
         /\ \A q \in Proc : q # p => job'[q] = job[q]
<1>1. job' = [job EXCEPT ![p] = [job[p] EXCEPT !.pc = pc]]
  BY DEF Goto, TypeOK
<1>2. job[p] \in Job
  BY DEF TypeOK
<1> QED BY <1>1, <1>2 DEF TypeOK, Job

----------------------------------------------------------------------------
\* One lemma for each action

LEMMA CancelKeepsIInv ==
  ASSUME IInv, NEW p \in Proc, Cancel(p)
  PROVE  IInv'
<1>1. /\ job[p].pc # "idle" /\ Finish(p)
      /\ UNCHANGED <<home, requested, rows, sent, tried, spent>>
  BY DEF Cancel, At
<1>2. /\ job' \in [Proc -> Job]
      /\ operation' \in [Inst -> Proc \cup {NoProc}]
      /\ \A q \in Proc : job'[q].pc # "idle" =>
           q # p /\ job'[q] = job[q] /\ operation'[home[q]] = q
  BY <1>1, Finished DEF IInv
<1>3. TypeOK'
  BY <1>1, <1>2 DEF IInv, TypeOK
<1>4. IdInv'
  BY <1>1, <1>2 DEF IInv, IdInv, Issuing
<1>5. LifeInv'
  BY <1>1 DEF IInv, LifeInv
<1>6. JobInv'
  BY <1>1, <1>2 DEF IInv, JobInv, Issuing
<1>7. OneInv'
  <2> SUFFICES ASSUME OneProcess'
               PROVE  (\A q \in Proc : OneJob(q)') /\ (\A n \in Code : OneRow(n)')
    BY DEF OneInv
  <2>1. OneProcess
    BY <1>1 DEF OneProcess
  <2>2. \A q \in Proc : OneJob(q)'
    BY <1>1, <1>2, <2>1 DEF IInv, OneInv, OneJob, Newest, Exists, Issuing
  <2>3. \A n \in Code : OneRow(n)'
    BY <1>1, <2>1 DEF IInv, OneInv, OneRow
  <2> QED BY <2>2, <2>3
<1> QED BY <1>3, <1>4, <1>5, <1>6, <1>7 DEF IInv

LEMMA IssueKeepsIInv ==
  ASSUME IInv, NEW p \in Proc, Issue(p)
  PROVE  IInv'
<1> DEFINE j == [pc |-> "create", n |-> requested + 1, attempts |-> 0]
<1>1. /\ Lock(p) /\ job' = [job EXCEPT ![p] = j]
      /\ requested' = requested + 1 /\ requested < MaxCode
      /\ UNCHANGED <<home, rows, sent, tried, spent>>
  BY DEF Issue
<1>2. requested \in Nat /\ requested + 1 \in Code /\ j \in Job
  BY <1>1, PhoneCodeAssumption DEF IInv, TypeOK, Code, Job
<1>3. /\ job' \in [Proc -> Job]
      /\ operation' \in [Inst -> Proc \cup {NoProc}]
      /\ job'[p] = j /\ operation'[home[p]] = p
      /\ \A q \in Proc : q # p => job'[q] = job[q]
      /\ \A q \in Proc : home[q] = home[p] => job[q].pc = "idle"
      /\ \A q \in Proc : q # p /\ job'[q].pc # "idle" => operation'[home[q]] = q
  <2> HIDE DEF j
  <2> QED BY <1>1, <1>2, Begun DEF IInv
<1>4. TypeOK'
  BY <1>1, <1>2, <1>3 DEF IInv, TypeOK, Code
<1>5. IdInv'
  <2>1. \A q \in Proc : job'[q].pc # "idle" => job'[q].n \in 1 .. requested'
    BY <1>1, <1>2, <1>3 DEF IInv, IdInv
  <2>2. \A q \in Proc : q # p /\ job'[q].pc # "idle" => job'[q].n # requested + 1
    BY <1>2, <1>3 DEF IInv, IdInv
  <2> QED BY <1>3, <2>1, <2>2 DEF IInv, IdInv, Issuing
<1>6. LifeInv'
  BY <1>1, <1>2 DEF IInv, LifeInv, Code
<1>7. JobInv'
  <2>1. rows[requested + 1] = NoRow /\ requested + 1 \notin sent
    BY <1>2 DEF IInv, LifeInv
  <2> QED BY <1>1, <1>3, <2>1 DEF IInv, JobInv, Issuing
<1>8. OneInv'
  <2> SUFFICES ASSUME OneProcess'
               PROVE  (\A q \in Proc : OneJob(q)') /\ (\A n \in Code : OneRow(n)')
    BY DEF OneInv
  <2>1. OneProcess
    BY <1>1 DEF OneProcess
  <2>2. \A q \in Proc : q # p => job'[q].pc = "idle"
    BY <1>3, <2>1 DEF OneProcess
  <2>3. tried[requested + 1] = 0
    BY <1>2, <2>1 DEF IInv, OneInv, OneRow
  <2>4. \A q \in Proc : OneJob(q)'
    BY <1>1, <1>3, <2>2, <2>3 DEF OneJob, Issuing
  <2>5. \A n \in Code : OneRow(n)'
    BY <1>1, <1>2, <2>1 DEF IInv, OneInv, OneRow, Code
  <2> QED BY <2>4, <2>5
<1> QED BY <1>4, <1>5, <1>6, <1>7, <1>8 DEF IInv

LEMMA CreateKeepsIInv ==
  ASSUME IInv, NEW p \in Proc, NEW age \in 1 .. 3, Create(p, age)
  PROVE  IInv'
<1> DEFINE n == job[p].n
           row == [digest |-> FALSE, attempts |-> 0, used |-> FALSE, age |-> age]
<1>1. /\ job[p].pc = "create" /\ Goto(p, "digest")
      /\ rows' = [rows EXCEPT ![n] = row]
      /\ UNCHANGED <<home, requested, sent, operation, tried, spent>>
  BY DEF Create, At
<1>2. /\ n \in Code /\ n <= requested /\ n \in Nat
      /\ n \notin sent /\ rows[n] = NoRow
  <2>1. job[p].pc # "idle" /\ job[p].pc \in Issuing
    BY <1>1 DEF Issuing
  <2>2. n \notin sent /\ rows[n] = NoRow
    BY <1>1, <2>1 DEF IInv, JobInv
  <2> QED BY <2>1, <2>2, AtWork DEF IInv
<1>3. row \in Row /\ row # NoRow
  <2>1. row \in Row
    BY PhoneCodeAssumption DEF Row
  <2> QED BY <2>1, NoRowIsNone
<1>4. /\ rows' \in [Code -> Row \cup {NoRow}] /\ rows'[n] = row
      /\ \A k \in Code : k # n => rows'[k] = rows[k]
  BY <1>1, <1>2, <1>3 DEF IInv, TypeOK
<1>5. /\ job' \in [Proc -> Job]
      /\ job'[p].pc = "digest" /\ job'[p].n = n
      /\ \A q \in Proc : q # p => job'[q] = job[q]
  <2>1. [job[p] EXCEPT !.pc = "digest"] \in Job
    BY DEF IInv, TypeOK, Job
  <2> QED BY <1>1, <2>1, Continued DEF IInv
<1>6. \A q \in Proc : q # p /\ job[q].pc \in Issuing \cup {"retire"} => job[q].n # n
  BY <1>1 DEF IInv, IdInv, Issuing
<1>7. TypeOK'
  BY <1>1, <1>4, <1>5 DEF IInv, TypeOK
<1>8. IdInv'
  BY <1>1, <1>2, <1>5 DEF IInv, IdInv, Issuing
<1>9. LifeInv'
  <2> SUFFICES ASSUME NEW k \in Code
               PROVE  /\ k > requested => rows'[k] = NoRow /\ k \notin sent /\ spent[k] = 0
                      /\ spent[k] \in {0, 1}
                      /\ spent[k] = 1 => k \in sent
                      /\ spent[k] = 1 /\ rows'[k] # NoRow => rows'[k].used
    BY <1>1 DEF LifeInv
  <2>1. requested \in Nat
    BY PhoneCodeAssumption DEF IInv, TypeOK
  <2>2. CASE k = n
    BY <1>2, <2>1, <2>2 DEF IInv, LifeInv
  <2>3. CASE k # n
    BY <1>4, <2>3 DEF IInv, LifeInv
  <2> QED BY <2>2, <2>3
<1>10. JobInv'
  BY <1>1, <1>2, <1>3, <1>4, <1>5, <1>6 DEF IInv, JobInv, IdInv, TypeOK, Issuing, Code
<1>11. OneInv'
  <2> SUFFICES ASSUME OneProcess'
               PROVE  (\A q \in Proc : OneJob(q)') /\ (\A k \in Code : OneRow(k)')
    BY DEF OneInv
  <2>1. OneProcess
    BY <1>1 DEF OneProcess
  <2>2. \A q \in Proc : q # p => job'[q].pc = "idle"
    BY <1>1, <1>5, <2>1, Alone DEF IInv
  <2>3. n = requested /\ tried[n] = 0
    BY <1>1, <2>1 DEF IInv, OneInv, OneJob, Issuing
  <2>4. \A q \in Proc : OneJob(q)'
    BY <1>1, <1>5, <2>2, <2>3 DEF OneJob, Issuing
  <2>5. \A k \in Code : OneRow(k)'
    <3> SUFFICES ASSUME NEW k \in Code PROVE OneRow(k)'
      OBVIOUS
    <3>1. CASE k = n
      BY <1>1, <1>3, <1>4, <2>1, <2>3, <3>1 DEF IInv, OneInv, OneRow
    <3>2. CASE k # n
      <4>1. OneRow(k) /\ rows'[k] = rows[k]
        BY <1>4, <2>1, <3>2 DEF IInv, OneInv
      <4>2. \A m \in Code : rows[m] # NoRow => rows'[m] # NoRow
        BY <1>3, <1>4
      <4> QED BY <1>1, <4>1, <4>2 DEF OneRow
    <3> QED BY <3>1, <3>2
  <2> QED BY <2>4, <2>5
<1> QED BY <1>7, <1>8, <1>9, <1>10, <1>11 DEF IInv

\* A step that keeps the rows there are, how they were used and how many wrong
\* codes they have had.
SameRows ==
  \A k \in Code : /\ rows'[k] = NoRow <=> rows[k] = NoRow
                  /\ rows[k] # NoRow => /\ rows'[k].used = rows[k].used
                                        /\ rows'[k].attempts = rows[k].attempts

LEMMA SameRowsKeepLife ==
  ASSUME LifeInv, SameRows, sent \subseteq sent', UNCHANGED <<requested, spent>>,
         \A k \in Code : k > requested => k \notin sent'
  PROVE  LifeInv'
BY DEF LifeInv, SameRows

LEMMA SameRowsKeepOneRow ==
  ASSUME SameRows, sent \subseteq sent', UNCHANGED <<requested, spent, tried>>,
         \A k \in Code : OneRow(k)
  PROVE  \A k \in Code : OneRow(k)'
BY DEF OneRow, SameRows

LEMMA DigestKeepsIInv ==
  ASSUME IInv, NEW p \in Proc, Digest(p)
  PROVE  IInv'
<1> DEFINE n == job[p].n
<1>1. /\ job[p].pc = "digest" /\ Goto(p, "send")
      /\ rows' = [rows EXCEPT ![n].digest = TRUE]
      /\ UNCHANGED <<home, requested, sent, operation, tried, spent>>
  BY DEF Digest, At
<1>2. n \in Code /\ n <= requested /\ n \notin sent /\ rows[n] # NoRow /\ rows[n] \in Row
  <2>1. job[p].pc # "idle" /\ job[p].pc \in Issuing
    BY <1>1 DEF Issuing
  <2>2. n \notin sent /\ rows[n] # NoRow
    BY <1>1, <2>1 DEF IInv, JobInv
  <2>3. n \in Code /\ n <= requested
    BY <2>1, AtWork DEF IInv
  <2> QED BY <2>2, <2>3 DEF IInv, TypeOK
<1>3. /\ rows'[n] \in Row /\ rows'[n].used = rows[n].used
      /\ rows'[n].attempts = rows[n].attempts
      /\ \A k \in Code : k # n => rows'[k] = rows[k]
      /\ rows' \in [Code -> Row \cup {NoRow}]
  <2> DEFINE row == [rows[n] EXCEPT !.digest = TRUE]
  <2>1. rows' = [rows EXCEPT ![n] = row]
    BY <1>1 DEF IInv, TypeOK
  <2>2. row \in Row /\ row.used = rows[n].used /\ row.attempts = rows[n].attempts
    BY <1>2 DEF Row
  <2> HIDE DEF row
  <2> QED BY <1>2, <2>1, <2>2 DEF IInv, TypeOK
<1>4. SameRows
  BY <1>2, <1>3, NoRowIsNone DEF SameRows
<1>5. /\ job' \in [Proc -> Job]
      /\ job'[p].pc = "send" /\ job'[p].n = n
      /\ \A q \in Proc : q # p => job'[q] = job[q]
  <2>1. [job[p] EXCEPT !.pc = "send"] \in Job
    BY DEF IInv, TypeOK, Job
  <2> QED BY <1>1, <2>1, Continued DEF IInv
<1>6. TypeOK'
  BY <1>1, <1>3, <1>5 DEF IInv, TypeOK
<1>7. IdInv'
  BY <1>1, <1>2, <1>5 DEF IInv, IdInv, Issuing
<1>8. LifeInv'
  BY <1>1, <1>4, SameRowsKeepLife DEF IInv, LifeInv
<1>9. JobInv'
  <2>1. \A q \in Proc : job[q].pc # "idle" => job[q].n \in Code
    BY AtWork DEF IInv
  <2> QED BY <1>1, <1>2, <1>4, <1>5, <2>1 DEF IInv, JobInv, SameRows, Issuing
<1>10. OneInv'
  <2> SUFFICES ASSUME OneProcess'
               PROVE  (\A q \in Proc : OneJob(q)') /\ (\A k \in Code : OneRow(k)')
    BY DEF OneInv
  <2>1. OneProcess
    BY <1>1 DEF OneProcess
  <2>2. \A q \in Proc : q # p => job'[q].pc = "idle"
    BY <1>1, <1>5, <2>1, Alone DEF IInv
  <2>3. n = requested
    BY <1>1, <2>1 DEF IInv, OneInv, OneJob, Issuing
  <2>4. \A q \in Proc : OneJob(q)'
    BY <1>1, <1>5, <2>2, <2>3 DEF OneJob, Issuing
  <2>5. \A k \in Code : OneRow(k)'
    BY <1>1, <1>4, <2>1, SameRowsKeepOneRow DEF IInv, OneInv
  <2> QED BY <2>4, <2>5
<1> QED BY <1>6, <1>7, <1>8, <1>9, <1>10 DEF IInv

LEMMA SendCodeKeepsIInv ==
  ASSUME IInv, NEW p \in Proc, SendCode(p)
  PROVE  IInv'
<1> DEFINE n == job[p].n
<1>1. /\ job[p].pc = "send" /\ Goto(p, "retire")
      /\ sent' = sent \cup {n}
      /\ UNCHANGED <<home, requested, rows, operation, tried, spent>>
  BY DEF SendCode, At
<1>2. n \in Code /\ n <= requested /\ n \in Nat /\ rows[n] # NoRow
  <2>1. job[p].pc # "idle"
    BY <1>1
  <2>2. rows[n] # NoRow
    BY <1>1 DEF IInv, JobInv
  <2> QED BY <2>1, <2>2, AtWork DEF IInv
<1>3. /\ job' \in [Proc -> Job]
      /\ job'[p].pc = "retire" /\ job'[p].n = n
      /\ \A q \in Proc : q # p => job'[q] = job[q]
  <2>1. [job[p] EXCEPT !.pc = "retire"] \in Job
    BY DEF IInv, TypeOK, Job
  <2> QED BY <1>1, <2>1, Continued DEF IInv
<1>4. \A q \in Proc : q # p /\ job[q].pc \in Issuing => job[q].n # n
  BY <1>1 DEF IInv, IdInv, Issuing
<1>5. SameRows
  BY <1>1 DEF SameRows
<1>6. TypeOK'
  BY <1>1, <1>2, <1>3 DEF IInv, TypeOK
<1>7. IdInv'
  BY <1>1, <1>3 DEF IInv, IdInv, Issuing
<1>8. LifeInv'
  <2>1. \A k \in Code : k > requested => k \notin sent'
    <3>1. requested \in Nat
      BY PhoneCodeAssumption DEF IInv, TypeOK
    <3> QED BY <1>1, <1>2, <3>1 DEF IInv, LifeInv
  <2> QED BY <1>1, <1>5, <2>1, SameRowsKeepLife DEF IInv
<1>9. JobInv'
  BY <1>1, <1>2, <1>3, <1>4 DEF IInv, JobInv, Issuing
<1>10. OneInv'
  <2> SUFFICES ASSUME OneProcess'
               PROVE  (\A q \in Proc : OneJob(q)') /\ (\A k \in Code : OneRow(k)')
    BY DEF OneInv
  <2>1. OneProcess
    BY <1>1 DEF OneProcess
  <2>2. \A q \in Proc : q # p => job'[q].pc = "idle"
    BY <1>1, <1>3, <2>1, Alone DEF IInv
  <2>3. n = requested
    BY <1>1, <2>1 DEF IInv, OneInv, OneJob, Issuing
  <2>4. \A q \in Proc : OneJob(q)'
    BY <1>1, <1>3, <2>2, <2>3 DEF OneJob, Issuing
  <2>5. \A k \in Code : OneRow(k)'
    BY <1>1, <1>5, <2>1, SameRowsKeepOneRow DEF IInv, OneInv
  <2> QED BY <2>4, <2>5
<1> QED BY <1>6, <1>7, <1>8, <1>9, <1>10 DEF IInv

LEMMA IssueFailsKeepsIInv ==
  ASSUME IInv, NEW p \in Proc, IssueFails(p)
  PROVE  IInv'
<1> DEFINE n == job[p].n
<1>1. /\ job[p].pc \in {"digest", "send"} /\ Finish(p)
      /\ rows' = [rows EXCEPT ![n] = NoRow]
      /\ sent' = sent \/ sent' = sent \cup {n}
      /\ UNCHANGED <<home, requested, tried, spent>>
  BY DEF IssueFails, At
<1>2. n \in Code /\ n <= requested /\ n \in Nat /\ n \notin sent
  <2>1. job[p].pc # "idle" /\ job[p].pc \in Issuing
    BY <1>1 DEF Issuing
  <2>2. n \notin sent
    BY <2>1 DEF IInv, JobInv
  <2> QED BY <2>1, <2>2, AtWork DEF IInv
<1>3. /\ rows' \in [Code -> Row \cup {NoRow}] /\ rows'[n] = NoRow
      /\ \A k \in Code : k # n => rows'[k] = rows[k]
  BY <1>1, <1>2 DEF IInv, TypeOK
<1>4. /\ job' \in [Proc -> Job]
      /\ operation' \in [Inst -> Proc \cup {NoProc}]
      /\ \A q \in Proc : job'[q].pc # "idle" =>
           q # p /\ job'[q] = job[q] /\ operation'[home[q]] = q
  <2>1. job[p].pc # "idle"
    BY <1>1
  <2> QED BY <1>1, <2>1, Finished DEF IInv
<1>5. \A q \in Proc : q # p /\ job[q].pc \in Issuing \cup {"retire"} => job[q].n # n
  BY <1>1 DEF IInv, IdInv, Issuing
<1>6. TypeOK'
  BY <1>1, <1>2, <1>3, <1>4 DEF IInv, TypeOK
<1>7. IdInv'
  BY <1>1, <1>4 DEF IInv, IdInv, Issuing
<1>8. LifeInv'
  <2> SUFFICES ASSUME NEW k \in Code
               PROVE  /\ k > requested => rows'[k] = NoRow /\ k \notin sent' /\ spent[k] = 0
                      /\ spent[k] \in {0, 1}
                      /\ spent[k] = 1 => k \in sent'
                      /\ spent[k] = 1 /\ rows'[k] # NoRow => rows'[k].used
    BY <1>1 DEF LifeInv
  <2>1. requested \in Nat
    BY PhoneCodeAssumption DEF IInv, TypeOK
  <2>2. CASE k = n
    BY <1>1, <1>2, <1>3, <2>1, <2>2 DEF IInv, LifeInv
  <2>3. CASE k # n
    BY <1>1, <1>3, <2>3 DEF IInv, LifeInv
  <2> QED BY <2>2, <2>3
<1>9. JobInv'
  <2>1. \A q \in Proc : job[q].pc # "idle" => job[q].n \in Code
    BY AtWork DEF IInv
  <2> SUFFICES ASSUME NEW q \in Proc, job'[q].pc # "idle"
               PROVE  /\ operation'[home[q]] = q
                      /\ job[q].pc \in Issuing => job[q].n \notin sent'
                      /\ job[q].pc = "create" => rows'[job[q].n] = NoRow
                      /\ job[q].pc \in {"digest", "send", "retire"} => rows'[job[q].n] # NoRow
                      /\ job[q].pc \in {"retire", "consume"} => job[q].n \in sent'
                      /\ job[q].pc = "attempt" => job[q].attempts < MaxAttempts
    BY <1>1, <1>4 DEF JobInv, Issuing
  <2>2. q # p /\ job'[q] = job[q] /\ operation'[home[q]] = q
    BY <1>4
  <2>3. job[q].pc \in Issuing \cup {"retire"} => job[q].n # n /\ rows'[job[q].n] = rows[job[q].n]
    BY <1>3, <1>5, <2>1, <2>2 DEF Issuing
  <2> QED BY <1>1, <2>2, <2>3 DEF IInv, JobInv, Issuing
<1>10. OneInv'
  <2> SUFFICES ASSUME OneProcess'
               PROVE  (\A q \in Proc : OneJob(q)') /\ (\A k \in Code : OneRow(k)')
    BY DEF OneInv
  <2>1. OneProcess
    BY <1>1 DEF OneProcess
  <2>2. \A q \in Proc : job'[q].pc = "idle"
    BY <1>1, <1>4, <2>1, Alone DEF IInv
  <2>3. \A q \in Proc : OneJob(q)'
    BY <2>2 DEF OneJob, Issuing
  <2>4. ASSUME NEW k \in Code PROVE OneRow(k)'
    <3>1. OneRow(k)
      BY <2>1 DEF IInv, OneInv
    <3>2. \A m \in Code : m \in sent /\ rows[m] # NoRow => m \in sent' /\ rows'[m] # NoRow
      BY <1>1, <1>2, <1>3
    <3>3. CASE k = n
      BY <1>1, <1>3, <3>1, <3>3 DEF OneRow
    <3>4. CASE k # n
      <4>1. rows'[k] = rows[k]
        BY <1>3, <3>4
      <4> QED BY <1>1, <3>1, <3>2, <4>1 DEF OneRow
    <3> QED BY <3>3, <3>4
  <2> QED BY <2>3, <2>4
<1> QED BY <1>6, <1>7, <1>8, <1>9, <1>10 DEF IInv

LEMMA RetireKeepsIInv ==
  ASSUME IInv, NEW p \in Proc, Retire(p)
  PROVE  IInv'
<1> DEFINE n == job[p].n
<1>1. /\ job[p].pc = "retire" /\ Finish(p)
      /\ rows' = [k \in Code |-> IF Exists(k) /\ k # n
                                   THEN [rows[k] EXCEPT !.used = TRUE]
                                   ELSE rows[k]]
      /\ UNCHANGED <<home, requested, sent, tried, spent>>
  BY DEF Retire, At
<1>2. n \in Code /\ n <= requested /\ n \in Nat /\ n \in sent /\ rows[n] # NoRow
  <2>1. job[p].pc # "idle" /\ n \in sent /\ rows[n] # NoRow
    BY <1>1 DEF IInv, JobInv
  <2> QED BY <2>1, AtWork DEF IInv
<1>3. ASSUME NEW k \in Code
      PROVE  /\ rows'[k] \in Row \cup {NoRow}
             /\ rows'[k] = NoRow <=> rows[k] = NoRow
             /\ rows[k] # NoRow =>
                  /\ rows'[k].attempts = rows[k].attempts
                  /\ rows'[k].used = (rows[k].used \/ k # n)
  <2>1. CASE Exists(k) /\ k # n
    <3>1. rows[k] \in Row
      BY <2>1 DEF IInv, TypeOK, Exists
    <3>2. rows'[k] = [rows[k] EXCEPT !.used = TRUE]
      BY <1>1, <2>1
    <3>3. /\ rows'[k] \in Row /\ rows'[k].used = TRUE
          /\ rows'[k].attempts = rows[k].attempts
      BY <3>1, <3>2 DEF Row
    <3> QED BY <2>1, <3>3, NoRowIsNone DEF Exists
  <2>2. CASE ~(Exists(k) /\ k # n)
    <3>1. rows'[k] = rows[k]
      BY <1>1, <2>2
    <3>2. rows[k] # NoRow => rows[k].used \in BOOLEAN
      BY DEF IInv, TypeOK, Row
    <3> QED BY <2>2, <3>1, <3>2 DEF IInv, TypeOK, Exists
  <2> QED BY <2>1, <2>2
<1>4. /\ job' \in [Proc -> Job]
      /\ operation' \in [Inst -> Proc \cup {NoProc}]
      /\ \A q \in Proc : job'[q].pc # "idle" =>
           q # p /\ job'[q] = job[q] /\ operation'[home[q]] = q
  <2>1. job[p].pc # "idle"
    BY <1>1
  <2> QED BY <1>1, <2>1, Finished DEF IInv
<1>5. TypeOK'
  <2>1. rows' \in [Code -> Row \cup {NoRow}]
    BY <1>1, <1>3
  <2> QED BY <1>1, <1>4, <2>1 DEF IInv, TypeOK
<1>6. IdInv'
  BY <1>1, <1>4 DEF IInv, IdInv, Issuing
<1>7. LifeInv'
  BY <1>1, <1>3 DEF IInv, LifeInv
<1>8. JobInv'
  <2>1. \A q \in Proc : job[q].pc # "idle" => job[q].n \in Code
    BY AtWork DEF IInv
  <2>2. \A k \in Code : rows'[k] = NoRow <=> rows[k] = NoRow
    BY <1>3
  <2> QED BY <1>1, <1>4, <2>1, <2>2 DEF IInv, JobInv, Issuing
<1>9. OneInv'
  <2> SUFFICES ASSUME OneProcess'
               PROVE  (\A q \in Proc : OneJob(q)') /\ (\A k \in Code : OneRow(k)')
    BY DEF OneInv
  <2>1. OneProcess
    BY <1>1 DEF OneProcess
  <2>2. \A q \in Proc : job'[q].pc = "idle"
    BY <1>1, <1>4, <2>1, Alone DEF IInv
  <2>3. \A q \in Proc : OneJob(q)'
    BY <2>2 DEF OneJob, Issuing
  <2>4. n = requested
    BY <1>1, <2>1 DEF IInv, OneInv, OneJob, Issuing
  <2>5. ASSUME NEW k \in Code PROVE OneRow(k)'
    <3>1. OneRow(k)
      BY <2>1 DEF IInv, OneInv
    <3>2. rows[k] # NoRow => k <= n
      BY <2>4, <1>2 DEF IInv, LifeInv, Code
    <3>3. /\ k > requested' => tried'[k] = 0
          /\ tried'[k] <= MaxAttempts
          /\ rows'[k] # NoRow => tried'[k] = rows'[k].attempts
      BY <1>1, <1>3, <3>1 DEF OneRow
    <3>4. ASSUME rows'[k] # NoRow, rows'[k].used, spent'[k] = 0
          PROVE  \E m \in Code : m > k /\ m \in sent' /\ rows'[m] # NoRow
      <4>1. rows[k] # NoRow /\ (rows[k].used \/ k # n)
        BY <1>3, <3>4
      <4>2. CASE k = n
        <5>1. \E m \in Code : m > k /\ m \in sent /\ rows[m] # NoRow
          BY <1>1, <3>1, <3>4, <4>1, <4>2 DEF OneRow
        <5> QED BY <1>1, <1>3, <5>1
      <4>3. CASE k # n
        <5>1. n > k /\ n \in sent' /\ rows'[n] # NoRow
          BY <1>1, <1>2, <1>3, <3>2, <4>1, <4>3 DEF Code
        <5> QED BY <1>2, <5>1
      <4> QED BY <4>2, <4>3
    <3> QED BY <3>3, <3>4 DEF OneRow
  <2> QED BY <2>3, <2>5
<1> QED BY <1>5, <1>6, <1>7, <1>8, <1>9 DEF IInv

LEMMA VerifyKeepsIInv ==
  ASSUME IInv, NEW p \in Proc, NEW c \in 0 .. MaxCode, Verify(p, c)
  PROVE  IInv'
<1>1. /\ c \in sent \cup {0} /\ Lock(p)
      /\ UNCHANGED <<home, requested, rows, sent, tried, spent>>
  BY DEF Verify
<1>2. PICK n \in Code :
        /\ Newest(n) /\ Open(n)
        /\ job' = [job EXCEPT ![p] =
                     [pc |-> IF c = n /\ rows[n].digest THEN "consume" ELSE "attempt",
                      n |-> n, attempts |-> rows[n].attempts]]
  BY DEF Verify
<1> DEFINE j == [pc |-> IF c = n /\ rows[n].digest THEN "consume" ELSE "attempt",
                 n |-> n, attempts |-> rows[n].attempts]
<1>3. /\ rows[n] \in Row /\ rows[n] # NoRow
      /\ ~rows[n].used /\ rows[n].attempts < MaxAttempts
  BY <1>2 DEF IInv, TypeOK, Newest, Exists, Open
<1>4. j \in Job /\ n \in 1 .. requested /\ n \in Nat \ {0}
  <2>1. n <= requested
    BY <1>3 DEF IInv, LifeInv, TypeOK, Code
  <2>2. j \in Job
    BY <1>3 DEF Job, Row, Code
  <2> QED BY <2>1, <2>2, PhoneCodeAssumption DEF Code, IInv, TypeOK
<1>5. /\ j.pc \in {"attempt", "consume"} /\ j.n = n /\ j.attempts = rows[n].attempts
      /\ j.pc = "consume" => n \in sent
  BY <1>1, <1>4
<1> HIDE DEF j
<1>6. /\ job' \in [Proc -> Job]
      /\ operation' \in [Inst -> Proc \cup {NoProc}]
      /\ job'[p] = j /\ operation'[home[p]] = p
      /\ \A q \in Proc : q # p => job'[q] = job[q]
      /\ \A q \in Proc : home[q] = home[p] => job[q].pc = "idle"
      /\ \A q \in Proc : q # p /\ job'[q].pc # "idle" => operation'[home[q]] = q
  <2>1. job' = [job EXCEPT ![p] = j]
    BY <1>2 DEF j
  <2> QED BY <1>1, <1>4, <2>1, Begun DEF IInv
<1>7. TypeOK'
  BY <1>1, <1>6 DEF IInv, TypeOK
<1>8. IdInv'
  BY <1>1, <1>4, <1>5, <1>6 DEF IInv, IdInv, Issuing
<1>9. LifeInv'
  BY <1>1 DEF IInv, LifeInv
<1>10. JobInv'
  BY <1>1, <1>3, <1>5, <1>6 DEF IInv, JobInv, Issuing
<1>11. OneInv'
  <2> SUFFICES ASSUME OneProcess'
               PROVE  (\A q \in Proc : OneJob(q)') /\ (\A k \in Code : OneRow(k)')
    BY DEF OneInv
  <2>1. OneProcess
    BY <1>1 DEF OneProcess
  <2>2. \A q \in Proc : q # p => job'[q].pc = "idle"
    BY <1>6, <2>1 DEF OneProcess
  <2>3. Newest(n)'
    BY <1>1, <1>2 DEF Newest, Exists
  <2>4. OneJob(p)'
    BY <1>1, <1>3, <1>5, <1>6, <2>3 DEF OneJob, Issuing
  <2>5. \A q \in Proc : OneJob(q)'
    BY <2>2, <2>4 DEF OneJob, Issuing
  <2>6. \A k \in Code : OneRow(k)'
    BY <1>1, <2>1 DEF IInv, OneInv, OneRow
  <2> QED BY <2>5, <2>6
<1> QED BY <1>7, <1>8, <1>9, <1>10, <1>11 DEF IInv

LEMMA AttemptKeepsIInv ==
  ASSUME IInv, NEW p \in Proc, Attempt(p)
  PROVE  IInv'
<1> DEFINE n == job[p].n
<1>1. /\ job[p].pc = "attempt" /\ Finish(p)
      /\ rows' = [rows EXCEPT ![n] =
                    IF Exists(n) /\ ~rows[n].used
                      THEN [rows[n] EXCEPT !.attempts = job[p].attempts + 1]
                      ELSE rows[n]]
      /\ tried' = [tried EXCEPT ![n] = @ + 1]
      /\ UNCHANGED <<home, requested, sent, spent>>
  BY DEF Attempt, At
<1>2. n \in Code /\ n <= requested /\ n \in Nat /\ job[p].attempts + 1 \in 0 .. MaxAttempts
  <2>1. job[p].pc # "idle" /\ job[p].attempts < MaxAttempts
    BY <1>1 DEF IInv, JobInv
  <2>2. job[p].attempts \in 0 .. MaxAttempts
    BY DEF IInv, TypeOK, Job
  <2> QED BY <2>1, <2>2, AtWork, PhoneCodeAssumption DEF IInv
<1>3. /\ rows' \in [Code -> Row \cup {NoRow}]
      /\ \A k \in Code : k # n => rows'[k] = rows[k]
      /\ rows'[n] = NoRow <=> rows[n] = NoRow
      /\ rows[n] # NoRow => rows'[n].used = rows[n].used
      /\ rows[n] # NoRow /\ ~rows[n].used => rows'[n].attempts = job[p].attempts + 1
  <2>1. CASE Exists(n) /\ ~rows[n].used
    <3> DEFINE row == [rows[n] EXCEPT !.attempts = job[p].attempts + 1]
    <3>1. rows[n] \in Row
      BY <1>2, <2>1 DEF IInv, TypeOK, Exists
    <3>2. /\ row \in Row /\ row.used = rows[n].used
          /\ row.attempts = job[p].attempts + 1
      BY <1>2, <3>1 DEF Row
    <3>3. rows' = [rows EXCEPT ![n] = row]
      BY <1>1, <2>1
    <3> HIDE DEF row
    <3>4. row # NoRow
      BY <3>2, NoRowIsNone
    <3> QED BY <1>2, <2>1, <3>2, <3>3, <3>4 DEF IInv, TypeOK, Exists
  <2>2. CASE ~(Exists(n) /\ ~rows[n].used)
    <3>1. rows' = rows
      BY <1>1, <2>2 DEF IInv, TypeOK
    <3> QED BY <2>2, <3>1 DEF IInv, TypeOK, Exists
  <2> QED BY <2>1, <2>2
<1>4. /\ tried' \in [Code -> Nat] /\ tried'[n] = tried[n] + 1
      /\ \A k \in Code : k # n => tried'[k] = tried[k]
  BY <1>1, <1>2 DEF IInv, TypeOK
<1>5. /\ job' \in [Proc -> Job]
      /\ operation' \in [Inst -> Proc \cup {NoProc}]
      /\ \A q \in Proc : job'[q].pc # "idle" =>
           q # p /\ job'[q] = job[q] /\ operation'[home[q]] = q
  <2>1. job[p].pc # "idle"
    BY <1>1
  <2> QED BY <1>1, <2>1, Finished DEF IInv
<1>6. TypeOK'
  BY <1>1, <1>3, <1>4, <1>5 DEF IInv, TypeOK
<1>7. IdInv'
  BY <1>1, <1>5 DEF IInv, IdInv, Issuing
<1>8. LifeInv'
  BY <1>1, <1>2, <1>3 DEF IInv, LifeInv
<1>9. JobInv'
  <2>1. \A q \in Proc : job[q].pc # "idle" => job[q].n \in Code
    BY AtWork DEF IInv
  <2>2. \A k \in Code : rows'[k] = NoRow <=> rows[k] = NoRow
    BY <1>3
  <2> QED BY <1>1, <1>5, <2>1, <2>2 DEF IInv, JobInv, Issuing
<1>10. OneInv'
  <2> SUFFICES ASSUME OneProcess'
               PROVE  (\A q \in Proc : OneJob(q)') /\ (\A k \in Code : OneRow(k)')
    BY DEF OneInv
  <2>1. OneProcess
    BY <1>1 DEF OneProcess
  <2>2. \A q \in Proc : job'[q].pc = "idle"
    BY <1>1, <1>5, <2>1, Alone DEF IInv
  <2>3. \A q \in Proc : OneJob(q)'
    BY <2>2 DEF OneJob, Issuing
  <2>4. /\ rows[n] # NoRow /\ ~rows[n].used
        /\ job[p].attempts = rows[n].attempts
    BY <1>1, <2>1 DEF IInv, OneInv, OneJob, Newest, Exists
  <2>5. \A m \in Code : rows[m] # NoRow => rows'[m] # NoRow
    BY <1>3
  <2>6. ASSUME NEW k \in Code PROVE OneRow(k)'
    <3>1. OneRow(k)
      BY <2>1 DEF IInv, OneInv
    <3>2. CASE k = n
      <4>1. tried'[n] = job[p].attempts + 1 /\ rows'[n].attempts = job[p].attempts + 1
        BY <1>3, <1>4, <2>4, <3>1, <3>2 DEF OneRow
      <4>2. requested \in Nat
        BY PhoneCodeAssumption DEF IInv, TypeOK
      <4> QED BY <1>1, <1>2, <1>3, <2>4, <3>2, <4>1, <4>2, PhoneCodeAssumption DEF OneRow
    <3>3. CASE k # n
      <4>1. rows'[k] = rows[k] /\ tried'[k] = tried[k]
        BY <1>3, <1>4, <3>3
      <4> QED BY <1>1, <2>5, <3>1, <4>1 DEF OneRow
    <3> QED BY <3>2, <3>3
  <2> QED BY <2>3, <2>6
<1> QED BY <1>6, <1>7, <1>8, <1>9, <1>10 DEF IInv

LEMMA ConsumeKeepsIInv ==
  ASSUME IInv, NEW p \in Proc, Consume(p)
  PROVE  IInv'
<1> DEFINE n == job[p].n
           found == Exists(n) /\ ~rows[n].used /\ rows[n].attempts < MaxAttempts
<1>1. /\ job[p].pc = "consume" /\ Finish(p)
      /\ UNCHANGED <<home, requested, sent, tried>>
      /\ \/ /\ found
            /\ rows' = [rows EXCEPT ![n].used = TRUE]
            /\ spent' = [spent EXCEPT ![n] = @ + 1]
         \/ UNCHANGED <<rows, spent>>
  BY DEF Consume, At
<1>2. n \in Code /\ n <= requested /\ n \in Nat /\ n \in sent
  <2>1. job[p].pc # "idle" /\ n \in sent
    BY <1>1 DEF IInv, JobInv
  <2> QED BY <2>1, AtWork DEF IInv
<1>3. /\ job' \in [Proc -> Job]
      /\ operation' \in [Inst -> Proc \cup {NoProc}]
      /\ \A q \in Proc : job'[q].pc # "idle" =>
           q # p /\ job'[q] = job[q] /\ operation'[home[q]] = q
  <2>1. job[p].pc # "idle"
    BY <1>1
  <2> QED BY <1>1, <2>1, Finished DEF IInv
<1>4. IdInv'
  BY <1>1, <1>3 DEF IInv, IdInv, Issuing
<1>5. CASE UNCHANGED <<rows, spent>>
  <2>1. TypeOK'
    BY <1>1, <1>3, <1>5 DEF IInv, TypeOK
  <2>2. LifeInv'
    BY <1>1, <1>5 DEF IInv, LifeInv
  <2>3. JobInv'
    BY <1>1, <1>3, <1>5 DEF IInv, JobInv, Issuing
  <2>4. OneInv'
    <3> SUFFICES ASSUME OneProcess'
                 PROVE  (\A q \in Proc : OneJob(q)') /\ (\A k \in Code : OneRow(k)')
      BY DEF OneInv
    <3>1. OneProcess
      BY <1>1 DEF OneProcess
    <3>2. \A q \in Proc : job'[q].pc = "idle"
      BY <1>1, <1>3, <3>1, Alone DEF IInv
    <3>3. \A q \in Proc : OneJob(q)'
      BY <3>2 DEF OneJob, Issuing
    <3>4. \A k \in Code : OneRow(k)'
      BY <1>1, <1>5, <3>1 DEF IInv, OneInv, OneRow
    <3> QED BY <3>3, <3>4
  <2> QED BY <1>4, <2>1, <2>2, <2>3, <2>4 DEF IInv
<1>6. CASE /\ found
           /\ rows' = [rows EXCEPT ![n].used = TRUE]
           /\ spent' = [spent EXCEPT ![n] = @ + 1]
  <2>1. rows[n] \in Row /\ rows[n] # NoRow /\ ~rows[n].used
    BY <1>2, <1>6 DEF IInv, TypeOK, Exists
  <2>2. /\ rows' \in [Code -> Row \cup {NoRow}]
        /\ rows'[n] # NoRow /\ rows'[n].used = TRUE
        /\ rows'[n].attempts = rows[n].attempts
        /\ \A k \in Code : k # n => rows'[k] = rows[k]
    <3> DEFINE row == [rows[n] EXCEPT !.used = TRUE]
    <3>1. row \in Row /\ row.used = TRUE /\ row.attempts = rows[n].attempts
      BY <2>1 DEF Row
    <3>2. rows' = [rows EXCEPT ![n] = row]
      BY <1>6 DEF IInv, TypeOK
    <3> HIDE DEF row
    <3>3. row # NoRow
      BY <3>1, NoRowIsNone
    <3> QED BY <1>2, <3>1, <3>2, <3>3 DEF IInv, TypeOK
  <2>3. spent[n] = 0
    BY <1>2, <2>1 DEF IInv, LifeInv
  <2>4. /\ spent' \in [Code -> Nat] /\ spent'[n] = 1
        /\ \A k \in Code : k # n => spent'[k] = spent[k]
    BY <1>2, <1>6, <2>3 DEF IInv, TypeOK
  <2>5. TypeOK'
    BY <1>1, <1>3, <2>2, <2>4 DEF IInv, TypeOK
  <2>6. requested \in Nat
    BY PhoneCodeAssumption DEF IInv, TypeOK
  <2>7. LifeInv'
    BY <1>1, <1>2, <2>2, <2>4, <2>6 DEF IInv, LifeInv
  <2>8. JobInv'
    <3>1. \A q \in Proc : job[q].pc # "idle" => job[q].n \in Code
      BY AtWork DEF IInv
    <3>2. \A k \in Code : rows'[k] = NoRow <=> rows[k] = NoRow
      BY <2>1, <2>2
    <3> QED BY <1>1, <1>3, <3>1, <3>2 DEF IInv, JobInv, Issuing
  <2>9. OneInv'
    <3> SUFFICES ASSUME OneProcess'
                 PROVE  (\A q \in Proc : OneJob(q)') /\ (\A k \in Code : OneRow(k)')
      BY DEF OneInv
    <3>1. OneProcess
      BY <1>1 DEF OneProcess
    <3>2. \A q \in Proc : job'[q].pc = "idle"
      BY <1>1, <1>3, <3>1, Alone DEF IInv
    <3>3. \A q \in Proc : OneJob(q)'
      BY <3>2 DEF OneJob, Issuing
    <3>4. \A m \in Code : rows[m] # NoRow => rows'[m] # NoRow
      BY <2>2
    <3>5. ASSUME NEW k \in Code PROVE OneRow(k)'
      <4>1. OneRow(k)
        BY <3>1 DEF IInv, OneInv
      <4>2. CASE k = n
        BY <1>1, <2>1, <2>2, <2>4, <4>1, <4>2 DEF OneRow
      <4>3. CASE k # n
        BY <1>1, <2>2, <2>4, <3>4, <4>1, <4>3 DEF OneRow
      <4> QED BY <4>2, <4>3
    <3> QED BY <3>3, <3>5
  <2> QED BY <1>4, <2>5, <2>7, <2>8, <2>9 DEF IInv
<1> QED BY <1>1, <1>5, <1>6

LEMMA AgeKeepsIInv ==
  ASSUME IInv, NEW n \in Code, Age(n)
  PROVE  IInv'
<1>1. /\ rows[n] # NoRow /\ rows[n].age < 3
      /\ rows' = [rows EXCEPT ![n].age = @ + 1]
      /\ UNCHANGED <<home, requested, sent, operation, job, tried, spent>>
  BY DEF Age, Exists
<1>2. /\ rows' \in [Code -> Row \cup {NoRow}] /\ rows'[n] \in Row
      /\ rows'[n].used = rows[n].used /\ rows'[n].attempts = rows[n].attempts
      /\ \A k \in Code : k # n => rows'[k] = rows[k]
  <2> DEFINE row == [rows[n] EXCEPT !.age = @ + 1]
  <2>1. rows[n] \in Row
    BY <1>1 DEF IInv, TypeOK
  <2>2. row \in Row /\ row.used = rows[n].used /\ row.attempts = rows[n].attempts
    BY <1>1, <2>1 DEF Row
  <2>3. rows' = [rows EXCEPT ![n] = row]
    BY <1>1 DEF IInv, TypeOK
  <2> HIDE DEF row
  <2> QED BY <2>2, <2>3 DEF IInv, TypeOK
<1>3. SameRows
  BY <1>1, <1>2, NoRowIsNone DEF SameRows
<1>4. TypeOK'
  BY <1>1, <1>2 DEF IInv, TypeOK
<1>5. IdInv'
  BY <1>1 DEF IInv, IdInv
<1>6. LifeInv'
  BY <1>1, <1>3, SameRowsKeepLife DEF IInv, LifeInv
<1>7. JobInv'
  <2>1. \A q \in Proc : job[q].pc # "idle" => job[q].n \in Code
    BY AtWork DEF IInv
  <2> QED BY <1>1, <1>3, <2>1 DEF IInv, JobInv, SameRows, Issuing
<1>8. OneInv'
  <2> SUFFICES ASSUME OneProcess'
               PROVE  (\A q \in Proc : OneJob(q)') /\ (\A k \in Code : OneRow(k)')
    BY DEF OneInv
  <2>1. OneProcess
    BY <1>1 DEF OneProcess
  <2>2. ASSUME NEW q \in Proc PROVE OneJob(q)'
    <3>1. OneJob(q)
      BY <2>1 DEF IInv, OneInv
    <3>2. Newest(job[q].n) => Newest(job[q].n)'
      BY <1>1, <1>3 DEF Newest, Exists, SameRows
    <3>3. Newest(job[q].n) => job[q].n \in Code /\ rows[job[q].n] # NoRow
      BY DEF Newest, Exists
    <3> QED BY <1>1, <1>3, <3>1, <3>2, <3>3 DEF OneJob, SameRows
  <2>3. \A k \in Code : OneRow(k)'
    BY <1>1, <1>3, <2>1, SameRowsKeepOneRow DEF IInv, OneInv
  <2> QED BY <2>2, <2>3
<1> QED BY <1>4, <1>5, <1>6, <1>7, <1>8 DEF IInv

LEMMA NextKeepsIInv == IInv /\ [Next]_vars => IInv'
<1> SUFFICES ASSUME IInv, [Next]_vars PROVE IInv'
  OBVIOUS
<1>1. CASE UNCHANGED vars
  BY <1>1 DEF vars, IInv, TypeOK, IdInv, LifeInv, JobInv, OneInv, OneProcess, OneJob, OneRow,
     Newest, Exists
<1>2. ASSUME NEW p \in Proc,
             \/ Issue(p) \/ Digest(p) \/ SendCode(p) \/ IssueFails(p)
             \/ Retire(p)
             \/ \E age \in 1 .. 3 : Create(p, age)
             \/ \E c \in 0 .. MaxCode : Verify(p, c)
             \/ Attempt(p) \/ Consume(p)
             \/ Cancel(p)
      PROVE  IInv'
  BY <1>2, IssueKeepsIInv, DigestKeepsIInv, SendCodeKeepsIInv, IssueFailsKeepsIInv,
     RetireKeepsIInv, CreateKeepsIInv, VerifyKeepsIInv, AttemptKeepsIInv,
     ConsumeKeepsIInv, CancelKeepsIInv
<1> QED BY <1>1, <1>2, AgeKeepsIInv DEF Next

----------------------------------------------------------------------------
\* What the service can rely on

\* The inductive invariant holds in every reachable state.
THEOREM InductiveInvariant == Spec => []IInv
<1>1. Init => IInv
  BY InitIInv
<1>2. IInv /\ [Next]_vars => IInv'
  BY NextKeepsIInv
<1> QED BY <1>1, <1>2, PTL DEF Spec

\* The rows, the counters and what the goroutines do are what the code
\* declares.
THEOREM TypeCorrect == Spec => []TypeOK
<1>1. IInv => TypeOK
  BY DEF IInv
<1> QED BY <1>1, InductiveInvariant, PTL

\* In one process a row answers MaxAttempts wrong codes and no more.
THEOREM GuessesBounded == Spec => [](OneProcess => GuessesAreBounded)
<1>1. IInv => (OneProcess => GuessesAreBounded)
  BY DEF IInv, OneInv, OneRow, GuessesAreBounded
<1> QED BY <1>1, InductiveInvariant, PTL

\* In one process the newest code is used up by its own acceptance alone.
THEOREM UsedAccepted == Spec => []UsedIsAccepted
<1>1. IInv => UsedIsAccepted
  <2> SUFFICES ASSUME IInv, OneProcess, NEW n \in Code, Newest(n), rows[n].used
               PROVE  spent[n] = 1
    BY DEF UsedIsAccepted
  <2>1. rows[n] # NoRow /\ \A m \in Code : rows[m] # NoRow => m <= n
    BY DEF Newest, Exists
  <2>2. OneRow(n) /\ spent[n] \in {0, 1}
    BY DEF IInv, OneInv, LifeInv
  <2>3. ~ \E m \in Code : m > n /\ m \in sent /\ rows[m] # NoRow
    BY <2>1 DEF Code
  <2> QED BY <2>1, <2>2, <2>3 DEF OneRow
<1> QED BY <1>1, InductiveInvariant, PTL

\* A code is accepted once, only when it has been sent, and in one process only
\* while it is the newest one.
THEOREM CodesAreOnce == Spec => AcceptedOnce
<1>1. IInv /\ [Next]_vars =>
        [\A n \in Code : spent'[n] # spent[n] =>
           /\ spent[n] = 0 /\ spent'[n] = 1
           /\ n \in sent
           /\ OneProcess => Newest(n)]_vars
  <2> SUFFICES ASSUME IInv, Next, NEW n \in Code, spent'[n] # spent[n]
               PROVE  /\ spent[n] = 0 /\ spent'[n] = 1
                      /\ n \in sent
                      /\ OneProcess => Newest(n)
    BY DEF vars
  <2>1. PICK p \in Proc : Consume(p)
    BY DEF Next, Issue, Digest, SendCode, IssueFails, Retire, Create, Verify, Attempt,
       Cancel, Age
  <2>2. n = job[p].n /\ spent'[n] = spent[n] + 1 /\ Exists(n) /\ ~rows[n].used
    BY <2>1 DEF Consume, IInv, TypeOK
  <2>3. spent[n] = 0
    BY <2>2 DEF IInv, LifeInv, Exists
  <2>4. n \in sent
    BY <2>1, <2>2 DEF Consume, At, IInv, JobInv
  <2>5. OneProcess => Newest(n)
    BY <2>1, <2>2 DEF Consume, At, IInv, OneInv, OneJob
  <2> QED BY <2>2, <2>3, <2>4, <2>5
<1> QED BY <1>1, InductiveInvariant, PTL DEF Spec, AcceptedOnce

----------------------------------------------------------------------------
\* Two processes, which overwrite each other's count

\* The service runs in at most two processes.
TwoProcesses == \A i, j, k \in Inst : i = j \/ i = k \/ j = k

Guessing(p, n) == job[p].pc = "attempt" /\ job[p].n = n

Live(n) == rows[n] # NoRow /\ ~rows[n].used

\* Twice the wrong codes that a row which has counted v may still answer.
Left(v) == (MaxAttempts - v) * (MaxAttempts - v + 3)

\* A code is not guessed before it has a row.
BornInv ==
  /\ \A n \in Code : n > requested => tried[n] = 0
  /\ \A p \in Proc : job[p].pc = "create" =>
       /\ tried[job[p].n] = 0
       /\ \A q \in Proc : ~Guessing(q, job[p].n)

\* What was answered, and what is on its way.
AnsweredInv(n) ==
  /\ 2 * tried[n] <= Left(0)
  /\ \A p \in Proc : Guessing(p, n) => 2 * tried[n] + 2 <= Left(0)
  /\ \A p, q \in Proc :
       Guessing(p, n) /\ Guessing(q, n) /\ p # q => 2 * tried[n] + 4 <= Left(0)

\* The row, and each count a goroutine has read, leave room for what was
\* answered; of two such counts the smaller brings back the guesses between
\* them, but only once.
CountInv(n) ==
  Live(n) =>
    /\ 2 * tried[n] + Left(rows[n].attempts) <= Left(0)
    /\ \A p \in Proc : Guessing(p, n) =>
         2 * tried[n] + Left(job[p].attempts) + 2 * job[p].attempts <=
           Left(0) + 2 * rows[n].attempts
    /\ \A p, q \in Proc : Guessing(p, n) /\ Guessing(q, n) /\ p # q =>
         2 * tried[n] + Left(job[p].attempts) + 2 * job[p].attempts <=
           Left(0) + 2 * job[q].attempts

TwoInv ==
  BornInv /\ \A n \in Code : AnsweredInv(n) /\ CountInv(n)

LEMMA LeftFacts ==
  ASSUME NEW v \in 0 .. MaxAttempts
  PROVE  /\ Left(v) \in Nat
         /\ v < MaxAttempts =>
              Left(v) + 2 * v = Left(v + 1) + 2 * MaxAttempts + 2
         /\ \A w \in v .. MaxAttempts : Left(w) + 4 * w <= Left(v) + 4 * v
<1>1. MaxAttempts \in Nat /\ v \in Nat /\ v <= MaxAttempts
  BY PhoneCodeAssumption
<1>2. Left(v) \in Nat
  <2>1. MaxAttempts - v \in Nat /\ MaxAttempts - v + 3 \in Nat
    BY <1>1
  <2>2. \A x, y \in Nat : x * y \in Nat
    OBVIOUS
  <2> QED BY <2>1, <2>2 DEF Left
<1>3. ASSUME v < MaxAttempts
      PROVE  Left(v) + 2 * v = Left(v + 1) + 2 * MaxAttempts + 2
  <2>1. \A x \in Nat : x * (x + 3) = x * x + 3 * x
    OBVIOUS
  <2>2. \A x \in Nat : (x + 1) * (x + 4) = x * x + 5 * x + 4
    OBVIOUS
  <2>3. PICK x \in Nat : x = MaxAttempts - (v + 1)
    BY <1>1, <1>3
  <2>4. /\ MaxAttempts - (v + 1) + 3 = x + 3
        /\ MaxAttempts - v = x + 1 /\ MaxAttempts - v + 3 = x + 4
    BY <1>1, <2>3
  <2>5. Left(v) = x * x + 5 * x + 4 /\ Left(v + 1) = x * x + 3 * x
    BY <2>1, <2>2, <2>3, <2>4 DEF Left
  <2>6. x * x \in Nat
    OBVIOUS
  <2> QED BY <1>1, <2>3, <2>5, <2>6
<1>4. ASSUME NEW w \in v .. MaxAttempts
      PROVE  Left(w) + 4 * w <= Left(v) + 4 * v
  <2>1. PICK d \in Nat, y \in Nat :
          /\ d = w - v /\ y = MaxAttempts - w
          /\ MaxAttempts - v = y + d /\ w = v + d
    BY <1>1, <1>4
  <2>2. (y + d) * (y + d + 3) = y * (y + 3) + (2 * y * d + d * d + 3 * d)
    OBVIOUS
  <2>3. 4 * d <= 2 * y * d + d * d + 3 * d
    <3>1. CASE d = 0
      BY <3>1
    <3>2. CASE d # 0
      <4>1. y * d >= 0 /\ d * d >= d
        BY <3>2
      <4> QED BY <4>1
    <3> QED BY <3>1, <3>2
  <2>4. Left(v) = (y + d) * (y + d + 3) /\ Left(w) = y * (y + 3)
    BY <2>1 DEF Left
  <2> QED BY <1>1, <2>1, <2>2, <2>3, <2>4
<1> QED BY <1>2, <1>3, <1>4

\* Goroutines that compare a code in two processes are two.
LEMMA NoThird ==
  ASSUME TypeOK, JobInv, TwoProcesses, NEW n,
         NEW p \in Proc, NEW q \in Proc, NEW r \in Proc,
         Guessing(p, n), Guessing(q, n), Guessing(r, n)
  PROVE  p = q \/ p = r \/ q = r
<1>1. /\ operation[home[p]] = p /\ operation[home[q]] = q
      /\ operation[home[r]] = r
  BY DEF JobInv, Guessing
<1>2. home[p] \in Inst /\ home[q] \in Inst /\ home[r] \in Inst
  BY DEF TypeOK
<1>3. home[p] = home[q] \/ home[p] = home[r] \/ home[q] = home[r]
  BY <1>2 DEF TwoProcesses
<1> QED BY <1>1, <1>3

\* The types of the numbers.
LEMMA Numbers ==
  ASSUME TypeOK
  PROVE  /\ MaxAttempts \in Nat \ {0} /\ Left(0) \in Nat
         /\ \A n \in Code : tried[n] \in Nat
         /\ \A n \in Code : rows[n] # NoRow => rows[n].attempts \in 0 .. MaxAttempts
         /\ \A p \in Proc : job[p].attempts \in 0 .. MaxAttempts
<1>1. 0 \in 0 .. MaxAttempts
  BY PhoneCodeAssumption
<1> QED BY <1>1, LeftFacts, PhoneCodeAssumption DEF TypeOK, Row, Job

\* A live row bounds what is on its way.
LEMMA CountAnswers ==
  TypeOK /\ JobInv =>
    \A n \in Code : Live(n) /\ CountInv(n) => AnsweredInv(n)
<1> SUFFICES ASSUME TypeOK, JobInv, NEW n \in Code, Live(n), CountInv(n)
             PROVE  AnsweredInv(n)
  OBVIOUS
<1>1. \A p \in Proc : Guessing(p, n) => job[p].attempts < MaxAttempts
  BY DEF JobInv, Guessing
<1>2. /\ MaxAttempts \in Nat /\ Left(0) \in Nat /\ tried[n] \in Nat
      /\ rows[n].attempts \in 0 .. MaxAttempts
      /\ Left(rows[n].attempts) \in Nat
  BY Numbers, LeftFacts DEF Live
<1>3. 2 * tried[n] <= Left(0)
  BY <1>2 DEF CountInv
<1>4. ASSUME NEW p \in Proc, Guessing(p, n)
      PROVE  /\ job[p].attempts \in Nat /\ Left(job[p].attempts) \in Nat
             /\ Left(job[p].attempts) + 2 * job[p].attempts >= 2 * MaxAttempts + 2
  <2>1. job[p].attempts \in 0 .. MaxAttempts /\ job[p].attempts < MaxAttempts
    BY <1>1, <1>4, Numbers
  <2>2. job[p].attempts + 1 \in 0 .. MaxAttempts
    BY <1>2, <2>1
  <2>3. Left(job[p].attempts + 1) \in Nat
    BY <2>2, LeftFacts
  <2>4. /\ Left(job[p].attempts) \in Nat
        /\ Left(job[p].attempts) + 2 * job[p].attempts =
             Left(job[p].attempts + 1) + 2 * MaxAttempts + 2
    BY <2>1, LeftFacts
  <2> QED BY <1>2, <2>1, <2>3, <2>4
<1>5. ASSUME NEW p \in Proc, Guessing(p, n)
      PROVE  2 * tried[n] + 2 <= Left(0)
  <2>1. 2 * tried[n] + Left(job[p].attempts) + 2 * job[p].attempts <=
          Left(0) + 2 * rows[n].attempts
    BY <1>5 DEF CountInv
  <2> QED BY <1>2, <1>4, <1>5, <2>1
<1>6. ASSUME NEW p \in Proc, NEW q \in Proc, Guessing(p, n), Guessing(q, n),
             p # q
      PROVE  2 * tried[n] + 4 <= Left(0)
  <2>1. 2 * tried[n] + Left(job[p].attempts) + 2 * job[p].attempts <=
          Left(0) + 2 * job[q].attempts
    BY <1>6 DEF CountInv
  <2>2. job[q].attempts + 1 <= MaxAttempts
    BY <1>1, <1>2, <1>4, <1>6
  <2> QED BY <1>2, <1>4, <1>6, <2>1, <2>2
<1> QED BY <1>3, <1>5, <1>6 DEF AnsweredInv

\* Nobody starts to compare code n, and its row gets no new count.
LEMMA QuietCode ==
  ASSUME NEW n \in Code, AnsweredInv(n), CountInv(n), tried'[n] = tried[n],
         \A p \in Proc : Guessing(p, n)' =>
           Guessing(p, n) /\ job'[p].attempts = job[p].attempts,
         Live(n)' => Live(n) /\ rows'[n].attempts = rows[n].attempts
  PROVE  AnsweredInv(n)' /\ CountInv(n)'
<1>1. AnsweredInv(n)'
  BY DEF AnsweredInv, Left
<1>2. CountInv(n)'
  BY DEF CountInv, Left
<1> QED BY <1>1, <1>2

\* A step after which no code has been answered, none is created and none is
\* compared that was not before, and the counts in the rows stay.
LEMMA QuietTwo ==
  ASSUME IInv, TwoInv, tried' = tried, requested <= requested',
         requested' \in Nat,
         \A p \in Proc :
           \/ job'[p].pc \notin {"create", "attempt"}
           \/ job'[p] = job[p],
         \A n \in Code : Live(n)' =>
           Live(n) /\ rows'[n].attempts = rows[n].attempts
  PROVE  TwoInv'
<1>1. \A p \in Proc : \A n : Guessing(p, n)' =>
        Guessing(p, n) /\ job'[p].attempts = job[p].attempts
  BY DEF Guessing
<1>2. BornInv'
  BY <1>1, PhoneCodeAssumption DEF TwoInv, BornInv, IInv, TypeOK, Code
<1>3. \A n \in Code : AnsweredInv(n)' /\ CountInv(n)'
  BY <1>1, QuietCode DEF TwoInv
<1> QED BY <1>2, <1>3 DEF TwoInv

\* Where a row ends, or is used up, or gets older.
LEMMA RowTwo ==
  ASSUME IInv, TwoInv, NEW p \in Proc,
         Digest(p) \/ SendCode(p) \/ IssueFails(p) \/ Retire(p) \/ Consume(p)
           \/ Cancel(p)
  PROVE  TwoInv'
<1>1. job[p].pc # "idle"
  BY DEF Digest, SendCode, IssueFails, Retire, Consume, Cancel, At
<1>2. tried' = tried /\ requested' = requested /\ requested \in Nat
  BY PhoneCodeAssumption
     DEF Digest, SendCode, IssueFails, Retire, Consume, Cancel, IInv, TypeOK
<1>3. \A q \in Proc :
        job'[q].pc \notin {"create", "attempt"} \/ job'[q] = job[q]
  <2>1. CASE Digest(p) \/ SendCode(p)
    BY <2>1 DEF Digest, SendCode, Goto, IInv, TypeOK, Job
  <2>2. CASE Finish(p)
    BY <1>1, <2>2, Finished DEF IInv
  <2> QED
    BY <2>1, <2>2 DEF IssueFails, Retire, Consume, Cancel
<1>4. ASSUME NEW n \in Code, Live(n)'
      PROVE  Live(n) /\ rows'[n].attempts = rows[n].attempts
  <2>1. job[p].n \in Code
    BY <1>1, AtWork DEF IInv
  <2>2. rows[n] \in Row \cup {NoRow}
    BY DEF IInv, TypeOK
  <2>3. CASE SendCode(p) \/ Cancel(p)
    BY <1>4, <2>3 DEF SendCode, Cancel, Live
  <2>4. CASE Digest(p)
    <3>1. rows[job[p].n] # NoRow
      BY <2>4 DEF Digest, At, IInv, JobInv
    <3> QED
      BY <1>4, <2>1, <2>2, <2>4, <3>1 DEF Digest, Live, Row, IInv, TypeOK
  <2>5. CASE IssueFails(p)
    BY <1>4, <2>5 DEF IssueFails, Live, IInv, TypeOK
  <2>6. CASE Retire(p)
    BY <1>4, <2>2, <2>6 DEF Retire, Exists, Live, Row
  <2>7. CASE Consume(p)
    BY <1>4, <2>2, <2>7 DEF Consume, Exists, Live, Row, IInv, TypeOK
  <2> QED BY <2>3, <2>4, <2>5, <2>6, <2>7
<1> QED BY <1>2, <1>3, <1>4, QuietTwo

LEMMA AgeTwo ==
  ASSUME IInv, TwoInv, NEW n \in Code, Age(n)
  PROVE  TwoInv'
<1>1. UNCHANGED <<tried, requested, job>> /\ requested \in Nat
  BY PhoneCodeAssumption DEF Age, IInv, TypeOK
<1>2. \A k \in Code : Live(k)' =>
        Live(k) /\ rows'[k].attempts = rows[k].attempts
  BY DEF Age, Exists, Live, Row, IInv, TypeOK
<1> QED BY <1>1, <1>2, QuietTwo

LEMMA IssueTwo ==
  ASSUME IInv, TwoInv, NEW p \in Proc, Issue(p)
  PROVE  TwoInv'
<1>1. /\ job' = [job EXCEPT ![p] = [pc |-> "create", n |-> requested + 1,
                                    attempts |-> 0]]
      /\ requested' = requested + 1 /\ requested < MaxCode
      /\ UNCHANGED <<rows, tried>> /\ requested \in Nat
  BY PhoneCodeAssumption DEF Issue, IInv, TypeOK
<1>2. /\ job'[p].pc = "create" /\ job'[p].n = requested + 1
      /\ \A q \in Proc : q # p => job'[q] = job[q]
  BY <1>1 DEF IInv, TypeOK
<1>3. \A q \in Proc : \A n : Guessing(q, n)' =>
        /\ Guessing(q, n) /\ job'[q].attempts = job[q].attempts
        /\ n # requested + 1
  BY <1>1, <1>2 DEF Guessing, IInv, IdInv
<1>4. \A n \in Code : Live(n)' => Live(n) /\ rows'[n] = rows[n]
  BY <1>1 DEF Live
<1>5. \A n \in Code : AnsweredInv(n)' /\ CountInv(n)'
  BY <1>1, <1>3, <1>4, QuietCode DEF TwoInv
<1>6. requested + 1 \in Code
  BY <1>1, PhoneCodeAssumption DEF Code
<1>7. BornInv'
  <2>1. \A n \in Code : n > requested' => tried'[n] = 0
    BY <1>1 DEF TwoInv, BornInv, Code
  <2>2. tried'[requested + 1] = 0
    BY <1>1, <1>6 DEF TwoInv, BornInv
  <2>3. ASSUME NEW q \in Proc, job'[q].pc = "create"
        PROVE  /\ tried'[job'[q].n] = 0
               /\ \A r \in Proc :
                    ~(job'[r].pc = "attempt" /\ job'[r].n = job'[q].n)
    <3>1. CASE q = p
      BY <1>2, <1>3, <2>2, <3>1 DEF Guessing
    <3>2. CASE q # p
      BY <1>1, <1>2, <1>3, <2>3, <3>2 DEF TwoInv, BornInv, Guessing
    <3> QED BY <3>1, <3>2
  <2> QED BY <2>1, <2>3 DEF BornInv, Guessing
<1> QED BY <1>5, <1>7 DEF TwoInv

LEMMA CreateTwo ==
  ASSUME IInv, IInv', TwoInv, NEW p \in Proc, NEW age \in 1 .. 3,
         Create(p, age)
  PROVE  TwoInv'
<1>1. PICK n \in Code :
      /\ n = job[p].n /\ tried[n] = 0 /\ \A q \in Proc : ~Guessing(q, n)
      /\ UNCHANGED <<requested, tried>>
      /\ rows'[n].attempts = 0
      /\ \A k \in Code : k # n => rows'[k] = rows[k]
  <2>1. job[p].pc = "create"
    BY DEF Create, At
  <2>2. job[p].n \in Code
    BY <2>1, AtWork DEF IInv
  <2> QED
    BY <2>1, <2>2 DEF Create, TwoInv, BornInv, IInv, TypeOK
<1>2. \A q \in Proc :
        job'[q].pc \notin {"create", "attempt"} \/ job'[q] = job[q]
  BY DEF Create, Goto, IInv, TypeOK, Job
<1>3. \A q \in Proc : \A k : Guessing(q, k)' =>
        Guessing(q, k) /\ job'[q].attempts = job[q].attempts
  BY <1>2 DEF Guessing
<1>4. BornInv'
  BY <1>1, <1>2, <1>3 DEF TwoInv, BornInv
<1>5. CountInv(n)' /\ AnsweredInv(n)'
  <2>1. 2 * tried'[n] = 0 /\ Left(0) \in Nat
    BY <1>1, Numbers DEF IInv
  <2>2. Left(0)' = Left(0) /\ Left(rows'[n].attempts) = Left(0)
    BY <1>1 DEF Left
  <2>3. \A q \in Proc : ~Guessing(q, n)'
    BY <1>1, <1>3
  <2> QED BY <1>1, <2>1, <2>2, <2>3 DEF CountInv, AnsweredInv, Left
<1>6. ASSUME NEW k \in Code, k # n PROVE AnsweredInv(k)' /\ CountInv(k)'
  BY <1>1, <1>3, <1>6, QuietCode DEF TwoInv, Live
<1> QED BY <1>4, <1>5, <1>6 DEF TwoInv

\* The same in the next state.
LEMMA CountAnswersNext ==
  (TypeOK /\ JobInv =>
    \A n \in Code : Live(n) /\ CountInv(n) => AnsweredInv(n))'
BY CountAnswers, PTL

LEMMA VerifyTwo ==
  ASSUME IInv, IInv', TwoInv, NEW p \in Proc, NEW c \in 0 .. MaxCode,
         Verify(p, c)
  PROVE  TwoInv'
<1>1. PICK n \in Code :
        /\ Live(n) /\ rows[n].attempts < MaxAttempts
        /\ job' = [job EXCEPT ![p] =
                     [pc |-> IF c = n /\ rows[n].digest THEN "consume"
                                                        ELSE "attempt",
                      n |-> n, attempts |-> rows[n].attempts]]
  BY DEF Verify, Newest, Exists, Open, Live
<1>2. /\ job[p].pc = "idle" /\ UNCHANGED <<rows, requested, tried>>
      /\ requested \in Nat
  BY PhoneCodeAssumption DEF Verify, At, IInv, TypeOK
<1>3. /\ job'[p].pc \in {"consume", "attempt"} /\ job'[p].n = n
      /\ job'[p].attempts = rows[n].attempts
      /\ \A q \in Proc : q # p => job'[q] = job[q]
  BY <1>1 DEF IInv, TypeOK
<1>4. \A q \in Proc : \A k : Guessing(q, k)' =>
        \/ Guessing(q, k) /\ job'[q].attempts = job[q].attempts
        \/ q = p /\ k = n
  BY <1>3 DEF Guessing
<1>5. BornInv'
  <2>1. \A q \in Proc : job[q].pc = "create" => job[q].n # n
    BY <1>1 DEF Live, IInv, JobInv
  <2> QED BY <1>2, <1>3, <1>4, <2>1 DEF TwoInv, BornInv
<1>6. CountInv(n)'
  <2> DEFINE a == rows[n].attempts
             t == tried[n]
  <2>1. /\ a \in 0 .. MaxAttempts /\ a \in Nat /\ t \in Nat
        /\ Left(0) \in Nat /\ Left(a) \in Nat
    BY <1>1, Numbers, LeftFacts DEF Live, IInv
  <2>2. 2 * t + Left(a) <= Left(0)
    BY <1>1 DEF TwoInv, CountInv
  <2>3. ASSUME NEW q \in Proc, Guessing(q, n)
        PROVE  /\ 2 * t + Left(job[q].attempts) + 2 * job[q].attempts <=
                    Left(0) + 2 * a
               /\ 2 * t + Left(a) + 2 * a <= Left(0) + 2 * job[q].attempts
    <3>1. job[q].attempts \in 0 .. MaxAttempts /\ job[q].attempts \in Nat
      BY Numbers DEF IInv
    <3>2. Left(job[q].attempts) \in Nat
      BY <3>1, LeftFacts
    <3>3. 2 * t + Left(job[q].attempts) + 2 * job[q].attempts <=
            Left(0) + 2 * a
      BY <1>1, <2>3 DEF TwoInv, CountInv
    <3>4. CASE job[q].attempts >= a
      BY <2>1, <2>2, <3>1, <3>3, <3>4
    <3>5. CASE job[q].attempts < a
      <4>1. a \in job[q].attempts .. MaxAttempts
        BY <2>1, <3>1, <3>5
      <4>2. Left(a) + 4 * a <= Left(job[q].attempts) + 4 * job[q].attempts
        BY <3>1, <4>1, LeftFacts
      <4> QED BY <2>1, <3>1, <3>2, <3>3, <4>2
    <3> QED BY <2>1, <3>1, <3>4, <3>5
  <2>4. /\ rows'[n].attempts = a /\ tried'[n] = t /\ Left(0)' = Left(0)
        /\ \A q \in Proc : Left(job[q].attempts)' = Left(job'[q].attempts)
        /\ Left(rows[n].attempts)' = Left(a)
    BY <1>2 DEF Left
  <2>5. 2 * t + Left(a) + 2 * a <= Left(0) + 2 * a
    BY <2>1, <2>2
  <2> HIDE DEF a, t
  <2>6. \A q \in Proc : Guessing(q, n)' =>
          2 * t + Left(job'[q].attempts) + 2 * job'[q].attempts <=
            Left(0) + 2 * a
    BY <1>3, <1>4, <2>3, <2>5 DEF a
  <2>7. \A q, r \in Proc : Guessing(q, n)' /\ Guessing(r, n)' /\ q # r =>
          2 * t + Left(job'[q].attempts) + 2 * job'[q].attempts <=
            Left(0) + 2 * job'[r].attempts
    <3> SUFFICES ASSUME NEW q \in Proc, NEW r \in Proc, Guessing(q, n)',
                        Guessing(r, n)', q # r
                 PROVE  2 * t + Left(job'[q].attempts) + 2 * job'[q].attempts
                          <= Left(0) + 2 * job'[r].attempts
      OBVIOUS
    <3>1. CASE q = p
      BY <1>3, <1>4, <2>3, <3>1 DEF a
    <3>2. CASE r = p
      BY <1>3, <1>4, <2>3, <3>2 DEF a
    <3>3. CASE q # p /\ r # p
      BY <1>1, <1>3, <1>4, <3>3 DEF TwoInv, CountInv, t
    <3> QED BY <3>1, <3>2, <3>3
  <2> QED BY <2>2, <2>4, <2>6, <2>7 DEF CountInv
<1>7. AnsweredInv(n)'
  BY <1>1, <1>2, <1>6, CountAnswersNext DEF IInv, Live
<1>8. ASSUME NEW k \in Code, k # n PROVE AnsweredInv(k)' /\ CountInv(k)'
  BY <1>2, <1>4, <1>8, QuietCode DEF TwoInv, Live
<1> QED BY <1>5, <1>6, <1>7, <1>8 DEF TwoInv

LEMMA AttemptTwo ==
  ASSUME IInv, TwoInv, TwoProcesses, NEW p \in Proc, Attempt(p)
  PROVE  TwoInv'
<1>1. PICK n \in Code : n = job[p].n /\ Guessing(p, n) /\ job[p].pc # "idle"
  <2>1. job[p].pc = "attempt"
    BY DEF Attempt, At
  <2> QED BY <2>1, AtWork DEF IInv, Guessing
<1> DEFINE t == tried[n]
           v == job[p].attempts
<1>2. /\ UNCHANGED requested /\ requested \in Nat /\ n <= requested
      /\ tried'[n] = t + 1 /\ \A k \in Code : k # n => tried'[k] = tried[k]
  BY <1>1, AtWork, PhoneCodeAssumption DEF Attempt, IInv, TypeOK
<1>3. \A q \in Proc : job'[q].pc # "idle" => q # p /\ job'[q] = job[q]
  BY <1>1, Finished DEF Attempt, IInv
<1>4. \A q \in Proc : \A k : Guessing(q, k)' =>
        Guessing(q, k) /\ q # p /\ job'[q].attempts = job[q].attempts
  BY <1>3 DEF Guessing
<1>5. /\ Live(n)' => Live(n) /\ rows'[n].attempts = v + 1
      /\ \A k \in Code : k # n => rows'[k] = rows[k]
  BY <1>1 DEF Attempt, Exists, Live, IInv, TypeOK, Row
<1>6. BornInv'
  <2>1. \A k \in Code : k > requested => tried'[k] = 0
    BY <1>2 DEF TwoInv, BornInv, Code
  <2>2. \A q \in Proc : job[q].pc = "create" =>
          job[q].n \in Code /\ job[q].n # n
    BY <1>1, AtWork DEF TwoInv, BornInv, IInv
  <2> QED BY <1>2, <1>3, <1>4, <2>1, <2>2 DEF TwoInv, BornInv
<1>7. \A q, r \in Proc : Guessing(q, n)' /\ Guessing(r, n)' => q = r
  BY <1>1, <1>4, NoThird DEF IInv
<1>8. t \in Nat /\ Left(0) \in Nat /\ Left(0)' = Left(0)
  BY Numbers DEF IInv, Left
<1> HIDE DEF t, v
<1>9. AnsweredInv(n)'
  <2>1. 2 * t + 2 <= Left(0)
    BY <1>1 DEF TwoInv, AnsweredInv, t
  <2>2. \A q \in Proc : Guessing(q, n)' => 2 * t + 4 <= Left(0)
    BY <1>1, <1>4 DEF TwoInv, AnsweredInv, t
  <2>3. 2 * tried'[n] <= Left(0)
    BY <1>2, <1>8, <2>1
  <2>4. \A q \in Proc : Guessing(q, n)' => 2 * tried'[n] + 2 <= Left(0)
    BY <1>2, <1>8, <2>2
  <2> QED BY <1>7, <1>8, <2>3, <2>4 DEF AnsweredInv
<1>10. CountInv(n)'
  <2> SUFFICES ASSUME Live(n)' PROVE CountInv(n)'
    BY DEF CountInv
  <2>1. /\ MaxAttempts \in Nat /\ v \in 0 .. MaxAttempts /\ v < MaxAttempts
        /\ rows[n].attempts \in 0 .. MaxAttempts
    BY <1>1, <1>5, Numbers DEF IInv, JobInv, Guessing, Live, v
  <2>2. v + 1 \in 0 .. MaxAttempts
    BY <2>1
  <2>3. /\ Left(v) \in Nat /\ Left(v + 1) \in Nat
        /\ Left(v) + 2 * v = Left(v + 1) + 2 * MaxAttempts + 2
    BY <2>1, <2>2, LeftFacts
  <2>4. 2 * t + Left(v) + 2 * v <= Left(0) + 2 * rows[n].attempts
    BY <1>1, <1>5 DEF TwoInv, CountInv, t, v
  <2>5. 2 * (t + 1) + Left(v + 1) <= Left(0)
    BY <1>8, <2>1, <2>3, <2>4
  <2>6. ASSUME NEW q \in Proc, Guessing(q, n)'
        PROVE  2 * (t + 1) + Left(job[q].attempts) + 2 * job[q].attempts <=
                 Left(0) + 2 * (v + 1)
    <3>1. 2 * t + Left(job[q].attempts) + 2 * job[q].attempts <=
            Left(0) + 2 * v
      BY <1>1, <1>4, <1>5, <2>6 DEF TwoInv, CountInv, t, v
    <3>2. job[q].attempts \in 0 .. MaxAttempts /\ job[q].attempts \in Nat
      BY Numbers DEF IInv
    <3>3. Left(job[q].attempts) \in Nat
      BY <3>2, LeftFacts
    <3> QED BY <1>8, <2>1, <3>1, <3>2, <3>3
  <2>7. /\ Left(rows[n].attempts)' = Left(v + 1)
        /\ \A q \in Proc : Guessing(q, n)' =>
             Left(job[q].attempts)' = Left(job[q].attempts)
    BY <1>4, <1>5 DEF Left
  <2> QED
    BY <1>2, <1>4, <1>5, <1>7, <1>8, <2>5, <2>6, <2>7 DEF CountInv
<1>11. ASSUME NEW k \in Code, k # n PROVE AnsweredInv(k)' /\ CountInv(k)'
  BY <1>2, <1>4, <1>5, <1>11, QuietCode DEF TwoInv, Live
<1> QED BY <1>6, <1>9, <1>10, <1>11 DEF TwoInv

LEMMA InitTwo == Init => TwoInv
<1> SUFFICES ASSUME Init PROVE TwoInv
  OBVIOUS
<1>1. \A p \in Proc : job[p].pc = "idle"
  BY IdleType DEF Init
<1>2. Left(0) \in Nat
  BY LeftFacts, PhoneCodeAssumption
<1>3. \A n \in Code : ~Live(n) /\ tried[n] = 0
  BY DEF Init, Live
<1> QED
  BY <1>1, <1>2, <1>3 DEF TwoInv, BornInv, AnsweredInv, CountInv, Guessing

LEMMA NextTwo ==
  IInv /\ IInv' /\ TwoProcesses /\ TwoInv /\ [Next]_vars => TwoInv'
<1> SUFFICES ASSUME IInv, IInv', TwoProcesses, TwoInv, [Next]_vars
             PROVE  TwoInv'
  OBVIOUS
<1>1. CASE UNCHANGED vars
  <2>1. requested \in Nat
    BY PhoneCodeAssumption DEF IInv, TypeOK
  <2>2. \A n \in Code : Live(n)' =>
          Live(n) /\ rows'[n].attempts = rows[n].attempts
    BY <1>1 DEF vars, Live
  <2> QED BY <1>1, <2>1, <2>2, QuietTwo DEF vars
<1>2. ASSUME NEW p \in Proc,
             \/ Issue(p) \/ Digest(p) \/ SendCode(p) \/ IssueFails(p)
             \/ Retire(p)
             \/ \E age \in 1 .. 3 : Create(p, age)
             \/ \E c \in 0 .. MaxCode : Verify(p, c)
             \/ Attempt(p) \/ Consume(p)
             \/ Cancel(p)
      PROVE  TwoInv'
  BY <1>2, IssueTwo, RowTwo, CreateTwo, VerifyTwo, AttemptTwo
<1> QED BY <1>1, <1>2, AgeTwo DEF Next

\* However the requests of two processes overwrite each other's count, a row
\* answers MaxAttempts * (MaxAttempts + 3) \div 2 wrong codes and no more.
THEOREM GuessesBoundedInTwo == TwoProcesses /\ Spec => []GuessesAreBounded
<1> SUFFICES ASSUME TwoProcesses PROVE Spec => []GuessesAreBounded
  OBVIOUS
<1>1. TwoInv /\ IInv => GuessesAreBounded
  <2> SUFFICES ASSUME TwoInv, IInv, NEW n \in Code, ~OneProcess
               PROVE  tried[n] <= (MaxAttempts * (MaxAttempts + 3)) \div 2
    BY DEF GuessesAreBounded, IInv, OneInv, OneRow
  <2>1. tried[n] \in Nat /\ 2 * tried[n] <= Left(0) /\ Left(0) \in Nat
    BY Numbers DEF TwoInv, AnsweredInv, IInv
  <2>2. Left(0) = MaxAttempts * (MaxAttempts + 3)
    BY PhoneCodeAssumption DEF Left
  <2>3. \A x, y \in Nat : 2 * x <= y => x <= y \div 2
    OBVIOUS
  <2> QED BY <2>1, <2>2, <2>3
<1>2. IInv /\ IInv' /\ TwoInv /\ [Next]_vars => TwoInv'
  BY NextTwo
<1> QED BY <1>1, <1>2, InitTwo, InductiveInvariant, PTL DEF Spec
=============================================================================
